---------------------------- MODULE EngineProofs ----------------------------
(***************************************************************************)
(* Theorems about Engine, for any number of workers, any site, any limits: *)
(* what holds at each moment of a crawl, on the invariant IInv; what it    *)
(* reports: its counters, its seeds, its summary, its page budget, what a  *)
(* crawl nobody stopped has visited; how deep the pages it reaches lie;    *)
(* and that the engine implements Crawl, which is what EngineRefines       *)
(* states.                                                                 *)
(***************************************************************************)
EXTENDS EngineRefines, Induction, FiniteSetTheorems, TLAPS

(***************************************************************************)
(* Frames: which steps can change a variable.  The invariants below are    *)
(* then checked only against the steps that matter to them.                *)
(***************************************************************************)
LEMMA FrontierFrame ==
  ASSUME [Next]_vars
  PROVE  \/ SeedFrontier \/ SeedSitemapLoc
         \/ \E w \in Worker : Pop(w) \/ Push(w)
         \/ UNCHANGED frontier
BY DEF Next, RunStep, Terminated, vars, WorkerStep, StartWorkers, StopWaiting, JoinWorkers,
       StartProbe, ProbeEnds, Summarize, Drain, Deadline, CallerCancels, PopCancelled,
       RobotsDisallow, RobotsAllow,
       AcquireHost, AcquireCancelled, Backoff, Retry, FetchFailed, FetchOK, AdmitPage,
       Discover, PushCancelled, WritePage, ItemDone

LEMMA SlotFrame ==
  ASSUME [Next]_vars
  PROVE  \/ \E w \in Worker : AcquireHost(w) \/ Backoff(w) \/ Retry(w) \/ FetchFailed(w)
                                \/ FetchOK(w)
         \/ UNCHANGED sem
BY DEF Next, RunStep, Terminated, vars, WorkerStep, SeedFrontier, SeedSitemapLoc,
       StartWorkers, StopWaiting, JoinWorkers, StartProbe, ProbeEnds, Summarize, Drain, Deadline,
       CallerCancels,
       Pop, PopCancelled, RobotsDisallow, RobotsAllow, AcquireCancelled, AdmitPage,
       Discover, Push, PushCancelled, WritePage, ItemDone

LEMMA SeenFrame ==
  ASSUME [Next]_vars
  PROVE  SeedFrontier \/ SeedSitemapLoc \/ (\E w \in Worker : Discover(w)) \/ UNCHANGED seen
BY DEF Next, RunStep, Terminated, vars, WorkerStep, StartWorkers, StopWaiting, JoinWorkers,
       StartProbe, ProbeEnds, Summarize, Drain, Deadline, CallerCancels, Pop, PopCancelled,
       RobotsDisallow,
       RobotsAllow, AcquireHost, AcquireCancelled, Backoff, Retry, FetchFailed, FetchOK,
       AdmitPage, Push, PushCancelled, WritePage, ItemDone

LEMMA RecordFrame ==
  ASSUME [Next]_vars
  PROVE  (\E w \in Worker : RobotsDisallow(w) \/ FetchFailed(w) \/ WritePage(w))
         \/ UNCHANGED records
BY DEF Next, RunStep, Terminated, vars, WorkerStep, SeedFrontier, SeedSitemapLoc,
       StartWorkers, StopWaiting, JoinWorkers, StartProbe, ProbeEnds, Summarize, Drain, Deadline,
       CallerCancels,
       Pop, PopCancelled, RobotsAllow, AcquireHost, AcquireCancelled, Backoff, Retry,
       FetchOK, AdmitPage, Discover, Push, PushCancelled, ItemDone

LEMMA ItemFrame ==
  ASSUME [Next]_vars
  PROVE  (\E w \in Worker : Pop(w)) \/ UNCHANGED cur
BY DEF Next, RunStep, Terminated, vars, WorkerStep, SeedFrontier, SeedSitemapLoc,
       StartWorkers, StopWaiting, JoinWorkers, StartProbe, ProbeEnds, Summarize, Drain, Deadline,
       CallerCancels,
       PopCancelled, RobotsDisallow, RobotsAllow, AcquireHost, AcquireCancelled, Backoff,
       Retry, FetchFailed, FetchOK, AdmitPage, Discover, Push, PushCancelled, WritePage,
       ItemDone, workVars

LEMMA TodoFrame ==
  ASSUME [Next]_vars
  PROVE  \/ \E w \in Worker : AdmitPage(w) \/ Discover(w) \/ Push(w) \/ PushCancelled(w)
         \/ UNCHANGED todo
BY DEF Next, RunStep, Terminated, vars, WorkerStep, SeedFrontier, SeedSitemapLoc,
       StartWorkers, StopWaiting, JoinWorkers, StartProbe, ProbeEnds, Summarize, Drain, Deadline,
       CallerCancels,
       Pop, PopCancelled, RobotsDisallow, RobotsAllow, AcquireHost, AcquireCancelled,
       Backoff, Retry, FetchFailed, FetchOK, WritePage, ItemDone, workVars

LEMMA TriesFrame ==
  ASSUME [Next]_vars
  PROVE  (\E w \in Worker : AcquireHost(w) \/ Backoff(w)) \/ UNCHANGED tries
BY DEF Next, RunStep, Terminated, vars, WorkerStep, SeedFrontier, SeedSitemapLoc,
       StartWorkers, StopWaiting, JoinWorkers, StartProbe, ProbeEnds, Summarize, Drain, Deadline,
       CallerCancels,
       Pop, PopCancelled, RobotsDisallow, RobotsAllow, AcquireCancelled, Retry,
       FetchFailed, FetchOK, AdmitPage, Discover, Push, PushCancelled, WritePage, ItemDone, workVars

\* A worker does not touch what belongs to Run, its caller and its waiter.
LEMMA RunFrame ==
  ASSUME NEW w \in Worker, WorkerStep(w)
  PROVE  UNCHANGED <<main, partial, probeVars, closed, locs, caller, drainer>>
BY DEF WorkerStep, Pop, PopCancelled, RobotsDisallow, RobotsAllow, AcquireHost,
       AcquireCancelled, Backoff, Retry, FetchFailed, FetchOK, AdmitPage, Discover, Push,
       PushCancelled, WritePage, ItemDone, runVars, ctxVars

\* A step of one worker leaves the position of the others alone.
LEMMA WorkerFrame ==
  ASSUME NEW w \in Worker, WorkerStep(w), pc \in [Worker -> WorkerState]
  PROVE  pc' \in [Worker -> WorkerState] /\ \A v \in Worker \ {w} : pc'[v] = pc[v]
BY DEF WorkerStep, Pop, Push, PopCancelled, RobotsDisallow, RobotsAllow, AcquireHost,
       AcquireCancelled, Backoff, Retry, FetchFailed, FetchOK, AdmitPage, Discover,
       PushCancelled, WritePage, ItemDone, Goto, StartAttempt, WorkerState

LEMMA PositionFrame ==
  ASSUME [Next]_vars
  PROVE  StartWorkers \/ (\E w \in Worker : WorkerStep(w)) \/ UNCHANGED pc
BY DEF Next, RunStep, Terminated, vars, SeedFrontier, SeedSitemapLoc, StopWaiting,
       JoinWorkers, StartProbe, ProbeEnds, Summarize, Drain, Deadline, CallerCancels, workVars
-----------------------------------------------------------------------------
(***************************************************************************)
(* Types.  The lower bounds TypeOK puts on pending and sem come from what  *)
(* these counters count, so they wait for the accounting invariants.       *)
(***************************************************************************)
RunType ==
  /\ main \in {"seed", "sitemap", "select", "join", "openapi", "probe", "summary", "done"}
  /\ partial \in BOOLEAN /\ closed \in BOOLEAN
  /\ caller \in BOOLEAN /\ drainer \in {"none", "waiting", "closed"}
  /\ locs \in Seq(URL)
ProbeType == openapi \in Seq(OpenAPIRecord) /\ endpoints \in Nat /\ summary \in Seq(Summary)
CauseType == cause \in {"none", "run", "budget", "deadline", "caller"}
FrontierType == frontier \in Seq(Item) /\ Len(frontier) <= MaxFrontierSize
SeenType == seen \subseteq URL
SlotType == sem \in [Host -> Int] /\ \A h \in Host : sem[h] <= PerHost
StatsType == stats \in [Counter -> Nat]
PendingType == pending \in Int
RecordType == records \in [URL -> Seq(Record)]
PositionType == pc \in [Worker -> WorkerState]
ItemType == cur \in [Worker -> Item]
TriesType == tries \in [Worker -> 0..MaxRetries]
TodoType == todo \in [Worker -> Seq(URL)]
PushHasChild == \A w \in Worker : pc[w] = "push" => todo[w] # <<>>

TypeInv == /\ RunType /\ ProbeType /\ CauseType /\ FrontierType /\ SeenType /\ SlotType /\ StatsType
           /\ PendingType /\ RecordType /\ PositionType /\ ItemType /\ TriesType /\ TodoType
           /\ PushHasChild

LEMMA TypeInvInit == Init => TypeInv
<1> SUFFICES ASSUME Init PROVE TypeInv
  OBVIOUS
<1> USE SiteAssumption, OptionsAssumption DEF Init
<1>1. ProbeType
  BY DEF ProbeType
<1>7. RunType /\ CauseType
  BY DEF RunType, CauseType
<1>2. FrontierType /\ SeenType /\ SlotType
  BY DEF FrontierType, SeenType, SlotType
<1>3. StatsType /\ PendingType
  BY DEF StatsType, PendingType
<1>4. RecordType
  BY DEF RecordType
<1>5. PositionType /\ TodoType /\ PushHasChild
  BY DEF PositionType, TodoType, PushHasChild, WorkerState
<1>6. ItemType /\ TriesType
  BY DEF ItemType, TriesType, Item
<1>8. QED
  BY <1>1, <1>2, <1>3, <1>4, <1>5, <1>6, <1>7 DEF TypeInv

LEMMA RunTypeStep ==
  ASSUME RunType, [Next]_vars PROVE RunType'
<1> USE DEF RunType
<1>1. CASE SeedFrontier \/ StopWaiting \/ JoinWorkers
  BY <1>1 DEF SeedFrontier, StopWaiting, JoinWorkers, ctxVars
<1>2. CASE SeedSitemapLoc
  BY <1>2 DEF SeedSitemapLoc, ctxVars
<1>3. CASE StartWorkers
  BY <1>3 DEF StartWorkers, ctxVars
<1>4. CASE StartProbe \/ ProbeEnds \/ Summarize
  BY <1>4 DEF StartProbe, ProbeEnds, Summarize, ctxVars
<1>5. CASE Drain \/ Deadline \/ CallerCancels
  BY <1>5 DEF Drain, Deadline, CallerCancels, runVars, ctxVars
<1>6. CASE (\E w \in Worker : WorkerStep(w))
  BY <1>6, RunFrame
<1>7. CASE UNCHANGED vars
  BY <1>7 DEF vars
<1>8. QED
  BY <1>1, <1>2, <1>3, <1>4, <1>5, <1>6, <1>7 DEF Next, RunStep, Terminated

LEMMA ProbeTypeStep ==
  ASSUME RunType, StatsType, ProbeType, [Next]_vars PROVE ProbeType'
<1> USE DEF ProbeType
<1>1. CASE ProbeEnds
  <2>1. ASSUME NEW kind \in {"openapi", "error"}, NEW n \in Nat, Reported(kind, n)
        PROVE  openapi' \in Seq(OpenAPIRecord)
    <3>1. [kind |-> kind, endpoints |-> n] \in OpenAPIRecord
      BY DEF OpenAPIRecord
    <3> QED BY <2>1, <3>1 DEF Reported
  <2>2. \A n \in SpecSizes : n \in Nat /\ endpoints + n \in Nat
    BY OptionsAssumption
  <2> QED BY <1>1, <2>1, <2>2 DEF ProbeEnds
<1>2. CASE Summarize
  <2>1. [counters |-> stats, endpoints |-> endpoints, partial |-> partial] \in Summary
    BY DEF Summary, StatsType, RunType
  <2> QED BY <1>2, <2>1 DEF Summarize
<1>3. CASE UNCHANGED probeVars
  BY <1>3 DEF probeVars
<1>4. ASSUME NEW w \in Worker, WorkerStep(w) PROVE UNCHANGED probeVars
  BY <1>4, RunFrame
<1> QED BY <1>1, <1>2, <1>3, <1>4
     DEF Next, RunStep, Terminated, vars, runVars, SeedFrontier, SeedSitemapLoc, StartWorkers,
         StopWaiting, JoinWorkers, StartProbe, Drain, Deadline, CallerCancels

LEMMA CauseTypeStep ==
  ASSUME CauseType, [Next]_vars PROVE CauseType'
<1>1. \/ \E who \in {"run", "budget", "deadline", "caller"} : CancelBy(who)
      \/ UNCHANGED cause
  BY DEF Next, RunStep, Terminated, vars, WorkerStep, SeedFrontier, SeedSitemapLoc,
         StartWorkers, StopWaiting, JoinWorkers, StartProbe, ProbeEnds, Summarize, Drain, Deadline,
         CallerCancels,
         Pop, PopCancelled, RobotsDisallow, RobotsAllow, AcquireHost, AcquireCancelled,
         Backoff, Retry, FetchFailed, FetchOK, AdmitPage, Discover, Push, PushCancelled,
         WritePage, ItemDone, ctxVars
<1>2. QED
  BY <1>1 DEF CauseType, CancelBy

LEMMA StatsTypeStep ==
  ASSUME StatsType, [Next]_vars PROVE StatsType'
<1>1. ASSUME NEW S, Count(S) PROVE StatsType'
  <2>1. \A c \in Counter : stats[c] + (IF c \in S THEN 1 ELSE 0) \in Nat
    BY DEF StatsType
  <2>2. QED
    BY <1>1, <2>1 DEF StatsType, Count
<1>2. (\E S \in SUBSET Counter : Count(S)) \/ UNCHANGED stats
  BY DEF Next, RunStep, Terminated, vars, WorkerStep, SeedFrontier, SeedSitemapLoc,
         StartWorkers, StopWaiting, JoinWorkers, StartProbe, ProbeEnds, Summarize, Drain, Deadline,
         CallerCancels,
         Pop, PopCancelled, RobotsDisallow, RobotsAllow, AcquireHost, AcquireCancelled,
         Backoff, Retry, FetchFailed, FetchOK, AdmitPage, Discover, Push, PushCancelled,
         WritePage, ItemDone, Counter
<1>3. QED
  BY <1>1, <1>2 DEF StatsType

LEMMA FrontierTypeStep ==
  ASSUME TypeInv, [Next]_vars PROVE FrontierType'
<1>1. ASSUME NEW item \in Item, AddToFrontier(item) PROVE FrontierType'
  BY <1>1, OptionsAssumption DEF TypeInv, FrontierType, AddToFrontier, CanPush
<1>2. CASE SeedFrontier
  <2>1. [url |-> Seed, depth |-> 0] \in Item
    BY SiteAssumption DEF Item
  <2>2. QED
    BY <1>1, <1>2, <2>1 DEF SeedFrontier, EnqueueBeforeWorkers, TypeInv, FrontierType
<1>3. CASE SeedSitemapLoc
  <2>1. [url |-> Head(locs), depth |-> 0] \in Item
    BY <1>3 DEF SeedSitemapLoc, TypeInv, RunType, Item
  <2>2. QED
    BY <1>1, <1>3, <2>1 DEF SeedSitemapLoc, EnqueueBeforeWorkers, TypeInv, FrontierType
<1>4. ASSUME NEW w \in Worker, Pop(w) PROVE FrontierType'
  BY <1>4, OptionsAssumption DEF Pop, TypeInv, FrontierType
<1>5. ASSUME NEW w \in Worker, Push(w) PROVE FrontierType'
  <2>1. todo[w] \in Seq(URL) /\ todo[w] # <<>> /\ cur[w] \in Item
    BY <1>5 DEF Push, TypeInv, TodoType, PushHasChild, ItemType
  <2>2. [url |-> Head(todo[w]), depth |-> cur[w].depth + 1] \in Item
    BY <2>1 DEF Item
  <2>3. QED
    BY <1>1, <1>5, <2>2 DEF Push
<1>6. CASE UNCHANGED frontier
  BY <1>6 DEF TypeInv, FrontierType
<1>7. QED
  BY <1>2, <1>3, <1>4, <1>5, <1>6, FrontierFrame

LEMMA SeenTypeStep ==
  ASSUME TypeInv, [Next]_vars PROVE SeenType'
<1>1. CASE SeedFrontier
  BY <1>1, SiteAssumption DEF SeedFrontier, MarkSeen, TypeInv, SeenType
<1>2. CASE SeedSitemapLoc
  BY <1>2, SiteAssumption DEF SeedSitemapLoc, MarkSeen, TypeInv, SeenType
<1>3. ASSUME NEW w \in Worker, Discover(w) PROVE SeenType'
  BY <1>3, SiteAssumption DEF Discover, MarkSeen, TypeInv, SeenType
<1>4. QED
  BY <1>1, <1>2, <1>3, SeenFrame DEF TypeInv, SeenType

LEMMA SlotTypeStep ==
  ASSUME TypeInv, [Next]_vars PROVE SlotType'
<1>1. ASSUME NEW h, TakeSlot(h) \/ FreeSlot(h) PROVE SlotType'
  BY <1>1, OptionsAssumption DEF TypeInv, SlotType, TakeSlot, FreeSlot
<1>2. QED
  BY <1>1, SlotFrame
     DEF TypeInv, SlotType, AcquireHost, Backoff, Retry, FetchFailed, ReleaseOnFailure, FetchOK

LEMMA RecordTypeStep ==
  ASSUME TypeInv, [Next]_vars PROVE RecordType'
<1>1. ASSUME NEW w \in Worker, NEW kind \in {"page", "error"}, Write(w, kind)
      PROVE  RecordType'
  <2>1. cur[w].depth \in Nat
    BY DEF TypeInv, ItemType, Item
  <2>2. [kind |-> kind, depth |-> cur[w].depth] \in Record
    BY <2>1 DEF Record
  <2>3. cur[w].url \in URL /\ records \in [URL -> Seq(Record)]
    BY DEF TypeInv, ItemType, Item, RecordType
  <2>4. Append(records[cur[w].url], [kind |-> kind, depth |-> cur[w].depth]) \in Seq(Record)
    BY <2>2, <2>3
  <2>5. QED
    BY <1>1, <2>3, <2>4 DEF RecordType, Write
<1>2. QED
  BY <1>1, RecordFrame DEF TypeInv, RecordType, RobotsDisallow, FetchFailed, WritePage

LEMMA WorkerTypeStep ==
  ASSUME TypeInv, [Next]_vars
  PROVE  PositionType' /\ ItemType' /\ TriesType' /\ TodoType' /\ PushHasChild'
<1>1. PositionType'
  <2>1. CASE StartWorkers
    BY <2>1 DEF StartWorkers, PositionType, WorkerState
  <2>2. QED
    BY <2>1, PositionFrame, WorkerFrame DEF TypeInv, PositionType
<1>2. ItemType'
  <2>1. ASSUME NEW w \in Worker, Pop(w) PROVE ItemType'
    BY <2>1 DEF Pop, TypeInv, ItemType, FrontierType
  <2>2. QED
    BY <2>1, ItemFrame DEF TypeInv, ItemType
<1>3. TriesType'
  BY TriesFrame, OptionsAssumption DEF TypeInv, TriesType, AcquireHost, Backoff
<1>4. TodoType'
  <2>1. ASSUME NEW w \in Worker, AdmitPage(w) PROVE TodoType'
    BY <2>1, SiteAssumption DEF AdmitPage, TypeInv, TodoType, ItemType, Item
  <2>2. ASSUME NEW w \in Worker, todo[w] # <<>>, todo' = [todo EXCEPT ![w] = Tail(@)]
        PROVE  TodoType'
    <3>1. Tail(todo[w]) \in Seq(URL)
      BY <2>2 DEF TypeInv, TodoType
    <3>2. QED
      BY <2>2, <3>1 DEF TypeInv, TodoType
  <2>3. ASSUME NEW w \in Worker, Discover(w) \/ Push(w) \/ PushCancelled(w)
        PROVE  (todo[w] # <<>> /\ todo' = [todo EXCEPT ![w] = Tail(@)]) \/ UNCHANGED todo
    BY <2>3 DEF Discover, Push, PushCancelled, TypeInv, PushHasChild
  <2>4. QED
    BY <2>1, <2>2, <2>3, TodoFrame DEF TypeInv, TodoType
<1>5. PushHasChild'
  <2>1. CASE StartWorkers
    BY <2>1 DEF StartWorkers, PushHasChild
  <2>2. ASSUME NEW w \in Worker, WorkerStep(w) PROVE PushHasChild'
    <3>1. pc'[w] = "push" => todo'[w] # <<>>
      BY <2>2 DEF TypeInv, PositionType, PushHasChild, WorkerStep, Pop, Push, PopCancelled,
         RobotsDisallow, RobotsAllow, AcquireHost, AcquireCancelled, Backoff, Retry,
         FetchFailed, FetchOK, AdmitPage, Discover, PushCancelled, WritePage, ItemDone,
         Goto, StartAttempt
    <3>2. \A v \in Worker \ {w} : pc'[v] = pc[v] /\ todo'[v] = todo[v]
      <4>1. \A v \in Worker \ {w} : todo'[v] = todo[v]
        BY <2>2 DEF TypeInv, TodoType, WorkerStep, Pop, Push, PopCancelled,
           RobotsDisallow, RobotsAllow, AcquireHost, AcquireCancelled, Backoff, Retry,
           FetchFailed, FetchOK, AdmitPage, Discover, PushCancelled, WritePage, ItemDone
      <4>2. QED
        BY <2>2, <4>1, WorkerFrame DEF TypeInv, PositionType
    <3>3. QED
      BY <3>1, <3>2 DEF TypeInv, PushHasChild
  <2>3. CASE UNCHANGED pc /\ UNCHANGED todo
    BY <2>3 DEF TypeInv, PushHasChild
  <2>4. StartWorkers \/ (\E w \in Worker : WorkerStep(w)) \/ UNCHANGED <<pc, todo>>
    BY DEF Next, RunStep, Terminated, vars, SeedFrontier, SeedSitemapLoc, StopWaiting,
       JoinWorkers, StartProbe, ProbeEnds, Summarize, Drain, Deadline, CallerCancels, workVars
  <2>5. QED
    BY <2>1, <2>2, <2>3, <2>4
<1>6. QED
  BY <1>1, <1>2, <1>3, <1>4, <1>5

LEMMA PendingTypeStep ==
  ASSUME PendingType, [Next]_vars PROVE PendingType'
<1>1. RegisterItem \/ FinishItem \/ UNCHANGED pending
  BY DEF Next, RunStep, Terminated, vars, WorkerStep, SeedFrontier, SeedSitemapLoc,
         StartWorkers, StopWaiting, JoinWorkers, StartProbe, ProbeEnds, Summarize, Drain, Deadline,
         CallerCancels,
         Pop, PopCancelled, RobotsDisallow, RobotsAllow, AcquireHost, AcquireCancelled,
         Backoff, Retry, FetchFailed, FetchOK, AdmitPage, Discover, Push, PushCancelled,
         WritePage, ItemDone, EnqueueBeforeWorkers, PushFailed, FinishItem
<1>2. QED
  BY <1>1 DEF PendingType, RegisterItem, FinishItem

LEMMA TypeInvStep == TypeInv /\ [Next]_vars => TypeInv'
BY RunTypeStep, ProbeTypeStep, CauseTypeStep, StatsTypeStep, FrontierTypeStep, SeenTypeStep,
     SlotTypeStep,
   RecordTypeStep, WorkerTypeStep, PendingTypeStep DEF TypeInv
-----------------------------------------------------------------------------
(***************************************************************************)
(* Phases.  Before the workers start only Run moves; after the join nobody *)
(* but the waiter is left.                                                 *)
(***************************************************************************)
Phases ==
  /\ main \in {"seed", "sitemap"} => drainer = "none" /\ \A w \in Worker : pc[w] = "new"
  /\ main = "seed" => frontier = <<>> /\ pending = 0
  /\ closed => main \in {"openapi", "probe", "summary", "done"}
  /\ main \in {"openapi", "probe", "summary", "done"} => \A w \in Worker : pc[w] = "exit"

\* Neither a worker that has not started nor one that has returned moves.
LEMMA IdleWorkers ==
  ASSUME NEW w \in Worker, pc[w] \in {"new", "exit"}
  PROVE  ~WorkerStep(w)
BY DEF WorkerStep, Pop, Push, PopCancelled, RobotsDisallow, RobotsAllow, AcquireHost,
       AcquireCancelled, Backoff, Retry, FetchFailed, ReleaseOnFailure, AttemptFails, FetchOK,
       AdmitPage, Discover, PushCancelled, WritePage, ItemDone

LEMMA PhasesInit == Init => Phases
BY DEF Init, Phases

LEMMA PhasesStep ==
  ASSUME TypeInv, Phases, [Next]_vars PROVE Phases'
<1>1. CASE SeedFrontier
  BY <1>1 DEF SeedFrontier, Phases, workVars
<1>2. CASE SeedSitemapLoc
  BY <1>2 DEF SeedSitemapLoc, Phases, workVars
<1>3. CASE StartWorkers
  BY <1>3 DEF StartWorkers, Phases
<1>4. CASE StopWaiting
  BY <1>4 DEF StopWaiting, Phases
<1>5. CASE JoinWorkers
  BY <1>5 DEF JoinWorkers, WorkersJoined, Phases, workVars
<1>6. CASE StartProbe \/ ProbeEnds \/ Summarize
  BY <1>6 DEF StartProbe, ProbeEnds, Summarize, Phases, workVars
<1>7. CASE Drain
  BY <1>7 DEF Drain, Phases, runVars, workVars
<1>8. CASE Deadline \/ CallerCancels
  BY <1>8 DEF Deadline, CallerCancels, Phases, runVars, workVars
<1>9. ASSUME NEW w \in Worker, WorkerStep(w) PROVE Phases'
  <2>1. main \notin {"seed", "sitemap", "openapi", "probe", "summary", "done"}
    BY <1>9, IdleWorkers DEF Phases
  <2>2. main' = main /\ closed' = closed
    BY <1>9, RunFrame
  <2>3. QED
    BY <2>1, <2>2 DEF Phases
<1>10. CASE UNCHANGED vars
  BY <1>10 DEF vars, Phases
<1>11. QED
  BY <1>1, <1>2, <1>3, <1>4, <1>5, <1>6, <1>7, <1>8, <1>9, <1>10 DEF Next, RunStep, Terminated
-----------------------------------------------------------------------------
(***************************************************************************)
(* The WaitGroup.  Each step changes the three parts pending counts by     *)
(* what it adds to pending.                                                *)
(***************************************************************************)
LEMMA WorkerSets ==
  /\ IsFiniteSet(Busy) /\ Cardinality(Busy) \in Nat
  /\ IsFiniteSet(Pushing) /\ Cardinality(Pushing) \in Nat
<1>1. Busy \subseteq Worker /\ Pushing \subseteq Worker
  BY DEF Busy, Pushing
<1>2. QED
  BY <1>1, WorkerAssumption, FS_Subset, FS_CardinalityType

\* Adding a new member to a finite set, or removing one, moves its size by one.
LEMMA SizeMoves ==
  ASSUME NEW S, NEW T, NEW e, IsFiniteSet(S)
  PROVE  /\ e \notin S /\ T = S \cup {e} => Cardinality(T) = Cardinality(S) + 1
         /\ e \in S /\ T = S \ {e} => Cardinality(T) = Cardinality(S) - 1
BY FS_AddElement, FS_RemoveElement

\* Where a step of worker w leaves the two sets of workers.
LEMMA BusyMoves ==
  ASSUME TypeInv, NEW w \in Worker, WorkerStep(w)
  PROVE  /\ Pop(w) => w \notin Busy /\ Busy' = Busy \cup {w}
         /\ ItemDone(w) => w \in Busy /\ Busy' = Busy \ {w}
         /\ ~Pop(w) /\ ~ItemDone(w) => Busy' = Busy
<1>1. \A v \in Worker \ {w} : v \in Busy' <=> v \in Busy
  BY WorkerFrame DEF TypeInv, PositionType, Busy
<1>2. Pop(w) => w \notin Busy /\ w \in Busy'
  BY DEF Pop, Goto, Busy, TypeInv, PositionType
<1>3. ItemDone(w) => w \in Busy /\ w \notin Busy'
  BY DEF ItemDone, Goto, Busy, TypeInv, PositionType
<1>4. ~Pop(w) /\ ~ItemDone(w) => (w \in Busy' <=> w \in Busy)
  BY DEF WorkerStep, Push, PopCancelled, RobotsDisallow, RobotsAllow, AcquireHost,
         AcquireCancelled, Backoff, Retry, FetchFailed, ReleaseOnFailure, AttemptFails,
         FetchOK, AdmitPage, Discover, PushCancelled, WritePage, Goto, StartAttempt, Busy,
         TypeInv, PositionType
<1>5. Busy \subseteq Worker /\ Busy' \subseteq Worker
  BY DEF Busy
<1>6. QED
  BY <1>1, <1>2, <1>3, <1>4, <1>5

LEMMA PushingMoves ==
  ASSUME TypeInv, NEW w \in Worker, WorkerStep(w)
  PROVE  \/ /\ Discover(w) /\ RegisterItem /\ UNCHANGED frontier
            /\ w \notin Pushing /\ Pushing' = Pushing \cup {w}
         \/ /\ Push(w) \/ PushCancelled(w)
            /\ w \in Pushing /\ Pushing' = Pushing \ {w}
         \/ /\ Pop(w) \/ ItemDone(w) \/ UNCHANGED <<pending, frontier>>
            /\ ~Push(w) /\ ~PushCancelled(w) /\ Pushing' = Pushing
<1>1. \A v \in Worker \ {w} : v \in Pushing' <=> v \in Pushing
  BY WorkerFrame DEF TypeInv, PositionType, Pushing
<1>2. Pushing \subseteq Worker /\ Pushing' \subseteq Worker
  BY DEF Pushing
<1>3. CASE Discover(w)
  BY <1>1, <1>2, <1>3
     DEF Discover, Push, PushCancelled, Goto, Pushing, TypeInv, PositionType
<1>4. CASE Push(w) \/ PushCancelled(w)
  <2>1. w \in Pushing /\ w \notin Pushing'
    BY <1>4 DEF Push, PushCancelled, Goto, Pushing, TypeInv, PositionType
  <2>2. QED
    BY <1>1, <1>2, <1>4, <2>1
<1>5. CASE ~Discover(w) /\ ~Push(w) /\ ~PushCancelled(w)
  <2>1. w \in Pushing' <=> w \in Pushing
    BY <1>5 DEF WorkerStep, Pop, PopCancelled, RobotsDisallow, RobotsAllow, AcquireHost,
         AcquireCancelled, Backoff, Retry, FetchFailed, ReleaseOnFailure, AttemptFails,
         FetchOK, AdmitPage, WritePage, ItemDone, Goto, StartAttempt, Pushing,
         TypeInv, PositionType
  <2>2. Pop(w) \/ ItemDone(w) \/ UNCHANGED <<pending, frontier>>
    BY <1>5 DEF WorkerStep, PopCancelled, RobotsDisallow, RobotsAllow, AcquireHost,
         AcquireCancelled, Backoff, Retry, FetchFailed, FetchOK, AdmitPage, WritePage
  <2>3. QED
    BY <1>1, <1>2, <1>5, <2>1, <2>2
<1>6. QED
  BY <1>3, <1>4, <1>5

LEMMA AccountingInit == Init => PendingAccounting
<1> SUFFICES ASSUME Init PROVE PendingAccounting
  OBVIOUS
<1>1. Busy = {} /\ Pushing = {}
  BY DEF Init, Busy, Pushing
<1>2. QED
  BY <1>1, FS_EmptySet DEF Init, PendingAccounting

LEMMA AccountingStep ==
  ASSUME TypeInv, Phases, PendingAccounting, [Next]_vars PROVE PendingAccounting'
<1>1. frontier \in Seq(Item) /\ pending \in Int
  BY DEF TypeInv, FrontierType, PendingType
<1>2. ASSUME UNCHANGED pc PROVE Busy' = Busy /\ Pushing' = Pushing
  BY <1>2 DEF Busy, Pushing
<1>3. ASSUME NEW item, EnqueueBeforeWorkers(item), UNCHANGED pc PROVE PendingAccounting'
  BY <1>1, <1>2, <1>3, WorkerSets
     DEF EnqueueBeforeWorkers, AddToFrontier, RegisterItem, PendingAccounting
<1>4. CASE SeedFrontier
  BY <1>3, <1>4 DEF SeedFrontier, workVars
<1>5. CASE SeedSitemapLoc
  <2>1. CASE UNCHANGED <<frontier, pending>>
    BY <1>2, <1>5, <2>1 DEF SeedSitemapLoc, PendingAccounting, workVars
  <2>2. QED
    BY <1>3, <1>5, <2>1 DEF SeedSitemapLoc, workVars
<1>6. CASE StartWorkers
  <2>1. Busy = {} /\ Busy' = {} /\ Pushing = {} /\ Pushing' = {}
    BY <1>6 DEF StartWorkers, Phases, Busy, Pushing
  <2>2. QED
    BY <1>6, <2>1 DEF StartWorkers, PendingAccounting
<1>7. CASE StopWaiting \/ JoinWorkers \/ StartProbe \/ ProbeEnds \/ Summarize \/ Drain
             \/ Deadline \/ CallerCancels
             \/ UNCHANGED vars
  BY <1>2, <1>7 DEF StopWaiting, JoinWorkers, StartProbe, ProbeEnds, Summarize, Drain, Deadline,
       CallerCancels, vars,
                    workVars, PendingAccounting
<1>8. ASSUME NEW w \in Worker, WorkerStep(w) PROVE PendingAccounting'
  <2>1. CASE Pop(w)
    <3>1. Len(frontier') = Len(frontier) - 1 /\ pending' = pending
      BY <1>1, <2>1 DEF Pop
    <3>2. Cardinality(Busy') = Cardinality(Busy) + 1
      BY <1>8, <2>1, BusyMoves, SizeMoves, WorkerSets
    <3>3. Pushing' = Pushing
      BY <1>8, <2>1, PushingMoves DEF Pop, Discover, Push, PushCancelled
    <3>4. QED
      BY <1>1, <3>1, <3>2, <3>3, WorkerSets DEF PendingAccounting
  <2>2. CASE ItemDone(w)
    <3>1. frontier' = frontier /\ pending' = pending - 1
      BY <2>2 DEF ItemDone, FinishItem
    <3>2. Cardinality(Busy') = Cardinality(Busy) - 1
      BY <1>8, <2>2, BusyMoves, SizeMoves, WorkerSets
    <3>3. Pushing' = Pushing
      BY <1>8, <2>2, PushingMoves DEF ItemDone, Discover, Push, PushCancelled
    <3>4. QED
      BY <1>1, <3>1, <3>2, <3>3, WorkerSets DEF PendingAccounting
  <2>3. CASE ~Pop(w) /\ ~ItemDone(w)
    <3>1. Busy' = Busy
      BY <1>8, <2>3, BusyMoves
    <3>2. CASE Discover(w) /\ RegisterItem /\ UNCHANGED frontier
                 /\ w \notin Pushing /\ Pushing' = Pushing \cup {w}
      BY <1>1, <3>1, <3>2, SizeMoves, WorkerSets DEF PendingAccounting, RegisterItem
    <3>3. CASE (Push(w) \/ PushCancelled(w)) /\ w \in Pushing /\ Pushing' = Pushing \ {w}
      <4>1. Cardinality(Pushing') = Cardinality(Pushing) - 1
        BY <3>3, SizeMoves, WorkerSets
      <4>2. \/ Len(frontier') = Len(frontier) + 1 /\ pending' = pending
            \/ frontier' = frontier /\ pending' = pending - 1
        BY <1>1, <3>3 DEF Push, AddToFrontier, PushCancelled, PushFailed
      <4>3. QED
        BY <1>1, <3>1, <4>1, <4>2, WorkerSets DEF PendingAccounting
    <3>4. CASE Pushing' = Pushing /\ UNCHANGED <<pending, frontier>>
      BY <3>1, <3>4 DEF PendingAccounting
    <3>5. QED
      BY <1>8, <2>3, <3>2, <3>3, <3>4, PushingMoves
  <2>4. QED
    BY <2>1, <2>2, <2>3
<1>9. QED
  BY <1>4, <1>5, <1>6, <1>7, <1>8 DEF Next, RunStep, Terminated
-----------------------------------------------------------------------------
(***************************************************************************)
(* The drained channel.                                                    *)
(***************************************************************************)
DrainedMeansZero == drainer = "closed" => pending = 0

LEMMA ZeroMeansIdle ==
  ASSUME TypeInv, PendingAccounting, pending = 0
  PROVE  frontier = <<>> /\ Busy = {} /\ Pushing = {}
<1>1. Len(frontier) \in Nat /\ frontier \in Seq(Item)
  BY DEF TypeInv, FrontierType
<1>2. Len(frontier) = 0 /\ Cardinality(Busy) = 0 /\ Cardinality(Pushing) = 0
  BY <1>1, WorkerSets DEF PendingAccounting
<1>3. QED
  BY <1>1, <1>2, WorkerSets, FS_EmptySet

LEMMA DrainedStep ==
  ASSUME TypeInv, Phases, PendingAccounting, DrainedMeansZero, [Next]_vars
  PROVE  DrainedMeansZero'
<1>1. CASE drainer = "closed"
  <2>1. main \notin {"seed", "sitemap"} /\ pending = 0
    BY <1>1 DEF Phases, DrainedMeansZero
  <2>2. frontier = <<>> /\ Busy = {}
    BY <2>1, ZeroMeansIdle
  <2>3. ASSUME NEW w \in Worker, WorkerStep(w) PROVE pending' = pending
    <3>1. w \notin Busy
      BY <2>2
    <3>2. pc[w] = "pop"
      BY <2>3, <3>1, IdleWorkers DEF Busy, TypeInv, PositionType
    <3>3. PopCancelled(w)
      BY <2>2, <2>3, <3>2
         DEF WorkerStep, Pop, Push, RobotsDisallow, RobotsAllow, AcquireHost,
             AcquireCancelled, Backoff, Retry, FetchFailed, ReleaseOnFailure, AttemptFails,
             FetchOK, AdmitPage, Discover, PushCancelled, WritePage, ItemDone
    <3>4. QED
      BY <3>3 DEF PopCancelled
  <2>4. pending' = pending
    BY <2>1, <2>3 DEF Next, RunStep, Terminated, vars, SeedFrontier, SeedSitemapLoc,
       StartWorkers, StopWaiting, JoinWorkers, StartProbe, ProbeEnds, Summarize, Drain, Deadline,
       CallerCancels
  <2>5. QED
    BY <2>1, <2>4 DEF DrainedMeansZero
<1>2. CASE drainer # "closed"
  <2>1. ASSUME NEW w \in Worker, WorkerStep(w) PROVE drainer' # "closed"
    BY <1>2, <2>1, RunFrame
  <2>2. drainer' = "closed" => pending' = 0
    BY <1>2, <2>1 DEF Next, RunStep, Terminated, vars, SeedFrontier, SeedSitemapLoc,
       StartWorkers, StopWaiting, JoinWorkers, StartProbe, ProbeEnds, Summarize, Drain, Deadline,
       CallerCancels
  <2>3. QED
    BY <2>2 DEF DrainedMeansZero
<1>3. QED
  BY <1>1, <1>2
-----------------------------------------------------------------------------
(***************************************************************************)
(* The per-host slots.                                                     *)
(***************************************************************************)
LEMMA HolderSets ==
  ASSUME NEW h PROVE IsFiniteSet(HoldingSlot(h)) /\ Cardinality(HoldingSlot(h)) \in Nat
<1>1. HoldingSlot(h) \subseteq Worker
  BY DEF HoldingSlot
<1>2. QED
  BY <1>1, WorkerAssumption, FS_Subset, FS_CardinalityType

Takes(w) == AcquireHost(w) \/ Retry(w)
Frees(w) == Backoff(w) \/ FetchOK(w) \/ (FetchFailed(w) /\ pc[w] # "backoff")

LEMMA HolderMoves ==
  ASSUME TypeInv, NEW w \in Worker, WorkerStep(w), NEW h \in Host
  PROVE  IF h = HostOfWorker(w) /\ Takes(w)
           THEN w \notin HoldingSlot(h) /\ HoldingSlot(h)' = HoldingSlot(h) \cup {w}
         ELSE IF h = HostOfWorker(w) /\ Frees(w)
           THEN w \in HoldingSlot(h) /\ HoldingSlot(h)' = HoldingSlot(h) \ {w}
         ELSE HoldingSlot(h)' = HoldingSlot(h)
<1>1. \A v \in Worker \ {w} : pc'[v] = pc[v] /\ cur'[v] = cur[v]
  BY WorkerFrame
     DEF TypeInv, PositionType, ItemType, WorkerStep, Pop, Push, PopCancelled, RobotsDisallow,
         RobotsAllow, AcquireHost, AcquireCancelled, Backoff, Retry, FetchFailed, FetchOK,
         AdmitPage, Discover, PushCancelled, WritePage, ItemDone
<1>2. \A v \in Worker \ {w} : v \in HoldingSlot(h)' <=> v \in HoldingSlot(h)
  BY <1>1 DEF HoldingSlot, HostOfWorker
<1>3. Takes(w) => /\ pc[w] \notin {"fetch", "doomed"} /\ pc'[w] \in {"fetch", "doomed"}
                  /\ cur' = cur
  BY DEF Takes, AcquireHost, Retry, StartAttempt, Goto, TypeInv, PositionType
<1>4. Frees(w) => /\ pc[w] \in {"fetch", "doomed"} /\ pc'[w] \notin {"fetch", "doomed"}
                  /\ cur' = cur
  BY DEF Frees, Backoff, FetchOK, FetchFailed, ReleaseOnFailure, AttemptFails, Goto, TypeInv,
         PositionType
<1>5. ~Takes(w) /\ ~Frees(w) =>
        pc[w] \notin {"fetch", "doomed"} /\ pc'[w] \notin {"fetch", "doomed"}
  BY DEF Takes, Frees, WorkerStep, Pop, Push, PopCancelled, RobotsDisallow, RobotsAllow,
         AcquireCancelled, FetchFailed, ReleaseOnFailure, AttemptFails, AdmitPage, Discover,
         PushCancelled, WritePage, ItemDone, Goto, TypeInv, PositionType
<1>6. HoldingSlot(h) \subseteq Worker /\ HoldingSlot(h)' \subseteq Worker
  BY DEF HoldingSlot
<1>7. w \in HoldingSlot(h) <=> pc[w] \in {"fetch", "doomed"} /\ HostOfWorker(w) = h
  BY DEF HoldingSlot
<1>8. w \in HoldingSlot(h)' <=> pc'[w] \in {"fetch", "doomed"} /\ HostOfWorker(w)' = h
  BY DEF HoldingSlot, HostOfWorker
<1>9. CASE Takes(w)
  <2>1. ~Frees(w) /\ HostOfWorker(w)' = HostOfWorker(w)
    BY <1>3, <1>4, <1>9 DEF HostOfWorker
  <2>2. QED
    BY <1>2, <1>3, <1>6, <1>7, <1>8, <1>9, <2>1
<1>10. CASE Frees(w)
  <2>1. ~Takes(w) /\ HostOfWorker(w)' = HostOfWorker(w)
    BY <1>3, <1>4, <1>10 DEF HostOfWorker
  <2>2. QED
    BY <1>2, <1>4, <1>6, <1>7, <1>8, <1>10, <2>1
<1>11. CASE ~Takes(w) /\ ~Frees(w)
  BY <1>2, <1>5, <1>6, <1>7, <1>8, <1>11
<1>12. QED
  BY <1>9, <1>10, <1>11

LEMMA SlotsInit == Init => SlotsAccounted
<1> SUFFICES ASSUME Init, NEW h \in Host PROVE sem[h] = Cardinality(HoldingSlot(h))
  BY DEF SlotsAccounted
<1>1. HoldingSlot(h) = {}
  BY DEF Init, HoldingSlot
<1>2. QED
  BY <1>1, FS_EmptySet DEF Init

LEMMA SlotsStep ==
  ASSUME TypeInv, Phases, SlotsAccounted, [Next]_vars PROVE SlotsAccounted'
<1> SUFFICES ASSUME NEW h \in Host PROVE sem'[h] = Cardinality(HoldingSlot(h)')
  BY DEF SlotsAccounted
<1>1. sem \in [Host -> Int] /\ sem[h] = Cardinality(HoldingSlot(h))
  BY DEF TypeInv, SlotType, SlotsAccounted
<1>2. ASSUME NEW w \in Worker, WorkerStep(w) PROVE sem'[h] = Cardinality(HoldingSlot(h)')
  <2>1. CASE h = HostOfWorker(w) /\ Takes(w)
    <3>1. sem'[h] = sem[h] + 1
      BY <1>1, <2>1 DEF Takes, AcquireHost, Retry, TakeSlot
    <3>2. QED
      BY <1>1, <1>2, <2>1, <3>1, HolderMoves, HolderSets, SizeMoves
  <2>2. CASE h = HostOfWorker(w) /\ Frees(w) /\ ~Takes(w)
    <3>1. sem'[h] = sem[h] - 1
      BY <1>1, <2>2 DEF Frees, Backoff, FetchOK, FetchFailed, ReleaseOnFailure, FreeSlot
    <3>2. QED
      BY <1>1, <1>2, <2>2, <3>1, HolderMoves, HolderSets, SizeMoves
  <2>3. CASE ~(h = HostOfWorker(w) /\ Takes(w)) /\ ~(h = HostOfWorker(w) /\ Frees(w))
    <3>1. sem'[h] = sem[h]
      BY <1>1, <1>2, <2>3
         DEF Takes, Frees, WorkerStep, Pop, Push, PopCancelled, RobotsDisallow, RobotsAllow,
             AcquireHost, AcquireCancelled, Backoff, Retry, FetchFailed, ReleaseOnFailure,
             AttemptFails, FetchOK, AdmitPage, Discover, PushCancelled, WritePage, ItemDone,
             TakeSlot, FreeSlot
    <3>2. QED
      BY <1>1, <1>2, <2>3, <3>1, HolderMoves
  <2>4. QED
    BY <2>1, <2>2, <2>3
<1>3. CASE StartWorkers
  <2>1. HoldingSlot(h) = {} /\ HoldingSlot(h)' = {}
    BY <1>3 DEF StartWorkers, Phases, HoldingSlot
  <2>2. QED
    BY <1>1, <1>3, <2>1 DEF StartWorkers
<1>4. CASE UNCHANGED <<sem, pc, cur>>
  BY <1>1, <1>4 DEF HoldingSlot, HostOfWorker
<1>5. QED
  BY <1>2, <1>3, <1>4
     DEF Next, RunStep, Terminated, vars, SeedFrontier, SeedSitemapLoc, StopWaiting,
         JoinWorkers, StartProbe, ProbeEnds, Summarize, Drain, Deadline, CallerCancels, workVars
-----------------------------------------------------------------------------
(***************************************************************************)
(* One URL, one place.  A claimed URL is in the frontier, or with one      *)
(* worker, or on its way into the frontier, or done; never in two of these *)
(* places.  Once done it has a record, so it gets no second one.           *)
(***************************************************************************)
Queued == {frontier[i].url : i \in DOMAIN frontier}
Active == {w \in Busy : pc[w] # "done"}
Child(w) == Head(todo[w])

QueueDistinct ==
  \A i, j \in DOMAIN frontier : i # j => frontier[i].url # frontier[j].url
QueuedIsClaimed ==
  \A u \in Queued : u \in seen /\ records[u] = <<>>
BusyIsClaimed ==
  \A w \in Busy : /\ cur[w].url \in seen /\ cur[w].url \notin Queued
                  /\ \A v \in Busy : v # w => cur[v].url # cur[w].url
ActiveUnrecorded ==
  \A w \in Active : records[cur[w].url] = <<>>
ChildIsClaimed ==
  \A w \in Pushing : /\ Child(w) \in seen /\ Child(w) \notin Queued
                     /\ records[Child(w)] = <<>>
                     /\ \A v \in Busy : cur[v].url # Child(w)
                     /\ \A v \in Pushing : v # w => Child(v) # Child(w)
UnclaimedUnrecorded ==
  \A u \in URL : u \notin seen => records[u] = <<>>
NothingBeforeStart ==
  main \in {"seed", "sitemap"} => \A u \in URL : records[u] = <<>>

OnePlace == /\ QueueDistinct /\ QueuedIsClaimed /\ BusyIsClaimed /\ ActiveUnrecorded
            /\ ChildIsClaimed /\ UnclaimedUnrecorded /\ NothingBeforeStart /\ OneRecordPerURL

LEMMA OnePlaceInit == Init => OnePlace
<1> SUFFICES ASSUME Init PROVE OnePlace
  OBVIOUS
<1>1. Queued = {} /\ Busy = {} /\ Active = {} /\ Pushing = {} /\ DOMAIN frontier = {}
  BY DEF Init, Queued, Busy, Active, Pushing
<1>2. \A u \in URL : records[u] = <<>> /\ Len(records[u]) <= 1
  BY DEF Init
<1>3. QED
  BY <1>1, <1>2
     DEF OnePlace, QueueDistinct, QueuedIsClaimed, BusyIsClaimed, ActiveUnrecorded,
         ChildIsClaimed, UnclaimedUnrecorded, NothingBeforeStart, OneRecordPerURL

\* Taking the head off a queue of distinct items removes its URL.
LEMMA QueueAfterPop ==
  ASSUME FrontierType, QueueDistinct, frontier # <<>>, frontier' = Tail(frontier)
  PROVE  /\ Head(frontier).url \in Queued
         /\ Queued' = Queued \ {Head(frontier).url}
         /\ QueueDistinct'
<1>1. /\ frontier \in Seq(Item) /\ Len(frontier) > 0
      /\ DOMAIN frontier = 1..Len(frontier) /\ DOMAIN frontier' = 1..(Len(frontier) - 1)
      /\ Head(frontier) = frontier[1]
      /\ \A i \in 1..(Len(frontier) - 1) : frontier'[i] = frontier[i+1]
  BY DEF FrontierType
<1>2. \A i \in 2..Len(frontier) : frontier[i].url # frontier[1].url
  BY <1>1 DEF QueueDistinct
<1>3. Queued' \subseteq Queued \ {Head(frontier).url}
  BY <1>1, <1>2 DEF Queued
<1>4. ASSUME NEW i \in 2..Len(frontier) PROVE frontier[i].url \in Queued'
  <2>1. i - 1 \in 1..(Len(frontier) - 1) /\ frontier'[i-1] = frontier[i]
    BY <1>1
  <2>2. QED
    BY <1>1, <2>1 DEF Queued
<1>5. Queued \ {Head(frontier).url} \subseteq Queued'
  BY <1>1, <1>4 DEF Queued
<1>6. Head(frontier).url \in Queued
  BY <1>1 DEF Queued
<1>7. QueueDistinct'
  BY <1>1 DEF QueueDistinct
<1>8. QED
  BY <1>3, <1>5, <1>6, <1>7

LEMMA QueueAfterPush ==
  ASSUME FrontierType, QueueDistinct, NEW item \in Item, item.url \notin Queued,
         AddToFrontier(item)
  PROVE  Queued' = Queued \cup {item.url} /\ QueueDistinct'
<1>1. /\ frontier \in Seq(Item) /\ DOMAIN frontier = 1..Len(frontier)
      /\ DOMAIN frontier' = 1..(Len(frontier) + 1)
      /\ frontier'[Len(frontier) + 1] = item
      /\ \A i \in 1..Len(frontier) : frontier'[i] = frontier[i]
  BY DEF FrontierType, AddToFrontier
<1>2. \A i \in 1..Len(frontier) : frontier[i].url # item.url
  BY <1>1 DEF Queued
<1>3. QueueDistinct'
  BY <1>1, <1>2 DEF QueueDistinct
<1>4. \A i \in 1..Len(frontier) : i \in DOMAIN frontier' /\ Len(frontier) + 1 \in DOMAIN frontier'
  BY <1>1
<1>5. Queued \cup {item.url} \subseteq Queued'
  BY <1>1, <1>4 DEF Queued
<1>6. Queued' \subseteq Queued \cup {item.url}
  BY <1>1 DEF Queued
<1>7. QED
  BY <1>3, <1>5, <1>6

LEMMA QueuedURLs ==
  ASSUME TypeInv PROVE Queued \subseteq URL
<1>1. \A i \in DOMAIN frontier : frontier[i] \in Item
  BY DEF TypeInv, FrontierType
<1>2. QED
  BY <1>1 DEF Queued, Item

\* A step that moves no URL and writes nothing keeps the places distinct.
LEMMA ShrinkStep ==
  ASSUME OnePlace, UNCHANGED <<frontier, seen, records, cur>>,
         Busy' \subseteq Busy, Active' \subseteq Active, Pushing' \subseteq Pushing,
         \A w \in Pushing' : todo'[w] = todo[w],
         main' \in {"seed", "sitemap"} => main \in {"seed", "sitemap"}
  PROVE  OnePlace'
<1>1. Queued' = Queued
  BY DEF Queued
<1>2. QueueDistinct' /\ QueuedIsClaimed' /\ UnclaimedUnrecorded' /\ OneRecordPerURL'
  BY <1>1 DEF OnePlace, QueueDistinct, QueuedIsClaimed, UnclaimedUnrecorded, OneRecordPerURL
<1>3. BusyIsClaimed' /\ ActiveUnrecorded' /\ NothingBeforeStart'
  BY <1>1 DEF OnePlace, BusyIsClaimed, ActiveUnrecorded, NothingBeforeStart
<1>4. ChildIsClaimed'
  BY <1>1 DEF OnePlace, ChildIsClaimed, Child
<1>5. QED
  BY <1>2, <1>3, <1>4 DEF OnePlace

\* A worker's write settles its item: the worker stops being active.
LEMMA SettleStep ==
  ASSUME TypeInv, Phases, OnePlace, NEW w \in Worker, WorkerStep(w), NEW kind \in {"page", "error"},
         w \in Busy, pc[w] \notin {"push", "done"}, Write(w, kind), Goto(w, "done"),
         UNCHANGED <<main, frontier, seen, cur, todo>>
  PROVE  OnePlace'
<1> DEFINE u == cur[w].url
<1>1. u \in URL /\ records \in [URL -> Seq(Record)]
  BY DEF TypeInv, ItemType, Item, RecordType
<1>2. w \in Active /\ records[u] = <<>>
  BY DEF Active, OnePlace, ActiveUnrecorded
<1>3. Busy' = Busy /\ Pushing' = Pushing /\ Active' = Active \ {w}
  BY DEF Goto, Busy, Pushing, Active, TypeInv, PositionType
<1>4. Queued' = Queued
  BY DEF Queued
<1>5. \A x \in URL : x # u => records'[x] = records[x]
  BY <1>1 DEF Write
<1>6. Len(records'[u]) = 1
  BY <1>1, <1>2 DEF Write
<1>7. \A x \in Queued : x \in URL /\ x # u
  <2>1. Queued \subseteq URL
    BY QueuedURLs
  <2>2. u \notin Queued
    BY DEF OnePlace, BusyIsClaimed
  <2>3. QED
    BY <2>1, <2>2
<1>8. QueueDistinct' /\ QueuedIsClaimed'
  BY <1>4, <1>5, <1>7 DEF OnePlace, QueueDistinct, QueuedIsClaimed
<1>9. BusyIsClaimed'
  BY <1>3, <1>4 DEF OnePlace, BusyIsClaimed
<1>10. ActiveUnrecorded'
  <2>1. \A v \in Active \ {w} : v \in Worker /\ cur[v].url # u /\ cur[v].url \in URL
    BY DEF Active, Busy, OnePlace, BusyIsClaimed, TypeInv, ItemType, Item
  <2>2. QED
    BY <1>3, <1>5, <2>1 DEF OnePlace, ActiveUnrecorded
<1>11. ChildIsClaimed'
  <2>1. \A v \in Pushing : Child(v) # u /\ Child(v) \in URL
    BY DEF Pushing, Child, OnePlace, ChildIsClaimed, TypeInv, TodoType, PushHasChild
  <2>2. QED
    BY <1>3, <1>4, <1>5, <2>1 DEF OnePlace, ChildIsClaimed, Child
<1>12. UnclaimedUnrecorded' /\ OneRecordPerURL'
  <2>1. u \in seen
    BY DEF OnePlace, BusyIsClaimed
  <2>2. UnclaimedUnrecorded'
    BY <1>5, <2>1 DEF OnePlace, UnclaimedUnrecorded
  <2>3. \A x \in URL : Len(records'[x]) <= 1
    <3>1. ASSUME NEW x \in URL, x # u PROVE Len(records'[x]) <= 1
      BY <1>5, <3>1 DEF OnePlace, OneRecordPerURL
    <3>2. Len(records'[u]) <= 1
      BY <1>6
    <3>3. QED
      BY <3>1, <3>2
  <2>4. OneRecordPerURL'
    BY <2>3 DEF OneRecordPerURL
  <2>5. QED
    BY <2>2, <2>4
<1>13. NothingBeforeStart'
  <2>1. main \notin {"seed", "sitemap"}
    BY IdleWorkers DEF Phases
  <2>2. QED
    BY <2>1 DEF NothingBeforeStart
<1>14. QED
  BY <1>8, <1>9, <1>10, <1>11, <1>12, <1>13 DEF OnePlace

LEMMA PopStep ==
  ASSUME TypeInv, OnePlace, NEW w \in Worker, Pop(w)
  PROVE  OnePlace'
<1> DEFINE u == Head(frontier).url
<1>1. /\ frontier # <<>> /\ frontier' = Tail(frontier)
      /\ UNCHANGED <<main, seen, records, todo>>
  BY DEF Pop, runVars
<1>2. u \in Queued /\ Queued' = Queued \ {u} /\ QueueDistinct'
  BY <1>1, QueueAfterPop DEF TypeInv, OnePlace
<1>3. u \in seen /\ records[u] = <<>>
  BY <1>2 DEF OnePlace, QueuedIsClaimed
<1>4. /\ w \notin Busy /\ Busy' = Busy \cup {w}
      /\ Active' = Active \cup {w} /\ Pushing' = Pushing
  BY DEF Pop, Goto, Busy, Active, Pushing, TypeInv, PositionType
<1>5. cur'[w].url = u /\ \A v \in Busy : v # w /\ cur'[v] = cur[v]
  BY <1>4 DEF Pop, TypeInv, ItemType, Busy
<1>6. QueuedIsClaimed' /\ UnclaimedUnrecorded' /\ OneRecordPerURL' /\ NothingBeforeStart'
  BY <1>1, <1>2
     DEF OnePlace, QueuedIsClaimed, UnclaimedUnrecorded, OneRecordPerURL, NothingBeforeStart
<1>7. BusyIsClaimed'
  <2>1. \A v \in Busy : cur[v].url # u
    BY <1>2 DEF OnePlace, BusyIsClaimed
  <2>2. QED
    BY <1>1, <1>2, <1>3, <1>4, <1>5, <2>1 DEF OnePlace, BusyIsClaimed
<1>8. ActiveUnrecorded'
  BY <1>1, <1>3, <1>4, <1>5 DEF OnePlace, ActiveUnrecorded, Active
<1>9. ChildIsClaimed'
  <2>1. \A v \in Pushing : Child(v) # u /\ Child(v)' = Child(v)
    BY <1>1, <1>2 DEF OnePlace, ChildIsClaimed, Child
  <2>2. QED
    BY <1>1, <1>2, <1>4, <1>5, <2>1 DEF OnePlace, ChildIsClaimed
<1>10. QED
  BY <1>2, <1>6, <1>7, <1>8, <1>9 DEF OnePlace

LEMMA PushStep ==
  ASSUME TypeInv, OnePlace, NEW w \in Worker, Push(w)
  PROVE  OnePlace'
<1> DEFINE u == Child(w)
           item == [url |-> u, depth |-> cur[w].depth + 1]
<1>1. /\ AddToFrontier(item) /\ UNCHANGED <<main, seen, records, cur>>
      /\ pc[w] = "push" /\ todo' = [todo EXCEPT ![w] = Tail(@)]
  BY DEF Push, runVars, Child
<1>2. w \in Pushing
  BY <1>1 DEF Pushing
<1>3. u \in seen /\ u \notin Queued /\ records[u] = <<>>
  BY <1>2 DEF OnePlace, ChildIsClaimed
<1>4. item \in Item
  <2>1. cur[w].depth + 1 \in Nat
    BY DEF TypeInv, ItemType, Item
  <2>2. QED
    BY <1>3, <2>1 DEF Item, TypeInv, SeenType
<1>5. Queued' = Queued \cup {u} /\ QueueDistinct'
  BY <1>1, <1>3, <1>4, QueueAfterPush DEF TypeInv, OnePlace
<1>6. Busy' = Busy /\ Active' = Active /\ Pushing' = Pushing \ {w}
  BY DEF Push, Goto, Busy, Active, Pushing, TypeInv, PositionType
<1>7. QueuedIsClaimed' /\ UnclaimedUnrecorded' /\ OneRecordPerURL' /\ NothingBeforeStart'
  BY <1>1, <1>3, <1>5
     DEF OnePlace, QueuedIsClaimed, UnclaimedUnrecorded, OneRecordPerURL, NothingBeforeStart
<1>8. BusyIsClaimed' /\ ActiveUnrecorded'
  <2>1. \A v \in Busy : cur[v].url # u
    BY <1>2 DEF OnePlace, ChildIsClaimed
  <2>2. QED
    BY <1>1, <1>5, <1>6, <2>1 DEF OnePlace, BusyIsClaimed, ActiveUnrecorded
<1>9. ChildIsClaimed'
  <2>1. \A v \in Pushing \ {w} : Child(v)' = Child(v) /\ Child(v) # u
    BY <1>1, <1>2 DEF OnePlace, ChildIsClaimed, Child, Pushing, TypeInv, TodoType
  <2>2. QED
    BY <1>1, <1>5, <1>6, <2>1 DEF OnePlace, ChildIsClaimed
<1>10. QED
  BY <1>5, <1>7, <1>8, <1>9 DEF OnePlace

\* Discover of a link nobody has claimed.
LEMMA ClaimStep ==
  ASSUME TypeInv, OnePlace, NEW w \in Worker, Discover(w), pc'[w] = "push"
  PROVE  OnePlace'
<1> DEFINE u == Child(w)
<1>1. /\ u \notin seen /\ seen' = seen \cup {u}
      /\ UNCHANGED <<main, frontier, records, cur, todo>>
      /\ pc[w] = "expand" /\ Goto(w, "push") /\ todo[w] # <<>>
  BY DEF Discover, MarkSeen, Child, runVars, TypeInv, PositionType
<1>2. u \in URL
  BY <1>1 DEF TypeInv, TodoType, Child
<1>3. records[u] = <<>>
  BY <1>1, <1>2 DEF OnePlace, UnclaimedUnrecorded
<1>4. Queued' = Queued
  BY <1>1 DEF Queued
<1>5. Busy' = Busy /\ Active' = Active /\ Pushing' = Pushing \cup {w} /\ w \notin Pushing
  BY <1>1 DEF Goto, Busy, Active, Pushing, TypeInv, PositionType
<1>6. \A v \in Pushing' : Child(v)' = Child(v)
  BY <1>1 DEF Child
<1>7. u \notin Queued
  BY <1>1 DEF OnePlace, QueuedIsClaimed
<1>8. \A v \in Busy : cur[v].url # u
  BY <1>1 DEF OnePlace, BusyIsClaimed
<1>9. \A v \in Pushing : Child(v) # u
  BY <1>1 DEF OnePlace, ChildIsClaimed
<1>10. QueueDistinct' /\ QueuedIsClaimed' /\ UnclaimedUnrecorded' /\ OneRecordPerURL'
       /\ NothingBeforeStart'
  BY <1>1, <1>4 DEF OnePlace, QueueDistinct, QueuedIsClaimed, UnclaimedUnrecorded,
                    OneRecordPerURL, NothingBeforeStart
<1>11. BusyIsClaimed' /\ ActiveUnrecorded'
  BY <1>1, <1>4, <1>5 DEF OnePlace, BusyIsClaimed, ActiveUnrecorded
<1>12. ChildIsClaimed'
  BY <1>1, <1>3, <1>4, <1>5, <1>6, <1>7, <1>8, <1>9 DEF OnePlace, ChildIsClaimed
<1>13. QED
  BY <1>10, <1>11, <1>12 DEF OnePlace

\* Seeding claims a URL and queues it, or loses it to a cancelled context.
LEMMA SeedingStep ==
  ASSUME TypeInv, Phases, OnePlace, main \in {"seed", "sitemap"},
         NEW u \in URL, u \notin Queued, MarkSeen(u),
         EnqueueBeforeWorkers([url |-> u, depth |-> 0]), UNCHANGED <<records, workVars>>
  PROVE  OnePlace'
<1>1. UNCHANGED <<pc, cur, todo>> /\ \A w \in Worker : pc[w] = "new"
  BY DEF workVars, Phases
<1>2. Busy = {} /\ Busy' = {} /\ Active' = {} /\ Pushing' = {}
  BY <1>1 DEF Busy, Active, Pushing
<1>3. \A x \in URL : records'[x] = <<>>
  BY DEF OnePlace, NothingBeforeStart
<1>4. [url |-> u, depth |-> 0] \in Item
  BY DEF Item
<1>5. QueueDistinct' /\ Queued' \subseteq Queued \cup {u}
  <2>1. CASE AddToFrontier([url |-> u, depth |-> 0])
    BY <1>4, <2>1, QueueAfterPush DEF TypeInv, OnePlace
  <2>2. CASE UNCHANGED frontier
    BY <2>2 DEF OnePlace, QueueDistinct, Queued
  <2>3. QED
    BY <2>1, <2>2 DEF EnqueueBeforeWorkers
<1>6. QueuedIsClaimed'
  <2>1. \A x \in Queued \cup {u} : x \in seen' /\ x \in URL
    BY QueuedURLs DEF OnePlace, QueuedIsClaimed, MarkSeen
  <2>2. QED
    BY <1>3, <1>5, <2>1 DEF QueuedIsClaimed
<1>7. BusyIsClaimed' /\ ActiveUnrecorded' /\ ChildIsClaimed'
  BY <1>2 DEF BusyIsClaimed, ActiveUnrecorded, ChildIsClaimed
<1>8. UnclaimedUnrecorded' /\ NothingBeforeStart' /\ OneRecordPerURL'
  BY <1>3 DEF UnclaimedUnrecorded, NothingBeforeStart, OneRecordPerURL
<1>9. QED
  BY <1>5, <1>6, <1>7, <1>8 DEF OnePlace

\* The steps of a worker that move no URL.
LEMMA QuietSteps ==
  ASSUME TypeInv, NEW w \in Worker,
         \/ PopCancelled(w) \/ RobotsAllow(w) \/ AcquireHost(w) \/ AcquireCancelled(w)
         \/ Backoff(w) \/ Retry(w) \/ FetchOK(w) \/ AdmitPage(w) \/ PushCancelled(w)
         \/ ItemDone(w) \/ (Discover(w) /\ pc'[w] # "push")
  PROVE  /\ UNCHANGED <<frontier, seen, records, cur>>
         /\ Busy' \subseteq Busy /\ Active' \subseteq Active /\ Pushing' \subseteq Pushing
         /\ \A v \in Pushing' : todo'[v] = todo[v]
<1>1. UNCHANGED <<frontier, seen, records, cur>>
  BY DEF PopCancelled, RobotsAllow, AcquireHost, AcquireCancelled, Backoff, Retry,
     FetchOK, AdmitPage, PushCancelled, ItemDone, Discover, Goto, TypeInv, PositionType
<1>2. \A v \in Worker \ {w} : pc'[v] = pc[v] /\ todo'[v] = todo[v]
  <2>1. \A v \in Worker \ {w} : todo'[v] = todo[v]
    BY DEF PopCancelled, RobotsAllow, AcquireHost, AcquireCancelled, Backoff, Retry,
       FetchOK, AdmitPage, PushCancelled, ItemDone, Discover, TypeInv, TodoType
  <2>2. QED
    BY <2>1, WorkerFrame DEF TypeInv, PositionType, WorkerStep
<1>3. /\ pc'[w] # "push"
      /\ pc'[w] \notin {"pop", "exit", "new"} => pc[w] \notin {"pop", "exit", "new", "done"}
  BY DEF PopCancelled, RobotsAllow, AcquireHost, AcquireCancelled, Backoff, Retry,
     AttemptFails, FetchOK, AdmitPage, PushCancelled, ItemDone, Discover, Goto,
     StartAttempt, TypeInv, PositionType
<1>4. Busy' \subseteq Busy /\ Active' \subseteq Active /\ Pushing' \subseteq Pushing \ {w}
  BY <1>2, <1>3 DEF Busy, Active, Pushing
<1>5. \A v \in Pushing' : todo'[v] = todo[v]
  BY <1>2, <1>4 DEF Pushing
<1>6. QED
  BY <1>1, <1>4, <1>5

LEMMA OnePlaceWorkerStep ==
  ASSUME TypeInv, Phases, OnePlace, NEW w \in Worker, WorkerStep(w)
  PROVE  OnePlace'
<1>1. UNCHANGED main
  BY RunFrame
<1>2. CASE Pop(w)
  BY <1>2, PopStep
<1>3. CASE Push(w)
  BY <1>3, PushStep
<1>4. CASE Discover(w) /\ pc'[w] = "push"
  BY <1>4, ClaimStep
<1>5. CASE RobotsDisallow(w) \/ FetchFailed(w) \/ WritePage(w)
  <2>1. pc[w] \in {"robots", "fetch", "doomed", "backoff", "expand"}
    BY <1>5 DEF RobotsDisallow, FetchFailed, ReleaseOnFailure, AttemptFails, WritePage
  <2>2. w \in Busy
    BY <2>1 DEF Busy
  <2>3. Write(w, "page") \/ Write(w, "error")
    BY <1>5 DEF RobotsDisallow, FetchFailed, WritePage
  <2>4. Goto(w, "done") /\ UNCHANGED <<frontier, seen, cur, todo>>
    BY <1>5 DEF RobotsDisallow, FetchFailed, WritePage
  <2>5. QED
    BY <1>1, <2>1, <2>2, <2>3, <2>4, SettleStep
<1>6. CASE \/ PopCancelled(w) \/ RobotsAllow(w) \/ AcquireHost(w) \/ AcquireCancelled(w)
           \/ Backoff(w) \/ Retry(w) \/ FetchOK(w) \/ AdmitPage(w) \/ PushCancelled(w)
           \/ ItemDone(w) \/ (Discover(w) /\ pc'[w] # "push")
  BY <1>1, <1>6, QuietSteps, ShrinkStep
<1>7. QED
  BY <1>2, <1>3, <1>4, <1>5, <1>6 DEF WorkerStep

LEMMA OnePlaceStep ==
  ASSUME TypeInv, Phases, OnePlace, [Next]_vars PROVE OnePlace'
<1>1. ASSUME UNCHANGED <<frontier, seen, records, workVars>>,
             main' \in {"seed", "sitemap"} => main \in {"seed", "sitemap"}
      PROVE  OnePlace'
  <2>1. UNCHANGED <<pc, cur, todo>>
    BY <1>1 DEF workVars
  <2>2. Busy' = Busy /\ Active' = Active /\ Pushing' = Pushing
    BY <2>1 DEF Busy, Active, Pushing
  <2>3. QED
    BY <1>1, <2>1, <2>2, ShrinkStep
<1>2. CASE SeedFrontier
  <2>1. Queued = {}
    BY <1>2 DEF SeedFrontier, Phases, Queued
  <2>2. QED
    BY <1>2, <2>1, SeedingStep, SiteAssumption DEF SeedFrontier
<1>3. CASE SeedSitemapLoc
  <2> DEFINE u == Head(locs)
  <2>1. u \in URL /\ main = "sitemap" /\ main' = "sitemap" /\ UNCHANGED <<records, workVars>>
    BY <1>3 DEF SeedSitemapLoc, TypeInv, RunType
  <2>2. CASE u \notin seen /\ MarkSeen(u) /\ EnqueueBeforeWorkers([url |-> u, depth |-> 0])
    <3>1. u \notin Queued
      BY <2>2 DEF OnePlace, QueuedIsClaimed
    <3>2. QED
      BY <2>1, <2>2, <3>1, SeedingStep
  <2>3. CASE UNCHANGED <<seen, frontier>>
    BY <1>1, <2>1, <2>3
  <2>4. QED
    BY <1>3, <2>2, <2>3 DEF SeedSitemapLoc
<1>4. CASE StartWorkers
  <2>1. Busy' = {} /\ Active' = {} /\ Pushing' = {}
    BY <1>4 DEF StartWorkers, Busy, Active, Pushing
  <2>2. QED
    BY <1>4, <2>1, ShrinkStep DEF StartWorkers
<1>5. CASE StopWaiting \/ JoinWorkers \/ StartProbe \/ ProbeEnds \/ Summarize \/ Drain
             \/ Deadline \/ CallerCancels
  BY <1>1, <1>5 DEF StopWaiting, JoinWorkers, StartProbe, ProbeEnds, Summarize, Drain, Deadline,
       CallerCancels, runVars
<1>6. CASE UNCHANGED vars
  BY <1>1, <1>6 DEF vars, workVars
<1>7. ASSUME NEW w \in Worker, WorkerStep(w) PROVE OnePlace'
  BY <1>7, OnePlaceWorkerStep
<1>8. QED
  BY <1>2, <1>3, <1>4, <1>5, <1>6, <1>7 DEF Next, RunStep, Terminated
-----------------------------------------------------------------------------
(***************************************************************************)
(* The inductive invariant and what follows from it.                       *)
(***************************************************************************)
IInv == /\ TypeInv /\ Phases /\ PendingAccounting /\ DrainedMeansZero /\ SlotsAccounted
        /\ OnePlace

LEMMA Invariance == Spec => []IInv
<1>1. Init => IInv
  BY TypeInvInit, PhasesInit, AccountingInit, SlotsInit, OnePlaceInit
     DEF IInv, DrainedMeansZero, Init
<1>2. IInv /\ [Next]_vars => IInv'
  BY TypeInvStep, PhasesStep, AccountingStep, DrainedStep, SlotsStep, OnePlaceStep DEF IInv
<1>3. QED
  BY <1>1, <1>2, PTL DEF Spec

\* The WaitGroup counts the queued items, the items being processed and the
\* children on their way into the frontier, at every moment of every crawl.
THEOREM PendingCorrect == Spec => []PendingAccounting
BY Invariance, PTL DEF IInv

\* A closed `drained' channel means that there is no work and none can appear.
THEOREM DrainedCorrect == Spec => []DrainedMeansIdle
<1>1. IInv => DrainedMeansIdle
  BY ZeroMeansIdle DEF IInv, DrainedMeansZero, DrainedMeansIdle
<1>2. QED
  BY <1>1, Invariance, PTL

\* Every slot of every host belongs to exactly one worker with a request in
\* flight, so a deferred Release finds its token and never blocks.
THEOREM SlotsCorrect == Spec => []SlotsAccounted
BY Invariance, PTL DEF IInv

\* However many pages link to a URL at once, one record is written about it.
THEOREM OneRecordCorrect == Spec => []OneRecordPerURL
BY Invariance, PTL DEF IInv, OnePlace

\* Every variable keeps its type; in particular the WaitGroup counter never
\* goes negative (Go would panic) and no host exceeds PerHost slots.
THEOREM TypeCorrect == Spec => []TypeOK
<1>1. IInv => TypeOK
  <2> SUFFICES ASSUME IInv PROVE TypeOK
    OBVIOUS
  <2>1. TypeInv
    BY DEF IInv
  <2>2. pending \in Nat
    <3>1. Len(frontier) \in Nat
      BY <2>1 DEF TypeInv, FrontierType
    <3>2. QED
      BY <3>1, WorkerSets DEF IInv, PendingAccounting
  <2>3. sem \in [Host -> 0..PerHost]
    <3>1. \A h \in Host : sem[h] \in 0..PerHost
      BY <2>1, HolderSets, OptionsAssumption DEF IInv, SlotsAccounted, TypeInv, SlotType
    <3>2. QED
      BY <2>1, <3>1 DEF TypeInv, SlotType
  <2>4. QED
    BY <2>1, <2>2, <2>3
       DEF TypeOK, TypeInv, RunType, ProbeType, CauseType, FrontierType, SeenType, StatsType,
       RecordType,
           PositionType, ItemType, TriesType, TodoType
<1>2. QED
  BY <1>1, Invariance, PTL

\* Once the frontier is closed no worker pushes, claims, writes about a URL or
\* counts: no send on a closed channel, and only Run's own probe and summary are
\* still to come.
THEOREM QuietCorrect == Spec => QuietAfterJoin
<1>1. IInv /\ [Next]_vars => (closed => UNCHANGED <<frontier, records, stats, seen>>)
  <2> SUFFICES ASSUME IInv, [Next]_vars, closed
               PROVE  UNCHANGED <<frontier, records, stats, seen>>
    OBVIOUS
  <2>1. main \in {"openapi", "probe", "summary", "done"} /\ \A w \in Worker : pc[w] = "exit"
    BY DEF IInv, Phases
  <2>2. \A w \in Worker : ~WorkerStep(w)
    BY <2>1, IdleWorkers
  <2>3. QED
    BY <2>1, <2>2 DEF Next, RunStep, Terminated, vars, SeedFrontier, SeedSitemapLoc,
       StartWorkers, StopWaiting, JoinWorkers, StartProbe, ProbeEnds, Summarize, Drain, Deadline,
       CallerCancels
<1>2. QED
  BY <1>1, Invariance, PTL DEF Spec, QuietAfterJoin
-----------------------------------------------------------------------------
LEMMA Counted ==
  ASSUME StatsType, NEW S, Count(S), NEW c \in Counter
  PROVE  stats[c] \in Nat /\ stats'[c] = IF c \in S THEN stats[c] + 1 ELSE stats[c]
BY DEF StatsType, Count

LEMMA CounterNames ==
  {"discovered", "unique", "duplicates", "robots", "requests", "ok", "failed", "inBudget", "sitemap"}
    \subseteq Counter
BY DEF Counter

\* Seeding counts what it finds, and nothing of what a worker counts.
LEMMA SeedingCounts ==
  ASSUME TypeInv, SeedFrontier \/ SeedSitemapLoc, NEW c \in {"ok", "failed", "robots", "inBudget"}
  PROVE  stats'[c] = stats[c]
<1>1. \/ Count({"unique"}) \/ Count({"discovered"}) \/ Count({"discovered", "duplicates"})
      \/ Count({"discovered", "unique", "sitemap"})
  BY DEF SeedFrontier, SeedSitemapLoc
<1>2. StatsType /\ c \in Counter
  BY CounterNames DEF TypeInv
<1>3. ASSUME NEW S, Count(S), c \notin S PROVE stats'[c] = stats[c]
  BY ONLY <1>2, <1>3, Counted
<1> QED BY <1>1, <1>3

Uncounted(w) ==
  \/ Pop(w) \/ PopCancelled(w) \/ RobotsAllow(w) \/ AcquireCancelled(w) \/ Backoff(w)
  \/ Retry(w) \/ Push(w) \/ PushCancelled(w) \/ WritePage(w) \/ ItemDone(w)

\* The counters each step of a worker adds to.
LEMMA WorkerCounts ==
  ASSUME NEW w \in Worker, WorkerStep(w)
  PROVE  \/ RobotsDisallow(w) /\ Count({"robots"})
         \/ AcquireHost(w) /\ Count({"requests"})
         \/ FetchFailed(w) /\ Count({"failed"})
         \/ FetchOK(w) /\ Count({"ok"})
         \/ AdmitPage(w) /\ Count(IF MaxPages = 0 THEN {} ELSE {"inBudget"})
         \/ Discover(w) /\ (Count({"discovered"}) \/ Count({"discovered", "duplicates"}))
              /\ UNCHANGED <<pc, seen, pending>>
         \/ Discover(w) /\ Count({"discovered", "unique"}) /\ Goto(w, "push")
         \/ Uncounted(w) /\ UNCHANGED stats
BY DEF Uncounted, WorkerStep, Pop, PopCancelled, RobotsDisallow, RobotsAllow, AcquireHost, AcquireCancelled,
       Backoff, Retry, FetchFailed, FetchOK, AdmitPage, Discover, Push, PushCancelled, WritePage,
       ItemDone
-----------------------------------------------------------------------------
(***************************************************************************)
(* The request counters.                                                   *)
(***************************************************************************)
AtWork == {"fetch", "doomed", "backoff"}
InRequest == {w \in Worker : pc[w] \in AtWork}

LEMMA SubsetsOfWorker ==
  ASSUME NEW S, S \subseteq Worker PROVE IsFiniteSet(S) /\ Cardinality(S) \in Nat
BY WorkerAssumption, FS_Subset, FS_CardinalityType

\* How one worker's move changes the set of workers at some places.
LEMMA PlaceMoves ==
  ASSUME PositionType, NEW w \in Worker, WorkerStep(w), NEW P
  PROVE  LET S == {v \in Worker : pc[v] \in P}
             T == {v \in Worker : pc'[v] \in P} IN
         /\ Cardinality(S) \in Nat /\ Cardinality(T) \in Nat
         /\ pc[w] \notin P /\ pc'[w] \in P => Cardinality(T) = Cardinality(S) + 1
         /\ pc[w] \in P /\ pc'[w] \notin P => Cardinality(T) = Cardinality(S) - 1
         /\ (pc[w] \in P <=> pc'[w] \in P) => T = S
<1> DEFINE S == {v \in Worker : pc[v] \in P}
           T == {v \in Worker : pc'[v] \in P}
<1>1. \A v \in Worker \ {w} : pc'[v] = pc[v]
  BY WorkerFrame DEF PositionType
<1>2. IsFiniteSet(S) /\ Cardinality(S) \in Nat /\ Cardinality(T) \in Nat
  BY SubsetsOfWorker
<1>3. pc[w] \notin P /\ pc'[w] \in P => w \notin S /\ T = S \cup {w}
  BY <1>1
<1>4. pc[w] \in P /\ pc'[w] \notin P => w \in S /\ T = S \ {w}
  BY <1>1
<1>5. (pc[w] \in P <=> pc'[w] \in P) => T = S
  BY <1>1
<1> HIDE DEF S, T
<1>6. /\ w \notin S /\ T = S \cup {w} => Cardinality(T) = Cardinality(S) + 1
      /\ w \in S /\ T = S \ {w} => Cardinality(T) = Cardinality(S) - 1
  BY <1>2, SizeMoves
<1> QED BY <1>2, <1>3, <1>4, <1>5, <1>6 DEF S, T

LEMMA BalanceInit == Init => RequestsBalance
<1> SUFFICES ASSUME Init PROVE RequestsBalance
  OBVIOUS
<1>1. {w \in Worker : pc[w] \in AtWork} = {}
  BY DEF Init, AtWork
<1>2. stats["requests"] = 0 /\ stats["ok"] = 0 /\ stats["failed"] = 0
  BY CounterNames DEF Init
<1> QED BY <1>1, <1>2, FS_EmptySet DEF RequestsBalance, AtWork

LEMMA BalanceStep ==
  ASSUME TypeInv, Phases, RequestsBalance, [Next]_vars PROVE RequestsBalance'
<1> DEFINE n == Cardinality(InRequest)
           m == Cardinality(InRequest')
<1>1. /\ stats["requests"] = stats["ok"] + stats["failed"] + n
      /\ stats["requests"] \in Nat /\ stats["ok"] \in Nat /\ stats["failed"] \in Nat
      /\ RequestsBalance' <=> stats'["requests"] = stats'["ok"] + stats'["failed"] + m
  BY CounterNames DEF TypeInv, StatsType, RequestsBalance, InRequest, AtWork
<1>2. ASSUME UNCHANGED <<pc, stats>> PROVE RequestsBalance'
  BY <1>1, <1>2 DEF InRequest
<1>3. ASSUME NEW w \in Worker, WorkerStep(w) PROVE RequestsBalance'
  <2> DEFINE Counts(c) == stats'[c] = stats[c] + 1
             Stays(c) == stats'[c] = stats[c]
  <2>1. n \in Nat /\ m \in Nat
    BY SubsetsOfWorker DEF InRequest
  <2>2. /\ pc[w] \notin AtWork /\ pc'[w] \in AtWork => m = n + 1
        /\ pc[w] \in AtWork /\ pc'[w] \notin AtWork => m = n - 1
        /\ (pc[w] \in AtWork <=> pc'[w] \in AtWork) => m = n
    BY <1>3, PlaceMoves DEF TypeInv, InRequest
  <2>3. CASE AcquireHost(w)
    <3>1. pc[w] \notin AtWork /\ pc'[w] \in AtWork
      BY <2>3 DEF AcquireHost, StartAttempt, Goto, AtWork, TypeInv, PositionType
    <3>2. Counts("requests") /\ Stays("ok") /\ Stays("failed")
      BY <2>3, Counted, CounterNames DEF AcquireHost, TypeInv
    <3> QED BY <1>1, <2>1, <2>2, <3>1, <3>2
  <2>4. CASE FetchFailed(w) \/ FetchOK(w)
    <3>1. pc[w] \in AtWork /\ pc'[w] \notin AtWork
      BY <2>4 DEF FetchFailed, ReleaseOnFailure, AttemptFails, FetchOK, Goto, AtWork, TypeInv,
                  PositionType
    <3>2. m = n - 1
      BY <2>2, <3>1
    <3>3. Stays("requests")
      BY <2>4, Counted, CounterNames DEF FetchFailed, FetchOK, TypeInv
    <3>4. (Stays("ok") /\ Counts("failed")) \/ (Counts("ok") /\ Stays("failed"))
      BY <2>4, Counted, CounterNames DEF FetchFailed, FetchOK, TypeInv
    <3> HIDE DEF n, m
    <3>5. stats'["requests"] = stats'["ok"] + stats'["failed"] + m
      BY <1>1, <2>1, <3>2, <3>3, <3>4
    <3> QED BY <1>1, <3>5
  <2>5. CASE ~AcquireHost(w) /\ ~FetchFailed(w) /\ ~FetchOK(w)
    <3>1. pc[w] \in AtWork <=> pc'[w] \in AtWork
      BY <1>3, <2>5 DEF WorkerStep, Pop, PopCancelled, RobotsDisallow, RobotsAllow, AcquireCancelled,
           Backoff, AttemptFails, Retry, AdmitPage, Discover, Push, PushCancelled, WritePage,
           ItemDone, StartAttempt, Goto, AtWork, TypeInv, PositionType
    <3>2. Stays("requests") /\ Stays("ok") /\ Stays("failed")
      BY <1>3, <2>5, WorkerCounts, Counted, CounterNames DEF TypeInv
    <3> QED BY <1>1, <2>1, <2>2, <3>1, <3>2
  <2> QED BY <2>3, <2>4, <2>5
<1>4. CASE StartWorkers
  <2>1. InRequest = {} /\ InRequest' = {} /\ stats' = stats
    BY <1>4 DEF StartWorkers, Phases, InRequest, AtWork
  <2> QED BY <1>1, <2>1
<1>5. CASE SeedFrontier \/ SeedSitemapLoc
  <2>1. pc' = pc
    BY <1>5 DEF SeedFrontier, SeedSitemapLoc, workVars
  <2>2. PICK S : Count(S) /\ S \cap {"requests", "ok", "failed"} = {}
    <3>1. \/ Count({"unique"}) \/ Count({"discovered"}) \/ Count({"discovered", "duplicates"})
          \/ Count({"discovered", "unique", "sitemap"})
      BY <1>5 DEF SeedFrontier, SeedSitemapLoc
    <3> QED BY <3>1
  <2>3. \A c \in {"requests", "ok", "failed"} : stats'[c] = stats[c]
    BY <2>2, Counted, CounterNames DEF TypeInv
  <2> QED BY <1>1, <2>1, <2>3 DEF InRequest
<1> QED BY <1>2, <1>3, <1>4, <1>5
     DEF Next, RunStep, Terminated, vars, StopWaiting, JoinWorkers, StartProbe, ProbeEnds,
     Summarize, Drain, Deadline,
         CallerCancels, workVars
-----------------------------------------------------------------------------
(***************************************************************************)
(* Seeding and the probe.                                                  *)
(***************************************************************************)
\* Before anybody pops, the frontier holds the seed and what was injected.
RoomForSeeds ==
  /\ main = "seed" => stats["sitemap"] = 0
  /\ main = "sitemap" => Len(frontier) <= stats["sitemap"] + 1

LEMMA SeedsInit == Init => RoomForSeeds
BY CounterNames DEF Init, RoomForSeeds

LEMMA SeedsStep ==
  ASSUME TypeInv, Phases, RoomForSeeds, [Next]_vars PROVE RoomForSeeds'
<1>1. frontier \in Seq(Item) /\ Len(frontier) \in Nat /\ stats["sitemap"] \in Nat
  BY CounterNames DEF TypeInv, FrontierType, StatsType
<1>2. ASSUME NEW item \in Item, EnqueueBeforeWorkers(item) PROVE Len(frontier') <= Len(frontier) + 1
  BY <1>1, <1>2 DEF EnqueueBeforeWorkers, AddToFrontier
<1>3. CASE SeedFrontier
  <2>1. [url |-> Seed, depth |-> 0] \in Item
    BY SiteAssumption DEF Item
  <2>2. Len(frontier') <= Len(frontier) + 1 /\ Len(frontier) = 0 /\ main = "seed" /\ main' = "sitemap"
    BY <1>1, <1>2, <1>3, <2>1 DEF SeedFrontier, Phases
  <2>3. stats'["sitemap"] = 0
    BY <1>3, <2>2, Counted, CounterNames DEF SeedFrontier, TypeInv, RoomForSeeds
  <2> QED BY <2>2, <2>3 DEF RoomForSeeds
<1>4. CASE SeedSitemapLoc
  <2>1. [url |-> Head(locs), depth |-> 0] \in Item
    BY <1>4 DEF SeedSitemapLoc, TypeInv, RunType, Item
  <2>2. main = "sitemap" /\ main' = "sitemap" /\ Len(frontier) <= stats["sitemap"] + 1
    BY <1>4 DEF SeedSitemapLoc, RoomForSeeds
  <2>3. CASE frontier' = frontier /\ (Count({"discovered"}) \/ Count({"discovered", "duplicates"}))
    <3>1. stats'["sitemap"] = stats["sitemap"]
      BY <2>3, Counted, CounterNames DEF TypeInv
    <3> QED BY <2>2, <2>3, <3>1 DEF RoomForSeeds
  <2>4. CASE EnqueueBeforeWorkers([url |-> Head(locs), depth |-> 0])
               /\ Count({"discovered", "unique", "sitemap"})
    <3>1. stats'["sitemap"] = stats["sitemap"] + 1
      BY <2>4, Counted, CounterNames DEF TypeInv
    <3>2. Len(frontier') <= Len(frontier) + 1 /\ Len(frontier') \in Nat
      BY <1>1, <1>2, <2>1, <2>4 DEF EnqueueBeforeWorkers, AddToFrontier
    <3> QED BY <1>1, <2>2, <3>1, <3>2 DEF RoomForSeeds
  <2> QED BY <1>4, <2>3, <2>4 DEF SeedSitemapLoc
<1>5. ASSUME main' \notin {"seed", "sitemap"} PROVE RoomForSeeds'
  BY <1>5 DEF RoomForSeeds
<1>6. ASSUME NEW w \in Worker, WorkerStep(w) PROVE main' \notin {"seed", "sitemap"}
  BY <1>6, IdleWorkers, RunFrame DEF Phases
<1>7. CASE UNCHANGED <<main, stats, frontier>>
  BY <1>7 DEF RoomForSeeds
<1> QED BY <1>3, <1>4, <1>5, <1>6, <1>7
     DEF Next, RunStep, Terminated, vars, StartWorkers, StopWaiting, JoinWorkers, StartProbe,
     ProbeEnds, Summarize, Drain,
         Deadline, CallerCancels, runVars

\* What Run says at the end: the probe's endpoints are those it reported, and the
\* summary is the counters, which nobody changes any more.
ProbeTold == IF openapi = <<>> THEN 0 ELSE openapi[1].endpoints
Epilogue ==
  /\ main \notin {"summary", "done"} => openapi = <<>>
  /\ endpoints = ProbeTold
  /\ main # "done" => summary = <<>>
  /\ main = "done" =>
       summary = <<[counters |-> stats, endpoints |-> endpoints, partial |-> partial]>>

LEMMA EpilogueStep ==
  ASSUME TypeInv, Phases, Epilogue, [Next]_vars PROVE Epilogue'
<1> USE DEF Epilogue, ProbeTold
<1>1. CASE ProbeEnds
  <2>1. openapi = <<>> /\ endpoints = 0 /\ summary' = <<>> /\ main' = "summary"
    BY <1>1 DEF ProbeEnds
  <2>2. ASSUME NEW kind, NEW n \in Nat, Reported(kind, n), endpoints' = endpoints + n
        PROVE  openapi' # <<>> /\ openapi'[1].endpoints = endpoints'
    BY <2>1, <2>2 DEF Reported
  <2>3. CASE UNCHANGED <<openapi, endpoints>>
    BY <2>1, <2>3
  <2>4. CASE Reported("error", 0) /\ UNCHANGED endpoints
    BY <2>1, <2>2, <2>4
  <2>5. CASE \E n \in SpecSizes : Reported("openapi", n) /\ endpoints' = endpoints + n
    BY <2>1, <2>2, <2>5, OptionsAssumption
  <2> QED BY <1>1, <2>3, <2>4, <2>5 DEF ProbeEnds
<1>2. CASE Summarize
  BY <1>2 DEF Summarize
<1>3. ASSUME main # "done", main' # "done", UNCHANGED probeVars,
             main' \notin {"summary", "done"} => main \notin {"summary", "done"}
      PROVE  Epilogue'
  BY <1>3 DEF probeVars
<1>4. ASSUME NEW w \in Worker, WorkerStep(w) PROVE Epilogue'
  <2>1. main # "done"
    BY <1>4, IdleWorkers DEF Phases
  <2> QED BY <1>3, <1>4, <2>1, RunFrame
<1>5. CASE SeedFrontier \/ SeedSitemapLoc \/ StartWorkers \/ StopWaiting \/ JoinWorkers \/ StartProbe
  BY <1>3, <1>5 DEF SeedFrontier, SeedSitemapLoc, StartWorkers, StopWaiting, JoinWorkers, StartProbe
<1>6. CASE Drain \/ Deadline \/ CallerCancels \/ UNCHANGED vars
  BY <1>6 DEF Drain, Deadline, CallerCancels, vars, runVars, probeVars
<1> QED BY <1>1, <1>2, <1>4, <1>5, <1>6 DEF Next, RunStep, Terminated
-----------------------------------------------------------------------------
(***************************************************************************)
(* The page budget.  Every attempt at a page is counted, and the pages     *)
(* written together with those still being expanded are as many as were    *)
(* counted, up to the budget.                                              *)
(***************************************************************************)
AtPage == {"expand", "push"}
Expanding == {w \in Worker : pc[w] \in AtPage}
Admitted == IF stats["inBudget"] <= MaxPages THEN stats["inBudget"] ELSE MaxPages
Budgeted ==
  /\ IsFiniteSet(Pages)
  /\ MaxPages > 0 => Cardinality(Pages) + Cardinality(Expanding) = Admitted
  /\ cause = "budget" => MaxPages > 0 /\ stats["inBudget"] >= MaxPages

LEMMA BudgetInit == Init => Budgeted
<1> SUFFICES ASSUME Init PROVE Budgeted
  OBVIOUS
<1>1. Pages = {} /\ Expanding = {}
  BY DEF Init, Pages, Expanding, AtPage
<1>2. stats["inBudget"] = 0 /\ cause = "none" /\ MaxPages \in Nat
  BY CounterNames, OptionsAssumption DEF Init
<1> QED BY <1>1, <1>2, FS_EmptySet DEF Budgeted, Admitted

\* A first record decides whether the URL is a page.
LEMMA PagesMove ==
  ASSUME TypeInv, NEW w \in Worker, records[cur[w].url] = <<>>, NEW kind \in {"page", "error"},
         Write(w, kind)
  PROVE  IF kind = "page" THEN cur[w].url \notin Pages /\ Pages' = Pages \cup {cur[w].url}
                          ELSE Pages' = Pages
<1> DEFINE u == cur[w].url
           r == [kind |-> kind, depth |-> cur[w].depth]
<1>1. u \in URL /\ records \in [URL -> Seq(Record)]
  BY DEF TypeInv, ItemType, Item, RecordType
<1>2. records'[u] = <<r>> /\ \A v \in URL \ {u} : records'[v] = records[v]
  BY <1>1 DEF Write
<1>3. u \notin Pages
  BY DEF Pages
<1>4. u \in Pages' <=> kind = "page"
  <2>1. DOMAIN records'[u] = {1} /\ records'[u][1].kind = kind
    BY <1>2
  <2> QED BY <1>1, <2>1 DEF Pages
<1>5. \A v \in URL \ {u} : v \in Pages' <=> v \in Pages
  BY <1>2 DEF Pages
<1>6. Pages \subseteq URL /\ Pages' \subseteq URL
  BY DEF Pages
<1>7. CASE kind = "page"
  BY <1>3, <1>4, <1>5, <1>6, <1>7
<1>8. CASE kind # "page"
  BY <1>3, <1>4, <1>5, <1>6, <1>8
<1> QED BY <1>7, <1>8

\* A worker that writes has nothing written about its item yet.
LEMMA FirstRecord ==
  ASSUME OnePlace, NEW w \in Worker, RobotsDisallow(w) \/ FetchFailed(w) \/ WritePage(w)
  PROVE  records[cur[w].url] = <<>>
<1>1. w \in Active
  BY DEF RobotsDisallow, FetchFailed, ReleaseOnFailure, AttemptFails, WritePage, Active, Busy
<1> QED BY <1>1 DEF OnePlace, ActiveUnrecorded

LEMMA BudgetWorkerStep ==
  ASSUME TypeInv, OnePlace, Budgeted, NEW w \in Worker, WorkerStep(w)
  PROVE  Budgeted'
<1> DEFINE n == Cardinality(Expanding)
           m == Cardinality(Expanding')
           k == stats["inBudget"]
<1>1. n \in Nat /\ m \in Nat /\ k \in Nat /\ MaxPages \in Nat
  BY SubsetsOfWorker, OptionsAssumption, CounterNames DEF Expanding, TypeInv, StatsType
<1>2. /\ pc[w] \notin AtPage /\ pc'[w] \in AtPage => m = n + 1
      /\ pc[w] \in AtPage /\ pc'[w] \notin AtPage => m = n - 1
      /\ (pc[w] \in AtPage <=> pc'[w] \in AtPage) => m = n
  BY PlaceMoves DEF TypeInv, Expanding
<1>3. IsFiniteSet(Pages) /\ Cardinality(Pages) \in Nat
  BY FS_CardinalityType DEF Budgeted
<1>4. CASE AdmitPage(w)
  <2>1. Pages' = Pages
    BY <1>4 DEF AdmitPage, Pages
  <2>2. pc[w] \notin AtPage
    BY <1>4 DEF AdmitPage, AtPage
  <2>3. MaxPages > 0 => k' = k + 1
    BY <1>1, <1>4, Counted, CounterNames DEF AdmitPage, TypeInv
  <2>4. CASE WithinBudget /\ Goto(w, "expand") /\ cause' = cause
    <3>1. m = n + 1
      BY <1>2, <2>2, <2>4 DEF Goto, AtPage, TypeInv, PositionType
    <3>2. MaxPages > 0 => k + 1 <= MaxPages
      BY <1>1, <2>4 DEF WithinBudget
    <3>3. MaxPages > 0 => Admitted' = Admitted + 1
      BY <1>1, <2>3, <3>2 DEF Admitted
    <3>4. cause # "budget"
      BY <1>1, <3>2 DEF Budgeted
    <3> HIDE DEF n, m, k
    <3>5. MaxPages > 0 => Cardinality(Pages) + m = Admitted'
      BY <1>1, <1>3, <3>1, <3>3 DEF Budgeted, n
    <3> QED BY <1>3, <2>1, <2>4, <3>4, <3>5 DEF Budgeted, m
  <2>5. CASE ~WithinBudget /\ Goto(w, "done")
    <3>1. m = n
      BY <1>2, <2>2, <2>5 DEF Goto, AtPage, TypeInv, PositionType
    <3>2. MaxPages > 0 /\ k >= MaxPages /\ k' >= MaxPages
      BY <1>1, <2>3, <2>5 DEF WithinBudget
    <3>3. Admitted' = Admitted
      BY <1>1, <2>3, <3>2 DEF Admitted
    <3> QED BY <1>3, <2>1, <3>1, <3>2, <3>3 DEF Budgeted
  <2> QED BY <1>4, <2>4, <2>5 DEF AdmitPage
<1>5. ASSUME ~AdmitPage(w) PROVE k' = k /\ Admitted' = Admitted /\ cause' = cause
  <2>1. k' = k
    BY <1>5, WorkerCounts, Counted, CounterNames DEF TypeInv
  <2>2. cause' = cause
    BY <1>5 DEF WorkerStep, Pop, PopCancelled, RobotsDisallow, RobotsAllow, AcquireHost,
         AcquireCancelled, Backoff, Retry, FetchFailed, FetchOK, Discover, Push, PushCancelled,
         WritePage, ItemDone, ctxVars
  <2> QED BY <2>1, <2>2 DEF Admitted
<1>6. CASE WritePage(w)
  <2> DEFINE u == cur[w].url
  <2>1. ~AdmitPage(w) /\ m = n - 1
    BY <1>2, <1>6 DEF WritePage, AdmitPage, Goto, AtPage, TypeInv, PositionType
  <2>2. u \notin Pages /\ Pages' = Pages \cup {u}
    BY <1>6, FirstRecord, PagesMove DEF WritePage
  <2> HIDE DEF u
  <2>3. IsFiniteSet(Pages') /\ Cardinality(Pages') = Cardinality(Pages) + 1
    BY <1>3, <2>2, FS_AddElement
  <2>4. k' = k /\ Admitted' = Admitted /\ cause' = cause
    BY <1>5, <2>1
  <2> HIDE DEF n, m
  <2>5. MaxPages > 0 => Cardinality(Pages') + m = Admitted'
    BY <1>1, <1>3, <2>1, <2>3, <2>4 DEF Budgeted, n
  <2> QED BY <2>3, <2>4, <2>5 DEF Budgeted, m
<1>7. CASE ~AdmitPage(w) /\ ~WritePage(w)
  <2>1. m = n
    <3>1. pc[w] \in AtPage <=> pc'[w] \in AtPage
      BY <1>7 DEF WorkerStep, Pop, PopCancelled, RobotsDisallow, RobotsAllow, AcquireHost,
           AcquireCancelled, Backoff, AttemptFails, Retry, FetchFailed, ReleaseOnFailure, FetchOK,
           Discover, Push, PushCancelled, ItemDone, StartAttempt, Goto, AtPage, TypeInv, PositionType
    <3> QED BY <1>2, <3>1
  <2>2. Pages' = Pages
    <3>1. CASE UNCHANGED records
      BY <3>1 DEF Pages
    <3>2. CASE RobotsDisallow(w) \/ FetchFailed(w)
      BY <3>2, FirstRecord, PagesMove DEF RobotsDisallow, FetchFailed
    <3> QED BY <1>7, <3>1, <3>2
         DEF WorkerStep, Pop, PopCancelled, RobotsAllow, AcquireHost, AcquireCancelled, Backoff,
             Retry, FetchOK, Discover, Push, PushCancelled, ItemDone
  <2>3. k' = k /\ Admitted' = Admitted /\ cause' = cause
    BY <1>5, <1>7
  <2> QED BY <1>3, <2>1, <2>2, <2>3 DEF Budgeted
<1> QED BY <1>4, <1>6, <1>7

LEMMA BudgetStep ==
  ASSUME TypeInv, Phases, OnePlace, Budgeted, [Next]_vars PROVE Budgeted'
<1>1. ASSUME Expanding' = Expanding, UNCHANGED records, stats'["inBudget"] = stats["inBudget"],
             cause' = "budget" => cause = "budget"
      PROVE  Budgeted'
  BY <1>1 DEF Budgeted, Pages, Admitted
<1>2. CASE SeedFrontier \/ SeedSitemapLoc
  <2>1. stats'["inBudget"] = stats["inBudget"]
    BY <1>2, SeedingCounts
  <2> QED BY <1>1, <1>2, <2>1 DEF SeedFrontier, SeedSitemapLoc, Expanding, ctxVars, workVars
<1>3. CASE StartWorkers
  BY <1>1, <1>3 DEF StartWorkers, Phases, Expanding, AtPage, ctxVars
<1>4. CASE StopWaiting \/ JoinWorkers \/ StartProbe \/ ProbeEnds \/ Summarize \/ Drain
             \/ Deadline \/ CallerCancels
  BY <1>1, <1>4 DEF StopWaiting, JoinWorkers, StartProbe, ProbeEnds, Summarize, Drain, Deadline,
       CallerCancels, CancelBy,
                    Expanding, ctxVars, runVars, workVars
<1>5. CASE UNCHANGED vars
  BY <1>1, <1>5 DEF vars, Expanding
<1> QED BY <1>2, <1>3, <1>4, <1>5, BudgetWorkerStep DEF Next, RunStep, Terminated
-----------------------------------------------------------------------------
(***************************************************************************)
(* Outcomes.  A request that failed and an item robots.txt refused has its *)
(* error record; one that succeeded is before the budget check or past it, *)
(* and without a budget it is a page or about to be one.                   *)
(***************************************************************************)
Admitting == {w \in Worker : pc[w] \in {"admit"}}
FailuresWritten ==
  IsFiniteSet(Failures) /\ Cardinality(Failures) = stats["failed"] + stats["robots"]
PagesWritten ==
  IF MaxPages = 0 THEN stats["ok"] = Cardinality(Pages) + Cardinality(Admitting) + Cardinality(Expanding)
                  ELSE stats["ok"] = stats["inBudget"] + Cardinality(Admitting)
OutcomesWritten == FailuresWritten /\ PagesWritten

LEMMA OutcomesWrittenInit == Init => OutcomesWritten
<1> SUFFICES ASSUME Init PROVE OutcomesWritten
  OBVIOUS
<1>1. Pages = {} /\ Failures = {} /\ Admitting = {} /\ Expanding = {}
  BY DEF Init, Pages, Failures, Admitting, Expanding, AtPage
<1>2. stats["ok"] = 0 /\ stats["failed"] = 0 /\ stats["robots"] = 0 /\ stats["inBudget"] = 0
  BY CounterNames DEF Init
<1>3. Cardinality({}) = 0 /\ IsFiniteSet({})
  BY FS_EmptySet
<1> QED BY <1>1, <1>2, <1>3 DEF OutcomesWritten, FailuresWritten, PagesWritten

\* A first record decides whether the URL is a failure.
LEMMA FailuresMove ==
  ASSUME TypeInv, NEW w \in Worker, records[cur[w].url] = <<>>, NEW kind \in {"page", "error"},
         Write(w, kind)
  PROVE  IF kind = "error" THEN cur[w].url \notin Failures /\ Failures' = Failures \cup {cur[w].url}
                           ELSE Failures' = Failures
<1> DEFINE u == cur[w].url
           r == [kind |-> kind, depth |-> cur[w].depth]
<1>1. u \in URL /\ records \in [URL -> Seq(Record)]
  BY DEF TypeInv, ItemType, Item, RecordType
<1>2. records'[u] = <<r>> /\ \A v \in URL \ {u} : records'[v] = records[v]
  BY <1>1 DEF Write
<1>3. u \notin Failures
  BY DEF Failures
<1>4. u \in Failures' <=> kind = "error"
  <2>1. DOMAIN records'[u] = {1} /\ records'[u][1].kind = kind
    BY <1>2
  <2> QED BY <1>1, <2>1 DEF Failures
<1>5. \A v \in URL \ {u} : v \in Failures' <=> v \in Failures
  BY <1>2 DEF Failures
<1>6. Failures \subseteq URL /\ Failures' \subseteq URL
  BY DEF Failures
<1>7. CASE kind = "error"
  BY <1>3, <1>4, <1>5, <1>6, <1>7
<1>8. CASE kind # "error"
  BY <1>3, <1>4, <1>5, <1>6, <1>8
<1> QED BY <1>7, <1>8

LEMMA FailuresWorkerStep ==
  ASSUME TypeInv, OnePlace, FailuresWritten, NEW w \in Worker, WorkerStep(w)
  PROVE  FailuresWritten'
<1> DEFINE n == Cardinality(Failures)
           f == stats["failed"]
           b == stats["robots"]
<1>1. f \in Nat /\ b \in Nat /\ n \in Nat /\ n = f + b /\ IsFiniteSet(Failures)
  BY CounterNames, FS_CardinalityType DEF TypeInv, StatsType, FailuresWritten
<1>2. CASE RobotsDisallow(w) \/ FetchFailed(w)
  <2> DEFINE u == cur[w].url
  <2>1. u \notin Failures /\ Failures' = Failures \cup {u}
    BY <1>2, FirstRecord, FailuresMove DEF RobotsDisallow, FetchFailed
  <2> HIDE DEF u
  <2>2. IsFiniteSet(Failures') /\ n' = n + 1
    BY <1>1, <2>1, FS_AddElement
  <2>3. (f' = f + 1 /\ b' = b) \/ (f' = f /\ b' = b + 1)
    BY <1>2, Counted, CounterNames DEF RobotsDisallow, FetchFailed, TypeInv
  <2> HIDE DEF n, f, b
  <2>4. n' = f' + b'
    BY <1>1, <2>2, <2>3
  <2> QED BY <2>2, <2>4 DEF FailuresWritten, n, f, b
<1>3. CASE ~RobotsDisallow(w) /\ ~FetchFailed(w)
  <2>1. Failures' = Failures
    <3>1. CASE UNCHANGED records
      BY <3>1 DEF Failures
    <3>2. CASE WritePage(w)
      BY <3>2, FirstRecord, FailuresMove DEF WritePage
    <3> QED BY <1>3, <3>1, <3>2
         DEF WorkerStep, Pop, PopCancelled, RobotsAllow, AcquireHost, AcquireCancelled, Backoff,
             Retry, FetchOK, AdmitPage, Discover, Push, PushCancelled, ItemDone
  <2>2. f' = f /\ b' = b
    BY <1>3, WorkerCounts, Counted, CounterNames DEF TypeInv
  <2> QED BY <1>1, <2>1, <2>2 DEF FailuresWritten
<1> QED BY <1>2, <1>3

LEMMA PagesWorkerStep ==
  ASSUME TypeInv, OnePlace, Budgeted, PagesWritten, NEW w \in Worker, WorkerStep(w)
  PROVE  PagesWritten'
<1> DEFINE p == Cardinality(Pages)
           a == Cardinality(Admitting)
           e == Cardinality(Expanding)
           g == stats["ok"]
           k == stats["inBudget"]
           Related(g1, p1, a1, e1, k1) == IF MaxPages = 0 THEN g1 = p1 + a1 + e1 ELSE g1 = k1 + a1
<1>1. p \in Nat /\ a \in Nat /\ e \in Nat /\ g \in Nat /\ k \in Nat /\ Related(g, p, a, e, k)
  BY SubsetsOfWorker, CounterNames, FS_CardinalityType
     DEF Admitting, Expanding, TypeInv, StatsType, Budgeted, PagesWritten
<1>2. /\ pc[w] \notin {"admit"} /\ pc'[w] \in {"admit"} => a' = a + 1
      /\ pc[w] \in {"admit"} /\ pc'[w] \notin {"admit"} => a' = a - 1
      /\ (pc[w] \in {"admit"} <=> pc'[w] \in {"admit"}) => a' = a
  BY PlaceMoves DEF TypeInv, Admitting
<1>3. /\ pc[w] \notin AtPage /\ pc'[w] \in AtPage => e' = e + 1
      /\ pc[w] \in AtPage /\ pc'[w] \notin AtPage => e' = e - 1
      /\ (pc[w] \in AtPage <=> pc'[w] \in AtPage) => e' = e
  BY PlaceMoves DEF TypeInv, Expanding
<1>4. ASSUME Related(g', p', a', e', k') PROVE PagesWritten'
  BY <1>4 DEF PagesWritten
<1>5. ASSUME ~WritePage(w) PROVE p' = p
  <2>1. Pages' = Pages
    <3>1. CASE UNCHANGED records
      BY <3>1 DEF Pages
    <3>2. CASE RobotsDisallow(w) \/ FetchFailed(w)
      BY <3>2, FirstRecord, PagesMove DEF RobotsDisallow, FetchFailed
    <3> QED BY <1>5, <3>1, <3>2
         DEF WorkerStep, Pop, PopCancelled, RobotsAllow, AcquireHost, AcquireCancelled, Backoff,
             Retry, FetchOK, AdmitPage, Discover, Push, PushCancelled, ItemDone
  <2> QED BY <2>1
<1>6. CASE FetchOK(w)
  <2>1. a' = a + 1 /\ e' = e
    BY <1>2, <1>3, <1>6 DEF FetchOK, Goto, AtPage, TypeInv, PositionType
  <2>2. g' = g + 1 /\ k' = k
    BY <1>6, Counted, CounterNames DEF FetchOK, TypeInv
  <2>3. p' = p
    BY <1>5, <1>6 DEF FetchOK, WritePage
  <2> HIDE DEF p, a, e, g, k
  <2>4. Related(g', p', a', e', k')
    BY <1>1, <2>1, <2>2, <2>3
  <2> QED BY <1>4, <2>4
<1>7. CASE AdmitPage(w)
  <2>1. p' = p
    BY <1>5, <1>7 DEF AdmitPage, WritePage
  <2>2. a' = a - 1
    BY <1>2, <1>7 DEF AdmitPage, Goto, TypeInv, PositionType
  <2>3. CASE MaxPages = 0
    <3>1. WithinBudget
      BY <2>3 DEF WithinBudget
    <3>2. e' = e + 1
      BY <1>3, <1>7, <3>1 DEF AdmitPage, Goto, AtPage, TypeInv, PositionType
    <3>3. g' = g
      BY <1>7, <2>3, Counted, CounterNames DEF AdmitPage, TypeInv
    <3> HIDE DEF p, a, e, g, k
    <3>4. Related(g', p', a', e', k')
      BY <1>1, <2>1, <2>2, <2>3, <3>2, <3>3
    <3> QED BY <1>4, <3>4
  <2>4. CASE MaxPages # 0
    <3>1. g' = g /\ k' = k + 1
      BY <1>7, <2>4, Counted, CounterNames DEF AdmitPage, TypeInv
    <3> HIDE DEF p, a, e, g, k
    <3>2. Related(g', p', a', e', k')
      BY <1>1, <2>2, <2>4, <3>1
    <3> QED BY <1>4, <3>2
  <2> QED BY <2>3, <2>4
<1>8. CASE WritePage(w)
  <2> DEFINE u == cur[w].url
  <2>1. u \notin Pages /\ Pages' = Pages \cup {u}
    BY <1>8, FirstRecord, PagesMove DEF WritePage
  <2>2. p' = p + 1
    <3> HIDE DEF u
    <3> QED BY <2>1, FS_AddElement DEF Budgeted
  <2>3. a' = a /\ e' = e - 1
    BY <1>2, <1>3, <1>8 DEF WritePage, Goto, AtPage, TypeInv, PositionType
  <2>4. g' = g /\ k' = k
    BY <1>8 DEF WritePage
  <2> HIDE DEF p, a, e, g, k
  <2>5. Related(g', p', a', e', k')
    BY <1>1, <2>2, <2>3, <2>4
  <2> QED BY <1>4, <2>5
<1>9. CASE ~FetchOK(w) /\ ~AdmitPage(w) /\ ~WritePage(w)
  <2>1. (pc[w] \in AtPage <=> pc'[w] \in AtPage) /\ (pc[w] \in {"admit"} <=> pc'[w] \in {"admit"})
    BY <1>9 DEF WorkerStep, Pop, PopCancelled, RobotsDisallow, RobotsAllow, AcquireHost,
         AcquireCancelled, Backoff, AttemptFails, Retry, FetchFailed, ReleaseOnFailure, Discover,
         Push, PushCancelled, ItemDone, StartAttempt, Goto, AtPage, TypeInv, PositionType
  <2>2. a' = a /\ e' = e
    BY <1>2, <1>3, <2>1
  <2>3. g' = g /\ k' = k
    BY <1>9, WorkerCounts, Counted, CounterNames DEF TypeInv
  <2>4. p' = p
    BY <1>5, <1>9
  <2> HIDE DEF p, a, e, g, k
  <2>5. Related(g', p', a', e', k')
    BY <1>1, <2>2, <2>3, <2>4
  <2> QED BY <1>4, <2>5
<1> QED BY <1>6, <1>7, <1>8, <1>9

LEMMA OutcomesWrittenStep ==
  ASSUME TypeInv, Phases, OnePlace, Budgeted, OutcomesWritten, [Next]_vars PROVE OutcomesWritten'
<1>1. ASSUME Expanding' = Expanding, Admitting' = Admitting, UNCHANGED records,
             \A c \in {"ok", "failed", "robots", "inBudget"} : stats'[c] = stats[c]
      PROVE  OutcomesWritten'
  BY <1>1 DEF OutcomesWritten, FailuresWritten, PagesWritten, Pages, Failures
<1>2. CASE SeedFrontier \/ SeedSitemapLoc
  <2>1. \A c \in {"ok", "failed", "robots", "inBudget"} : stats'[c] = stats[c]
    BY <1>2, SeedingCounts
  <2> QED BY <1>1, <1>2, <2>1 DEF SeedFrontier, SeedSitemapLoc, Expanding, Admitting, workVars
<1>3. CASE StartWorkers
  BY <1>1, <1>3 DEF StartWorkers, Phases, Expanding, AtPage, Admitting
<1>4. CASE UNCHANGED <<pc, records, stats>>
  BY <1>1, <1>4 DEF Expanding, Admitting
<1>5. ASSUME NEW w \in Worker, WorkerStep(w) PROVE OutcomesWritten'
  BY <1>5, FailuresWorkerStep, PagesWorkerStep DEF OutcomesWritten
<1> QED BY <1>2, <1>3, <1>4, <1>5
     DEF Next, RunStep, Terminated, StopWaiting, JoinWorkers, StartProbe, ProbeEnds, Summarize, Drain,
         Deadline, CallerCancels, vars, workVars
-----------------------------------------------------------------------------
(***************************************************************************)
(* Links.  Whatever stops the crawl, a page above the depth limit has had  *)
(* each of its links claimed by the time it is written.                    *)
(***************************************************************************)
Ran(s) == {s[k] : k \in DOMAIN s}
\* The links of u are out of scope, among the claimed ones, or still to come.
Covered(u, claimed, left) ==
  \A i \in DOMAIN Links[u] : Links[u][i] \in InScope => Links[u][i] \in claimed \cup Ran(left)
PageLinksClaimed ==
  \A p \in Pages : records[p][1].depth < MaxDepth => Covered(p, seen, <<>>)
OpenLinksClaimed ==
  \A w \in Expanding : cur[w].depth < MaxDepth => Covered(cur[w].url, seen, todo[w])
LinksClaimed == PageLinksClaimed /\ OpenLinksClaimed

LEMMA EmptyRan == Ran(<<>>) = {}
BY DEF Ran

LEMMA RanHeadTail ==
  ASSUME NEW S, NEW s \in Seq(S), s # <<>>
  PROVE  Ran(s) \subseteq Ran(Tail(s)) \cup {Head(s)}
<1>1. /\ Len(s) \in Nat /\ Len(s) > 0 /\ DOMAIN s = 1..Len(s) /\ Head(s) = s[1]
      /\ DOMAIN Tail(s) = 1..(Len(s) - 1) /\ \A j \in 1..(Len(s) - 1) : Tail(s)[j] = s[j+1]
  OBVIOUS
<1>2. ASSUME NEW k \in 1..Len(s), k # 1 PROVE s[k] \in Ran(Tail(s))
  <2>1. k - 1 \in 1..(Len(s) - 1) /\ (k - 1) + 1 = k
    BY <1>1, <1>2
  <2>2. Tail(s)[k - 1] = s[k]
    BY <1>1, <2>1
  <2> QED BY <1>1, <2>1, <2>2 DEF Ran
<1> QED BY <1>1, <1>2 DEF Ran

LEMMA TailRan == ASSUME NEW S, NEW s \in Seq(S), s # <<>>
                 PROVE  Ran(Tail(s)) \subseteq Ran(s) /\ Head(s) \in Ran(s)
<1>1. /\ Len(s) \in Nat /\ Len(s) > 0 /\ DOMAIN s = 1..Len(s) /\ Head(s) = s[1]
      /\ DOMAIN Tail(s) = 1..(Len(s) - 1) /\ \A j \in 1..(Len(s) - 1) : Tail(s)[j] = s[j+1]
  OBVIOUS
<1>2. \A j \in 1..(Len(s) - 1) : j + 1 \in 1..Len(s)
  BY <1>1
<1> QED BY <1>1, <1>2 DEF Ran

\* Links stay covered while URLs are claimed and links that are claimed, or out
\* of scope, are taken off the list.
LEMMA StaysCovered ==
  ASSUME NEW u, NEW S, NEW T, NEW l, NEW m, S \subseteq T, Covered(u, S, l),
         \A x \in Ran(l) : x \in InScope => x \in T \cup Ran(m)
  PROVE  Covered(u, T, m)
BY DEF Covered

\* What a worker's step leaves to the others.
LEMMA OthersStay ==
  ASSUME TypeInv, NEW w \in Worker, WorkerStep(w), NEW v \in Worker \ {w}
  PROVE  pc'[v] = pc[v] /\ cur'[v] = cur[v] /\ todo'[v] = todo[v]
<1>1. pc'[v] = pc[v]
  BY WorkerFrame DEF TypeInv, PositionType
<1>2. cur'[v] = cur[v] /\ todo'[v] = todo[v]
  BY DEF TypeInv, ItemType, TodoType, WorkerStep, Pop, Push, PopCancelled, RobotsDisallow, RobotsAllow,
     AcquireHost, AcquireCancelled, Backoff, Retry, FetchFailed, FetchOK, AdmitPage, Discover,
     PushCancelled, WritePage, ItemDone
<1> QED BY <1>1, <1>2

LEMMA SeenGrows == ASSUME [Next]_vars PROVE seen \subseteq seen'
BY SeenFrame DEF SeedFrontier, SeedSitemapLoc, Discover, MarkSeen

\* A page that was written stays as it is.
LEMMA PagesStay ==
  ASSUME TypeInv, OnePlace, NEW w \in Worker, WorkerStep(w), ~WritePage(w)
  PROVE  Pages' = Pages /\ \A p \in Pages : records'[p] = records[p]
<1>1. CASE UNCHANGED records
  BY <1>1 DEF Pages
<1>2. CASE RobotsDisallow(w) \/ FetchFailed(w)
  <2>1. records[cur[w].url] = <<>> /\ Write(w, "error")
    BY <1>2, FirstRecord DEF RobotsDisallow, FetchFailed
  <2>2. Pages' = Pages
    BY <2>1, PagesMove
  <2>3. \A p \in Pages : p \in URL /\ p # cur[w].url
    BY <2>1 DEF Pages
  <2>4. \A p \in URL : p # cur[w].url => records'[p] = records[p]
    BY <2>1 DEF Write, TypeInv, RecordType
  <2> QED BY <2>2, <2>3, <2>4
<1> QED BY <1>1, <1>2
     DEF WorkerStep, Pop, PopCancelled, RobotsAllow, AcquireHost, AcquireCancelled, Backoff, Retry,
         FetchOK, AdmitPage, Discover, Push, PushCancelled, ItemDone

\* A step covers the links of every page being expanded if it does so for the
\* worker that takes it.
LEMMA OpenLinks ==
  ASSUME TypeInv, LinksClaimed, NEW w \in Worker, WorkerStep(w), seen \subseteq seen',
         w \in Expanding' /\ cur'[w].depth < MaxDepth => Covered(cur'[w].url, seen', todo'[w])
  PROVE  OpenLinksClaimed'
<1> SUFFICES ASSUME NEW v \in Expanding', cur'[v].depth < MaxDepth
             PROVE  Covered(cur'[v].url, seen', todo'[v])
  BY DEF OpenLinksClaimed, Covered
<1>1. CASE v = w
  BY <1>1
<1>2. CASE v # w
  <2>1. v \in Worker /\ v \in Expanding /\ cur'[v] = cur[v] /\ todo'[v] = todo[v]
    BY <1>2, OthersStay DEF Expanding
  <2>2. Covered(cur[v].url, seen, todo[v])
    BY <2>1 DEF LinksClaimed, OpenLinksClaimed
  <2>3. \A x \in Ran(todo[v]) : x \in seen' \cup Ran(todo[v])
    OBVIOUS
  <2>4. Covered(cur[v].url, seen', todo[v])
    BY <2>2, StaysCovered
  <2> QED BY <2>1, <2>4
<1> QED BY <1>1, <1>2

LEMMA PageLinks ==
  ASSUME TypeInv, OnePlace, LinksClaimed, NEW w \in Worker, WorkerStep(w), ~WritePage(w),
         seen \subseteq seen'
  PROVE  PageLinksClaimed'
<1> SUFFICES ASSUME NEW p \in Pages', records'[p][1].depth < MaxDepth
             PROVE  Covered(p, seen', <<>>)
  BY DEF PageLinksClaimed, Covered
<1>1. p \in Pages /\ records'[p] = records[p]
  BY PagesStay
<1>2. Covered(p, seen, <<>>)
  BY <1>1 DEF LinksClaimed, PageLinksClaimed
<1> QED BY <1>2, StaysCovered

LEMMA LinksWorkerStep ==
  ASSUME TypeInv, OnePlace, LinksClaimed, NEW w \in Worker, WorkerStep(w), seen \subseteq seen'
  PROVE  LinksClaimed'
<1>1. todo[w] \in Seq(URL) /\ cur[w].url \in URL /\ cur[w].depth \in Nat /\ MaxDepth \in Nat
  BY OptionsAssumption DEF TypeInv, TodoType, ItemType, Item
<1>2. ASSUME ~WritePage(w),
             w \in Expanding' /\ cur'[w].depth < MaxDepth => Covered(cur'[w].url, seen', todo'[w])
      PROVE  LinksClaimed'
  BY <1>2, OpenLinks, PageLinks DEF LinksClaimed
<1>3. ASSUME w \in Expanding, cur[w].depth < MaxDepth PROVE Covered(cur[w].url, seen, todo[w])
  BY <1>3 DEF LinksClaimed, OpenLinksClaimed
\* The head of the list is done with.
<1>4. ASSUME w \in Expanding, todo[w] # <<>>, cur' = cur, todo' = [todo EXCEPT ![w] = Tail(@)],
             cur[w].depth < MaxDepth /\ Head(todo[w]) \in InScope => Head(todo[w]) \in seen',
             ~WritePage(w)
      PROVE  LinksClaimed'
  <2>1. todo'[w] = Tail(todo[w])
    BY <1>4 DEF TypeInv, TodoType
  <2>2. Ran(todo[w]) \subseteq Ran(Tail(todo[w])) \cup {Head(todo[w])}
    BY <1>1, <1>4, RanHeadTail
  <2>3. ASSUME cur[w].depth < MaxDepth PROVE Covered(cur[w].url, seen', Tail(todo[w]))
    <3>1. Covered(cur[w].url, seen, todo[w])
      BY <1>3, <1>4, <2>3
    <3>2. \A x \in Ran(todo[w]) : x \in InScope => x \in seen' \cup Ran(Tail(todo[w]))
      BY <1>4, <2>2, <2>3
    <3> QED BY <3>1, <3>2, StaysCovered
  <2> QED BY <1>2, <1>4, <2>1, <2>3
<1>5. CASE AdmitPage(w)
  <2>1. w \in Expanding' => cur' = cur /\ todo'[w] = Links[cur[w].url]
    BY <1>5 DEF AdmitPage, Expanding, AtPage, Goto, TypeInv, PositionType, TodoType
  <2>2. Covered(cur[w].url, seen', Links[cur[w].url])
    BY DEF Covered, Ran
  <2>3. ~WritePage(w)
    BY <1>5 DEF AdmitPage, WritePage
  <2> QED BY <1>2, <2>1, <2>2, <2>3
<1>6. CASE Discover(w)
  <2>1. w \in Expanding /\ todo[w] # <<>> /\ cur' = cur /\ ~WritePage(w)
    BY <1>6 DEF Discover, WritePage, Expanding, AtPage
  <2>2. CASE todo' = todo
    <3>1. ASSUME cur[w].depth < MaxDepth PROVE Covered(cur[w].url, seen', todo[w])
      <4>1. Covered(cur[w].url, seen, todo[w])
        BY <1>3, <2>1, <3>1
      <4> QED BY <4>1, StaysCovered
    <3> QED BY <1>2, <2>1, <2>2, <3>1
  <2>3. CASE todo' # todo
    <3>1. todo' = [todo EXCEPT ![w] = Tail(@)]
      BY <1>6, <2>3 DEF Discover
    <3>2. cur[w].depth < MaxDepth /\ Head(todo[w]) \in InScope => Head(todo[w]) \in seen'
      BY <1>1, <1>6, <2>3 DEF Discover
    <3> QED BY <1>4, <2>1, <3>1, <3>2
  <2> QED BY <2>2, <2>3
<1>7. CASE Push(w) \/ PushCancelled(w)
  <2>1. w \in Expanding /\ w \in Pushing /\ cur' = cur /\ ~WritePage(w)
          /\ todo' = [todo EXCEPT ![w] = Tail(@)]
    BY <1>7 DEF Push, PushCancelled, WritePage, Expanding, Pushing, AtPage
  <2>2. todo[w] # <<>> /\ Head(todo[w]) \in seen
    BY <2>1 DEF OnePlace, ChildIsClaimed, Child, TypeInv, PushHasChild, Pushing
  <2> QED BY <1>4, <2>1, <2>2
<1>8. CASE WritePage(w)
  <2>1. /\ w \in Expanding /\ w \notin Expanding' /\ todo[w] = <<>> /\ Write(w, "page")
        /\ seen' = seen
    BY <1>8 DEF WritePage, Expanding, AtPage, Goto, TypeInv, PositionType
  <2>2. OpenLinksClaimed'
    BY <2>1, OpenLinks
  <2>3. records[cur[w].url] = <<>>
    BY <1>8, FirstRecord
  <2>4. Pages' = Pages \cup {cur[w].url} /\ cur[w].url \notin Pages
    BY <2>1, <2>3, PagesMove
  <2>5. records'[cur[w].url][1].depth = cur[w].depth
    BY <1>1, <2>1, <2>3 DEF Write, TypeInv, RecordType
  <2>6. \A p \in Pages : records'[p] = records[p]
    BY <2>1, <2>4 DEF Write, Pages, TypeInv, RecordType
  <2>7. ASSUME NEW p \in Pages', records'[p][1].depth < MaxDepth PROVE Covered(p, seen', <<>>)
    <3>1. CASE p = cur[w].url
      BY <1>3, <2>1, <2>5, <2>7, <3>1
    <3>2. CASE p # cur[w].url
      BY <2>1, <2>4, <2>6, <2>7, <3>2 DEF LinksClaimed, PageLinksClaimed
    <3> QED BY <3>1, <3>2
  <2>8. PageLinksClaimed'
    BY <2>7 DEF PageLinksClaimed, Covered
  <2> QED BY <2>2, <2>8 DEF LinksClaimed
<1>9. CASE ~AdmitPage(w) /\ ~Discover(w) /\ ~Push(w) /\ ~PushCancelled(w) /\ ~WritePage(w)
  <2>1. w \notin Expanding'
    BY <1>9 DEF WorkerStep, Pop, PopCancelled, RobotsDisallow, RobotsAllow, AcquireHost,
         AcquireCancelled, Backoff, Retry, FetchFailed, FetchOK, ItemDone, StartAttempt, Goto,
         Expanding, AtPage, TypeInv, PositionType
  <2> QED BY <1>2, <1>9, <2>1
<1> QED BY <1>5, <1>6, <1>7, <1>8, <1>9

LEMMA LinksStep ==
  ASSUME TypeInv, Phases, OnePlace, LinksClaimed, [Next]_vars PROVE LinksClaimed'
<1>0. seen \subseteq seen'
  BY SeenGrows
<1>1. ASSUME Expanding' \subseteq Expanding, UNCHANGED <<records, cur, todo>> PROVE LinksClaimed'
  <2>1. Pages' = Pages
    BY <1>1 DEF Pages
  <2>2. ASSUME NEW p \in Pages', records'[p][1].depth < MaxDepth PROVE Covered(p, seen', <<>>)
    <3>1. Covered(p, seen, <<>>)
      BY <1>1, <2>1, <2>2 DEF LinksClaimed, PageLinksClaimed
    <3> QED BY <1>0, <3>1, StaysCovered
  <2>3. ASSUME NEW v \in Expanding', cur'[v].depth < MaxDepth
        PROVE  Covered(cur'[v].url, seen', todo'[v])
    <3>1. Covered(cur[v].url, seen, todo[v])
      BY <1>1, <2>3 DEF LinksClaimed, OpenLinksClaimed
    <3>2. Covered(cur[v].url, seen', todo[v])
      BY <1>0, <3>1, StaysCovered
    <3> QED BY <1>1, <3>2
  <2>4. PageLinksClaimed'
    BY <2>2 DEF PageLinksClaimed, Covered
  <2>5. OpenLinksClaimed'
    BY <2>3 DEF OpenLinksClaimed, Covered
  <2> QED BY <2>4, <2>5 DEF LinksClaimed
<1>2. CASE StartWorkers
  BY <1>1, <1>2 DEF StartWorkers, Expanding, AtPage
<1>3. CASE UNCHANGED <<records, pc, cur, todo>>
  BY <1>1, <1>3 DEF Expanding
<1> QED BY <1>0, <1>2, <1>3, LinksWorkerStep
     DEF Next, RunStep, Terminated, vars, SeedFrontier, SeedSitemapLoc, StopWaiting, JoinWorkers,
         StartProbe, ProbeEnds, Summarize, Drain, Deadline, CallerCancels, workVars
-----------------------------------------------------------------------------
(***************************************************************************)
(* Completeness.  While the context is live, every claimed URL is queued,  *)
(* being worked on, on its way into the frontier, or written.              *)
(***************************************************************************)
Working == {cur[w].url : w \in Active}
Children == {Child(w) : w \in Pushing}
Written == {u \in URL : records[u] # <<>>}
Placed == Queued \cup Working \cup Children \cup Written
Kept == cause = "none" => seen \subseteq Placed

LEMMA WriteMoves ==
  ASSUME TypeInv, NEW w \in Worker, NEW kind \in {"page", "error"}, Write(w, kind)
  PROVE  Written' = Written \cup {cur[w].url}
<1>1. cur[w].url \in URL /\ records \in [URL -> Seq(Record)]
  BY DEF TypeInv, ItemType, Item, RecordType
<1>2. \A u \in URL : u # cur[w].url => records'[u] = records[u]
  BY <1>1 DEF Write
<1>3. records'[cur[w].url] # <<>>
  BY <1>1 DEF Write
<1> QED BY <1>1, <1>2, <1>3 DEF Written

\* Where the workers that are busy with an item are after a step of w.
LEMMA ActiveMoves ==
  ASSUME TypeInv, NEW w \in Worker, WorkerStep(w), cause' = "none"
  PROVE  /\ cause = "none"
         /\ \/ Pop(w) /\ Active' = Active \cup {w} /\ w \notin Active
            \/ /\ RobotsDisallow(w) \/ FetchFailed(w) \/ WritePage(w)
               /\ Active' = Active \ {w}
            \/ ~Pop(w) /\ UNCHANGED <<cur, records>> /\ Active' = Active
<1>1. \A v \in Worker \ {w} : v \in Active' <=> v \in Active
  BY WorkerFrame DEF TypeInv, PositionType, Active, Busy
<1>2. Active \subseteq Worker /\ Active' \subseteq Worker
  BY DEF Active, Busy
<1>3. cause = "none"
  BY DEF WorkerStep, Pop, PopCancelled, RobotsDisallow, RobotsAllow, AcquireHost, AcquireCancelled,
         Backoff, Retry, FetchFailed, FetchOK, AdmitPage, Discover, Push, PushCancelled,
         WritePage, ItemDone, CancelBy, Cancelled, ctxVars
<1>4. CASE Pop(w)
  <2>1. w \notin Active /\ w \in Active'
    BY <1>4 DEF Pop, Goto, Active, Busy, TypeInv, PositionType
  <2> QED BY <1>1, <1>2, <1>3, <1>4, <2>1
<1>5. CASE RobotsDisallow(w) \/ FetchFailed(w) \/ WritePage(w)
  <2>1. w \notin Active'
    BY <1>5 DEF RobotsDisallow, FetchFailed, WritePage, Goto, Active, Busy, TypeInv, PositionType
  <2> QED BY <1>1, <1>2, <1>3, <1>5, <2>1
<1>6. CASE ~Pop(w) /\ ~RobotsDisallow(w) /\ ~FetchFailed(w) /\ ~WritePage(w)
  <2>1. UNCHANGED <<cur, records>>
    BY <1>6 DEF WorkerStep, PopCancelled, RobotsAllow, AcquireHost, AcquireCancelled,
         Backoff, Retry, FetchOK, AdmitPage, Discover, Push, PushCancelled, ItemDone
  <2>2. w \in Active' <=> w \in Active
    BY <1>3, <1>6 DEF WorkerStep, PopCancelled, RobotsAllow, AcquireHost, AcquireCancelled,
         Backoff, AttemptFails, Retry, FetchOK, AdmitPage, Discover, Push, PushCancelled, MayDropItem,
         ItemDone, CancelBy, Cancelled, StartAttempt, Goto, Active, Busy, TypeInv, PositionType
  <2> QED BY <1>1, <1>2, <1>3, <1>6, <2>1, <2>2
<1> QED BY <1>4, <1>5, <1>6

\* Links on their way into the frontier stay where they are unless it is w's.
LEMMA ChildrenStay ==
  ASSUME TypeInv, NEW w \in Worker, WorkerStep(w)
  PROVE  /\ \A v \in Pushing \ {w} : v \in Pushing' /\ Child(v)' = Child(v)
         /\ w \in Pushing => Push(w) \/ PushCancelled(w)
         /\ Discover(w) /\ ~UNCHANGED seen => w \in Pushing' /\ seen' = seen \cup {Child(w)'}
<1>1. \A v \in Pushing \ {w} : v \in Pushing' /\ Child(v)' = Child(v)
  BY OthersStay DEF Pushing, Child
<1>2. w \in Pushing => Push(w) \/ PushCancelled(w)
  BY DEF Pushing, WorkerStep, Pop, PopCancelled, RobotsDisallow, RobotsAllow, AcquireHost,
         AcquireCancelled, Backoff, Retry, FetchFailed, ReleaseOnFailure, AttemptFails, FetchOK,
         AdmitPage, Discover, WritePage, ItemDone
<1>3. Discover(w) /\ ~UNCHANGED seen => w \in Pushing' /\ seen' = seen \cup {Child(w)'}
  BY DEF Discover, MarkSeen, Goto, Pushing, Child, TypeInv, PositionType
<1> QED BY <1>1, <1>2, <1>3

LEMMA KeptWorkerStep ==
  ASSUME TypeInv, OnePlace, Kept, NEW w \in Worker, WorkerStep(w), cause' = "none"
  PROVE  seen' \subseteq Placed'
<1>1. cause = "none" /\ seen \subseteq Placed
  BY ActiveMoves DEF Kept
<1>2. Written \subseteq Written'
  BY WriteMoves DEF Written, WorkerStep, Pop, PopCancelled, RobotsDisallow, RobotsAllow, AcquireHost,
       AcquireCancelled, Backoff, Retry, FetchFailed, FetchOK, AdmitPage, Discover, Push,
       PushCancelled, WritePage, ItemDone
<1>3. Working \subseteq Placed'
  <2>1. CASE Pop(w) /\ Active' = Active \cup {w} /\ w \notin Active
    <3>1. \A v \in Active : v \in Active' /\ cur'[v] = cur[v]
      BY <2>1, OthersStay DEF Active, Busy
    <3> QED BY <3>1 DEF Working, Placed
  <2>2. CASE (RobotsDisallow(w) \/ FetchFailed(w) \/ WritePage(w)) /\ Active' = Active \ {w}
    <3>1. cur' = cur /\ cur[w].url \in Written'
      BY <2>2, WriteMoves DEF RobotsDisallow, FetchFailed, WritePage
    <3> QED BY <2>2, <3>1 DEF Working, Placed
  <2>3. CASE UNCHANGED cur /\ Active' = Active
    BY <2>3 DEF Working, Placed
  <2> QED BY <2>1, <2>2, <2>3, ActiveMoves
<1>4. Queued \subseteq Placed'
  <2>1. CASE Pop(w)
    <3>1. Queued' = Queued \ {Head(frontier).url}
      BY <2>1, QueueAfterPop DEF Pop, TypeInv, OnePlace
    <3>2. w \in Active' /\ cur'[w].url = Head(frontier).url
      BY <2>1 DEF Pop, Goto, Active, Busy, TypeInv, PositionType, ItemType
    <3> QED BY <3>1, <3>2 DEF Working, Placed
  <2>2. CASE Push(w)
    <3>1. Child(w) \notin Queued /\ Child(w) \in URL /\ cur[w].depth + 1 \in Nat
      BY <2>2 DEF Push, Pushing, OnePlace, ChildIsClaimed, Child, TypeInv, PushHasChild, TodoType,
                  ItemType, Item
    <3>2. Queued \subseteq Queued'
      BY <2>2, <3>1, QueueAfterPush DEF Push, Child, Item, TypeInv, OnePlace
    <3> QED BY <3>2 DEF Placed
  <2>3. CASE ~Pop(w) /\ ~Push(w)
    <3>1. frontier' = frontier
      BY <2>3 DEF WorkerStep, PopCancelled, RobotsDisallow, RobotsAllow, AcquireHost,
           AcquireCancelled, Backoff, Retry, FetchFailed, FetchOK, AdmitPage, Discover,
           PushCancelled, WritePage, ItemDone
    <3> QED BY <3>1 DEF Queued, Placed
  <2> QED BY <2>1, <2>2, <2>3
<1>5. Children \subseteq Placed'
  <2> SUFFICES ASSUME NEW v \in Pushing PROVE Child(v) \in Placed'
    BY DEF Children
  <2>1. CASE v # w
    <3>1. v \in Pushing' /\ Child(v)' = Child(v)
      BY <2>1, ChildrenStay
    <3>2. Child(v) \in Children'
      BY <3>1 DEF Children
    <3> QED BY <3>2 DEF Placed
  <2>2. CASE v = w
    <3>1. Push(w)
      BY <1>1, <2>2, ChildrenStay DEF PushCancelled, MayDropItem, Cancelled
    <3>2. Child(w) \notin Queued /\ Child(w) \in URL /\ cur[w].depth + 1 \in Nat
      BY <2>2 DEF Pushing, OnePlace, ChildIsClaimed, Child, TypeInv, PushHasChild, TodoType,
                  ItemType, Item
    <3>3. Child(w) \in Queued'
      BY <3>1, <3>2, QueueAfterPush DEF Push, Child, Item, TypeInv, OnePlace
    <3> QED BY <2>2, <3>3 DEF Placed
  <2> QED BY <2>1, <2>2
<1>6. Placed \subseteq Placed'
  <2>1. Written \subseteq Placed'
    BY <1>2 DEF Placed
  <2> QED BY <1>3, <1>4, <1>5, <2>1 DEF Placed
<1>7. seen' = seen \/ (Discover(w) /\ ~UNCHANGED seen)
  BY DEF WorkerStep, Pop, PopCancelled, RobotsDisallow, RobotsAllow, AcquireHost,
       AcquireCancelled, Backoff, Retry, FetchFailed, FetchOK, AdmitPage, Push,
       PushCancelled, WritePage, ItemDone
<1>8. CASE Discover(w) /\ ~UNCHANGED seen
  <2>1. w \in Pushing' /\ seen' = seen \cup {Child(w)'}
    BY <1>8, ChildrenStay
  <2>2. Child(w)' \in Children'
    BY <2>1 DEF Children
  <2>3. Child(w)' \in Placed'
    BY <2>2 DEF Placed
  <2> QED BY <1>1, <1>6, <2>1, <2>3
<1> QED BY <1>1, <1>6, <1>7, <1>8

LEMMA KeptStep ==
  ASSUME TypeInv, Phases, OnePlace, Kept, [Next]_vars PROVE Kept'
<1>1. ASSUME UNCHANGED <<frontier, records, seen, workVars>>, cause' = "none" => cause = "none"
      PROVE  Kept'
  <2>1. Queued' = Queued /\ Working' = Working /\ Written' = Written /\ Children' = Children
    BY <1>1 DEF workVars, Queued, Working, Active, Busy, Written, Children, Child, Pushing
  <2> QED BY <1>1, <2>1 DEF Kept, Placed
<1>2. ASSUME main \in {"seed", "sitemap"}, cause = "none", UNCHANGED <<records, workVars>>,
             NEW u \in URL, u \notin seen, MarkSeen(u),
             EnqueueBeforeWorkers([url |-> u, depth |-> 0])
      PROVE  seen' \subseteq Placed'
  <2>1. Working = {} /\ Children = {} /\ Written' = Written
    BY <1>2 DEF Phases, Working, Active, Busy, Children, Pushing, Written
  <2>2. u \notin Queued /\ [url |-> u, depth |-> 0] \in Item
    BY <1>2 DEF OnePlace, QueuedIsClaimed, Item
  <2>3. AddToFrontier([url |-> u, depth |-> 0])
    BY <1>2 DEF EnqueueBeforeWorkers, MayDropItem, Cancelled
  <2>4. Queued' = Queued \cup {u}
    BY <2>2, <2>3, QueueAfterPush DEF TypeInv, OnePlace
  <2> QED BY <1>2, <2>1, <2>4 DEF Kept, Placed, MarkSeen
<1>3. CASE SeedFrontier
  <2>1. Queued = {} /\ Working = {} /\ Children = {} /\ Written = {}
    BY <1>3 DEF SeedFrontier, Phases, OnePlace, NothingBeforeStart, Queued, Working, Active, Busy,
                Children, Pushing, Written
  <2>2. cause = "none" => Seed \notin seen
    BY <2>1 DEF Kept, Placed
  <2> QED BY <1>2, <1>3, <2>2, SiteAssumption DEF SeedFrontier, ctxVars, Kept
<1>4. CASE SeedSitemapLoc
  <2>1. Head(locs) \in URL
    BY <1>4 DEF SeedSitemapLoc, TypeInv, RunType
  <2>2. CASE Head(locs) \notin seen /\ MarkSeen(Head(locs))
               /\ EnqueueBeforeWorkers([url |-> Head(locs), depth |-> 0])
    BY <1>2, <1>4, <2>1, <2>2 DEF SeedSitemapLoc, ctxVars, Kept
  <2>3. CASE UNCHANGED <<seen, frontier>>
    BY <1>1, <1>4, <2>3 DEF SeedSitemapLoc, ctxVars
  <2> QED BY <1>4, <2>2, <2>3 DEF SeedSitemapLoc
<1>5. CASE StartWorkers
  <2>1. Active = {} /\ Active' = {} /\ Pushing = {} /\ Pushing' = {}
    BY <1>5 DEF StartWorkers, Phases, Active, Busy, Pushing
  <2>2. Queued' = Queued /\ Written' = Written /\ Working = {} /\ Working' = {} /\ Children = {}
          /\ Children' = {}
    BY <1>5, <2>1 DEF StartWorkers, Queued, Written, Working, Children
  <2> QED BY <1>5, <2>2 DEF StartWorkers, ctxVars, Kept, Placed
<1>6. CASE StopWaiting \/ JoinWorkers \/ StartProbe \/ ProbeEnds \/ Summarize \/ Drain
             \/ Deadline \/ CallerCancels
             \/ UNCHANGED vars
  BY <1>1, <1>6 DEF StopWaiting, JoinWorkers, StartProbe, ProbeEnds, Summarize, Drain, Deadline,
       CallerCancels, CancelBy,
                    Cancelled, ctxVars, runVars, vars, workVars
<1>7. ASSUME NEW w \in Worker, WorkerStep(w) PROVE Kept'
  BY <1>7, KeptWorkerStep DEF Kept
<1> QED BY <1>3, <1>4, <1>5, <1>6, <1>7 DEF Next, RunStep, Terminated
-----------------------------------------------------------------------------
(***************************************************************************)
(* The unique URLs, while the context is live: each was requested, refused *)
(* by robots.txt, or has not got so far yet.                               *)
(***************************************************************************)
BeforeRequest == {"robots", "acquire"}
Waiting == {w \in Worker : pc[w] \in BeforeRequest}
UniqueSum(left, waiting, pushing) == stats["requests"] + stats["robots"] + left + waiting + pushing
UniqueBalance ==
  cause = "none" =>
    stats["unique"] = UniqueSum(Len(frontier), Cardinality(Waiting), Cardinality(Pushing))

LEMMA Numbers ==
  ASSUME TypeInv
  PROVE  /\ stats["unique"] \in Nat /\ stats["requests"] \in Nat /\ stats["robots"] \in Nat
         /\ Len(frontier) \in Nat /\ Cardinality(Waiting) \in Nat /\ Cardinality(Pushing) \in Nat
BY CounterNames, SubsetsOfWorker DEF TypeInv, StatsType, FrontierType, Waiting, Pushing

LEMMA UniqueInit == Init => UniqueBalance
<1> SUFFICES ASSUME Init PROVE UniqueBalance
  OBVIOUS
<1>1. Waiting = {} /\ Pushing = {}
  BY DEF Init, Waiting, BeforeRequest, Pushing
<1>2. stats["unique"] = 0 /\ stats["requests"] = 0 /\ stats["robots"] = 0 /\ Len(frontier) = 0
  BY CounterNames DEF Init
<1> QED BY <1>1, <1>2, FS_EmptySet DEF UniqueBalance, UniqueSum

LEMMA UniqueWorkerStep ==
  ASSUME TypeInv, UniqueBalance, NEW w \in Worker, WorkerStep(w) PROVE UniqueBalance'
<1> SUFFICES ASSUME cause' = "none" PROVE UniqueBalance'
  BY DEF UniqueBalance
<1> DEFINE q == Len(frontier)
           n == Cardinality(Waiting)
           p == Cardinality(Pushing)
           Counts(c) == stats'[c] = stats[c] + 1
           Stays(c) == stats'[c] = stats[c]
<1>1. cause = "none" /\ stats["unique"] = UniqueSum(q, n, p)
  BY ActiveMoves DEF UniqueBalance
<1>2. /\ stats["unique"] \in Nat /\ stats["requests"] \in Nat /\ stats["robots"] \in Nat
      /\ q \in Nat /\ n \in Nat /\ p \in Nat
  BY Numbers
<1>3. /\ pc[w] \notin BeforeRequest /\ pc'[w] \in BeforeRequest => n' = n + 1
      /\ pc[w] \in BeforeRequest /\ pc'[w] \notin BeforeRequest => n' = n - 1
      /\ (pc[w] \in BeforeRequest <=> pc'[w] \in BeforeRequest) => n' = n
  BY PlaceMoves DEF TypeInv, Waiting
<1>4. n' \in Nat /\ p' \in Nat
  BY SubsetsOfWorker DEF Waiting, Pushing
<1>5. ASSUME stats'["unique"] = stats'["requests"] + stats'["robots"] + q' + n' + p'
      PROVE  UniqueBalance'
  BY <1>5 DEF UniqueBalance, UniqueSum
<1>6. ~PopCancelled(w) /\ ~AcquireCancelled(w) /\ ~PushCancelled(w)
  BY <1>1 DEF PopCancelled, AcquireCancelled, PushCancelled, MayDropItem, Cancelled
<1>7. frontier \in Seq(Item)
  BY DEF TypeInv, FrontierType
<1>8. ASSUME ~Discover(w) \/ UNCHANGED pc, ~Push(w) PROVE p' = p
  BY <1>6, <1>8, PushingMoves DEF Pushing
<1>9. ASSUME ~Pop(w), ~Push(w) PROVE q' = q
  BY <1>9 DEF WorkerStep, PopCancelled, RobotsDisallow, RobotsAllow, AcquireHost,
       AcquireCancelled, Backoff, Retry, FetchFailed, FetchOK, AdmitPage, Discover,
       PushCancelled, WritePage, ItemDone
<1>10. CASE Pop(w)
  <2>1. n' = n + 1
    BY <1>3, <1>10 DEF Pop, Goto, BeforeRequest, TypeInv, PositionType
  <2>2. q' = q - 1 /\ Stays("unique") /\ Stays("requests") /\ Stays("robots")
    BY <1>7, <1>10 DEF Pop
  <2>3. p' = p
    BY <1>8, <1>10 DEF Pop, Discover, Push
  <2> HIDE DEF n, q, p
  <2> QED BY <1>1, <1>2, <1>4, <1>5, <2>1, <2>2, <2>3 DEF UniqueSum
<1>11. CASE RobotsDisallow(w)
  <2>1. n' = n - 1
    BY <1>3, <1>11 DEF RobotsDisallow, Goto, BeforeRequest, TypeInv, PositionType
  <2>2. Stays("unique") /\ Stays("requests") /\ Counts("robots")
    BY <1>11, Counted, CounterNames DEF RobotsDisallow, TypeInv
  <2>3. p' = p /\ q' = q
    BY <1>8, <1>9, <1>11 DEF RobotsDisallow, Discover, Pop, Push
  <2> HIDE DEF n, q, p
  <2> QED BY <1>1, <1>2, <1>4, <1>5, <2>1, <2>2, <2>3 DEF UniqueSum
<1>12. CASE AcquireHost(w)
  <2>1. n' = n - 1
    BY <1>3, <1>12 DEF AcquireHost, StartAttempt, Goto, BeforeRequest, TypeInv, PositionType
  <2>2. Stays("unique") /\ Counts("requests") /\ Stays("robots")
    BY <1>12, Counted, CounterNames DEF AcquireHost, TypeInv
  <2>3. p' = p /\ q' = q
    BY <1>8, <1>9, <1>12 DEF AcquireHost, Discover, Pop, Push
  <2> HIDE DEF n, q, p
  <2> QED BY <1>1, <1>2, <1>4, <1>5, <2>1, <2>2, <2>3 DEF UniqueSum
<1>13. CASE Discover(w) /\ Count({"discovered", "unique"}) /\ Goto(w, "push")
  <2>1. n' = n
    BY <1>3, <1>13 DEF Discover, Goto, BeforeRequest, TypeInv, PositionType
  <2>2. Counts("unique") /\ Stays("requests") /\ Stays("robots")
    BY <1>13, Counted, CounterNames DEF TypeInv
  <2>3. w \notin Pushing /\ Pushing' = Pushing \cup {w}
    BY <1>13, PushingMoves DEF Discover, Push, PushCancelled, Pop, ItemDone, Goto, Pushing, TypeInv, PositionType
  <2>4. p' = p + 1
    BY <2>3, SizeMoves, WorkerSets
  <2>5. q' = q
    BY <1>9, <1>13 DEF Discover, Pop, Push
  <2> HIDE DEF n, q, p
  <2> QED BY <1>1, <1>2, <1>4, <1>5, <2>1, <2>2, <2>4, <2>5 DEF UniqueSum
<1>14. CASE Push(w)
  <2>1. n' = n
    BY <1>3, <1>14 DEF Push, Goto, BeforeRequest, TypeInv, PositionType
  <2>2. Stays("unique") /\ Stays("requests") /\ Stays("robots")
    BY <1>14 DEF Push
  <2>3. w \in Pushing /\ Pushing' = Pushing \ {w}
    BY <1>14, PushingMoves DEF Push, Discover
  <2>4. p' = p - 1
    BY <2>3, SizeMoves, WorkerSets
  <2>5. q' = q + 1
    BY <1>7, <1>14 DEF Push, AddToFrontier
  <2> HIDE DEF n, q, p
  <2> QED BY <1>1, <1>2, <1>4, <1>5, <2>1, <2>2, <2>4, <2>5 DEF UniqueSum
<1>15. CASE ~Pop(w) /\ ~RobotsDisallow(w) /\ ~AcquireHost(w) /\ ~Push(w)
             /\ (Discover(w) => UNCHANGED pc)
  <2>1. n' = n
    <3>1. pc[w] \in BeforeRequest <=> pc'[w] \in BeforeRequest
      BY <1>6, <1>15 DEF WorkerStep, RobotsAllow, Backoff, AttemptFails, Retry, FetchFailed,
           ReleaseOnFailure, FetchOK, AdmitPage, WritePage, ItemDone, StartAttempt, Goto,
           BeforeRequest, TypeInv, PositionType
    <3> QED BY <1>3, <3>1
  <2>2. p' = p /\ q' = q
    BY <1>8, <1>9, <1>15
  <2>3. Stays("unique") /\ Stays("requests") /\ Stays("robots")
    <3>1. CASE Discover(w)
      <4>1. ~Goto(w, "push")
        BY <1>15, <3>1 DEF Goto, Discover, TypeInv, PositionType
      <4>2. Count({"discovered"}) \/ Count({"discovered", "duplicates"})
        BY <3>1, <4>1 DEF Discover
      <4> QED BY <4>2, Counted, CounterNames DEF TypeInv
    <3>2. CASE ~Discover(w)
      BY <1>15, <3>2, WorkerCounts, Counted, CounterNames DEF TypeInv
    <3> QED BY <3>1, <3>2
  <2> HIDE DEF n, q, p
  <2> QED BY <1>1, <1>2, <1>4, <1>5, <2>1, <2>2, <2>3 DEF UniqueSum
<1> QED BY <1>10, <1>11, <1>12, <1>13, <1>14, <1>15 DEF Discover

LEMMA UniqueStep ==
  ASSUME TypeInv, Phases, UniqueBalance, [Next]_vars PROVE UniqueBalance'
<1>1. ASSUME UNCHANGED <<frontier, stats, pc>>, cause' = "none" => cause = "none"
      PROVE  UniqueBalance'
  BY <1>1 DEF UniqueBalance, UniqueSum, Waiting, Pushing
<1>2. ASSUME NEW u, EnqueueBeforeWorkers([url |-> u, depth |-> 0]), UNCHANGED <<cause, pc>>,
             stats'["unique"] = stats["unique"] + 1, stats'["requests"] = stats["requests"],
             stats'["robots"] = stats["robots"]
      PROVE  UniqueBalance'
  <2>1. CASE cause = "none"
    <3>1. Len(frontier') = Len(frontier) + 1
      BY <1>2, <2>1 DEF EnqueueBeforeWorkers, MayDropItem, Cancelled, AddToFrontier, TypeInv, FrontierType
    <3>2. Waiting' = Waiting /\ Pushing' = Pushing
      BY <1>2 DEF Waiting, Pushing
    <3>3. stats["unique"] = stats["requests"] + stats["robots"] + Len(frontier)
                              + Cardinality(Waiting) + Cardinality(Pushing)
      BY <2>1 DEF UniqueBalance, UniqueSum
    <3>4. stats'["unique"] = stats'["requests"] + stats'["robots"] + Len(frontier')
                               + Cardinality(Waiting') + Cardinality(Pushing')
      <4>1. Cardinality(Waiting') = Cardinality(Waiting) /\ Cardinality(Pushing') = Cardinality(Pushing)
        BY <3>2
      <4> QED BY ONLY <1>2, <3>1, <3>3, <4>1, Numbers, TypeInv
    <3> QED BY <3>4 DEF UniqueBalance, UniqueSum
  <2> QED BY <1>2, <2>1 DEF UniqueBalance
<1>3. CASE SeedFrontier
  <2>1. /\ stats'["unique"] = stats["unique"] + 1 /\ stats'["requests"] = stats["requests"]
        /\ stats'["robots"] = stats["robots"]
    BY <1>3, Counted, CounterNames DEF SeedFrontier, TypeInv
  <2> QED BY <1>2, <1>3, <2>1 DEF SeedFrontier, ctxVars, workVars
<1>4. CASE SeedSitemapLoc
  <2>1. UNCHANGED <<cause, pc>>
    BY <1>4 DEF SeedSitemapLoc, ctxVars, workVars
  <2>2. CASE Count({"discovered", "unique", "sitemap"})
               /\ EnqueueBeforeWorkers([url |-> Head(locs), depth |-> 0])
    <3>1. /\ stats'["unique"] = stats["unique"] + 1 /\ stats'["requests"] = stats["requests"]
          /\ stats'["robots"] = stats["robots"]
      BY <2>2, Counted, CounterNames DEF TypeInv
    <3> QED BY <1>2, <2>1, <2>2, <3>1
  <2>3. CASE frontier' = frontier /\ (Count({"discovered"}) \/ Count({"discovered", "duplicates"}))
    <3>1. /\ stats'["unique"] = stats["unique"] /\ stats'["requests"] = stats["requests"]
          /\ stats'["robots"] = stats["robots"]
      BY <2>3, Counted, CounterNames DEF TypeInv
    <3> QED BY <2>1, <2>3, <3>1 DEF UniqueBalance, UniqueSum, Waiting, Pushing
  <2> QED BY <1>4, <2>2, <2>3 DEF SeedSitemapLoc
<1>5. CASE StartWorkers
  <2>1. Waiting' = Waiting /\ Pushing' = Pushing
    BY <1>5 DEF StartWorkers, Phases, Waiting, BeforeRequest, Pushing
  <2> QED BY <1>5, <2>1 DEF StartWorkers, ctxVars, UniqueBalance, UniqueSum
<1>6. CASE StopWaiting \/ JoinWorkers \/ StartProbe \/ ProbeEnds \/ Summarize \/ Drain
             \/ Deadline \/ CallerCancels
             \/ UNCHANGED vars
  BY <1>1, <1>6 DEF StopWaiting, JoinWorkers, StartProbe, ProbeEnds, Summarize, Drain, Deadline,
       CallerCancels, CancelBy,
                    Cancelled, ctxVars, runVars, vars, workVars
<1> QED BY <1>3, <1>4, <1>5, <1>6, UniqueWorkerStep DEF Next, RunStep, Terminated
-----------------------------------------------------------------------------
(***************************************************************************)
(* The end of a crawl nobody stopped.                                      *)
(***************************************************************************)
Ended ==
  cause = "run" =>
    /\ main \in {"join", "openapi", "probe", "summary", "done"} /\ drainer = "closed"
    /\ seen \subseteq Written /\ stats["unique"] = stats["requests"] + stats["robots"]

LEMMA EndedStep ==
  ASSUME TypeInv, Phases, PendingAccounting, DrainedMeansZero, OnePlace, Kept, UniqueBalance, Ended,
         [Next]_vars
  PROVE  Ended'
<1>1. ASSUME drainer = "closed"
      PROVE  frontier = <<>> /\ Busy = {} /\ Pushing = {} /\ Active = {} /\ Waiting = {}
  BY <1>1, ZeroMeansIdle DEF DrainedMeansZero, Active, Busy, Waiting, BeforeRequest
<1>2. ASSUME cause = "run", UNCHANGED <<records, stats, seen>>,
             drainer' = "closed", main' \in {"join", "openapi", "probe", "summary", "done"}
      PROVE  Ended'
  BY <1>2 DEF Ended, Written
<1>3. CASE cause = "none" /\ StopWaiting
  <2>1. drainer = "closed" /\ drainer' = "closed" /\ main' = "join" /\ UNCHANGED <<records, stats, seen>>
    BY <1>3 DEF StopWaiting, Cancelled
  <2>2. seen \subseteq Written
    BY <1>1, <1>3, <2>1 DEF Kept, Placed, Queued, Working, Children
  <2>3. stats["unique"] = stats["requests"] + stats["robots"]
    <3>1. stats["unique"] = stats["requests"] + stats["robots"] + Len(frontier)
                              + Cardinality(Waiting) + Cardinality(Pushing)
      BY <1>3 DEF UniqueBalance, UniqueSum
    <3>2. Len(frontier) = 0 /\ Cardinality(Waiting) = 0 /\ Cardinality(Pushing) = 0
      BY <1>1, <2>1, FS_EmptySet
    <3> QED BY ONLY <3>1, <3>2, Numbers, TypeInv
  <2> QED BY <2>1, <2>2, <2>3 DEF Ended, Written
<1>4. ASSUME cause = "run" PROVE Ended'
  <2>1. drainer = "closed" /\ main \in {"join", "openapi", "probe", "summary", "done"} /\ Busy = {} /\ frontier = <<>>
    BY <1>1, <1>4 DEF Ended
  <2>2. ASSUME NEW w \in Worker, WorkerStep(w) PROVE PopCancelled(w)
    BY <2>1, <2>2 DEF WorkerStep, Pop, Push, RobotsDisallow, RobotsAllow, AcquireHost,
       AcquireCancelled, Backoff, Retry, FetchFailed, ReleaseOnFailure, AttemptFails, FetchOK,
       AdmitPage, Discover, PushCancelled, WritePage, ItemDone, Busy
  <2>3. ASSUME NEW w \in Worker, WorkerStep(w) PROVE Ended'
    BY <1>2, <1>4, <2>1, <2>2, <2>3, RunFrame DEF PopCancelled
  <2>4. ~SeedFrontier /\ ~SeedSitemapLoc /\ ~StartWorkers /\ ~StopWaiting /\ ~Drain
    BY <2>1 DEF SeedFrontier, SeedSitemapLoc, StartWorkers, StopWaiting, Drain
  <2>5. CASE JoinWorkers \/ StartProbe \/ ProbeEnds \/ Summarize \/ Deadline \/ CallerCancels
               \/ UNCHANGED vars
    BY <1>2, <1>4, <2>1, <2>5 DEF JoinWorkers, StartProbe, ProbeEnds, Summarize, Deadline,
         CallerCancels, runVars, vars
  <2> QED BY <2>3, <2>4, <2>5 DEF Next, RunStep, Terminated
<1>5. ASSUME cause' = "run" PROVE cause = "run" \/ (cause = "none" /\ StopWaiting)
  <2>1. ASSUME NEW w \in Worker, WorkerStep(w) PROVE cause = "run"
    BY <1>5, <2>1 DEF WorkerStep, Pop, PopCancelled, RobotsDisallow, RobotsAllow, AcquireHost,
       AcquireCancelled, Backoff, Retry, FetchFailed, FetchOK, AdmitPage, Discover, Push,
       PushCancelled, WritePage, ItemDone, CancelBy, Cancelled, ctxVars
  <2> QED BY <1>5, <2>1 DEF Next, RunStep, Terminated, SeedFrontier, SeedSitemapLoc, StartWorkers,
       StopWaiting, JoinWorkers, StartProbe, ProbeEnds, Summarize, Drain, Deadline, CallerCancels,
       CancelBy, Cancelled,
       ctxVars, vars
<1> QED BY <1>3, <1>4, <1>5 DEF Ended
-----------------------------------------------------------------------------
(***************************************************************************)
(* The invariant of this module, on top of IInv, and what follows from it. *)
(***************************************************************************)
OInv == /\ RequestsBalance /\ RoomForSeeds /\ Budgeted /\ OutcomesWritten /\ Epilogue
        /\ LinksClaimed /\ Kept /\ UniqueBalance /\ Ended

LEMMA OutcomeInit == Init => OInv
<1> SUFFICES ASSUME Init PROVE OInv
  OBVIOUS
<1>1. Pages = {} /\ Expanding = {} /\ main = "seed" /\ cause = "none" /\ seen = {}
  BY DEF Init, Pages, Expanding, AtPage
<1>2. LinksClaimed /\ Kept /\ Ended
  BY <1>1 DEF LinksClaimed, PageLinksClaimed, OpenLinksClaimed, Kept, Ended
<1>3. Epilogue
  BY DEF Init, Epilogue, ProbeTold
<1> QED BY <1>2, <1>3, BalanceInit, SeedsInit, BudgetInit, OutcomesWrittenInit, UniqueInit DEF OInv

LEMMA Outcomes == Spec => [](IInv /\ OInv)
<1>1. IInv /\ OInv /\ [Next]_vars => OInv'
  BY BalanceStep, SeedsStep, EpilogueStep, BudgetStep, OutcomesWrittenStep, LinksStep, KeptStep,
     UniqueStep, EndedStep
     DEF IInv, OInv
<1> QED BY <1>1, OutcomeInit, Invariance, PTL DEF Spec

\* Requests that are neither OK nor failed are in flight or backing off, in
\* every state: no early return of process forgets a counter.
THEOREM BalanceCorrect == Spec => []RequestsBalance
BY Outcomes, PTL DEF OInv

\* Seeding from the sitemap, before any worker can pop, finds room for every
\* location it admits, whatever the frontier's size.
THEOREM SeedingCorrect == Spec => []SeedingNeverBlocks
<1>1. IInv /\ OInv => SeedingNeverBlocks
  <2> SUFFICES ASSUME IInv, OInv, main = "sitemap", stats["sitemap"] < SitemapLimit PROVE CanPush
    BY DEF SeedingNeverBlocks
  <2>1. Len(frontier) <= stats["sitemap"] + 1
    BY DEF OInv, RoomForSeeds
  <2>2. stats["sitemap"] \in Nat /\ Len(frontier) \in Nat
    BY CounterNames, Numbers DEF IInv, TypeInv, StatsType
  <2>3. SitemapLimit <= MaxFrontierSize - 1 /\ SitemapLimit \in Int /\ MaxFrontierSize \in Nat
    BY OptionsAssumption DEF SitemapLimit
  <2> QED BY <2>1, <2>2, <2>3 DEF CanPush
<1> QED BY <1>1, Outcomes, PTL

\* The summary Run ends with agrees with what was written before it, for every
\* way a crawl can end: each failure and refusal it counts is an error record,
\* each OK response a page record as far as the budget goes, and its OpenAPI
\* endpoints those of the probe's record.
THEOREM SummaryCorrect == Spec => []SummaryMatchesRecords
<1>1. IInv /\ OInv => SummaryMatchesRecords
  <2> SUFFICES ASSUME IInv, OInv, main = "done" PROVE SummaryMatchesRecords
    BY DEF SummaryMatchesRecords
  <2>1. summary = <<[counters |-> stats, endpoints |-> endpoints, partial |-> partial]>>
        /\ endpoints = ProbeTold
    BY DEF OInv, Epilogue
  <2>2. summary[1].counters = stats /\ summary[1].endpoints = endpoints
    BY <2>1
  <2>3. Admitting = {} /\ Expanding = {} /\ InRequest = {}
    BY DEF IInv, Phases, Admitting, Expanding, AtPage, InRequest, AtWork
  <2>4. Cardinality(Admitting) = 0 /\ Cardinality(Expanding) = 0 /\ Cardinality(InRequest) = 0
    BY <2>3, FS_EmptySet
  <2>5. /\ stats["ok"] \in Nat /\ stats["failed"] \in Nat /\ stats["inBudget"] \in Nat
        /\ MaxPages \in Nat /\ Cardinality(Pages) \in Nat
    BY CounterNames, OptionsAssumption, FS_CardinalityType DEF IInv, TypeInv, StatsType, OInv, Budgeted
  <2>6. Cardinality(Failures) = stats["failed"] + stats["robots"]
    BY DEF OInv, OutcomesWritten, FailuresWritten
  <2>7. stats["requests"] = stats["ok"] + stats["failed"]
    <3>1. stats["requests"] = stats["ok"] + stats["failed"] + Cardinality(InRequest)
      BY DEF OInv, RequestsBalance, InRequest, AtWork
    <3> QED BY <2>4, <2>5, <3>1
  <2>8. Cardinality(Pages) = IF MaxPages = 0 \/ stats["ok"] <= MaxPages THEN stats["ok"] ELSE MaxPages
    <3>1. CASE MaxPages = 0
      <4>1. stats["ok"] = Cardinality(Pages) + Cardinality(Admitting) + Cardinality(Expanding)
        BY <3>1 DEF OInv, OutcomesWritten, PagesWritten
      <4> QED BY ONLY <2>4, <2>5, <3>1, <4>1
    <3>2. CASE MaxPages # 0
      <4>1. stats["ok"] = stats["inBudget"] + Cardinality(Admitting)
        BY <3>2 DEF OInv, OutcomesWritten, PagesWritten
      <4>2. MaxPages > 0
        BY <2>5, <3>2
      <4>3. Cardinality(Pages) + Cardinality(Expanding) = Admitted
        BY <4>2 DEF OInv, Budgeted
      <4> QED BY ONLY <2>4, <2>5, <3>2, <4>1, <4>3 DEF Admitted
    <3> QED BY <3>1, <3>2
  <2> QED BY <2>1, <2>2, <2>6, <2>7, <2>8 DEF SummaryMatchesRecords, ProbeTold
<1> QED BY <1>1, Outcomes, PTL

\* Never more pages than MaxPages are written, and a crawl the budget stopped
\* wrote exactly that many, however many workers were mid-page when it hit.
THEOREM BudgetCorrect == Spec => []PageBudgetExact
<1>1. IInv /\ OInv => PageBudgetExact
  <2> SUFFICES ASSUME IInv, OInv, MaxPages > 0
               PROVE  /\ Cardinality(Pages) <= MaxPages
                      /\ main = "done" /\ cause = "budget" => Cardinality(Pages) = MaxPages
    BY DEF PageBudgetExact
  <2>1. Cardinality(Pages) \in Nat /\ Cardinality(Expanding) \in Nat
    BY FS_CardinalityType, SubsetsOfWorker DEF OInv, Budgeted, Expanding
  <2>2. stats["inBudget"] \in Nat /\ MaxPages \in Nat
    BY CounterNames, OptionsAssumption DEF IInv, TypeInv, StatsType
  <2>3. Cardinality(Pages) + Cardinality(Expanding) = Admitted
    BY DEF OInv, Budgeted
  <2>4. Admitted \in Nat /\ Admitted <= MaxPages
    BY <2>2 DEF Admitted
  <2>5. Cardinality(Pages) <= MaxPages
    BY <2>1, <2>2, <2>3, <2>4
  <2>6. ASSUME main = "done", cause = "budget" PROVE Cardinality(Pages) = MaxPages
    <3>1. Expanding = {}
      BY <2>6 DEF IInv, Phases, Expanding, AtPage
    <3>2. Admitted = MaxPages
      BY <2>2, <2>6 DEF OInv, Budgeted, Admitted
    <3>3. Cardinality(Expanding) = 0
      BY <3>1, FS_EmptySet
    <3> QED BY <2>1, <2>3, <3>2, <3>3
  <2> QED BY <2>5, <2>6
<1> QED BY <1>1, Outcomes, PTL

\* A crawl nobody stopped wrote one record about every URL it claimed, its
\* counters add up, and no in-scope link of a page above the depth limit was
\* left out.
THEOREM CompletenessCorrect == Spec => []CleanFinishIsComplete
<1>1. IInv /\ OInv => CleanFinishIsComplete
  <2> SUFFICES ASSUME IInv, OInv, main = "done", cause = "run" PROVE CleanFinishIsComplete
    BY DEF CleanFinishIsComplete
  <2>1. seen \subseteq Written /\ stats["unique"] = stats["requests"] + stats["robots"]
    BY DEF OInv, Ended
  <2>2. ASSUME NEW u \in seen PROVE Len(records[u]) = 1
    <3>1. u \in URL /\ records[u] # <<>>
      BY <2>1 DEF Written
    <3>2. records[u] \in Seq(Record) /\ Len(records[u]) <= 1
      BY <3>1 DEF IInv, TypeInv, RecordType, OnePlace, OneRecordPerURL
    <3>3. Len(records[u]) \in Nat /\ Len(records[u]) # 0
      BY <3>1, <3>2
    <3>4. \A n \in Nat : n # 0 /\ n <= 1 => n = 1
      OBVIOUS
    <3> QED BY ONLY <3>2, <3>3, <3>4
  <2>3. ASSUME NEW p \in Pages, records[p][1].depth < MaxDepth, NEW i \in DOMAIN Links[p],
               Links[p][i] \in InScope
        PROVE  records[Links[p][i]] # <<>>
    <3>1. Links[p][i] \in seen
      BY <2>3, EmptyRan DEF OInv, LinksClaimed, PageLinksClaimed, Covered
    <3> QED BY <2>1, <3>1 DEF Written
  <2> QED BY <2>1, <2>2, <2>3 DEF CleanFinishIsComplete
<1> QED BY <1>1, Outcomes, PTL
-----------------------------------------------------------------------------
(***************************************************************************)
(* Depth. First the chain of pages each item was found on, for any number  *)
(* of workers: wherever a URL is met, queued, in process, on its way into  *)
(* the frontier or on record, its depth is one more than that of a page    *)
(* that links to it.                                                       *)
(***************************************************************************)

\* Within, whose recursive definition is a CHOOSE, is the function its equation
\* describes.
Roots == {Seed} \cup {u \in URL : \E i \in DOMAIN records[u] : records[u][i].depth = 0}
Grow(X) == X \cup {u \in InScope : \E p \in Pages \cap X : \E i \in DOMAIN Links[p] : Links[p][i] = u}

LEMMA WithinSteps ==
  Within[0] = Roots /\ \A n \in Nat : Within[n + 1] = Grow(Within[n])
<1> DEFINE G == [n \in Nat |-> [X \in SUBSET URL |-> Grow(X)]]
           Step(f) == [n \in Nat |-> IF n = 0 THEN Roots ELSE Grow(f[n - 1])]
<1>1. Roots \in SUBSET URL /\ \A X \in SUBSET URL : Grow(X) \in SUBSET URL
  BY SiteAssumption DEF Roots, Grow
<1>2. G \in [Nat -> [SUBSET URL -> SUBSET URL]]
  BY <1>1
<1>3. \E f \in [Nat -> SUBSET URL] : f[0] = Roots /\ \A n \in Nat : f[n + 1] = G[n][f[n]]
  <2> DEFINE D == SUBSET URL
  <2>1. Roots \in D /\ StepsIn(G, D)
    BY <1>1, <1>2 DEF StepsIn
  <2> HIDE DEF G, D
  <2>2. \E f : Follows(f, D, Roots, G)
    BY <2>1, NatRecursion
  <2> QED BY <2>2 DEF D, Follows
<1>4. PICK f \in [Nat -> SUBSET URL] : f[0] = Roots /\ \A n \in Nat : f[n + 1] = Grow(f[n])
  BY <1>3
<1>5. f = Step(f)
  <2>1. ASSUME NEW n \in Nat PROVE f[n] = IF n = 0 THEN Roots ELSE Grow(f[n - 1])
    <3>1. CASE n = 0
      BY <1>4, <3>1
    <3>2. CASE n # 0
      <4>1. n - 1 \in Nat /\ (n - 1) + 1 = n
        BY <3>2
      <4> QED BY <1>4, <3>2, <4>1
    <3> QED BY <3>1, <3>2
  <2> QED BY <2>1
<1>6. Within = Step(Within)
  <2>1. Within = CHOOSE g : g = Step(g)
    BY DEF Within, Roots, Grow
  <2> HIDE DEF Step
  <2> QED BY <1>5, <2>1
<1>7. Within[0] = Roots
  BY <1>6
<1>8. ASSUME NEW n \in Nat PROVE Within[n + 1] = Grow(Within[n])
  <2>1. n + 1 \in Nat /\ n + 1 # 0 /\ (n + 1) - 1 = n
    OBVIOUS
  <2> QED BY <1>6, <2>1
<1> QED BY <1>7, <1>8

\* Where a URL can be met, and at which depth.
QueueItems == {frontier[i] : i \in DOMAIN frontier}
BusyItems == {cur[w] : w \in Busy}
ChildItem(w) == [url |-> Child(w), depth |-> cur[w].depth + 1]
ChildItems == {ChildItem(w) : w \in Pushing}
RecordItems == {[url |-> u, depth |-> records[u][1].depth] : u \in Written}
Located == QueueItems \cup BusyItems \cup ChildItems \cup RecordItems

LEMMA QueueItemsMove ==
  ASSUME FrontierType
  PROVE  /\ \A item \in Item : AddToFrontier(item) => QueueItems' = QueueItems \cup {item}
         /\ frontier # <<>> /\ frontier' = Tail(frontier) =>
              Head(frontier) \in QueueItems /\ QueueItems' \subseteq QueueItems
<1>1. frontier \in Seq(Item) /\ Len(frontier) \in Nat /\ DOMAIN frontier = 1..Len(frontier)
  BY DEF FrontierType
<1>2. ASSUME NEW item \in Item, AddToFrontier(item) PROVE QueueItems' = QueueItems \cup {item}
  <2>1. /\ DOMAIN frontier' = 1..(Len(frontier) + 1) /\ frontier'[Len(frontier) + 1] = item
        /\ \A i \in 1..Len(frontier) : frontier'[i] = frontier[i]
    BY <1>1, <1>2 DEF AddToFrontier
  <2>2. QueueItems' \subseteq QueueItems \cup {item}
    BY <1>1, <2>1 DEF QueueItems
  <2>3. \A i \in 1..Len(frontier) : frontier[i] \in QueueItems'
    BY <1>1, <2>1 DEF QueueItems
  <2>4. item \in QueueItems'
    BY <1>1, <2>1 DEF QueueItems
  <2> QED BY <1>1, <2>2, <2>3, <2>4 DEF QueueItems
<1>3. ASSUME frontier # <<>>, frontier' = Tail(frontier)
      PROVE  Head(frontier) \in QueueItems /\ QueueItems' \subseteq QueueItems
  <2>1. /\ DOMAIN frontier' = 1..(Len(frontier) - 1) /\ Len(frontier) > 0
        /\ Head(frontier) = frontier[1]
        /\ \A i \in 1..(Len(frontier) - 1) : frontier'[i] = frontier[i + 1] /\ i + 1 \in 1..Len(frontier)
    BY <1>1, <1>3
  <2> QED BY <1>1, <2>1 DEF QueueItems
<1> QED BY <1>2, <1>3

LEMMA PlacesStay ==
  ASSUME UNCHANGED <<records, cur>>, QueueItems' \subseteq QueueItems,
         Busy' \subseteq Busy, Pushing' \subseteq Pushing, \A v \in Pushing' : todo'[v] = todo[v]
  PROVE  Located' \subseteq Located
<1>1. BusyItems' \subseteq BusyItems
  BY DEF BusyItems
<1>2. ChildItems' \subseteq ChildItems
  BY DEF ChildItems, ChildItem, Child
<1>3. RecordItems' = RecordItems
  BY DEF RecordItems, Written
<1> QED BY <1>1, <1>2, <1>3 DEF Located

\* A step of a worker moves items between these places; only the discovery of
\* an unclaimed link adds one.
LEMMA WorkerPlaces ==
  ASSUME TypeInv, OnePlace, NEW w \in Worker, WorkerStep(w)
  PROVE  \/ Located' \subseteq Located
         \/ /\ Discover(w) /\ pc'[w] = "push" /\ Child(w) \notin seen
            /\ Located' \subseteq Located \cup {ChildItem(w)}
<1>1. CASE Pop(w)
  <2>1. Head(frontier) \in QueueItems /\ QueueItems' \subseteq QueueItems
    BY <1>1, QueueItemsMove DEF Pop, TypeInv
  <2>2. BusyItems' \subseteq BusyItems \cup {Head(frontier)}
    <3>1. \A v \in Busy' : v = w \/ (v \in Busy /\ cur'[v] = cur[v])
      BY <1>1, OthersStay DEF Busy
    <3>2. cur'[w] = Head(frontier)
      BY <1>1 DEF Pop, TypeInv, ItemType
    <3> QED BY <3>1, <3>2 DEF BusyItems
  <2>3. ChildItems' \subseteq ChildItems
    <3>1. \A v \in Pushing' : v # w /\ v \in Worker
      BY <1>1 DEF Pop, Goto, Pushing, TypeInv, PositionType
    <3>2. \A v \in Pushing' : v \in Pushing /\ cur'[v] = cur[v] /\ todo'[v] = todo[v]
      BY <3>1, OthersStay DEF Pushing
    <3> QED BY <3>2 DEF ChildItems, ChildItem, Child
  <2>4. RecordItems' = RecordItems
    BY <1>1 DEF Pop, RecordItems, Written
  <2> QED BY <2>1, <2>2, <2>3, <2>4 DEF Located
<1>2. CASE Push(w)
  <2>1. w \in Pushing /\ ChildItem(w) \in ChildItems
    BY <1>2 DEF Push, Pushing, ChildItems
  <2>2. ChildItem(w) \in Item
    BY <2>1 DEF ChildItem, Child, Item, TypeInv, PushHasChild, TodoType, ItemType, Pushing
  <2>3. QueueItems' = QueueItems \cup {ChildItem(w)}
    BY <1>2, <2>2, QueueItemsMove DEF Push, ChildItem, Child, TypeInv
  <2>4. BusyItems' = BusyItems /\ RecordItems' = RecordItems
    <3>1. Busy' = Busy /\ UNCHANGED <<cur, records>>
      BY <1>2, BusyMoves DEF Push, Pop, ItemDone
    <3> QED BY <3>1 DEF BusyItems, RecordItems, Written
  <2>5. ChildItems' \subseteq ChildItems
    <3>1. w \notin Pushing'
      BY <1>2 DEF Push, Goto, Pushing, TypeInv, PositionType
    <3>2. \A v \in Pushing' : v \in Pushing /\ cur'[v] = cur[v] /\ todo'[v] = todo[v]
      BY <3>1, OthersStay DEF Pushing
    <3> QED BY <3>2 DEF ChildItems, ChildItem, Child
  <2> QED BY <2>1, <2>3, <2>4, <2>5 DEF Located
<1>3. CASE Discover(w) /\ pc'[w] = "push"
  <2>1. /\ Child(w) \notin seen /\ UNCHANGED <<frontier, records, cur, todo>>
    BY <1>3 DEF Discover, Child, TypeInv, PositionType
  <2>2. Busy' = Busy
    BY <1>3, BusyMoves DEF Discover, Pop, ItemDone
  <2>3. \A v \in Pushing' : v = w \/ v \in Pushing
    BY <1>3, OthersStay DEF Pushing
  <2>4. ChildItems' \subseteq ChildItems \cup {ChildItem(w)}
    BY <2>1, <2>3 DEF ChildItems, ChildItem, Child
  <2>5. QueueItems' = QueueItems /\ BusyItems' = BusyItems /\ RecordItems' = RecordItems
    BY <2>1, <2>2 DEF QueueItems, BusyItems, RecordItems, Written
  <2> QED BY <1>3, <2>1, <2>4, <2>5 DEF Located
<1>4. CASE RobotsDisallow(w) \/ FetchFailed(w) \/ WritePage(w)
  <2>1. PICK kind \in {"page", "error"} : Write(w, kind)
    BY <1>4 DEF RobotsDisallow, FetchFailed, WritePage
  <2>2. records[cur[w].url] = <<>>
    BY <1>4, FirstRecord
  <2>3. w \in Busy /\ Busy' = Busy /\ UNCHANGED <<frontier, cur, todo>>
    <3>1. w \in Busy
      BY <1>4 DEF RobotsDisallow, FetchFailed, ReleaseOnFailure, AttemptFails, WritePage, Busy
    <3>2. ~Pop(w) /\ ~ItemDone(w)
      BY <1>4 DEF RobotsDisallow, FetchFailed, ReleaseOnFailure, AttemptFails, WritePage, Pop, ItemDone
    <3> QED BY <1>4, <3>1, <3>2, BusyMoves DEF RobotsDisallow, FetchFailed, WritePage
  <2>4. Pushing' \subseteq Pushing
    <3>1. pc'[w] = "done"
      BY <1>4 DEF RobotsDisallow, FetchFailed, WritePage, Goto, TypeInv, PositionType
    <3> QED BY <3>1, OthersStay DEF Pushing
  <2>5. cur[w] \in Item /\ records \in [URL -> Seq(Record)] /\ cur[w].url \in URL
    BY DEF TypeInv, ItemType, RecordType, Item
  <2>6. Written' = Written \cup {cur[w].url}
    BY <2>1, WriteMoves
  <2>7. records'[cur[w].url][1].depth = cur[w].depth
    BY <2>1, <2>2, <2>5 DEF Write
  <2>8. \A u \in Written : u # cur[w].url /\ records'[u] = records[u]
    BY <2>1, <2>2, <2>5 DEF Write, Written
  <2>9. [url |-> cur[w].url, depth |-> cur[w].depth] = cur[w]
    BY <2>5 DEF Item
  <2>10. RecordItems' \subseteq RecordItems \cup {cur[w]}
    BY <2>6, <2>7, <2>8, <2>9 DEF RecordItems
  <2>11. QueueItems' = QueueItems /\ BusyItems' = BusyItems /\ ChildItems' \subseteq ChildItems
    BY <2>3, <2>4 DEF QueueItems, BusyItems, ChildItems, ChildItem, Child
  <2>12. cur[w] \in BusyItems
    BY <2>3 DEF BusyItems
  <2> QED BY <2>10, <2>11, <2>12 DEF Located
<1>5. CASE \/ PopCancelled(w) \/ RobotsAllow(w) \/ AcquireHost(w) \/ AcquireCancelled(w)
           \/ Backoff(w) \/ Retry(w) \/ FetchOK(w) \/ AdmitPage(w) \/ PushCancelled(w)
           \/ ItemDone(w) \/ (Discover(w) /\ pc'[w] # "push")
  BY <1>5, QuietSteps, PlacesStay DEF QueueItems
<1> QED BY <1>1, <1>2, <1>3, <1>4, <1>5 DEF WorkerStep

LEMMA PlacesMove ==
  ASSUME TypeInv, Phases, OnePlace, [Next]_vars
  PROVE  \/ Located' \subseteq Located
         \/ \E w \in Worker : /\ Discover(w) /\ pc'[w] = "push" /\ Child(w) \notin seen
                              /\ Located' \subseteq Located \cup {ChildItem(w)}
         \/ /\ SeedFrontier \/ SeedSitemapLoc
            /\ \E u \in URL : Located' \subseteq Located \cup {[url |-> u, depth |-> 0]}
<1>1. ASSUME UNCHANGED <<frontier, records, cur, todo>>, Busy' \subseteq Busy, Pushing' \subseteq Pushing
      PROVE  Located' \subseteq Located
  BY <1>1, PlacesStay DEF QueueItems
<1>2. ASSUME NEW u \in URL, EnqueueBeforeWorkers([url |-> u, depth |-> 0]), UNCHANGED <<records, workVars>>
      PROVE  Located' \subseteq Located \cup {[url |-> u, depth |-> 0]}
  <2>1. [url |-> u, depth |-> 0] \in Item
    BY DEF Item
  <2>2. QueueItems' \subseteq QueueItems \cup {[url |-> u, depth |-> 0]}
    BY <1>2, <2>1, QueueItemsMove DEF EnqueueBeforeWorkers, TypeInv, QueueItems
  <2>3. BusyItems' = BusyItems /\ ChildItems' = ChildItems /\ RecordItems' = RecordItems
    BY <1>2 DEF workVars, BusyItems, ChildItems, ChildItem, Child, RecordItems, Written, Busy, Pushing
  <2> QED BY <2>2, <2>3 DEF Located
<1>3. CASE SeedFrontier
  BY <1>2, <1>3, SiteAssumption DEF SeedFrontier
<1>4. CASE SeedSitemapLoc
  <2>1. Head(locs) \in URL /\ UNCHANGED <<records, workVars>>
    BY <1>4 DEF SeedSitemapLoc, TypeInv, RunType
  <2>2. CASE EnqueueBeforeWorkers([url |-> Head(locs), depth |-> 0])
    BY <1>2, <1>4, <2>1, <2>2
  <2>3. CASE UNCHANGED frontier
    BY <1>1, <2>1, <2>3 DEF workVars, Busy, Pushing
  <2> QED BY <1>4, <2>2, <2>3 DEF SeedSitemapLoc
<1>5. CASE StartWorkers
  <2>1. Busy' = {} /\ Pushing' = {}
    BY <1>5 DEF StartWorkers, Busy, Pushing
  <2> QED BY <1>1, <1>5, <2>1 DEF StartWorkers
<1>6. CASE UNCHANGED <<frontier, records, cur, todo, pc>>
  BY <1>1, <1>6 DEF Busy, Pushing
<1> QED BY <1>3, <1>4, <1>5, <1>6, WorkerPlaces
     DEF Next, RunStep, Terminated, vars, StopWaiting, JoinWorkers, StartProbe, ProbeEnds,
     Summarize, Drain, Deadline,
         CallerCancels, workVars

\* The seed is claimed first, so no link can claim it again, at a greater depth.
SeedClaimed == main # "seed" => Seed \in seen
SeedAtZero == \A at \in Located : at.url = Seed => at.depth = 0
LinksOpen == \A w \in Expanding : Ran(todo[w]) \subseteq Ran(Links[cur[w].url])
\* p, written or being expanded, is the page the item at was found on.
FoundOn(p, at) ==
  /\ p \in URL /\ at.url \in Ran(Links[p]) /\ at.url \in InScope
  /\ \/ p \in Pages /\ records[p][1].depth = at.depth - 1
     \/ \E w \in Expanding : cur[w] = [url |-> p, depth |-> at.depth - 1]
HasParent == \A at \in Located : at.depth > 0 => \E p : FoundOn(p, at)

PathInv == SeedClaimed /\ SeedAtZero /\ LinksOpen /\ HasParent

LEMMA NoPlaces == Init => Located = {} /\ Expanding = {}
<1> SUFFICES ASSUME Init PROVE Located = {} /\ Expanding = {}
  OBVIOUS
<1>1. Busy = {} /\ Pushing = {} /\ Written = {} /\ DOMAIN frontier = {} /\ Expanding = {}
  BY DEF Init, Busy, Pushing, Written, Expanding, AtPage
<1> QED BY <1>1 DEF Located, QueueItems, BusyItems, ChildItems, RecordItems

LEMMA PlaceTypes ==
  ASSUME TypeInv, OnePlace PROVE Located \subseteq Item
<1>1. QueueItems \subseteq Item
  BY DEF TypeInv, FrontierType, QueueItems
<1>2. BusyItems \subseteq Item
  BY DEF TypeInv, ItemType, BusyItems, Busy
<1>3. ChildItems \subseteq Item
  BY DEF ChildItems, ChildItem, Child, Item, TypeInv, PushHasChild, TodoType, ItemType, Pushing
<1>4. RecordItems \subseteq Item
  <2>1. ASSUME NEW u \in Written PROVE u \in URL /\ records[u][1].depth \in Nat
    <3>1. records[u] \in Seq(Record) /\ records[u] # <<>>
      BY DEF Written, TypeInv, RecordType
    <3>2. records[u][1] \in Record
      BY <3>1
    <3> QED BY <3>2 DEF Written, Record
  <2> QED BY <2>1 DEF RecordItems, Item
<1> QED BY <1>1, <1>2, <1>3, <1>4 DEF Located

LEMMA SeedStep ==
  ASSUME TypeInv, Phases, OnePlace, SeedClaimed, SeedAtZero, [Next]_vars
  PROVE  SeedClaimed' /\ SeedAtZero'
<1>1. SeedClaimed'
  <2>1. CASE SeedFrontier
    BY <2>1 DEF SeedFrontier, MarkSeen, SeedClaimed
  <2>2. CASE main # "seed"
    BY <2>2, SeenGrows DEF SeedClaimed
  <2>3. CASE main = "seed" /\ ~SeedFrontier
    <3>1. \A w \in Worker : ~WorkerStep(w)
      BY <2>3, IdleWorkers DEF Phases
    <3>2. main' = "seed"
      BY <2>3, <3>1 DEF Next, RunStep, Terminated, vars, SeedSitemapLoc, StartWorkers, StopWaiting,
           JoinWorkers, StartProbe, ProbeEnds, Summarize, Drain, Deadline, CallerCancels, runVars
    <3> QED BY <3>2 DEF SeedClaimed
  <2> QED BY <2>1, <2>2, <2>3
<1>2. SeedAtZero'
  <2>1. CASE Located' \subseteq Located
    BY <2>1 DEF SeedAtZero
  <2>2. ASSUME NEW w \in Worker, Discover(w), Child(w) \notin seen,
               Located' \subseteq Located \cup {ChildItem(w)}
        PROVE  SeedAtZero'
    <3>1. main # "seed"
      BY <2>2, IdleWorkers DEF Phases, WorkerStep
    <3>2. ChildItem(w).url # Seed
      BY <2>2, <3>1 DEF SeedClaimed, ChildItem
    <3> QED BY <2>2, <3>2 DEF SeedAtZero
  <2>3. ASSUME NEW u \in URL, Located' \subseteq Located \cup {[url |-> u, depth |-> 0]}
        PROVE  SeedAtZero'
    BY <2>3 DEF SeedAtZero
  <2> QED BY <2>1, <2>2, <2>3, PlacesMove
<1> QED BY <1>1, <1>2

LEMMA LinksOpenStep ==
  ASSUME TypeInv, LinksOpen, [Next]_vars PROVE LinksOpen'
<1>1. ASSUME UNCHANGED <<cur, todo>>, Expanding' \subseteq Expanding PROVE LinksOpen'
  BY <1>1 DEF LinksOpen, Ran
<1>2. ASSUME NEW w \in Worker, WorkerStep(w) PROVE LinksOpen'
  <2>1. ASSUME NEW v \in Expanding', v # w PROVE Ran(todo'[v]) \subseteq Ran(Links[cur'[v].url])
    <3>1. v \in Worker /\ v \in Expanding /\ cur'[v] = cur[v] /\ todo'[v] = todo[v]
      BY <1>2, <2>1, OthersStay DEF Expanding
    <3> QED BY <3>1 DEF LinksOpen
  <2>2. ASSUME w \in Expanding' PROVE Ran(todo'[w]) \subseteq Ran(Links[cur'[w].url])
    <3>1. CASE AdmitPage(w)
      BY <2>2, <3>1 DEF AdmitPage, Expanding, AtPage, Goto, TypeInv, PositionType, TodoType
    <3>2. CASE Discover(w) \/ Push(w) \/ PushCancelled(w)
      <4>1. w \in Expanding /\ cur' = cur /\ todo[w] # <<>> /\ todo[w] \in Seq(URL)
        BY <3>2 DEF Discover, Push, PushCancelled, Expanding, AtPage, TypeInv, TodoType, PushHasChild
      <4>2. todo'[w] = todo[w] \/ todo'[w] = Tail(todo[w])
        BY <3>2 DEF Discover, Push, PushCancelled, TypeInv, TodoType
      <4>3. Ran(Tail(todo[w])) \subseteq Ran(todo[w])
        BY <4>1, TailRan
      <4> QED BY <4>1, <4>2, <4>3 DEF LinksOpen
    <3>3. CASE ~AdmitPage(w) /\ ~Discover(w) /\ ~Push(w) /\ ~PushCancelled(w)
      BY <1>2, <2>2, <3>3 DEF WorkerStep, Pop, PopCancelled, RobotsDisallow, RobotsAllow, AcquireHost,
         AcquireCancelled, Backoff, Retry, FetchFailed, FetchOK, ItemDone, WritePage, StartAttempt, Goto,
         Expanding, AtPage, TypeInv, PositionType
    <3> QED BY <3>1, <3>2, <3>3
  <2> QED BY <2>1, <2>2 DEF LinksOpen, Ran
<1>3. CASE StartWorkers
  BY <1>1, <1>3 DEF StartWorkers, Expanding, AtPage
<1>4. CASE UNCHANGED <<pc, cur, todo>>
  BY <1>1, <1>4 DEF Expanding
<1> QED BY <1>2, <1>3, <1>4
     DEF Next, RunStep, Terminated, vars, SeedFrontier, SeedSitemapLoc, StopWaiting, JoinWorkers,
         StartProbe, ProbeEnds, Summarize, Drain, Deadline, CallerCancels, workVars

\* The page an item was found on stays on record.
LEMMA FoundStays ==
  ASSUME TypeInv, Phases, OnePlace, [Next]_vars, NEW p, NEW at, FoundOn(p, at)
  PROVE  FoundOn(p, at)'
<1>1. p \in URL /\ at.url \in Ran(Links[p]) /\ at.url \in InScope
  BY DEF FoundOn
<1>2. CASE UNCHANGED <<records, pc, cur>>
  <2>1. Pages' = Pages /\ Expanding' = Expanding
    BY <1>2 DEF Pages, Expanding
  <2> QED BY <1>2, <2>1 DEF FoundOn, Ran
<1>3. CASE StartWorkers
  <2>1. Pages' = Pages /\ UNCHANGED records /\ Expanding = {}
    BY <1>3 DEF StartWorkers, Pages, Phases, Expanding, AtPage
  <2> QED BY <2>1 DEF FoundOn, Ran
<1>4. ASSUME NEW v \in Worker, WorkerStep(v) PROVE FoundOn(p, at)'
  <2>1. CASE p \in Pages /\ records[p][1].depth = at.depth - 1
    <3>1. p \in Pages' /\ records'[p] = records[p]
      <4>1. CASE WritePage(v)
        <5>1. records[cur[v].url] = <<>> /\ Write(v, "page")
          BY <4>1, FirstRecord DEF WritePage
        <5>2. Pages' = Pages \cup {cur[v].url} /\ cur[v].url \notin Pages
          BY <5>1, PagesMove
        <5> QED BY <1>1, <2>1, <5>1, <5>2 DEF Write, TypeInv, RecordType
      <4> QED BY <1>4, <2>1, <4>1, PagesStay
    <3> QED BY <1>1, <2>1, <3>1 DEF FoundOn, Ran
  <2>2. ASSUME NEW w \in Expanding, cur[w] = [url |-> p, depth |-> at.depth - 1] PROVE FoundOn(p, at)'
    <3>1. CASE w # v
      <4>1. w \in Expanding' /\ cur'[w] = cur[w]
        BY <1>4, <3>1, OthersStay DEF Expanding
      <4> QED BY <1>1, <2>2, <4>1 DEF FoundOn, Ran
    <3>2. CASE w = v /\ WritePage(v)
      <4>1. records[cur[v].url] = <<>> /\ Write(v, "page")
        BY <3>2, FirstRecord DEF WritePage
      <4>2. p \in Pages'
        BY <2>2, <3>2, <4>1, PagesMove
      <4>3. records'[p][1].depth = at.depth - 1
        BY <1>1, <2>2, <3>2, <4>1 DEF Write, TypeInv, RecordType
      <4> QED BY <1>1, <4>2, <4>3 DEF FoundOn, Ran
    <3>3. CASE w = v /\ ~WritePage(v)
      <4>1. w \in Expanding' /\ cur' = cur
        BY <1>4, <3>3 DEF WorkerStep, Pop, PopCancelled, RobotsDisallow, RobotsAllow, AcquireHost,
           AcquireCancelled, Backoff, AttemptFails, Retry, FetchFailed, ReleaseOnFailure, FetchOK,
           AdmitPage, Discover, Push, PushCancelled, ItemDone, Goto, Expanding, AtPage, TypeInv,
           PositionType
      <4> QED BY <1>1, <2>2, <4>1 DEF FoundOn, Ran
    <3> QED BY <3>1, <3>2, <3>3
  <2> QED BY <2>1, <2>2 DEF FoundOn
<1> QED BY <1>2, <1>3, <1>4
     DEF Next, RunStep, Terminated, vars, SeedFrontier, SeedSitemapLoc, StopWaiting, JoinWorkers,
         StartProbe, ProbeEnds, Summarize, Drain, Deadline, CallerCancels, workVars

LEMMA HasParentStep ==
  ASSUME TypeInv, Phases, OnePlace, LinksOpen, HasParent, [Next]_vars PROVE HasParent'
<1> SUFFICES ASSUME NEW at \in Located', at.depth > 0 PROVE \E p : FoundOn(p, at)'
  BY DEF HasParent
<1>1. CASE at \in Located
  BY <1>1, FoundStays DEF HasParent
<1>2. ASSUME NEW w \in Worker, Discover(w), pc'[w] = "push", at = ChildItem(w) PROVE FoundOn(cur[w].url, at)'
  <2>1. w \in Expanding /\ w \in Expanding' /\ cur' = cur /\ todo[w] # <<>> /\ Child(w) \in InScope
    BY <1>2 DEF Discover, Expanding, AtPage, Child, TypeInv, PositionType
  <2>2. cur[w] \in Item /\ todo[w] \in Seq(URL)
    BY DEF TypeInv, ItemType, TodoType
  <2>3. Child(w) \in Ran(Links[cur[w].url])
    BY <2>1, <2>2, TailRan DEF LinksOpen, Child
  <2>4. at.url = Child(w) /\ at.depth - 1 = cur[w].depth
    BY <1>2, <2>2 DEF ChildItem, Item
  <2>5. cur'[w] = [url |-> cur[w].url, depth |-> at.depth - 1] /\ cur[w].url \in URL
    BY <2>1, <2>2, <2>4 DEF Item
  <2>6. cur'[w].url = cur[w].url
    BY <2>1
  <2> QED BY <2>1, <2>3, <2>4, <2>5 DEF FoundOn, Ran
<1>3. ASSUME NEW u, at = [url |-> u, depth |-> 0] PROVE FALSE
  BY <1>3
<1> QED BY <1>1, <1>2, <1>3, PlacesMove

LEMMA PathInit == Init => PathInv
BY NoPlaces DEF Init, PathInv, SeedClaimed, SeedAtZero, LinksOpen, HasParent

LEMMA PathCorrect == Spec => [](IInv /\ OInv /\ PathInv)
<1>1. IInv /\ OInv /\ PathInv /\ [Next]_vars => PathInv'
  BY SeedStep, LinksOpenStep, HasParentStep DEF IInv, OInv, PathInv
<1> QED BY <1>1, Outcomes, PathInit, PTL DEF Spec
-----------------------------------------------------------------------------
(***************************************************************************)
(* Then the order in which one worker meets them. The frontier spans at    *)
(* most two levels, nothing in it is shallower than the item in process,   *)
(* and nothing on record is deeper than that. A second worker breaks this: *)
(* it may push a child of a shallow page behind the grandchildren another  *)
(* worker already queued.                                                  *)
(***************************************************************************)
OneWorker == \A v, w \in Worker : v = w

SeedsFirst == main \in {"seed", "sitemap"} => \A i \in DOMAIN frontier : frontier[i].depth = 0
QueueInOrder ==
  \A i, j \in DOMAIN frontier :
    i < j => frontier[i].depth <= frontier[j].depth /\ frontier[j].depth <= frontier[i].depth + 1
BusyInOrder ==
  \A w \in Busy : \A i \in DOMAIN frontier :
    cur[w].depth <= frontier[i].depth /\ frontier[i].depth <= cur[w].depth + 1
RecordsInOrder ==
  \A u \in Written : /\ \A i \in DOMAIN frontier : records[u][1].depth <= frontier[i].depth
                     /\ \A w \in Busy : records[u][1].depth <= cur[w].depth
\* No link of a written page is met more than one level below it.
LinksNear ==
  \A p \in Pages : \A at \in Located :
    at.url \in Ran(Links[p]) /\ at.url \in InScope => at.depth <= records[p][1].depth + 1

OrderInv == SeedsFirst /\ QueueInOrder /\ BusyInOrder /\ RecordsInOrder

LEMMA DepthTypes ==
  ASSUME TypeInv
  PROVE  /\ \A i \in DOMAIN frontier : frontier[i].depth \in Nat
         /\ \A w \in Worker : cur[w].depth \in Nat
         /\ \A u \in Written : u \in URL /\ records[u][1].depth \in Nat
         /\ Pages \subseteq Written
<1>1. ASSUME NEW i \in DOMAIN frontier PROVE frontier[i].depth \in Nat
  <2>1. frontier[i] \in Item
    BY DEF TypeInv, FrontierType
  <2> QED BY <2>1 DEF Item
<1>2. \A w \in Worker : cur[w].depth \in Nat
  BY DEF TypeInv, ItemType, Item
<1>3. ASSUME NEW u \in Written PROVE u \in URL /\ records[u][1].depth \in Nat
  <2>1. records[u] \in Seq(Record) /\ records[u] # <<>>
    BY DEF Written, TypeInv, RecordType
  <2>2. records[u][1] \in Record
    BY <2>1
  <2> QED BY <2>2 DEF Written, Record
<1>4. Pages \subseteq Written
  BY DEF Pages, Written
<1> QED BY <1>1, <1>2, <1>3, <1>4

LEMMA OrderStays ==
  ASSUME OrderInv, UNCHANGED <<frontier, records, cur>>, Busy' \subseteq Busy,
         main' \in {"seed", "sitemap"} => main \in {"seed", "sitemap"}
  PROVE  OrderInv'
BY DEF OrderInv, SeedsFirst, QueueInOrder, BusyInOrder, RecordsInOrder, Written

LEMMA SeedsInOrder ==
  ASSUME Phases, OnePlace, TypeInv, OrderInv, main \in {"seed", "sitemap"},
         NEW u \in URL, EnqueueBeforeWorkers([url |-> u, depth |-> 0]), UNCHANGED <<records, workVars>>
  PROVE  OrderInv'
<1>1. \A i \in DOMAIN frontier' : frontier'[i].depth = 0
  BY DEF OrderInv, SeedsFirst, EnqueueBeforeWorkers, AddToFrontier, TypeInv, FrontierType
<1>2. Busy' = {}
  BY DEF Busy, Phases, workVars
<1>3. Written' = {}
  BY DEF Written, OnePlace, NothingBeforeStart
<1> QED BY <1>1, <1>2, <1>3 DEF OrderInv, SeedsFirst, QueueInOrder, BusyInOrder, RecordsInOrder

LEMMA OrderWorkerStep ==
  ASSUME OneWorker, TypeInv, Phases, OnePlace, OrderInv, NEW w \in Worker, WorkerStep(w)
  PROVE  OrderInv'
<1>1. main' = main /\ main \notin {"seed", "sitemap"}
  BY IdleWorkers, RunFrame DEF Phases
<1>2. Busy \subseteq {w} /\ Busy' \subseteq {w}
  BY DEF OneWorker, Busy
<1>3. SeedsFirst'
  BY <1>1 DEF SeedsFirst
<1>4. CASE Pop(w)
  <2>1. /\ frontier \in Seq(Item) /\ Len(frontier) \in Nat /\ Len(frontier) > 0
        /\ DOMAIN frontier = 1..Len(frontier) /\ DOMAIN frontier' = 1..(Len(frontier) - 1)
        /\ \A i \in 1..(Len(frontier) - 1) : frontier'[i] = frontier[i + 1] /\ i + 1 \in 1..Len(frontier)
        /\ cur'[w] = frontier[1] /\ records' = records
    BY <1>4 DEF Pop, TypeInv, FrontierType, ItemType
  <2>2. QueueInOrder'
    <3> SUFFICES ASSUME NEW i \in 1..(Len(frontier) - 1), NEW j \in 1..(Len(frontier) - 1), i < j
                 PROVE  frontier'[i].depth <= frontier'[j].depth /\ frontier'[j].depth <= frontier'[i].depth + 1
      BY <2>1 DEF QueueInOrder
    <3>1. i + 1 \in DOMAIN frontier /\ j + 1 \in DOMAIN frontier
      BY <2>1
    <3>2. i + 1 < j + 1
      OBVIOUS
    <3> QED BY <2>1, <3>1, <3>2 DEF OrderInv, QueueInOrder
  <2>3. \A i \in 1..(Len(frontier) - 1) : 1 < i + 1 /\ 1 \in 1..Len(frontier)
    <3>1. ASSUME NEW n \in Nat, n > 0, NEW i \in 1..(n - 1) PROVE 1 < i + 1 /\ 1 \in 1..n
      OBVIOUS
    <3> QED BY <2>1, <3>1
  <2>4. BusyInOrder'
    <3>1. ASSUME NEW i \in DOMAIN frontier'
          PROVE  cur'[w].depth <= frontier'[i].depth /\ frontier'[i].depth <= cur'[w].depth + 1
      <4>1. frontier'[i] = frontier[i + 1] /\ 1 < i + 1 /\ 1 \in DOMAIN frontier /\ i + 1 \in DOMAIN frontier
        BY <2>1, <2>3
      <4> QED BY <2>1, <4>1 DEF OrderInv, QueueInOrder
    <3> QED BY <1>2, <3>1 DEF BusyInOrder
  <2>5. RecordsInOrder'
    <3>1. Written' = Written
      BY <2>1 DEF Written
    <3> QED BY <1>2, <2>1, <2>3, <3>1 DEF OrderInv, RecordsInOrder
  <2> QED BY <1>3, <2>2, <2>4, <2>5 DEF OrderInv
<1>5. CASE Push(w)
  <2> DEFINE d == cur[w].depth
  <2>1. w \in Busy /\ UNCHANGED <<cur, records>>
    BY <1>5 DEF Push, Busy
  <2>2. /\ frontier \in Seq(Item) /\ Len(frontier) \in Nat
        /\ DOMAIN frontier = 1..Len(frontier) /\ DOMAIN frontier' = 1..(Len(frontier) + 1)
        /\ \A i \in 1..Len(frontier) : frontier'[i] = frontier[i]
        /\ frontier'[Len(frontier) + 1].depth = d + 1
    BY <1>5 DEF Push, AddToFrontier, TypeInv, FrontierType
  <2>3. d \in Nat /\ \A i \in 1..Len(frontier) : frontier[i].depth \in Nat
    BY <2>2, DepthTypes
  <2>4. \A i \in 1..Len(frontier) : d <= frontier[i].depth /\ frontier[i].depth <= d + 1
    BY <2>1, <2>2 DEF OrderInv, BusyInOrder
  <2>5. QueueInOrder'
    <3> SUFFICES ASSUME NEW i \in 1..(Len(frontier) + 1), NEW j \in 1..(Len(frontier) + 1), i < j
                 PROVE  frontier'[i].depth <= frontier'[j].depth /\ frontier'[j].depth <= frontier'[i].depth + 1
      BY <2>2 DEF QueueInOrder
    <3>1. i \in 1..Len(frontier) /\ frontier'[i] = frontier[i]
      BY <2>2
    <3>2. CASE j = Len(frontier) + 1
      <4>1. frontier'[j].depth = d + 1
        BY <2>2, <3>2
      <4> HIDE DEF d
      <4> QED BY <2>3, <2>4, <3>1, <4>1
    <3>3. CASE j \in 1..Len(frontier)
      BY <2>2, <3>1, <3>3 DEF OrderInv, QueueInOrder
    <3> QED BY <2>2, <3>2, <3>3
  <2>6. BusyInOrder'
    <3>1. \A i \in 1..(Len(frontier) + 1) : d <= frontier'[i].depth /\ frontier'[i].depth <= d + 1
      <4> HIDE DEF d
      <4> QED BY <2>2, <2>3, <2>4
    <3> QED BY <1>2, <2>1, <2>2, <3>1 DEF BusyInOrder
  <2>7. RecordsInOrder'
    <3>1. Written' = Written
      BY <2>1 DEF Written
    <3>2. ASSUME NEW u \in Written, NEW i \in 1..(Len(frontier) + 1)
          PROVE  records[u][1].depth <= frontier'[i].depth
      <4>1. records[u][1].depth \in Nat /\ records[u][1].depth <= d
        BY <2>1, DepthTypes DEF OrderInv, RecordsInOrder
      <4>2. d <= frontier'[i].depth /\ frontier'[i].depth \in Nat
        <5> HIDE DEF d
        <5> QED BY <2>2, <2>3, <2>4
      <4> QED BY <2>3, <4>1, <4>2
    <3>3. \A u \in Written : \A v \in Busy' : records[u][1].depth <= cur[v].depth
      BY <1>2, <2>1 DEF OrderInv, RecordsInOrder
    <3> QED BY <2>1, <2>2, <3>1, <3>2, <3>3 DEF RecordsInOrder
  <2> QED BY <1>3, <2>5, <2>6, <2>7 DEF OrderInv
<1>6. CASE RobotsDisallow(w) \/ FetchFailed(w) \/ WritePage(w)
  <2>1. PICK kind \in {"page", "error"} : Write(w, kind)
    BY <1>6 DEF RobotsDisallow, FetchFailed, WritePage
  <2>2. records[cur[w].url] = <<>>
    BY <1>6, FirstRecord
  <2>3. w \in Busy /\ UNCHANGED <<frontier, cur>>
    BY <1>6 DEF RobotsDisallow, FetchFailed, ReleaseOnFailure, AttemptFails, WritePage, Busy
  <2>4. cur[w].url \in URL /\ records \in [URL -> Seq(Record)] /\ cur[w].depth \in Nat
    BY DEF TypeInv, ItemType, Item, RecordType
  <2>5. Written' = Written \cup {cur[w].url} /\ cur[w].url \notin Written
    BY <2>1, <2>2, WriteMoves DEF Written
  <2>6. records'[cur[w].url][1].depth = cur[w].depth
    BY <2>1, <2>2, <2>4 DEF Write
  <2>7. \A u \in Written : records'[u] = records[u]
    BY <2>1, <2>4, <2>5 DEF Write, Written
  <2>8. QueueInOrder' /\ BusyInOrder'
    BY <1>2, <2>3 DEF OrderInv, QueueInOrder, BusyInOrder
  <2>9. RecordsInOrder'
    <3>1. ASSUME NEW u \in Written
          PROVE  /\ \A i \in DOMAIN frontier' : records'[u][1].depth <= frontier'[i].depth
                 /\ \A v \in Busy' : records'[u][1].depth <= cur'[v].depth
      BY <1>2, <2>3, <2>7 DEF OrderInv, RecordsInOrder
    <3>2. /\ \A i \in DOMAIN frontier' : cur[w].depth <= frontier'[i].depth
          /\ \A v \in Busy' : cur[w].depth <= cur'[v].depth
      BY <1>2, <2>3, <2>4 DEF OrderInv, BusyInOrder
    <3> QED BY <2>5, <2>6, <3>1, <3>2 DEF RecordsInOrder
  <2> QED BY <1>3, <2>8, <2>9 DEF OrderInv
<1>7. CASE Discover(w) /\ pc'[w] = "push"
  <2>1. Busy' = Busy
    BY <1>7, BusyMoves DEF Discover, Pop, ItemDone
  <2> QED BY <1>1, <1>7, <2>1, OrderStays DEF Discover
<1>8. CASE \/ PopCancelled(w) \/ RobotsAllow(w) \/ AcquireHost(w) \/ AcquireCancelled(w)
           \/ Backoff(w) \/ Retry(w) \/ FetchOK(w) \/ AdmitPage(w) \/ PushCancelled(w)
           \/ ItemDone(w) \/ (Discover(w) /\ pc'[w] # "push")
  BY <1>1, <1>8, QuietSteps, OrderStays
<1> QED BY <1>4, <1>5, <1>6, <1>7, <1>8 DEF WorkerStep

LEMMA OrderStep ==
  ASSUME OneWorker, TypeInv, Phases, OnePlace, OrderInv, [Next]_vars PROVE OrderInv'
<1>1. CASE SeedFrontier
  BY <1>1, SeedsInOrder, SiteAssumption DEF SeedFrontier
<1>2. CASE SeedSitemapLoc
  <2>1. Head(locs) \in URL /\ UNCHANGED <<records, workVars>> /\ main = "sitemap"
    BY <1>2 DEF SeedSitemapLoc, TypeInv, RunType
  <2>2. CASE EnqueueBeforeWorkers([url |-> Head(locs), depth |-> 0])
    BY <2>1, <2>2, SeedsInOrder
  <2>3. CASE UNCHANGED frontier
    BY <1>2, <2>1, <2>3, OrderStays DEF workVars, Busy
  <2> QED BY <1>2, <2>2, <2>3 DEF SeedSitemapLoc
<1>3. CASE StartWorkers
  <2>1. Busy' = {}
    BY <1>3 DEF StartWorkers, Busy
  <2> QED BY <1>3, <2>1, OrderStays DEF StartWorkers
<1>4. ASSUME UNCHANGED <<frontier, records, cur, pc>>, main' \in {"seed", "sitemap"} => main \in {"seed", "sitemap"}
      PROVE OrderInv'
  BY <1>4, OrderStays DEF Busy
<1>5. CASE StopWaiting \/ JoinWorkers \/ StartProbe \/ ProbeEnds \/ Summarize \/ Drain
             \/ Deadline \/ CallerCancels \/ UNCHANGED vars
  BY <1>4, <1>5 DEF StopWaiting, JoinWorkers, StartProbe, ProbeEnds, Summarize, Drain, Deadline,
       CallerCancels, vars, workVars, runVars
<1> QED BY <1>1, <1>2, <1>3, <1>5, OrderWorkerStep DEF Next, RunStep, Terminated

\* Nothing is more than one level below the page a worker is about to write.
LEMMA OneLevel ==
  ASSUME OneWorker, TypeInv, OrderInv, NEW w \in Busy, w \notin Pushing, NEW at \in Located
  PROVE  at.depth <= cur[w].depth + 1
<1>1. cur[w].depth \in Nat /\ Busy \subseteq {w} /\ Pushing = {}
  BY DepthTypes DEF Busy, Pushing, OneWorker
<1>2. CASE at \in QueueItems
  BY <1>2 DEF QueueItems, OrderInv, BusyInOrder
<1>3. CASE at \in BusyItems
  BY <1>1, <1>3 DEF BusyItems
<1>4. CASE at \in RecordItems
  <2>1. PICK u \in Written : at = [url |-> u, depth |-> records[u][1].depth]
    BY <1>4 DEF RecordItems
  <2>2. records[u][1].depth \in Nat /\ records[u][1].depth <= cur[w].depth
    BY DepthTypes DEF OrderInv, RecordsInOrder
  <2> QED BY <1>1, <2>1, <2>2
<1> QED BY <1>1, <1>2, <1>3, <1>4 DEF Located, ChildItems

LEMMA NearStep ==
  ASSUME OneWorker, TypeInv, Phases, OnePlace, LinksClaimed, OrderInv, LinksNear, [Next]_vars
  PROVE  LinksNear'
<1> SUFFICES ASSUME NEW p \in Pages', NEW at \in Located', at.url \in Ran(Links[p]), at.url \in InScope
             PROVE  at.depth <= records'[p][1].depth + 1
  BY DEF LinksNear, Ran
<1>3. CASE p \in Pages /\ records'[p] = records[p]
  <2>0. records[p][1].depth \in Nat
    BY <1>3, DepthTypes
  <2>1. CASE at \in Located
    BY <1>3, <2>1 DEF LinksNear
  <2>2. ASSUME NEW w \in Worker, Discover(w), pc'[w] = "push", Child(w) \notin seen, at = ChildItem(w)
        PROVE  at.depth <= records[p][1].depth + 1
    <3>1. cur[w].depth < MaxDepth /\ cur[w].depth \in Nat /\ MaxDepth \in Nat /\ at.depth = cur[w].depth + 1
          /\ at.url = Child(w)
      BY <2>2, DepthTypes, OptionsAssumption DEF Discover, ChildItem, TypeInv, PositionType
    <3>2. ~(records[p][1].depth < MaxDepth)
      <4>1. ASSUME records[p][1].depth < MaxDepth PROVE FALSE
        <5>1. Covered(p, seen, <<>>)
          BY <1>3, <4>1 DEF LinksClaimed, PageLinksClaimed
        <5>2. at.url \in seen
          BY <5>1, EmptyRan DEF Covered, Ran
        <5> QED BY <2>2, <3>1, <5>2
      <4> QED BY <4>1
    <3> QED BY ONLY <2>0, <3>1, <3>2
  <2>3. ASSUME NEW u, at = [url |-> u, depth |-> 0] PROVE at.depth <= records[p][1].depth + 1
    BY <2>0, <2>3
  <2> QED BY <1>3, <2>1, <2>2, <2>3, PlacesMove
<1>4. CASE ~(p \in Pages /\ records'[p] = records[p])
  <2>1. PICK w \in Worker : WritePage(w)
    <3>1. \/ \E w \in Worker : WorkerStep(w) /\ ~WritePage(w)
          \/ \E w \in Worker : WritePage(w)
          \/ UNCHANGED records
      BY RecordFrame DEF WorkerStep
    <3>2. ~UNCHANGED records
      BY <1>4 DEF Pages
    <3> QED BY <1>4, <3>1, <3>2, PagesStay
  <2>2. records[cur[w].url] = <<>> /\ Write(w, "page")
    BY <2>1, FirstRecord DEF WritePage
  <2>3. p = cur[w].url
    <3>1. p \in Pages \cup {cur[w].url} /\ cur[w].url \notin Pages
      BY <2>2, PagesMove
    <3>2. p # cur[w].url => records'[p] = records[p]
      BY <2>2, <3>1 DEF Write, Pages, TypeInv, RecordType
    <3> QED BY <1>4, <3>1, <3>2
  <2>4. records'[p][1].depth = cur[w].depth
    BY <2>2, <2>3 DEF Write, TypeInv, RecordType, ItemType, Item
  <2>5. at \in Located
    <3>1. Located' \subseteq Located
      BY <2>1, WorkerPlaces DEF WorkerStep, WritePage, Discover
    <3> QED BY <3>1
  <2>6. w \in Busy /\ w \notin Pushing
    BY <2>1 DEF WritePage, Busy, Pushing
  <2> QED BY <2>4, <2>5, <2>6, OneLevel
<1> QED BY <1>3, <1>4

DepthInv == OrderInv /\ LinksNear

LEMMA DepthInit == Init => DepthInv
<1> SUFFICES ASSUME Init PROVE DepthInv
  OBVIOUS
<1>1. Located = {} /\ DOMAIN frontier = {} /\ Busy = {} /\ Written = {}
  BY NoPlaces DEF Init, Busy, Written
<1> QED BY <1>1 DEF DepthInv, OrderInv, SeedsFirst, QueueInOrder, BusyInOrder, RecordsInOrder, LinksNear

LEMMA DepthCorrect ==
  ASSUME OneWorker PROVE Spec => [](IInv /\ OInv /\ PathInv /\ DepthInv)
<1>1. IInv /\ OInv /\ DepthInv /\ [Next]_vars => DepthInv'
  BY OrderStep, NearStep DEF IInv, OInv, DepthInv
<1> QED BY <1>1, PathCorrect, DepthInit, PTL DEF Spec

\* Every page is within as many links of the seeds as it reports, once the
\* pages that led to it have been written.
LEMMA PagesWithin ==
  ASSUME TypeInv, OnePlace, PathInv,
         \A p \in Pages : \A w \in Expanding : records[p][1].depth <= cur[w].depth,
         NEW p \in Pages
  PROVE  p \in Within[records[p][1].depth]
<1> DEFINE Depth(q) == records[q][1].depth
           T == {n \in Nat : \A q \in Pages : Depth(q) = n => q \in Within[n]}
<1>1. 0 \in T
  <2>1. ASSUME NEW q \in Pages, Depth(q) = 0 PROVE q \in Roots
    <3>1. 1 \in DOMAIN records[q] /\ q \in URL
      BY DEF Pages, TypeInv, RecordType
    <3> QED BY <2>1, <3>1 DEF Roots
  <2> QED BY <2>1, WithinSteps
<1>2. ASSUME NEW n \in T PROVE n + 1 \in T
  <2>1. n \in Nat
    OBVIOUS
  <2>2. ASSUME NEW q \in Pages, Depth(q) = n + 1 PROVE q \in Grow(Within[n])
    <3> DEFINE at == [url |-> q, depth |-> n + 1]
    <3>1. at \in Located
      BY <2>2, DepthTypes DEF Located, RecordItems
    <3>2. PICK f : FoundOn(f, at)
      BY <2>1, <3>1 DEF PathInv, HasParent
    <3>3. ASSUME NEW w \in Expanding, cur[w] = [url |-> f, depth |-> at.depth - 1] PROVE FALSE
      <4>1. cur[w].depth = n
        BY <2>1, <3>3
      <4> QED BY <2>1, <2>2, <4>1
    <3>4. f \in Pages /\ Depth(f) = n
      BY <2>1, <3>2, <3>3 DEF FoundOn
    <3>5. f \in Within[n]
      BY <3>4
    <3> QED BY <3>2, <3>4, <3>5 DEF Grow, FoundOn, Ran
  <2> QED BY <2>1, <2>2, WithinSteps
<1>3. T = Nat
  <2> HIDE DEF T
  <2> QED BY <1>1, <1>2, NatInd DEF T
<1>4. Depth(p) \in T
  BY <1>3, DepthTypes
<1> QED BY <1>4

\* A visited URL that is n links from the seeds was visited at most n deep.
LEMMA WithinIsShallow ==
  ASSUME TypeInv, OnePlace, SeedAtZero, LinksNear, NEW n \in Nat, NEW u \in Within[n], u \in Written
  PROVE  records[u][1].depth <= n
<1> DEFINE Depth(q) == records[q][1].depth
           T == {k \in Nat : \A v \in Within[k] \cap Written : Depth(v) <= k}
<1>1. 0 \in T
  <2>1. ASSUME NEW v \in Roots, v \in Written PROVE Depth(v) = 0
    <3>1. CASE v = Seed
      <4>1. [url |-> v, depth |-> Depth(v)] \in Located
        BY <2>1 DEF Located, RecordItems
      <4> QED BY <3>1, <4>1 DEF SeedAtZero
    <3>2. CASE v # Seed
      <4>1. PICK i \in DOMAIN records[v] : records[v][i].depth = 0
        BY <3>2 DEF Roots
      <4>2. records[v] \in Seq(Record) /\ Len(records[v]) <= 1
        BY <2>1 DEF Written, TypeInv, RecordType, OnePlace, OneRecordPerURL
      <4>3. i = 1
        BY <4>2
      <4> QED BY <4>1, <4>3
    <3> QED BY <3>1, <3>2
  <2> QED BY <2>1, WithinSteps
<1>2. ASSUME NEW k \in T PROVE k + 1 \in T
  <2>1. k \in Nat
    OBVIOUS
  <2>2. ASSUME NEW v \in Grow(Within[k]), v \in Written PROVE Depth(v) <= k + 1
    <3>0. Depth(v) \in Nat
      BY <2>2, DepthTypes
    <3>1. CASE v \in Within[k]
      <4>1. Depth(v) <= k
        BY <2>2, <3>1
      <4> QED BY <2>1, <3>0, <4>1
    <3>2. CASE v \notin Within[k]
      <4>1. PICK p \in Pages \cap Within[k] : v \in InScope /\ v \in Ran(Links[p])
        BY <2>2, <3>2 DEF Grow, Ran
      <4>2. Depth(p) <= k /\ Depth(p) \in Nat
        BY <4>1, DepthTypes
      <4>3. [url |-> v, depth |-> Depth(v)] \in Located
        BY <2>2 DEF Located, RecordItems
      <4>4. Depth(v) <= Depth(p) + 1
        BY <4>1, <4>3 DEF LinksNear
      <4> QED BY <2>1, <3>0, <4>2, <4>4
    <3> QED BY <3>1, <3>2
  <2>3. Within[k + 1] = Grow(Within[k])
    BY <2>1, WithinSteps
  <2> QED BY <2>1, <2>2, <2>3
<1>3. T = Nat
  <2> HIDE DEF T
  <2> QED BY <1>1, <1>2, NatInd DEF T
<1> QED BY <1>3

\* With any number of workers: when the crawl has ended, every page can be
\* reached from the seeds over written pages in as many links as it reports.
DepthIsReached == main = "done" => \A p \in Pages : p \in Within[records[p][1].depth]

THEOREM DepthReached == Spec => []DepthIsReached
<1>1. IInv /\ PathInv => DepthIsReached
  <2> SUFFICES ASSUME IInv, PathInv, main = "done", NEW p \in Pages PROVE p \in Within[records[p][1].depth]
    BY DEF DepthIsReached
  <2>1. Expanding = {}
    BY DEF IInv, Phases, Expanding, AtPage
  <2> QED BY <2>1, PagesWithin DEF IInv
<1> QED BY <1>1, PathCorrect, PTL

\* With one worker the depth a page reports is its distance from the seeds, at
\* every moment of a crawl with failures, retries, sitemap seeds and stops.
THEOREM DistanceCorrect ==
  ASSUME OneWorker PROVE Spec => []ReportedDepthIsDistance
<1>1. IInv /\ PathInv /\ DepthInv => ReportedDepthIsDistance
  <2> SUFFICES ASSUME IInv, PathInv, DepthInv, NEW p \in Pages
               PROVE  LET reported == records[p][1].depth IN
                      p \in Within[reported] /\ (reported > 0 => p \notin Within[reported - 1])
    BY DEF ReportedDepthIsDistance
  <2> DEFINE reported == records[p][1].depth
  <2>1. p \in Within[reported]
    <3>1. ASSUME NEW q \in Pages, NEW w \in Expanding PROVE records[q][1].depth <= cur[w].depth
      <4>1. w \in Busy /\ q \in Written
        BY DepthTypes DEF IInv, Expanding, AtPage, Busy
      <4> QED BY <4>1 DEF DepthInv, OrderInv, RecordsInOrder
    <3> QED BY <3>1, PagesWithin DEF IInv
  <2>2. ASSUME reported > 0, p \in Within[reported - 1] PROVE FALSE
    <3>1. p \in Written /\ reported \in Nat
      BY DepthTypes DEF IInv
    <3>2. reported - 1 \in Nat /\ ~(reported <= reported - 1)
      BY <2>2, <3>1
    <3> QED BY <2>2, <3>1, <3>2, WithinIsShallow DEF IInv, PathInv, DepthInv
  <2> QED BY <2>1, <2>2
<1> QED BY <1>1, DepthCorrect, PTL

\* With one worker a crawl nobody stopped visited every URL within MaxDepth
\* links of the seed: the depth limit is that of a breadth-first search.
THEOREM BreadthFirstCorrect ==
  ASSUME OneWorker PROVE Spec => []DepthLimitIsBFS
<1>1. IInv /\ OInv /\ PathInv /\ DepthInv /\ CleanFinishIsComplete => DepthLimitIsBFS
  <2> SUFFICES ASSUME IInv, OInv, PathInv, DepthInv, CleanFinishIsComplete, main = "done", cause = "run",
                      NEW u \in Within[MaxDepth]
               PROVE  records[u] # <<>>
    BY DEF DepthLimitIsBFS
  <2> DEFINE T == {k \in Nat : k <= MaxDepth => \A v \in Within[k] : records[v] # <<>>}
  <2>0. MaxDepth \in Nat
    BY OptionsAssumption
  <2>1. 0 \in T
    <3>1. ASSUME NEW v \in Roots PROVE records[v] # <<>>
      <4>1. CASE v = Seed
        <5>1. Seed \in seen
          BY DEF PathInv, SeedClaimed
        <5> QED BY <4>1, <5>1 DEF OInv, Ended, Written
      <4>2. CASE v # Seed
        BY <3>1, <4>2 DEF Roots
      <4> QED BY <4>1, <4>2
    <3> QED BY <3>1, WithinSteps
  <2>2. ASSUME NEW k \in T PROVE k + 1 \in T
    <3>1. k \in Nat
      OBVIOUS
    <3>2. ASSUME k + 1 <= MaxDepth, NEW v \in Grow(Within[k]) PROVE records[v] # <<>>
      <4>1. k < MaxDepth /\ k <= MaxDepth
        BY <2>0, <3>1, <3>2
      <4>2. CASE v \in Within[k]
        BY <4>1, <4>2
      <4>3. CASE v \notin Within[k]
        <5>1. PICK p \in Pages \cap Within[k] : v \in InScope /\ \E i \in DOMAIN Links[p] : Links[p][i] = v
          BY <3>2, <4>3 DEF Grow
        <5>2. records[p][1].depth \in Nat /\ records[p][1].depth <= k
          BY <3>1, <5>1, DepthTypes, WithinIsShallow DEF IInv, PathInv, DepthInv
        <5>3. records[p][1].depth < MaxDepth
          BY <2>0, <3>1, <4>1, <5>2
        <5> QED BY <5>1, <5>3 DEF CleanFinishIsComplete
      <4> QED BY <4>2, <4>3
    <3>3. Within[k + 1] = Grow(Within[k])
      BY <3>1, WithinSteps
    <3> QED BY <3>1, <3>2, <3>3
  <2>3. T = Nat
    <3> HIDE DEF T
    <3> QED BY <2>1, <2>2, NatInd DEF T
  <2> QED BY <2>0, <2>3
<1> QED BY <1>1, DepthCorrect, CompletenessCorrect, PTL
-----------------------------------------------------------------------------
(***************************************************************************)
(* What a worker remembers of how its item got this far.                   *)
(***************************************************************************)
Admissible == {"admit", "expand", "push"}
PastRobots == {"acquire", "fetch", "doomed", "backoff"} \cup Admissible
Ending == {"join", "openapi", "probe", "summary", "done"}

HistoryOf(w) ==
  /\ pc[w] = "doomed" => Cancelled
  /\ pc[w] \in Admissible => "ok" \in Outcome[cur[w].url]
  /\ pc[w] \in PastRobots => cur[w].url \notin RobotsBlocked \/ Cancelled
  /\ pc[w] \in AtPage => Ran(todo[w]) \subseteq Ran(Links[cur[w].url])
History ==
  /\ main \in Ending => Cancelled
  /\ main = "seed" => seen = {}
  /\ Ran(locs) \subseteq Ran(SitemapLocs)
  /\ \A w \in Worker : HistoryOf(w)

LEMMA AppendRan == ASSUME NEW S, NEW s \in Seq(S), NEW e \in S
                   PROVE  Ran(Append(s, e)) = Ran(s) \cup {e}
<1>1. /\ Len(s) \in Nat /\ DOMAIN s = 1..Len(s) /\ DOMAIN Append(s, e) = 1..(Len(s) + 1)
      /\ Append(s, e)[Len(s) + 1] = e /\ \A k \in 1..Len(s) : Append(s, e)[k] = s[k]
  OBVIOUS
<1>2. 1..(Len(s) + 1) = 1..Len(s) \cup {Len(s) + 1}
  BY <1>1
<1> QED BY <1>1, <1>2 DEF Ran

LEMMA HistoryInit == Init => History
BY DEF Init, History, HistoryOf, Ending, Admissible, PastRobots, AtPage

\* A cancelled context stays cancelled.
LEMMA StaysCancelled == ASSUME [Next]_vars, Cancelled PROVE Cancelled'
BY DEF Next, RunStep, Terminated, WorkerStep, SeedFrontier, SeedSitemapLoc, StartWorkers,
       StopWaiting, JoinWorkers, StartProbe, ProbeEnds, Summarize, Drain, Deadline, CallerCancels,
       Pop, PopCancelled,
       RobotsDisallow, RobotsAllow, AcquireHost, AcquireCancelled, Backoff, Retry, FetchFailed,
       FetchOK, AdmitPage, Discover, Push, PushCancelled, WritePage, ItemDone, CancelBy, Cancelled,
       ctxVars, vars

LEMMA HistoryWorkerStep ==
  ASSUME TypeInv, Phases, History, NEW w \in Worker, WorkerStep(w), Cancelled => Cancelled'
  PROVE  History'
<1>1. UNCHANGED <<main, locs>> /\ main \notin {"seed", "sitemap"}
  BY RunFrame, IdleWorkers DEF Phases
<1>2. ASSUME NEW v \in Worker \ {w} PROVE HistoryOf(v)'
  BY <1>2, OthersStay DEF History, HistoryOf
<1>3. todo[w] \in Seq(URL) /\ cur[w] \in Item /\ HistoryOf(w) /\ pc[w] \in WorkerState
  BY DEF TypeInv, TodoType, ItemType, History, PositionType
<1>4. HistoryOf(w)'
  <2>1. CASE Pop(w) \/ PopCancelled(w) \/ RobotsDisallow(w) \/ AcquireCancelled(w) \/ FetchFailed(w)
               \/ WritePage(w) \/ ItemDone(w)
    <3>1. pc'[w] \in {"robots", "exit", "done", "pop"}
      BY <2>1 DEF Pop, PopCancelled, RobotsDisallow, AcquireCancelled, FetchFailed, WritePage, ItemDone,
                  Goto, TypeInv, PositionType
    <3> QED BY <3>1 DEF HistoryOf, Admissible, PastRobots, AtPage
  <2>2. CASE RobotsAllow(w)
    <3>1. pc'[w] = "acquire" /\ cur' = cur /\ (cur[w].url \notin RobotsBlocked \/ Cancelled)
      BY <2>2 DEF RobotsAllow, Goto, TypeInv, PositionType
    <3> QED BY <3>1 DEF HistoryOf, Admissible, PastRobots, AtPage
  <2>3. CASE AcquireHost(w) \/ Retry(w) \/ Backoff(w)
    <3>1. cur' = cur /\ pc[w] \in PastRobots
      BY <2>3 DEF AcquireHost, Retry, Backoff, AttemptFails, PastRobots
    <3>2. \/ pc'[w] \in {"fetch", "backoff"}
          \/ pc'[w] = "doomed" /\ Cancelled
      BY <2>3 DEF AcquireHost, Retry, Backoff, StartAttempt, Goto, TypeInv, PositionType
    <3> QED BY <1>3, <3>1, <3>2 DEF HistoryOf, Admissible, PastRobots, AtPage
  <2>4. CASE FetchOK(w)
    <3>1. pc'[w] = "admit" /\ cur' = cur /\ pc[w] \in PastRobots /\ "ok" \in Outcome[cur[w].url]
      BY <2>4 DEF FetchOK, Goto, TypeInv, PositionType, PastRobots
    <3> QED BY <1>3, <3>1 DEF HistoryOf, Admissible, PastRobots, AtPage
  <2>5. CASE AdmitPage(w)
    <3>1. cur' = cur /\ pc[w] = "admit"
      BY <2>5 DEF AdmitPage
    <3>2. pc'[w] = "done" \/ (pc'[w] = "expand" /\ todo'[w] = Links[cur[w].url])
      BY <2>5 DEF AdmitPage, Goto, TypeInv, PositionType, TodoType
    <3> QED BY <1>3, <3>1, <3>2 DEF HistoryOf, Admissible, PastRobots, AtPage
  <2>6. CASE Discover(w) \/ Push(w) \/ PushCancelled(w)
    <3>1. cur' = cur /\ pc[w] \in {"expand", "push"} /\ pc'[w] \in {"expand", "push"}
      BY <2>6 DEF Discover, Push, PushCancelled, Goto, TypeInv, PositionType
    <3>2. todo'[w] = todo[w] \/ (todo[w] # <<>> /\ todo'[w] = Tail(todo[w]))
      BY <1>3, <2>6 DEF Discover, Push, PushCancelled, TypeInv, TodoType, PushHasChild
    <3>3. Ran(todo'[w]) \subseteq Ran(todo[w])
      BY <1>3, <3>2, TailRan
    <3> QED BY <1>3, <3>1, <3>3 DEF HistoryOf, Admissible, PastRobots, AtPage
  <2> QED BY <2>1, <2>2, <2>3, <2>4, <2>5, <2>6 DEF WorkerStep
<1> QED BY <1>1, <1>2, <1>4 DEF History

LEMMA HistoryStep ==
  ASSUME TypeInv, Phases, History, [Next]_vars PROVE History'
<1>1. Cancelled => Cancelled'
  BY StaysCancelled
<1>2. ASSUME UNCHANGED <<pc, cur, todo>>, main' \in Ending => Cancelled', main' # "seed" \/ seen' = {},
             Ran(locs') \subseteq Ran(SitemapLocs)
      PROVE  History'
  BY <1>1, <1>2 DEF History, HistoryOf
<1>3. CASE SeedSitemapLoc
  <2>1. Ran(locs') \subseteq Ran(locs)
    BY <1>3, TailRan DEF SeedSitemapLoc, TypeInv, RunType
  <2> QED BY <1>2, <1>3, <2>1 DEF SeedSitemapLoc, workVars, History, Ending
<1>4. CASE StartWorkers
  BY <1>4 DEF StartWorkers, History, HistoryOf, Ending, Admissible, PastRobots, AtPage
<1>5. CASE SeedFrontier \/ StopWaiting \/ JoinWorkers \/ StartProbe \/ ProbeEnds \/ Summarize
             \/ Drain \/ Deadline \/ CallerCancels
             \/ UNCHANGED vars
  <2>1. UNCHANGED <<pc, cur, todo, locs>>
    BY <1>5 DEF SeedFrontier, StopWaiting, JoinWorkers, StartProbe, ProbeEnds, Summarize, Drain,
         Deadline, CallerCancels, vars,
                workVars, runVars
  <2>2. main' \in Ending => Cancelled'
    BY <1>1, <1>5 DEF SeedFrontier, StopWaiting, JoinWorkers, StartProbe, ProbeEnds, Summarize,
         Drain, Deadline, CallerCancels,
                vars, runVars, CancelBy, Cancelled, Ending, History
  <2>3. main' # "seed" \/ seen' = {}
    BY <1>5 DEF SeedFrontier, StopWaiting, JoinWorkers, StartProbe, ProbeEnds, Summarize, Drain,
         Deadline, CallerCancels,
                vars, runVars, History
  <2> QED BY <1>2, <2>1, <2>2, <2>3 DEF History
<1> QED BY <1>1, <1>3, <1>4, <1>5, HistoryWorkerStep DEF Next, RunStep, Terminated
-----------------------------------------------------------------------------
(***************************************************************************)
(* Fates.  Distinct places make the item a URL is looked up by unique.     *)
(***************************************************************************)
WorkItems == {cur[w] : w \in Active}

LEMMA Places ==
  /\ InFlight = QueueItems \cup WorkItems \cup ChildItems
  /\ InFlight' = QueueItems' \cup WorkItems' \cup ChildItems'
BY DEF InFlight, QueueItems, WorkItems, ChildItems, ChildItem, Child, Active

LEMMA ItemsAreItems == ASSUME TypeInv, OnePlace PROVE InFlight \subseteq Item
<1>1. QueueItems \subseteq Item
  BY DEF QueueItems, TypeInv, FrontierType
<1>2. WorkItems \subseteq Item
  BY DEF WorkItems, Active, Busy, TypeInv, ItemType
<1>3. ASSUME NEW w \in Pushing PROVE ChildItem(w) \in Item
  <2>1. Child(w) \in URL
    BY DEF OnePlace, ChildIsClaimed, TypeInv, SeenType
  <2>2. cur[w].depth + 1 \in Nat
    BY DEF Pushing, TypeInv, ItemType, Item
  <2> QED BY <2>1, <2>2 DEF ChildItem, Item
<1> QED BY <1>1, <1>2, <1>3, Places DEF ChildItems

\* An item in flight is claimed and unwritten, and the only one about its URL.
FlightIsClaimed ==
  \A item \in InFlight : item.url \in seen /\ records[item.url] = <<>>
FlightDistinct ==
  \A a, b \in InFlight : a.url = b.url => a = b

LEMMA FlightFacts == TypeInv /\ OnePlace => FlightIsClaimed /\ FlightDistinct
<1> SUFFICES ASSUME TypeInv, OnePlace PROVE FlightIsClaimed /\ FlightDistinct
  OBVIOUS
<1>1. \A item \in QueueItems : item.url \in Queued
  BY DEF QueueItems, Queued
<1>2. \A item \in WorkItems : \E w \in Active : item = cur[w]
  BY DEF WorkItems
<1>3. \A item \in ChildItems : \E w \in Pushing : item = ChildItem(w) /\ item.url = Child(w)
  BY DEF ChildItems, ChildItem
<1>4. Active \subseteq Busy
  BY DEF Active
<1>5. FlightIsClaimed
  <2>1. \A item \in QueueItems : item.url \in seen /\ records[item.url] = <<>>
    BY <1>1 DEF OnePlace, QueuedIsClaimed
  <2>2. \A item \in WorkItems : item.url \in seen /\ records[item.url] = <<>>
    BY <1>2, <1>4 DEF OnePlace, BusyIsClaimed, ActiveUnrecorded
  <2>3. \A item \in ChildItems : item.url \in seen /\ records[item.url] = <<>>
    BY <1>3 DEF OnePlace, ChildIsClaimed
  <2> QED BY <2>1, <2>2, <2>3, Places DEF FlightIsClaimed
<1>6. \A a, b \in QueueItems : a.url = b.url => a = b
  BY DEF QueueItems, OnePlace, QueueDistinct
<1>7. \A a, b \in WorkItems : a.url = b.url => a = b
  BY <1>2, <1>4 DEF OnePlace, BusyIsClaimed
<1>8. \A a, b \in ChildItems : a.url = b.url => a = b
  BY <1>3 DEF OnePlace, ChildIsClaimed
<1>9. \A a \in QueueItems, b \in WorkItems \cup ChildItems : a.url # b.url
  BY <1>1, <1>2, <1>3, <1>4 DEF OnePlace, BusyIsClaimed, ChildIsClaimed
<1>10. \A a \in WorkItems, b \in ChildItems : a.url # b.url
  BY <1>2, <1>3, <1>4 DEF OnePlace, ChildIsClaimed
<1>11. FlightDistinct
  <2> SUFFICES ASSUME NEW a \in InFlight, NEW b \in InFlight, a.url = b.url PROVE a = b
    BY DEF FlightDistinct
  <2>1. a \in QueueItems \/ a \in WorkItems \/ a \in ChildItems
    BY Places
  <2>2. b \in QueueItems \/ b \in WorkItems \/ b \in ChildItems
    BY Places
  <2> QED BY <1>6, <1>7, <1>8, <1>9, <1>10, <2>1, <2>2
<1> QED BY <1>5, <1>11

ClaimedAt(d) == [state |-> "claimed", depth |-> d]
FateFacts ==
  \A u \in URL :
    /\ records[u] # <<>> =>
         FateOf(u) = [state |-> records[u][1].kind, depth |-> records[u][1].depth]
    /\ \A item \in InFlight : item.url = u => FateOf(u) = ClaimedAt(item.depth)
    /\ records[u] = <<>> /\ (\A item \in InFlight : item.url # u) =>
         FateOf(u) = [state |-> IF u \in seen THEN "abandoned" ELSE "unknown", depth |-> 0]

LEMMA FateLemma == TypeInv /\ OnePlace => FateFacts
<1> SUFFICES ASSUME TypeInv, OnePlace, NEW u \in URL
             PROVE /\ records[u] # <<>> =>
                        FateOf(u) = [state |-> records[u][1].kind, depth |-> records[u][1].depth]
                   /\ \A item \in InFlight : item.url = u => FateOf(u) = ClaimedAt(item.depth)
                   /\ records[u] = <<>> /\ (\A item \in InFlight : item.url # u) =>
                        FateOf(u) = [state |-> IF u \in seen THEN "abandoned" ELSE "unknown",
                                     depth |-> 0]
  BY DEF FateFacts
<1>1. records[u] # <<>> =>
        FateOf(u) = [state |-> records[u][1].kind, depth |-> records[u][1].depth]
  <2>1. records[u] # <<>> => ~ \E item \in InFlight : item.url = u
    BY FlightFacts DEF FlightIsClaimed
  <2> QED BY <2>1 DEF FateOf
<1>2. ASSUME NEW item \in InFlight, item.url = u PROVE FateOf(u) = ClaimedAt(item.depth)
  <2>1. records[u] = <<>>
    BY <1>2, FlightFacts DEF FlightIsClaimed
  <2>2. (CHOOSE x \in InFlight : x.url = u) = item
    BY <1>2, FlightFacts DEF FlightDistinct
  <2>3. FateOf(u) = [state |-> "claimed", depth |-> (CHOOSE x \in InFlight : x.url = u).depth]
    BY <1>2, <2>1 DEF FateOf
  <2> QED BY <2>2, <2>3 DEF ClaimedAt
<1>3. records[u] = <<>> /\ (\A item \in InFlight : item.url # u) =>
        FateOf(u) = [state |-> IF u \in seen THEN "abandoned" ELSE "unknown", depth |-> 0]
  BY DEF FateOf
<1> QED BY <1>1, <1>2, <1>3

\* A step that moves the items of one URL decides the fate of that URL only.
LEMMA OtherFates ==
  ASSUME TypeInv, OnePlace, TypeInv', OnePlace', NEW u \in URL,
         \A v \in URL \ {u} : records'[v] = records[v] /\ (v \in seen' <=> v \in seen),
         \A item \in Item : item.url # u => (item \in InFlight' <=> item \in InFlight),
         NEW v \in URL \ {u}
  PROVE  FateOf(v)' = FateOf(v)
<1>1. FateFacts /\ FateFacts'
  BY FateLemma, PTL
<1>2. InFlight \subseteq Item /\ InFlight' \subseteq Item
  <2>1. (TypeInv /\ OnePlace => InFlight \subseteq Item)'
    BY ItemsAreItems, PTL
  <2> QED BY <2>1, ItemsAreItems
<1>3. CASE records[v] # <<>>
  BY <1>1, <1>3 DEF FateFacts
<1>4. CASE records[v] = <<>> /\ \E item \in InFlight : item.url = v
  <2>1. PICK item \in InFlight : item.url = v
    BY <1>4
  <2>2. item \in InFlight'
    BY <1>2, <2>1
  <2> QED BY <1>1, <2>1, <2>2 DEF FateFacts
<1>5. CASE records[v] = <<>> /\ \A item \in InFlight : item.url # v
  <2>1. \A item \in InFlight' : item.url # v
    BY <1>2, <1>5
  <2> QED BY <1>1, <1>5, <2>1 DEF FateFacts
<1> QED BY <1>3, <1>4, <1>5

LEMMA SameFates ==
  ASSUME UNCHANGED <<records, seen>>, InFlight' = InFlight
  PROVE  \A u \in URL : FateOf(u)' = FateOf(u)
BY DEF FateOf
-----------------------------------------------------------------------------
(***************************************************************************)
(* How the steps of a worker move items, and what that is in Crawl.        *)
(***************************************************************************)
Stopping == cause \notin {"none", "run"}
Settles(u, f) == FateOf(u)' = f /\ \A v \in URL \ {u} : FateOf(v)' = FateOf(v)
Ready == TypeInv /\ Phases /\ OnePlace /\ History /\ Budgeted /\ LinksClaimed /\ Ended
           /\ PendingAccounting /\ DrainedMeansZero

\* A step about one URL settles it, by the facts of the state it leads to.
LEMMA SettlesRecord ==
  ASSUME Ready, TypeInv', OnePlace', NEW w \in Worker, WorkerStep(w), NEW kind \in {"page", "error"},
         w \in Active, Write(w, kind), pc'[w] = "done", w \notin Pushing,
         UNCHANGED <<frontier, seen, cur, todo>>
  PROVE  Settles(cur[w].url, [state |-> kind, depth |-> cur[w].depth])
<1> DEFINE u == cur[w].url
<1>1. u \in URL /\ records[u] = <<>> /\ TypeInv /\ OnePlace
  BY DEF Ready, TypeInv, ItemType, Item, OnePlace, ActiveUnrecorded
<1>2. records'[u] # <<>> /\ records'[u][1] = [kind |-> kind, depth |-> cur[w].depth]
  BY <1>1 DEF Write, TypeInv, RecordType
<1>3. \A v \in URL \ {u} : records'[v] = records[v]
  BY <1>1 DEF Write, TypeInv, RecordType
<1>4. Active' = Active \ {w} /\ Pushing' = Pushing
  <2>1. \A v \in Worker \ {w} : pc'[v] = pc[v]
    BY <1>1, OthersStay
  <2> QED BY <2>1 DEF Active, Busy, Pushing
<1>5. \A item \in Item : item.url # u => (item \in InFlight' <=> item \in InFlight)
  <2>1. QueueItems' = QueueItems /\ ChildItems' = ChildItems
    BY <1>4 DEF QueueItems, ChildItems, ChildItem, Child
  <2>2. \A item : item.url # u => (item \in WorkItems' <=> item \in WorkItems)
    BY <1>4 DEF WorkItems
  <2>3. InFlight' = QueueItems' \cup WorkItems' \cup ChildItems'
    BY Places
  <2> QED BY <2>1, <2>2, <2>3, Places
<1>6. \A v \in URL \ {u} : FateOf(v)' = FateOf(v)
  BY <1>1, <1>3, <1>5, OtherFates
<1>7. FateOf(u)' = [state |-> kind, depth |-> cur[w].depth]
  <2>1. FateFacts'
    BY FateLemma, PTL
  <2> QED BY <1>1, <1>2, <2>1 DEF FateFacts
<1> QED BY <1>6, <1>7 DEF Settles

\* An item given up leaves a claimed URL without a record.
LEMMA SettlesAbandoned ==
  ASSUME Ready, TypeInv', OnePlace', NEW u \in URL, u \in seen', records[u] = <<>>, UNCHANGED records,
         \A v \in URL \ {u} : v \in seen' <=> v \in seen,
         \A item \in Item : item.url # u => (item \in InFlight' <=> item \in InFlight),
         \A item \in InFlight' : item.url # u
  PROVE  Settles(u, [state |-> "abandoned", depth |-> 0])
<1>1. \A v \in URL \ {u} : FateOf(v)' = FateOf(v)
  BY OtherFates DEF Ready
<1>2. FateFacts'
  BY FateLemma, PTL
<1>3. FateOf(u)' = [state |-> "abandoned", depth |-> 0]
  BY <1>2 DEF FateFacts
<1> QED BY <1>1, <1>3 DEF Settles

LEMMA SettlesClaimed ==
  ASSUME Ready, TypeInv', OnePlace', NEW item \in Item, UNCHANGED records,
         seen' = seen \cup {item.url}, InFlight' = InFlight \cup {item}
  PROVE  Settles(item.url, ClaimedAt(item.depth))
<1>1. item.url \in URL
  BY DEF Item
<1>2. \A v \in URL \ {item.url} : FateOf(v)' = FateOf(v)
  BY <1>1, OtherFates DEF Ready
<1>3. FateFacts'
  BY FateLemma, PTL
<1>4. FateOf(item.url)' = ClaimedAt(item.depth)
  BY <1>1, <1>3 DEF FateFacts
<1> QED BY <1>2, <1>4 DEF Settles

\* The item of a worker that gives up is the only one about its URL.
LEMMA GivesUp ==
  ASSUME Ready, TypeInv', OnePlace', NEW w \in Worker, WorkerStep(w), w \in Active, pc'[w] = "done",
         w \notin Pushing, UNCHANGED <<frontier, seen, records, cur, todo>>
  PROVE  Settles(cur[w].url, [state |-> "abandoned", depth |-> 0])
<1> DEFINE u == cur[w].url
<1>1. u \in URL /\ u \in seen /\ records[u] = <<>> /\ TypeInv /\ OnePlace
  BY DEF Ready, TypeInv, ItemType, Item, OnePlace, ActiveUnrecorded, BusyIsClaimed, Active
<1>2. Active' = Active \ {w} /\ Pushing' = Pushing
  <2>1. \A v \in Worker \ {w} : pc'[v] = pc[v]
    BY <1>1, OthersStay
  <2> QED BY <2>1 DEF Active, Busy, Pushing
<1>3. QueueItems' = QueueItems /\ ChildItems' = ChildItems /\ WorkItems' = {cur[v] : v \in Active \ {w}}
  BY <1>2 DEF QueueItems, ChildItems, ChildItem, Child, WorkItems
<1>4. InFlight' = QueueItems' \cup WorkItems' \cup ChildItems'
  BY Places
<1>5. \A item \in Item : item.url # u => (item \in InFlight' <=> item \in InFlight)
  BY <1>3, <1>4, Places DEF WorkItems
<1>6. \A item \in QueueItems : item.url # u
  <2>1. u \notin Queued
    BY <1>1 DEF OnePlace, BusyIsClaimed, Active
  <2> QED BY <2>1 DEF QueueItems, Queued
<1>7. \A item \in ChildItems : item.url # u
  BY <1>1 DEF ChildItems, ChildItem, OnePlace, ChildIsClaimed, Active
<1>8. \A v \in Active \ {w} : cur[v].url # u
  BY <1>1 DEF OnePlace, BusyIsClaimed, Active
<1>9. \A item \in InFlight' : item.url # u
  BY <1>3, <1>4, <1>6, <1>7, <1>8
<1> QED BY <1>1, <1>5, <1>9, SettlesAbandoned

\* A child whose Push gave up.
LEMMA LosesChild ==
  ASSUME Ready, TypeInv', OnePlace', NEW w \in Worker, PushCancelled(w), WorkerStep(w)
  PROVE  Child(w) \in URL /\ Settles(Child(w), [state |-> "abandoned", depth |-> 0])
<1> DEFINE u == Child(w)
<1>1. w \in Pushing /\ TypeInv /\ OnePlace /\ UNCHANGED <<frontier, seen, records, cur>>
  BY DEF Ready, PushCancelled, Pushing
<1>2. /\ u \in URL /\ u \in seen /\ records[u] = <<>> /\ u \notin Queued
      /\ \A v \in Busy : cur[v].url # u
      /\ \A v \in Pushing \ {w} : Child(v) # u
  BY <1>1 DEF OnePlace, ChildIsClaimed, TypeInv, SeenType
<1>3. Active' = Active /\ Pushing' = Pushing \ {w}
  BY DEF PushCancelled, Goto, Active, Busy, Pushing, Ready, TypeInv, PositionType
<1>4. \A v \in Pushing \ {w} : ChildItem(v)' = ChildItem(v) /\ ChildItem(v).url = Child(v)
  BY <1>1, OthersStay DEF ChildItem, Child, Pushing
<1>5. ChildItems' = {ChildItem(v) : v \in Pushing \ {w}}
  BY <1>3, <1>4 DEF ChildItems
<1>6. QueueItems' = QueueItems /\ WorkItems' = WorkItems
  BY <1>1, <1>3 DEF QueueItems, WorkItems
<1>7. InFlight' = QueueItems' \cup WorkItems' \cup ChildItems'
  BY Places
<1>8. ChildItem(w).url = u
  BY DEF ChildItem
<1>9. \A item \in Item : item.url # u => (item \in InFlight' <=> item \in InFlight)
  BY <1>5, <1>6, <1>7, <1>8, Places DEF ChildItems
<1>10. \A item \in InFlight' : item.url # u
  <2>1. \A item \in QueueItems : item.url # u
    BY <1>2 DEF QueueItems, Queued
  <2>2. \A item \in WorkItems : item.url # u
    BY <1>2 DEF WorkItems, Active
  <2> QED BY <1>2, <1>4, <1>5, <1>6, <1>7, <2>1, <2>2
<1> QED BY <1>1, <1>2, <1>9, <1>10, SettlesAbandoned
-----------------------------------------------------------------------------
(***************************************************************************)
(* The steps of Crawl that the steps of a worker are.                      *)
(***************************************************************************)
PromisedStep == [Promise!Next]_(Promise!vars)

\* Crawl counts with the same operator as Engine.
LEMMA SameCardinality == ASSUME NEW S PROVE Promise!Cardinality(S) = Cardinality(S)
BY DEF Promise!Cardinality, Cardinality, Promise!IsFiniteSet, IsFiniteSet

LEMMA SettleIs == ASSUME NEW u \in URL, NEW f, Settles(u, f) PROVE Promise!Settle(u, f)
BY DEF Settles, Promise!Settle

LEMMA NothingMoves ==
  ASSUME \A u \in URL : FateOf(u)' = FateOf(u), Stopping' = Stopping, closed' = closed
  PROVE  PromisedStep
<1>1. [u \in URL |-> FateOf(u)]' = [u \in URL |-> FateOf(u)]
  OBVIOUS
<1> QED BY <1>1 DEF PromisedStep, Promise!vars, Stopping

\* A worker with an item runs before Run returns, and if its context is
\* cancelled somebody is stopping the crawl.
LEMMA WorkersRun ==
  ASSUME Ready, NEW w \in Worker, WorkerStep(w)
  PROVE  /\ ~closed /\ closed' = closed
         /\ w \in Busy /\ Cancelled => Stopping
<1>1. pc[w] # "exit"
  BY IdleWorkers
<1>2. ~closed
  BY <1>1 DEF Ready, Phases
<1>3. ASSUME w \in Busy, cause = "run" PROVE FALSE
  BY <1>3, ZeroMeansIdle DEF Ready, Ended, DrainedMeansZero
<1> QED BY <1>2, <1>3, RunFrame DEF Cancelled, Stopping

\* What an observer of Crawl sees of a worker's item.
LEMMA ItemFate ==
  ASSUME Ready, NEW w \in Active
  PROVE  /\ cur[w].url \in URL /\ cur[w] \in InFlight
         /\ FateOf(cur[w].url) = ClaimedAt(cur[w].depth)
         /\ FateOf(cur[w].url).depth = cur[w].depth
         /\ cur[w].url \in Promise!In("claimed")
<1>1. cur[w].url \in URL /\ cur[w] \in InFlight
  BY Places DEF Ready, TypeInv, ItemType, Item, WorkItems, Active, Busy
<1>2. FateOf(cur[w].url) = ClaimedAt(cur[w].depth)
  BY <1>1, FateLemma DEF Ready, FateFacts
<1> QED BY <1>1, <1>2 DEF ClaimedAt, Promise!In

LEMMA PagesAreVisited == Ready => Promise!In("page") = Pages
<1> SUFFICES ASSUME Ready, NEW u \in URL PROVE FateOf(u).state = "page" <=> u \in Pages
  BY DEF Promise!In, Pages
<1>1. records[u] \in Seq(Record) /\ Len(records[u]) <= 1 /\ FateFacts
  BY FateLemma DEF Ready, TypeInv, RecordType, OnePlace, OneRecordPerURL
<1>2. CASE records[u] = <<>>
  <2>1. FateOf(u).state \in {"claimed", "abandoned", "unknown"}
    <3>1. CASE \E item \in InFlight : item.url = u
      BY <1>1, <3>1 DEF FateFacts, ClaimedAt
    <3>2. CASE \A item \in InFlight : item.url # u
      BY <1>1, <1>2, <3>2 DEF FateFacts
    <3> QED BY <3>1, <3>2
  <2>2. u \notin Pages
    BY <1>2 DEF Pages
  <2> QED BY <2>1, <2>2
<1>3. CASE records[u] # <<>>
  <2>1. DOMAIN records[u] = {1}
    BY <1>1, <1>3
  <2>2. FateOf(u).state = records[u][1].kind
    BY <1>1, <1>3 DEF FateFacts
  <2> QED BY <2>1, <2>2 DEF Pages
<1> QED BY <1>2, <1>3

LEMMA SeenIsKnown ==
  ASSUME Ready, NEW u \in URL
  PROVE  /\ u \notin seen => FateOf(u) = Promise!Unknown
         /\ u \in seen => FateOf(u).state # "unknown"
<1>1. FateFacts /\ FlightIsClaimed
  BY FateLemma, FlightFacts DEF Ready
<1>2. u \notin seen => records[u] = <<>> /\ \A item \in InFlight : item.url # u
  BY <1>1 DEF Ready, OnePlace, UnclaimedUnrecorded, FlightIsClaimed
<1>3. u \notin seen => FateOf(u) = Promise!Unknown
  BY <1>1, <1>2 DEF FateFacts, Promise!Unknown, Promise!Fate
<1>4. ASSUME u \in seen PROVE FateOf(u).state # "unknown"
  <2>1. CASE records[u] # <<>>
    <3>1. records[u] \in Seq(Record)
      BY DEF Ready, TypeInv, RecordType
    <3>2. records[u][1].kind \in {"page", "error"}
      <4>1. records[u][1] \in Record
        BY <2>1, <3>1
      <4> QED BY <4>1 DEF Record
    <3> QED BY <1>1, <2>1, <3>2 DEF FateFacts
  <2>2. CASE \E item \in InFlight : item.url = u
    BY <1>1, <2>2 DEF FateFacts, ClaimedAt
  <2>3. CASE records[u] = <<>> /\ \A item \in InFlight : item.url # u
    BY <1>1, <1>4, <2>3 DEF FateFacts
  <2> QED BY <2>1, <2>2, <2>3
<1> QED BY <1>3, <1>4

LEMMA FailStep ==
  ASSUME Ready, TypeInv', OnePlace', NEW w \in Worker, WorkerStep(w), RobotsDisallow(w) \/ FetchFailed(w)
  PROVE  PromisedStep
<1> DEFINE u == cur[w].url
<1>1. w \in Active /\ w \notin Pushing
  BY DEF RobotsDisallow, FetchFailed, ReleaseOnFailure, AttemptFails, Active, Busy, Pushing
<1>2. Write(w, "error") /\ UNCHANGED <<frontier, seen, cur, todo, cause>>
  BY DEF RobotsDisallow, FetchFailed, ctxVars
<1>3. pc'[w] = "done"
  BY DEF RobotsDisallow, FetchFailed, Goto, Ready, TypeInv, PositionType
<1>4. Settles(u, [state |-> "error", depth |-> cur[w].depth])
  BY <1>1, <1>2, <1>3, SettlesRecord
<1>5. u \in RobotsBlocked \/ "fail" \in Outcome[u] \/ Cancelled
  BY DEF RobotsDisallow, FetchFailed, ReleaseOnFailure, AttemptFails, Ready, History, HistoryOf
<1>6. u \in RobotsBlocked \/ "fail" \in Outcome[u] \/ Stopping
  BY <1>1, <1>5, WorkersRun DEF Active
<1>7. Promise!Settle(u, Promise!Fate("error", FateOf(u).depth))
  <2>1. FateOf(u).depth = cur[w].depth /\ u \in URL
    BY <1>1, ItemFate
  <2> QED BY <1>4, <2>1, SettleIs DEF Promise!Fate
<1>8. Promise!Fail(u)
  BY <1>1, <1>2, <1>6, <1>7, ItemFate, WorkersRun DEF Promise!Fail, Stopping
<1> QED BY <1>1, <1>8, ItemFate DEF PromisedStep, Promise!Next

LEMMA VisitStep ==
  ASSUME Ready, TypeInv', OnePlace', NEW w \in Worker, WorkerStep(w), WritePage(w)
  PROVE  PromisedStep
<1> DEFINE u == cur[w].url
<1>1. w \in Active /\ w \notin Pushing /\ w \in Expanding
  BY DEF WritePage, Active, Busy, Pushing, Expanding, AtPage
<1>2. Write(w, "page") /\ UNCHANGED <<frontier, seen, cur, todo, cause>>
  BY DEF WritePage, ctxVars
<1>3. pc'[w] = "done"
  BY DEF WritePage, Goto, Ready, TypeInv, PositionType
<1>4. Settles(u, [state |-> "page", depth |-> cur[w].depth])
  BY <1>1, <1>2, <1>3, SettlesRecord
<1>5. "ok" \in Outcome[u] /\ (u \notin RobotsBlocked \/ Stopping)
  <2>1. pc[w] \in Admissible /\ pc[w] \in PastRobots
    BY DEF WritePage, Admissible, PastRobots
  <2> QED BY <1>1, <2>1, WorkersRun DEF Ready, History, HistoryOf, Active
<1>6. MaxPages = 0 \/ Cardinality(Promise!In("page")) < MaxPages
  <2> SUFFICES ASSUME MaxPages > 0 PROVE Cardinality(Pages) < MaxPages
    BY PagesAreVisited, OptionsAssumption
  <2>1. Cardinality(Pages) + Cardinality(Expanding) = Admitted /\ Cardinality(Pages) \in Nat
    BY FS_CardinalityType DEF Ready, Budgeted
  <2>2. Cardinality(Expanding) \in Nat /\ Cardinality(Expanding) # 0
    BY <1>1, SubsetsOfWorker, FS_EmptySet DEF Expanding
  <2>3. Admitted \in Nat /\ Admitted <= MaxPages /\ MaxPages \in Nat
    BY CounterNames, OptionsAssumption DEF Admitted, Ready, TypeInv, StatsType
  <2> QED BY ONLY <2>1, <2>2, <2>3
<1>7. FateOf(u).depth < MaxDepth => Promise!LinkedFrom(u) \cap Promise!In("unknown") = {}
  <2>1. FateOf(u).depth = cur[w].depth
    BY <1>1, ItemFate
  <2>2. ASSUME cur[w].depth < MaxDepth, NEW x \in Promise!LinkedFrom(u)
        PROVE  x \in URL /\ FateOf(x).state # "unknown"
    <3>1. PICK i \in DOMAIN Links[u] : x = Links[u][i] /\ x \in InScope
      BY <2>2 DEF Promise!LinkedFrom
    <3>2. todo[w] = <<>>
      BY DEF WritePage
    <3>3. x \in seen
      BY <1>1, <2>2, <3>1, <3>2, EmptyRan DEF Ready, LinksClaimed, OpenLinksClaimed, Covered
    <3> QED BY <3>1, <3>3, SeenIsKnown, SiteAssumption
  <2>3. \A x \in Promise!In("unknown") : FateOf(x).state = "unknown"
    BY DEF Promise!In
  <2> QED BY <2>1, <2>2, <2>3
<1>8. Promise!Settle(u, Promise!Fate("page", FateOf(u).depth))
  <2>1. FateOf(u).depth = cur[w].depth /\ u \in URL
    BY <1>1, ItemFate
  <2> QED BY <1>4, <2>1, SettleIs DEF Promise!Fate
<1>9. Promise!Visit(u)
  <2>1. u \in URL /\ u \in Promise!In("claimed") /\ ~closed /\ closed' = closed /\ cause' = cause
    BY <1>1, <1>2, ItemFate, WorkersRun
  <2>2. MaxPages = 0 \/ Promise!Cardinality(Promise!In("page")) < MaxPages
    BY <1>6, SameCardinality
  <2> HIDE DEF u
  <2> QED BY <1>5, <1>7, <1>8, <2>1, <2>2 DEF Promise!Visit, Stopping
<1> QED BY <1>1, <1>9, ItemFate DEF PromisedStep, Promise!Next

LEMMA AbandonIs ==
  ASSUME Ready, NEW u \in URL, u \in Promise!In("claimed"), ~closed, closed' = closed,
         Settles(u, [state |-> "abandoned", depth |-> 0]), Stopping \/ MaxPages > 0, Stopping'
  PROVE  PromisedStep
<1>1. Promise!Settle(u, Promise!Abandoned)
  BY SettleIs DEF Promise!Abandoned, Promise!Fate
<1>2. Promise!Abandon(u)
  BY <1>1 DEF Promise!Abandon, Stopping
<1> QED BY <1>2 DEF PromisedStep, Promise!Next

LEMMA GiveUpStep ==
  ASSUME Ready, TypeInv', OnePlace', NEW w \in Worker, WorkerStep(w),
         AcquireCancelled(w) \/ (AdmitPage(w) /\ pc'[w] = "done")
  PROVE  PromisedStep
<1>1. w \in Active /\ w \notin Pushing
  BY DEF AcquireCancelled, AdmitPage, Active, Busy, Pushing
<1>2. UNCHANGED <<frontier, seen, records, cur, todo>> /\ pc'[w] = "done"
  BY DEF AcquireCancelled, AdmitPage, Goto, Ready, TypeInv, PositionType
<1>3. Settles(cur[w].url, [state |-> "abandoned", depth |-> 0])
  BY <1>1, <1>2, GivesUp
<1>4. (Stopping \/ MaxPages > 0) /\ Stopping'
  <2>1. CASE AcquireCancelled(w)
    BY <1>1, <2>1, WorkersRun DEF AcquireCancelled, ctxVars, Active, Stopping
  <2>2. CASE AdmitPage(w) /\ pc'[w] = "done"
    <3>1. ~WithinBudget /\ CancelBy("budget")
      BY <2>2 DEF AdmitPage, Goto, Ready, TypeInv, PositionType
    <3>2. MaxPages > 0
      BY <3>1, OptionsAssumption DEF WithinBudget
    <3>3. Stopping'
      BY <1>1, <3>1, WorkersRun DEF CancelBy, Active, Stopping
    <3> QED BY <3>2, <3>3
  <2> QED BY <2>1, <2>2
<1> QED BY <1>1, <1>3, <1>4, ItemFate, WorkersRun, AbandonIs

LEMMA LoseChildStep ==
  ASSUME Ready, TypeInv', OnePlace', NEW w \in Worker, WorkerStep(w), PushCancelled(w)
  PROVE  PromisedStep
<1>1. w \in Pushing /\ w \in Busy /\ Cancelled /\ cause' = cause
  BY DEF PushCancelled, Pushing, Busy, MayDropItem, ctxVars
<1>2. Child(w) \in URL /\ Settles(Child(w), [state |-> "abandoned", depth |-> 0])
  BY LosesChild
<1>3. ChildItem(w) \in InFlight /\ ChildItem(w).url = Child(w)
  BY <1>1, Places DEF ChildItems, ChildItem
<1>4. Child(w) \in Promise!In("claimed")
  BY <1>2, <1>3, FateLemma DEF Ready, FateFacts, ClaimedAt, Promise!In
<1>5. Stopping /\ Stopping'
  BY <1>1, WorkersRun DEF Stopping
<1> QED BY <1>2, <1>4, <1>5, WorkersRun, AbandonIs

LEMMA ClaimIs ==
  ASSUME Ready, NEW u \in URL, NEW d \in 0..MaxDepth, u \notin seen, ~closed,
         UNCHANGED <<cause, closed>>, Promise!MayClaim(u, d),
         \/ Settles(u, ClaimedAt(d))
         \/ Stopping /\ Settles(u, [state |-> "abandoned", depth |-> 0])
  PROVE  PromisedStep
<1>1. FateOf(u) = Promise!Unknown
  BY SeenIsKnown
<1>2. \/ Promise!Settle(u, Promise!Fate("claimed", d))
      \/ Stopping /\ Promise!Settle(u, Promise!Abandoned)
  BY SettleIs DEF ClaimedAt, Promise!Abandoned, Promise!Fate
<1>3. Promise!Claim(u, d)
  BY <1>1, <1>2 DEF Promise!Claim, Stopping
<1> QED BY <1>3 DEF PromisedStep, Promise!Next

LEMMA DiscoverStep ==
  ASSUME Ready, TypeInv', OnePlace', NEW w \in Worker, WorkerStep(w), Discover(w), pc'[w] = "push"
  PROVE  PromisedStep
<1> DEFINE u == Head(todo[w])
           item == [url |-> u, depth |-> cur[w].depth + 1]
<1>1. /\ u \notin seen /\ seen' = seen \cup {u} /\ u \in InScope /\ cur[w].depth < MaxDepth
      /\ UNCHANGED <<frontier, records, cur, todo, cause>> /\ Goto(w, "push")
      /\ pc[w] = "expand" /\ todo[w] # <<>>
  BY DEF Discover, MarkSeen, ctxVars, Goto, Ready, TypeInv, PositionType
<1>2. w \in Active /\ Active' = Active /\ Pushing' = Pushing \cup {w}
  BY <1>1 DEF Goto, Active, Busy, Pushing, Ready, TypeInv, PositionType
<1>3. u \in URL /\ cur[w].depth \in Nat /\ MaxDepth \in Nat
  BY <1>1, OptionsAssumption DEF Ready, TypeInv, TodoType, ItemType, Item
<1>4. item \in Item /\ cur[w].depth + 1 \in 0..MaxDepth
  BY <1>1, <1>3 DEF Item
<1>5. InFlight' = InFlight \cup {item}
  <2>1. QueueItems' = QueueItems /\ WorkItems' = WorkItems
    BY <1>1, <1>2 DEF QueueItems, WorkItems
  <2>2. ChildItems' = ChildItems \cup {item}
    BY <1>1, <1>2 DEF ChildItems, ChildItem, Child
  <2> QED BY <2>1, <2>2, Places
<1>6. Settles(u, ClaimedAt(cur[w].depth + 1))
  BY <1>1, <1>4, <1>5, SettlesClaimed
<1>7. u \in Promise!LinkedFrom(cur[w].url)
  <2>1. u \in Ran(todo[w])
    BY <1>1, TailRan DEF Ready, TypeInv, TodoType
  <2>2. u \in Ran(Links[cur[w].url])
    BY <1>1, <2>1 DEF Ready, History, HistoryOf, AtPage
  <2> QED BY <1>1, <2>2 DEF Ran, Promise!LinkedFrom
<1>8. Promise!MayClaim(u, cur[w].depth + 1)
  <2>1. FateOf(cur[w].url).depth = (cur[w].depth + 1) - 1 /\ cur[w].depth + 1 <= MaxDepth
    <3>1. FateOf(cur[w].url).depth = cur[w].depth
      BY <1>2, ItemFate
    <3> QED BY <1>1, <1>3, <3>1
  <2> QED BY <1>2, <1>7, <2>1, ItemFate DEF Promise!MayClaim
<1> QED BY <1>1, <1>3, <1>4, <1>6, <1>8, WorkersRun, ClaimIs
\* Every other step of a worker only moves its item, or nothing.
LEMMA QuietStep ==
  ASSUME Ready, NEW w \in Worker, WorkerStep(w),
         ~RobotsDisallow(w), ~FetchFailed(w), ~WritePage(w), ~AcquireCancelled(w), ~PushCancelled(w),
         ~(AdmitPage(w) /\ pc'[w] = "done"), ~(Discover(w) /\ pc'[w] = "push")
  PROVE  PromisedStep
<1>1. pc \in [Worker -> WorkerState] /\ cur \in [Worker -> Item] /\ frontier \in Seq(Item) /\ TypeInv
  BY DEF Ready, TypeInv, PositionType, ItemType, FrontierType
<1>2. UNCHANGED <<records, cause>>
  BY DEF WorkerStep, Pop, PopCancelled, RobotsAllow, AcquireHost, Backoff, Retry, FetchOK, AdmitPage,
         Discover, Push, ItemDone, Goto, CancelBy, Cancelled, ctxVars, Ready, TypeInv, PositionType
<1>3. seen' = seen
  BY <1>1 DEF WorkerStep, Pop, PopCancelled, RobotsAllow, AcquireHost, Backoff, Retry, FetchOK,
              AdmitPage, Discover, Push, ItemDone, Goto
<1>4. InFlight' = InFlight
  <2>1. CASE Pop(w)
    <3>1. Active' = Active \cup {w} /\ w \notin Active /\ Pushing' = Pushing /\ w \notin Pushing
      BY <1>1, <2>1 DEF Pop, Goto, Active, Busy, Pushing
    <3>2. \A v \in Active \cup Pushing : cur'[v] = cur[v] /\ todo' = todo
      BY <1>1, <2>1, <3>1 DEF Pop, Active, Busy, Pushing
    <3>3. cur'[w] = Head(frontier)
      BY <1>1, <2>1 DEF Pop
    <3>4. WorkItems' = WorkItems \cup {Head(frontier)} /\ ChildItems' = ChildItems
      BY <3>1, <3>2, <3>3 DEF WorkItems, ChildItems, ChildItem, Child
    <3>5. frontier # <<>> /\ QueueItems = Ran(frontier) /\ QueueItems' = Ran(Tail(frontier))
      BY <2>1 DEF Pop, QueueItems, Ran
    <3>6. QueueItems = QueueItems' \cup {Head(frontier)}
      BY <1>1, <3>5, RanHeadTail, TailRan
    <3> QED BY <3>4, <3>6, Places
  <2>2. CASE Push(w)
    <3>1. Active' = Active /\ Pushing' = Pushing \ {w} /\ w \in Pushing /\ cur' = cur
      BY <1>1, <2>2 DEF Push, Goto, Active, Busy, Pushing
    <3>2. \A v \in Pushing \ {w} : ChildItem(v)' = ChildItem(v)
      BY <1>1, <3>1, OthersStay DEF ChildItem, Child, Pushing
    <3>3. ChildItems = ChildItems' \cup {ChildItem(w)} /\ WorkItems' = WorkItems
      BY <3>1, <3>2 DEF ChildItems, WorkItems
    <3>4. AddToFrontier(ChildItem(w))
      BY <2>2 DEF Push, ChildItem, Child
    <3>5. ChildItem(w) \in Item
      BY <3>1, ItemsAreItems, Places DEF ChildItems, Ready
    <3>6. QueueItems' = QueueItems \cup {ChildItem(w)}
      BY <1>1, <3>4, <3>5, AppendRan DEF AddToFrontier, QueueItems, Ran
    <3> QED BY <3>3, <3>6, Places
  <2>3. CASE ~Pop(w) /\ ~Push(w)
    <3>1. UNCHANGED <<frontier, cur>>
      BY <2>3 DEF WorkerStep, PopCancelled, RobotsAllow, AcquireHost, Backoff, Retry, FetchOK,
                  AdmitPage, Discover, ItemDone
    <3>2. \A v \in Worker \ {w} : pc'[v] = pc[v] /\ todo'[v] = todo[v]
      BY <1>1, OthersStay
    <3>3. (w \in Active' <=> w \in Active) /\ w \notin Pushing /\ w \notin Pushing'
      BY <1>1, <2>3
         DEF WorkerStep, PopCancelled, RobotsAllow, AcquireHost, Backoff, AttemptFails, Retry, FetchOK,
             AdmitPage, Discover, ItemDone, StartAttempt, Goto, Active, Busy, Pushing
    <3>4. Active' = Active /\ Pushing' = Pushing
      BY <3>2, <3>3 DEF Active, Busy, Pushing
    <3>5. \A v \in Pushing : ChildItem(v)' = ChildItem(v)
      BY <3>1, <3>2, <3>3 DEF ChildItem, Child, Pushing
    <3> QED BY <3>1, <3>4, <3>5, Places DEF QueueItems, WorkItems, ChildItems
  <2> QED BY <2>1, <2>2, <2>3
<1> QED BY <1>2, <1>3, <1>4, SameFates, WorkersRun, NothingMoves DEF Stopping

LEMMA WorkerRefines ==
  ASSUME Ready, TypeInv', OnePlace', NEW w \in Worker, WorkerStep(w) PROVE PromisedStep
BY FailStep, VisitStep, GiveUpStep, LoseChildStep, DiscoverStep, QuietStep
-----------------------------------------------------------------------------
(***************************************************************************)
(* The steps of Run, its waiter, its timer and its caller.                 *)
(***************************************************************************)
LEMMA SeedingRefines ==
  ASSUME Ready, TypeInv', OnePlace', NEW u \in URL, u \notin seen, MarkSeen(u),
         main \in {"seed", "sitemap"}, EnqueueBeforeWorkers([url |-> u, depth |-> 0]),
         UNCHANGED <<closed, records, cause, pc, cur, todo>>, Promise!MayClaim(u, 0)
  PROVE  PromisedStep
<1> DEFINE item == [url |-> u, depth |-> 0]
<1>1. ~closed /\ item \in Item /\ TypeInv /\ frontier \in Seq(Item) /\ 0 \in 0..MaxDepth
  BY OptionsAssumption DEF Ready, Phases, Item, TypeInv, FrontierType
<1>2. WorkItems' = WorkItems /\ ChildItems' = ChildItems
  BY DEF WorkItems, ChildItems, ChildItem, Child, Active, Busy, Pushing
<1>3. CASE AddToFrontier(item)
  <2>1. QueueItems' = QueueItems \cup {item}
    BY <1>1, <1>3, AppendRan DEF AddToFrontier, QueueItems, Ran
  <2>2. InFlight' = InFlight \cup {item}
    BY <1>2, <2>1, Places
  <2>3. Settles(u, ClaimedAt(0))
    BY <1>1, <2>2, SettlesClaimed DEF MarkSeen
  <2> QED BY <1>1, <2>3, ClaimIs
<1>4. CASE MayDropItem /\ UNCHANGED frontier
  <2>1. InFlight' = InFlight
    BY <1>2, <1>4, Places DEF QueueItems
  <2>2. \A x \in InFlight : x.url # u
    BY FlightFacts DEF Ready, FlightIsClaimed
  <2>3. records[u] = <<>>
    BY DEF Ready, OnePlace, UnclaimedUnrecorded
  <2>4. Settles(u, [state |-> "abandoned", depth |-> 0])
    BY <2>1, <2>2, <2>3, SettlesAbandoned DEF MarkSeen
  <2>5. Stopping
    BY <1>4 DEF MayDropItem, Cancelled, Stopping, Ready, Ended
  <2> QED BY <1>1, <2>4, <2>5, ClaimIs
<1> QED BY <1>3, <1>4 DEF EnqueueBeforeWorkers

LEMMA RunRefines ==
  ASSUME Ready, TypeInv', OnePlace', RunStep \/ Drain \/ Deadline \/ CallerCancels \/ UNCHANGED vars
  PROVE  PromisedStep
<1>1. ASSUME UNCHANGED <<frontier, seen, records, pc, cur, todo>>
      PROVE  \A u \in URL : FateOf(u)' = FateOf(u)
  <2>1. InFlight' = InFlight
    BY <1>1 DEF InFlight, Busy, Pushing
  <2> QED BY <1>1, <2>1, SameFates
<1>2. CASE SeedFrontier
  <2>1. seen = {}
    BY <1>2 DEF SeedFrontier, Ready, History
  <2>2. \A u \in URL : FateOf(u) = Promise!Unknown
    BY <2>1, SeenIsKnown
  <2>3. Promise!In("unknown") = URL
    BY <2>2 DEF Promise!In, Promise!Unknown, Promise!Fate
  <2>4. Promise!MayClaim(Seed, 0)
    BY <2>3 DEF Promise!MayClaim
  <2> QED BY <1>2, <2>1, <2>4, SeedingRefines, SiteAssumption DEF SeedFrontier, ctxVars, workVars
<1>3. CASE SeedSitemapLoc
  <2> DEFINE u == Head(locs)
  <2>1. u \in URL /\ u \in Ran(SitemapLocs) /\ main = "sitemap"
    BY <1>3, TailRan DEF SeedSitemapLoc, Ready, TypeInv, RunType, History
  <2>2. CASE u \in InScope /\ u \notin seen /\ MarkSeen(u)
               /\ EnqueueBeforeWorkers([url |-> u, depth |-> 0])
    <3>1. Promise!MayClaim(u, 0)
      BY <2>1, <2>2 DEF Promise!MayClaim, Ran
    <3> QED BY <1>3, <2>1, <2>2, <3>1, SeedingRefines DEF SeedSitemapLoc, ctxVars, workVars
  <2>3. CASE UNCHANGED <<seen, frontier>>
    BY <1>1, <1>3, <2>3, NothingMoves DEF SeedSitemapLoc, ctxVars, workVars, Stopping
  <2> QED BY <1>3, <2>2, <2>3 DEF SeedSitemapLoc
<1>4. CASE StartWorkers
  <2>1. Busy = {} /\ Busy' = {} /\ Pushing = {} /\ Pushing' = {}
    BY <1>4 DEF StartWorkers, Ready, Phases, Busy, Pushing
  <2>2. InFlight' = InFlight
    BY <1>4, <2>1 DEF InFlight, StartWorkers
  <2> QED BY <1>4, <2>2, SameFates, NothingMoves DEF StartWorkers, ctxVars, Stopping
<1>5. CASE JoinWorkers
  <2>1. ~closed /\ closed' /\ UNCHANGED <<frontier, seen, records, pc, cur, todo, cause>>
    BY <1>5 DEF JoinWorkers, Ready, Phases, workVars, ctxVars
  <2>2. Stopping \/ Promise!In("claimed") = {}
    <3>1. cause # "none"
      BY <1>5 DEF JoinWorkers, Ready, History, Ending, Cancelled
    <3>2. ASSUME cause = "run", NEW u \in Promise!In("claimed") PROVE FALSE
      <4>1. u \in URL /\ FateOf(u).state = "claimed" /\ FateFacts
        BY <3>2, FateLemma DEF Promise!In, Ready
      <4>2. seen \subseteq Written
        BY <3>2 DEF Ready, Ended
      <4>3. u \in seen
        BY <4>1, SeenIsKnown DEF Promise!Unknown, Promise!Fate
      <4>4. records[u] # <<>> /\ records[u] \in Seq(Record)
        BY <4>1, <4>2, <4>3 DEF Written, Ready, TypeInv, RecordType
      <4>5. records[u][1] \in Record
        BY <4>4
      <4>6. records[u][1].kind # "claimed"
        BY <4>5 DEF Record
      <4> QED BY <4>1, <4>4, <4>6 DEF FateFacts
    <3> QED BY <3>1, <3>2 DEF Stopping
  <2>3. \A u \in URL : FateOf(u)' = FateOf(u)
    BY <1>1, <2>1
  <2>4. Promise!Return
    <3>1. [u \in URL |-> FateOf(u)]' = [u \in URL |-> FateOf(u)]
      BY <2>3
    <3>2. (cause \notin {"none", "run"})' = (cause \notin {"none", "run"})
      BY <2>1
    <3>3. closed' = TRUE
      BY <1>5 DEF JoinWorkers
    <3> QED BY <2>1, <2>2, <3>1, <3>2, <3>3 DEF Promise!Return, Stopping
  <2> QED BY <2>4 DEF PromisedStep, Promise!Next
<1>6. CASE StopWaiting \/ StartProbe \/ ProbeEnds \/ Summarize \/ Drain \/ UNCHANGED vars
  <2>1. UNCHANGED <<frontier, seen, records, pc, cur, todo, closed>>
    BY <1>6 DEF StopWaiting, StartProbe, ProbeEnds, Summarize, Drain, vars, workVars, runVars
  <2>2. Stopping' = Stopping
    BY <1>6 DEF StopWaiting, StartProbe, ProbeEnds, Summarize, Drain, vars, ctxVars, CancelBy,
         Cancelled, Stopping
  <2> QED BY <1>1, <2>1, <2>2, NothingMoves
<1>7. CASE Deadline \/ CallerCancels
  <2>1. UNCHANGED <<frontier, seen, records, pc, cur, todo, closed>>
    BY <1>7 DEF Deadline, CallerCancels, workVars, runVars
  <2>2. CASE Cancelled
    BY <1>1, <1>7, <2>1, <2>2, NothingMoves DEF Deadline, CallerCancels, CancelBy, Cancelled, Stopping
  <2>3. CASE ~Cancelled
    <3>1. Stopping' /\ ~closed
      <4>1. closed => main \in Ending
        BY DEF Ready, Phases, Ending
      <4> QED BY <1>7, <2>3, <4>1 DEF Deadline, CallerCancels, CancelBy, Cancelled, Stopping, Ready, History
    <3>2. [u \in URL |-> FateOf(u)]' = [u \in URL |-> FateOf(u)]
      BY <1>1, <2>1
    <3>3. Promise!Stop
      BY <2>1, <3>1, <3>2 DEF Promise!Stop, Stopping
    <3> QED BY <3>3 DEF PromisedStep, Promise!Next
  <2> QED BY <2>2, <2>3
<1> QED BY <1>2, <1>3, <1>4, <1>5, <1>6, <1>7 DEF RunStep

LEMMA StartsAsPromised == Init => Promise!Init
<1> SUFFICES ASSUME Init PROVE Promise!Init
  OBVIOUS
<1>1. InFlight = {}
  BY DEF Init, InFlight, Busy, Pushing
<1>2. \A u \in URL : FateOf(u) = [state |-> "unknown", depth |-> 0]
  BY <1>1 DEF Init, FateOf
<1> QED BY <1>2 DEF Init, Promise!Init, Promise!Unknown, Promise!Fate

\* Whatever its workers, retries, lost pushes and cancellations do, what the
\* engine writes about each URL, and when, is a crawl that Crawl describes:
\* claimed once, visited or failed or, only when stopped, abandoned.
THEOREM RefinementCorrect == Spec => ImplementsCrawl
<1>1. Spec => []History
  <2>1. IInv /\ History /\ [Next]_vars => History'
    BY HistoryStep DEF IInv
  <2> QED BY <2>1, HistoryInit, Invariance, PTL DEF Spec
<1>2. IInv /\ OInv /\ History => Ready
  BY DEF IInv, OInv, Ready
<1>3. Ready /\ TypeInv' /\ OnePlace' /\ [Next]_vars => PromisedStep
  BY WorkerRefines, RunRefines DEF Next, Terminated
<1>4. IInv /\ OInv /\ History /\ IInv' /\ [Next]_vars => PromisedStep
  <2>1. IInv' => TypeInv' /\ OnePlace'
    BY DEF IInv
  <2> QED BY <1>2, <1>3, <2>1
<1> QED BY <1>1, <1>4, Outcomes, StartsAsPromised, PTL DEF Spec, ImplementsCrawl, Promise!Spec, PromisedStep
=============================================================================
