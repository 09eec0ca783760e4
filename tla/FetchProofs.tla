----------------------------- MODULE FetchProofs -----------------------------
(***************************************************************************)
(* Theorems about Fetch and Headless together, for any number of workers   *)
(* and hosts, any policy and limit, any pool size.  FInv is inductive: the *)
(* accounting of slots, of requests and of tabs, each said worker by       *)
(* worker for every point a fetch can be at.                               *)
(***************************************************************************)
EXTENDS Headless, FiniteSetTheorems, TLAPS

Labels == {"idle", "acquire", "attempt", "inflight", "decide", "sleep", "reacquire", "return",
           "extract", "map", "tab", "open", "render", "stuck", "close", "free"}
Errors == {"none", "transport", "redirects", "headless"}
Replies == [status : Nat, after : Nat, error : {""} \cup Errors]
FetchTypes ==
  /\ policy \in Policies /\ cancelled \in BOOLEAN /\ rendering \in Renderers
  /\ sems \in [Host -> Int] /\ tokens \in Int /\ tabs \subseteq Worker
  /\ pc \in [Worker -> Labels] /\ host \in [Worker -> Host] /\ held \in [Worker -> BOOLEAN]
  /\ attempt \in [Worker -> Nat] /\ sent \in [Worker -> Nat]
  /\ reply \in [Worker -> Replies]

InTab == {"render", "stuck", "close"}
InPool == {"open", "free"} \cup InTab
OnSlot == {"attempt", "inflight", "decide", "tab"} \cup InPool
OffSlot == {"idle", "acquire", "sleep", "reacquire", "extract", "map"}
SlotState(w) == /\ pc[w] \in OnSlot => held[w]
                /\ pc[w] \in OffSlot => ~held[w]

\* A request answers for the attempt it was sent in; only a cancelled context
\* lets an attempt pass without one.
Limit == IF policy = "none" THEN 0 ELSE MaxRetries
Deciding == {"decide", "sleep", "reacquire"}
Charged(w) ==
  /\ attempt[w] <= Limit /\ sent[w] <= attempt[w] + 1
  /\ pc[w] \in {"acquire", "tab", "open"} => attempt[w] = 0 /\ sent[w] = 0
  /\ pc[w] = "attempt" => sent[w] <= attempt[w] /\ (cancelled \/ sent[w] = attempt[w])
  /\ pc[w] \in {"inflight", "render", "stuck"} => sent[w] = attempt[w] + 1
  /\ pc[w] \in Deciding => cancelled \/ sent[w] = attempt[w] + 1
  /\ pc[w] \in Deciding \cup {"close", "free", "return"} /\ reply[w].error = "" => sent[w] = attempt[w] + 1
  /\ pc[w] \in {"sleep", "reacquire"} => attempt[w] < Limit

Holders(h) == {w \in Worker : held[w] /\ host[w] = h}
TabUsers == {w \in Worker : pc[w] \in InPool}
TabState(w) == w \in tabs => pc[w] \in InTab

FInv ==
  /\ FetchTypes /\ TokensMatchGates
  /\ \A w \in Worker : SlotState(w) /\ Charged(w) /\ TabState(w)
  /\ tokens = Cardinality(TabUsers) /\ tokens <= Room

\* The steps of one worker.
Acts(w) ==
  \/ (Step(w) \/ \E h \in Host : Begin(w, h)) /\ UNCHANGED poolVars
  \/ Pool(w)

LEMMA StepCases ==
  ASSUME [HeadlessNext]_allVars
  PROVE  \/ \E w \in Worker : Acts(w)
         \/ Cancel /\ UNCHANGED poolVars
         \/ UNCHANGED <<vars, rendering, tokens, tabs>>
BY DEF HeadlessNext, Next, Acts, ClosesLate, poolVars, allVars

LEMMA FetchStart == HeadlessInit => FInv
<1> SUFFICES ASSUME HeadlessInit PROVE FInv
  OBVIOUS
<1>1. FetchTypes
  <2>1. Error("none") \in Replies
    BY DEF Error, Replies, Errors
  <2>2. reply \in [Worker -> Replies]
    BY <2>1 DEF HeadlessInit, Init
  <2>3. sems \in [Host -> Int] /\ tokens \in Int /\ tabs \subseteq Worker
    BY DEF HeadlessInit, Init
  <2>4. pc \in [Worker -> Labels] /\ host \in [Worker -> Host] /\ held \in [Worker -> BOOLEAN]
    BY DEF HeadlessInit, Init, Labels
  <2>5. attempt \in [Worker -> Nat] /\ sent \in [Worker -> Nat]
    BY DEF HeadlessInit, Init
  <2> QED BY <2>2, <2>3, <2>4, <2>5 DEF HeadlessInit, Init, FetchTypes
<1>2. \A h \in Host : Holders(h) = {}
  BY DEF HeadlessInit, Init, Holders
<1>3. TabUsers = {}
  BY DEF HeadlessInit, Init, TabUsers, InPool, InTab
<1>4. Cardinality({}) = 0
  BY FS_EmptySet
<1>5. TokensMatchGates
  BY <1>2, <1>4 DEF HeadlessInit, Init, TokensMatchGates, Holders
<1>6. ASSUME NEW w \in Worker PROVE SlotState(w) /\ Charged(w) /\ TabState(w)
  <2>1. pc[w] = "idle" /\ ~held[w] /\ tabs = {} /\ attempt[w] = 0 /\ sent[w] = 0
    BY <1>6 DEF HeadlessInit, Init
  <2>2. 0 <= Limit
    BY FetchAssumption DEF Limit
  <2> QED BY <2>1, <2>2 DEF SlotState, Charged, TabState, OnSlot, OffSlot, InPool, InTab, Deciding
<1>7. tokens = 0 /\ tokens <= Room
  BY HeadlessAssumption DEF HeadlessInit, Room
<1> QED BY <1>1, <1>3, <1>4, <1>5, <1>6, <1>7 DEF FInv
-----------------------------------------------------------------------------
(***************************************************************************)
(* A worker's step keeps the types and changes its own entries only.       *)
(***************************************************************************)
Apart(w) ==
  \A v \in Worker \ {w} :
    /\ pc'[v] = pc[v] /\ host'[v] = host[v] /\ held'[v] = held[v]
    /\ attempt'[v] = attempt[v] /\ sent'[v] = sent[v] /\ reply'[v] = reply[v]
OnlyOwn(w) == FetchTypes' /\ policy' = policy /\ cancelled' = cancelled /\ Apart(w)

LEMMA ErrorIsReply == ASSUME NEW why \in Errors PROVE Error(why) \in Replies /\ Error(why).error = why
BY DEF Error, Replies

LEMMA ResponseIsReply ==
  ASSUME NEW s \in Nat, NEW a \in Nat
  PROVE  Response(s, a) \in Replies /\ Response(s, a).error = ""
BY DEF Response, Replies

LEMMA Local ==
  ASSUME FetchTypes, NEW w \in Worker, Acts(w)
  PROVE  OnlyOwn(w)
<1> USE DEF FetchTypes, OnlyOwn, Apart, poolVars, Labels, Goto
<1>1. ASSUME NEW h \in Host, Begin(w, h), UNCHANGED poolVars PROVE OnlyOwn(w)
  BY <1>1 DEF Begin
<1>2. ASSUME Acquire(w), UNCHANGED poolVars PROVE OnlyOwn(w)
  BY <1>2 DEF Acquire, GateAcquire, TakeToken
<1>3. ASSUME Reacquire(w), UNCHANGED poolVars PROVE OnlyOwn(w)
  BY <1>3 DEF Reacquire, GateAcquire, TakeToken
<1>4. ASSUME AcquireCancelled(w) \/ Wake(w) \/ SleepCancelled(w) \/ ReacquireCancelled(w) \/ GiveUp(w)
               \/ FetchSourceMap(w),
             UNCHANGED poolVars
      PROVE  OnlyOwn(w)
  BY <1>4 DEF AcquireCancelled, Wake, SleepCancelled, ReacquireCancelled, GiveUp, FetchSourceMap
<1>5. ASSUME Send(w) \/ \E h \in Host : Redirect(w, h), UNCHANGED poolVars PROVE OnlyOwn(w)
  BY <1>5 DEF Send, Redirect
<1>6. ASSUME AttemptCancelled(w) \/ TooManyRedirects(w) \/ TransportError(w)
               \/ \E s \in Status, a \in RetryAfter : Answer(w, s, a),
             UNCHANGED poolVars
      PROVE  OnlyOwn(w)
  <2>1. PICK r \in Replies : Got(w, r) /\ UNCHANGED <<policy, cancelled, sems, host, held, attempt, sent>>
    BY <1>6, ErrorIsReply, ResponseIsReply, FetchAssumption
       DEF AttemptCancelled, TooManyRedirects, TransportError, Answer, Errors
  <2> QED BY <1>6, <2>1 DEF Got
<1>7. ASSUME StartBackoff(w) \/ Failed(w) \/ Extract(w) \/ Finish(w), UNCHANGED poolVars PROVE OnlyOwn(w)
  <2>1. GateRelease(w) /\ UNCHANGED <<policy, cancelled, host, reply, attempt, sent>>
    BY <1>7 DEF StartBackoff, Failed, Extract, Finish
  <2>2. \E label \in Labels : pc' = [pc EXCEPT ![w] = label]
    BY <1>7 DEF StartBackoff, Failed, Extract, Finish
  <2>3. CASE held[w]
    <3>1. sems' = [sems EXCEPT ![host[w]] = @ - 1] /\ held' = [held EXCEPT ![w] = FALSE]
      BY <2>1, <2>3 DEF GateRelease
    <3> QED BY <1>7, <2>1, <2>2, <3>1
  <2>4. CASE ~held[w]
    <3>1. sems' = sems /\ held' = held
      BY <2>1, <2>4 DEF GateRelease
    <3> QED BY <1>7, <2>1, <2>2, <3>1
  <2> QED BY <2>3, <2>4
<1>8. ASSUME Pool(w) PROVE OnlyOwn(w)
  <2>1. UNCHANGED <<policy, cancelled, rendering, sems, host, held, attempt>>
    BY <1>8 DEF Pool, WantTab, TakeTab, WaitExpires, Open, OpenFails, NeverSettles, RenderFails,
                CloseTab, FreeToken, Rendered, KeepsFetch, KeepsButSent
  <2>2. \E label \in Labels : pc' = [pc EXCEPT ![w] = label]
    BY <1>8 DEF Pool, WantTab, TakeTab, WaitExpires, Open, OpenFails, NeverSettles, RenderFails,
                CloseTab, FreeToken, Rendered
  <2>3. sent' = sent \/ sent' = [sent EXCEPT ![w] = @ + 1]
    BY <1>8 DEF Pool, WantTab, TakeTab, WaitExpires, Open, OpenFails, NeverSettles, RenderFails,
                CloseTab, FreeToken, Rendered, KeepsFetch
  <2>4. reply' = reply \/ \E r \in Replies : reply' = [reply EXCEPT ![w] = r]
    BY <1>8, ErrorIsReply, ResponseIsReply, FetchAssumption
       DEF Pool, WantTab, TakeTab, WaitExpires, Open, OpenFails, NeverSettles, RenderFails,
           CloseTab, FreeToken, Rendered, Failing, Errors
  <2>5. tokens' \in Int /\ tabs' \subseteq Worker
    BY <1>8 DEF Pool, WantTab, TakeTab, WaitExpires, Open, OpenFails, NeverSettles, RenderFails,
                CloseTab, FreeToken, Rendered
  <2> QED BY <2>1, <2>2, <2>3, <2>4, <2>5
<1> QED BY <1>1, <1>2, <1>3, <1>4, <1>5, <1>6, <1>7, <1>8 DEF Acts, Step
-----------------------------------------------------------------------------
(***************************************************************************)
(* The semaphores: a step takes a token for a gate that held none, gives   *)
(* back the one a gate holds, or leaves both alone.                        *)
(***************************************************************************)
Keeps(w) == sems' = sems /\ held' = held /\ (held[w] => host'[w] = host[w])
Takes(w) == /\ ~held[w] /\ held' = [held EXCEPT ![w] = TRUE]
            /\ sems' = [sems EXCEPT ![host[w]] = @ + 1] /\ host' = host
Gives(w) == /\ held[w] /\ held' = [held EXCEPT ![w] = FALSE]
            /\ sems' = [sems EXCEPT ![host[w]] = @ - 1] /\ host' = host

LEMMA ThreeWays ==
  ASSUME FetchTypes, NEW w \in Worker, SlotState(w), Acts(w)
  PROVE  Keeps(w) \/ Takes(w) \/ Gives(w)
<1>1. ASSUME NEW h \in Host, Begin(w, h) PROVE Keeps(w)
  BY <1>1 DEF Begin, Keeps, SlotState, OffSlot
<1>2. ASSUME Acquire(w) \/ Reacquire(w) PROVE Takes(w)
  BY <1>2 DEF Acquire, Reacquire, GateAcquire, TakeToken, Takes, SlotState, OffSlot
<1>3. ASSUME AcquireCancelled(w) \/ Wake(w) \/ SleepCancelled(w) \/ ReacquireCancelled(w) \/ GiveUp(w)
               \/ FetchSourceMap(w) \/ Send(w) \/ \E h \in Host : Redirect(w, h)
      PROVE  Keeps(w)
  BY <1>3 DEF AcquireCancelled, Wake, SleepCancelled, ReacquireCancelled, GiveUp, FetchSourceMap,
              Send, Redirect, Keeps
<1>4. ASSUME AttemptCancelled(w) \/ TooManyRedirects(w) \/ TransportError(w)
               \/ \E s \in Status, a \in RetryAfter : Answer(w, s, a)
      PROVE  Keeps(w)
  BY <1>4 DEF AttemptCancelled, TooManyRedirects, TransportError, Answer, Keeps
<1>5. ASSUME StartBackoff(w) \/ Failed(w) \/ Extract(w) \/ Finish(w) PROVE Keeps(w) \/ Gives(w)
  <2>1. GateRelease(w) /\ host' = host
    BY <1>5 DEF StartBackoff, Failed, Extract, Finish
  <2> QED BY <2>1 DEF GateRelease, Keeps, Gives
<1>6. ASSUME Pool(w) PROVE Keeps(w)
  BY <1>6 DEF Pool, WantTab, TakeTab, WaitExpires, Open, OpenFails, NeverSettles, RenderFails,
              CloseTab, FreeToken, Rendered, KeepsFetch, KeepsButSent, Keeps
<1> QED BY <1>1, <1>2, <1>3, <1>4, <1>5, <1>6 DEF Acts, Step

LEMMA HoldersFinite ==
  ASSUME NEW h \in Host
  PROVE  IsFiniteSet(Holders(h)) /\ Cardinality(Holders(h)) \in Nat
<1>1. Holders(h) \subseteq Worker
  BY DEF Holders
<1>2. IsFiniteSet(Worker)
  BY FetchAssumption DEF FetchAssumption
<1> QED BY <1>1, <1>2, FS_Subset, FS_CardinalityType

LEMMA TokensStep ==
  ASSUME FetchTypes, TokensMatchGates, NEW w \in Worker, SlotState(w), Acts(w)
  PROVE  TokensMatchGates'
<1> SUFFICES ASSUME NEW h \in Host PROVE sems'[h] = Cardinality(Holders(h)')
  BY DEF TokensMatchGates, Holders
<1>1. sems[h] = Cardinality(Holders(h)) /\ sems[h] \in Int
  BY DEF TokensMatchGates, Holders, FetchTypes
<1>2. Apart(w)
  BY Local DEF OnlyOwn
<1>3. CASE Keeps(w)
  <2>1. Holders(h)' = Holders(h)
    BY <1>2, <1>3 DEF Holders, Apart, Keeps, FetchTypes
  <2> QED BY <1>1, <1>3, <2>1 DEF Keeps
<1>4. CASE Takes(w)
  <2>1. CASE h = host[w]
    <3>1. Holders(h)' = Holders(h) \cup {w} /\ w \notin Holders(h)
      BY <1>2, <1>4, <2>1 DEF Holders, Apart, Takes, FetchTypes
    <3>2. Cardinality(Holders(h)') = Cardinality(Holders(h)) + 1
      BY <3>1, HoldersFinite, FS_AddElement
    <3> QED BY <1>1, <1>4, <2>1, <3>2 DEF Takes, FetchTypes
  <2>2. CASE h # host[w]
    <3>1. Holders(h)' = Holders(h)
      BY <1>2, <1>4, <2>2 DEF Holders, Apart, Takes, FetchTypes
    <3> QED BY <1>1, <1>4, <2>2, <3>1 DEF Takes, FetchTypes
  <2> QED BY <2>1, <2>2
<1>5. CASE Gives(w)
  <2>1. CASE h = host[w]
    <3>1. Holders(h)' = Holders(h) \ {w} /\ w \in Holders(h)
      BY <1>2, <1>5, <2>1 DEF Holders, Apart, Gives, FetchTypes
    <3>2. Cardinality(Holders(h)') = Cardinality(Holders(h)) - 1
      BY <3>1, HoldersFinite, FS_RemoveElement
    <3> QED BY <1>1, <1>5, <2>1, <3>2 DEF Gives, FetchTypes
  <2>2. CASE h # host[w]
    <3>1. Holders(h)' = Holders(h)
      BY <1>2, <1>5, <2>2 DEF Holders, Apart, Gives, FetchTypes
    <3> QED BY <1>1, <1>5, <2>2, <3>1 DEF Gives, FetchTypes
  <2> QED BY <2>1, <2>2
<1> QED BY <1>3, <1>4, <1>5, ThreeWays
-----------------------------------------------------------------------------
(***************************************************************************)
(* The worker that steps: its slot, its requests and its tab.              *)
(***************************************************************************)
LEMMA Retrying ==
  ASSUME FetchTypes, NEW w \in Worker, WorthRetrying(w)
  PROVE  attempt[w] < Limit
BY FetchAssumption DEF WorthRetrying, MayRetry, RetriesLeft, Limit, FetchTypes

Own(w) == SlotState(w) /\ Charged(w) /\ TabState(w)

LEMMA OwnStep ==
  ASSUME FetchTypes, NEW w \in Worker, Own(w), Acts(w)
  PROVE  Own(w)'
<1> USE FetchAssumption
    DEF FetchTypes, Own, SlotState, Charged, TabState, OnSlot, OffSlot, InPool, InTab, Deciding,
        Limit, poolVars, Goto
<1>1. ASSUME NEW h \in Host, Begin(w, h), UNCHANGED poolVars PROVE Own(w)'
  BY <1>1 DEF Begin
<1>2. ASSUME Acquire(w), UNCHANGED poolVars PROVE Own(w)'
  BY <1>2 DEF Acquire, GateAcquire
<1>3. ASSUME Reacquire(w), UNCHANGED poolVars PROVE Own(w)'
  <2>1. pc[w] = "reacquire" /\ pc'[w] = "attempt" /\ held'[w]
    BY <1>3 DEF Reacquire, GateAcquire
  <2>2. attempt'[w] = attempt[w] + 1 /\ sent'[w] = sent[w]
    BY <1>3 DEF Reacquire
  <2>3. cancelled' = cancelled /\ Limit' = Limit /\ tabs' = tabs
    BY <1>3 DEF Reacquire
  <2>4. Limit \in Nat /\ attempt[w] \in Nat /\ sent[w] \in Nat
    OBVIOUS
  <2>5. attempt[w] < Limit /\ sent[w] <= attempt[w] + 1 /\ (cancelled \/ sent[w] = attempt[w] + 1)
    BY <2>1
  <2>6. attempt[w] + 1 <= Limit
    <3> HIDE DEF Limit
    <3> QED BY ONLY <2>4, <2>5
  <2>7. attempt'[w] <= Limit'
    <3> HIDE DEF Limit
    <3> QED BY ONLY <2>2, <2>3, <2>6
  <2>8. sent'[w] <= attempt'[w] /\ sent'[w] <= attempt'[w] + 1 /\ (cancelled' \/ sent'[w] = attempt'[w])
    BY ONLY <2>2, <2>3, <2>4, <2>5
  <2>9. Charged(w)'
    <3> HIDE DEF Limit
    <3> QED BY ONLY <2>1, <2>7, <2>8 DEF Charged, Deciding
  <2> QED BY <2>1, <2>3, <2>9
<1>4. ASSUME AcquireCancelled(w), UNCHANGED poolVars PROVE Own(w)'
  BY <1>4 DEF AcquireCancelled
<1>5. ASSUME Wake(w), UNCHANGED poolVars PROVE Own(w)'
  BY <1>5 DEF Wake
<1>6. ASSUME SleepCancelled(w), UNCHANGED poolVars PROVE Own(w)'
  BY <1>6 DEF SleepCancelled
<1>7. ASSUME ReacquireCancelled(w), UNCHANGED poolVars PROVE Own(w)'
  BY <1>7 DEF ReacquireCancelled
<1>8. ASSUME GiveUp(w), UNCHANGED poolVars PROVE Own(w)'
  BY <1>8 DEF GiveUp
<1>9. ASSUME FetchSourceMap(w), UNCHANGED poolVars PROVE Own(w)'
  BY <1>9 DEF FetchSourceMap
<1>10. ASSUME Send(w), UNCHANGED poolVars PROVE Own(w)'
  BY <1>10 DEF Send
<1>11. ASSUME NEW h \in Host, Redirect(w, h), UNCHANGED poolVars PROVE Own(w)'
  BY <1>11 DEF Redirect
<1>12. ASSUME AttemptCancelled(w), UNCHANGED poolVars PROVE Own(w)'
  <2>1. reply'[w].error # ""
    BY <1>12, ErrorIsReply DEF AttemptCancelled, Got, Errors
  <2> QED BY <1>12, <2>1 DEF AttemptCancelled, Got
<1>13. ASSUME TooManyRedirects(w) \/ TransportError(w) \/ \E s \in Status, a \in RetryAfter : Answer(w, s, a),
              UNCHANGED poolVars
       PROVE  Own(w)'
  BY <1>13 DEF TooManyRedirects, TransportError, Answer, Got
<1>14. ASSUME StartBackoff(w), UNCHANGED poolVars PROVE Own(w)'
  <2>1. ~held'[w] /\ attempt[w] < Limit
    BY <1>14, Retrying DEF StartBackoff, GateRelease
  <2> QED BY <1>14, <2>1 DEF StartBackoff
<1>15. ASSUME Failed(w) \/ Extract(w) \/ Finish(w), UNCHANGED poolVars PROVE Own(w)'
  <2>1. ~held'[w]
    BY <1>15 DEF Failed, Extract, Finish, GateRelease
  <2> QED BY <1>15, <2>1 DEF Failed, Extract, Finish
<1>16. ASSUME Pool(w) PROVE Own(w)'
  <2> USE DEF KeepsFetch, KeepsButSent
  <2>1. ASSUME WantTab(w) \/ TakeTab(w) PROVE Own(w)'
    BY <2>1 DEF WantTab, TakeTab
  <2>2. ASSUME WaitExpires(w) \/ OpenFails(w) \/ RenderFails(w) PROVE Own(w)'
    <3>1. reply'[w].error # ""
      BY <2>2, ErrorIsReply DEF WaitExpires, OpenFails, RenderFails, Failing, Errors
    <3> QED BY <2>2, <3>1 DEF WaitExpires, OpenFails, RenderFails
  <2>3. ASSUME Open(w) PROVE Own(w)'
    BY <2>3 DEF Open
  <2>4. ASSUME NeverSettles(w) \/ \E s \in Status : Rendered(w, s) PROVE Own(w)'
    BY <2>4 DEF NeverSettles, Rendered
  <2>5. ASSUME CloseTab(w) \/ FreeToken(w) PROVE Own(w)'
    BY <2>5 DEF CloseTab, FreeToken
  <2> QED BY <1>16, <2>1, <2>2, <2>3, <2>4, <2>5 DEF Pool
<1> QED BY <1>1, <1>2, <1>3, <1>4, <1>5, <1>6, <1>7, <1>8, <1>9, <1>10, <1>11, <1>12, <1>13, <1>14,
           <1>15, <1>16 DEF Acts, Step
-----------------------------------------------------------------------------
(***************************************************************************)
(* The tab pool: a step takes one worker into the pool with a token, lets  *)
(* one out with its token, or changes neither.                             *)
(***************************************************************************)
Passes(w) == tokens' = tokens /\ (pc'[w] \in InPool <=> pc[w] \in InPool)
Enters(w) == tokens < Room /\ tokens' = tokens + 1 /\ pc[w] \notin InPool /\ pc'[w] \in InPool
Leaves(w) == tokens' = tokens - 1 /\ pc[w] \in InPool /\ pc'[w] \notin InPool
OwnTab(w) == \A v \in Worker \ {w} : v \in tabs' <=> v \in tabs

LEMMA PoolWays ==
  ASSUME FetchTypes, NEW w \in Worker, Acts(w)
  PROVE  OwnTab(w) /\ (Passes(w) \/ Enters(w) \/ Leaves(w))
<1> USE DEF FetchTypes, OwnTab, Passes, InPool, InTab, Goto
<1>1. ASSUME Step(w) \/ \E h \in Host : Begin(w, h), UNCHANGED poolVars PROVE OwnTab(w) /\ Passes(w)
  <2>1. tokens' = tokens /\ tabs' = tabs
    BY <1>1 DEF poolVars
  <2>2. pc[w] \notin InPool /\ pc'[w] \notin InPool
    BY <1>1 DEF Step, Begin, Acquire, AcquireCancelled, Send, AttemptCancelled, TooManyRedirects,
                TransportError, Redirect, Answer, Got, StartBackoff, Wake, SleepCancelled, Reacquire,
                ReacquireCancelled, GiveUp, Failed, Extract, FetchSourceMap, Finish
  <2> QED BY <2>1, <2>2
<1>2. ASSUME WantTab(w) \/ WaitExpires(w) \/ NeverSettles(w) \/ RenderFails(w)
               \/ \E s \in Status : Rendered(w, s)
      PROVE  OwnTab(w) /\ Passes(w)
  BY <1>2 DEF WantTab, WaitExpires, NeverSettles, RenderFails, Rendered, poolVars
<1>3. ASSUME TakeTab(w) PROVE OwnTab(w) /\ Enters(w)
  BY <1>3 DEF TakeTab, Enters
<1>4. ASSUME Open(w) \/ CloseTab(w) PROVE OwnTab(w) /\ Passes(w)
  BY <1>4 DEF Open, CloseTab
<1>5. ASSUME OpenFails(w) \/ FreeToken(w) PROVE OwnTab(w) /\ Leaves(w)
  BY <1>5 DEF OpenFails, FreeToken, Leaves
<1> QED BY <1>1, <1>2, <1>3, <1>4, <1>5 DEF Acts, Pool

LEMMA TabUsersFinite == IsFiniteSet(TabUsers) /\ Cardinality(TabUsers) \in Nat
<1>1. TabUsers \subseteq Worker
  BY DEF TabUsers
<1>2. IsFiniteSet(Worker)
  BY FetchAssumption DEF FetchAssumption
<1> QED BY <1>1, <1>2, FS_Subset, FS_CardinalityType

LEMMA PoolStep ==
  ASSUME FetchTypes, NEW w \in Worker, Acts(w), tokens = Cardinality(TabUsers), tokens <= Room
  PROVE  tokens' = Cardinality(TabUsers') /\ tokens' <= Room
<1>1. \A v \in Worker \ {w} : pc'[v] = pc[v]
  BY Local DEF OnlyOwn, Apart
<1>2. Room \in Int
  BY HeadlessAssumption DEF Room
<1>3. CASE Passes(w)
  <2>1. TabUsers' = TabUsers
    BY <1>1, <1>3 DEF TabUsers, Passes
  <2> QED BY <1>3, <2>1 DEF Passes
<1>4. CASE Enters(w)
  <2>1. TabUsers' = TabUsers \cup {w} /\ w \notin TabUsers
    BY <1>1, <1>4 DEF TabUsers, Enters
  <2>2. Cardinality(TabUsers') = Cardinality(TabUsers) + 1
    BY <2>1, TabUsersFinite, FS_AddElement
  <2>3. tokens < Room /\ tokens' = tokens + 1 /\ tokens \in Int
    BY <1>4 DEF Enters, FetchTypes
  <2> QED BY <1>2, <2>2, <2>3
<1>5. CASE Leaves(w)
  <2>1. TabUsers' = TabUsers \ {w} /\ w \in TabUsers
    BY <1>1, <1>5 DEF TabUsers, Leaves
  <2>2. Cardinality(TabUsers') = Cardinality(TabUsers) - 1
    BY <2>1, TabUsersFinite, FS_RemoveElement
  <2>3. tokens' = tokens - 1 /\ tokens \in Int
    BY <1>5 DEF Leaves, FetchTypes
  <2> QED BY <1>2, <2>2, <2>3
<1> QED BY <1>3, <1>4, <1>5, PoolWays
-----------------------------------------------------------------------------
(***************************************************************************)
(* The other workers, a cancellation, and the invariant.                   *)
(***************************************************************************)
LEMMA OthersKeep ==
  ASSUME FetchTypes, NEW w \in Worker, Acts(w), NEW v \in Worker \ {w}, Own(v)
  PROVE  Own(v)'
<1>1. pc'[v] = pc[v] /\ held'[v] = held[v] /\ attempt'[v] = attempt[v] /\ sent'[v] = sent[v]
      /\ reply'[v] = reply[v]
  BY Local DEF OnlyOwn, Apart
<1>2. cancelled' = cancelled /\ policy' = policy /\ (v \in tabs' <=> v \in tabs)
  BY Local, PoolWays DEF OnlyOwn, OwnTab
<1>3. Limit' = Limit
  BY <1>2 DEF Limit
<1>4. SlotState(v)' /\ TabState(v)'
  BY <1>1, <1>2 DEF Own, SlotState, TabState
<1>5. Charged(v)'
  BY <1>1, <1>2, <1>3 DEF Own, Charged
<1> QED BY <1>4, <1>5 DEF Own

LEMMA CancelStep ==
  ASSUME FInv, Cancel, UNCHANGED poolVars
  PROVE  FInv'
<1>1. UNCHANGED <<policy, sems, pc, host, held, reply, attempt, sent, tokens, tabs, rendering>> /\ cancelled' = TRUE
  BY DEF Cancel, poolVars
<1>2. FetchTypes' /\ TokensMatchGates'
  BY <1>1 DEF FInv, FetchTypes, TokensMatchGates
<1>3. ASSUME NEW w \in Worker PROVE SlotState(w)' /\ Charged(w)' /\ TabState(w)'
  <2>1. SlotState(w) /\ Charged(w) /\ TabState(w)
    BY DEF FInv
  <2>2. Limit' = Limit
    BY <1>1 DEF Limit
  <2>3. SlotState(w)' /\ TabState(w)'
    BY <1>1, <2>1 DEF SlotState, TabState
  <2>4. Charged(w)'
    BY <1>1, <2>1, <2>2 DEF Charged
  <2> QED BY <2>3, <2>4
<1>4. TabUsers' = TabUsers
  BY <1>1 DEF TabUsers
<1>5. (tokens = Cardinality(TabUsers) /\ tokens <= Room)'
  BY <1>1, <1>4 DEF FInv
<1> QED BY <1>2, <1>3, <1>5 DEF FInv

LEMMA WorkerStep ==
  ASSUME FInv, NEW w \in Worker, Acts(w)
  PROVE  FInv'
<1>1. FetchTypes /\ TokensMatchGates /\ \A v \in Worker : Own(v)
  BY DEF FInv, Own
<1>2. tokens = Cardinality(TabUsers) /\ tokens <= Room
  BY DEF FInv
<1>3. FetchTypes'
  BY <1>1, Local DEF OnlyOwn
<1>4. TokensMatchGates'
  BY <1>1, TokensStep DEF Own
<1>5. \A v \in Worker : Own(v)'
  BY <1>1, OwnStep, OthersKeep
<1>6. tokens' = Cardinality(TabUsers') /\ tokens' <= Room
  BY <1>1, <1>2, PoolStep
<1> QED BY <1>3, <1>4, <1>5, <1>6 DEF FInv, Own

LEMMA Inductive == FInv /\ [HeadlessNext]_allVars => FInv'
<1> SUFFICES ASSUME FInv, [HeadlessNext]_allVars PROVE FInv'
  OBVIOUS
<1>1. CASE \E w \in Worker : Acts(w)
  BY <1>1, WorkerStep
<1>2. CASE Cancel /\ UNCHANGED poolVars
  BY <1>2, CancelStep
<1>3. CASE UNCHANGED <<vars, rendering, tokens, tabs>>
  <2>1. UNCHANGED <<policy, cancelled, sems, pc, host, held, reply, attempt, sent, tokens, tabs, rendering>>
    BY <1>3 DEF vars
  <2>2. FetchTypes' /\ TokensMatchGates' /\ TabUsers' = TabUsers /\ Limit' = Limit
    BY <2>1 DEF FInv, FetchTypes, TokensMatchGates, TabUsers, Limit
  <2>3. ASSUME NEW w \in Worker PROVE SlotState(w)' /\ Charged(w)' /\ TabState(w)'
    BY <2>1, <2>2 DEF FInv, SlotState, Charged, TabState
  <2> QED BY <2>1, <2>2, <2>3 DEF FInv
<1> QED BY <1>1, <1>2, <1>3, StepCases

LEMMA FInvAlways == HeadlessSpec => []FInv
<1>1. HeadlessInit => FInv
  BY FetchStart
<1>2. FInv /\ [HeadlessNext]_allVars => FInv'
  BY Inductive
<1> QED BY <1>1, <1>2, PTL DEF HeadlessSpec
-----------------------------------------------------------------------------
(***************************************************************************)
(* What a fetch may count on.                                              *)
(***************************************************************************)
\* hostLimiter and hostGate together: for any number of workers and hosts and
\* any PerHost, each host's semaphore holds exactly one token per gate that
\* holds a slot, through retries, cancellations and the doubled Release.
THEOREM TokensCorrect == HeadlessSpec => []TokensMatchGates
<1>1. FInv => TokensMatchGates
  BY DEF FInv
<1> QED BY <1>1, FInvAlways, PTL

\* httpFetcher.Fetch gives the slot up for a backoff and never sends a page's
\* request without having it back.
THEOREM SlotCorrect == HeadlessSpec => []SlotWhileInFlight
<1>1. FInv => SlotWhileInFlight
  BY DEF FInv, SlotWhileInFlight, SlotState, OnSlot, OffSlot
<1> QED BY <1>1, FInvAlways, PTL

\* Response.RetryAttempts is the number of requests less one, for every policy,
\* whether the page was fetched plainly or rendered, and wherever a
\* cancellation falls.
THEOREM RetriesCorrect == HeadlessSpec => []RetriesReported
<1>1. FInv => RetriesReported
  BY DEF FInv, Charged, RetriesReported
<1> QED BY <1>1, FInvAlways, PTL

\* The retry loop sends at most MaxRetries + 1 requests for a page under either
\* policy, and one under none.
THEOREM RequestsCorrect == HeadlessSpec => []RequestsBounded
<1>1. ASSUME FInv, NEW w \in Worker PROVE sent[w] <= IF policy = "none" THEN 1 ELSE MaxRetries + 1
  <2>1. sent[w] \in Nat /\ attempt[w] \in Nat /\ MaxRetries \in Nat
    BY <1>1, FetchAssumption DEF FInv, FetchTypes
  <2>2. attempt[w] <= Limit /\ sent[w] <= attempt[w] + 1
    BY <1>1 DEF FInv, Charged
  <2> QED BY ONLY <2>1, <2>2 DEF Limit
<1>2. FInv => RequestsBounded
  BY <1>1 DEF RequestsBounded
<1> QED BY <1>2, FInvAlways, PTL

\* pagePool: for any number of workers and any pool size, a token stands for one
\* worker on its way through a tab, there are never more pages in use than tokens
\* or tokens than the pool has room for, and whoever waits for a tab, opens, uses
\* or closes one holds its host's slot. What a close that was given up leaves in
\* the browser is not counted.
THEOREM PoolCorrect == HeadlessSpec => []TabsInUseBounded
<1>1. ASSUME FInv PROVE TabsInUseBounded
  <2>1. tokens = Cardinality(TabUsers) /\ tokens <= Room
    BY <1>1 DEF FInv
  <2>2. tabs \subseteq TabUsers
    BY <1>1 DEF FInv, FetchTypes, TabState, TabUsers, InPool
  <2>3. Cardinality(tabs) <= Cardinality(TabUsers)
    BY <2>2, TabUsersFinite, FS_Subset, FS_CardinalityType
  <2>4. ASSUME NEW w \in Worker, pc[w] \in {"tab"} \cup InPool PROVE held[w]
    BY <1>1, <2>4 DEF FInv, SlotState, OnSlot
  <2>5. TabUsers = {w \in Worker : pc[w] \in {"open", "render", "stuck", "close", "free"}}
    BY DEF TabUsers, InPool, InTab
  <2> QED BY <2>1, <2>3, <2>4, <2>5 DEF TabsInUseBounded, InPool, InTab
<1> QED BY <1>1, FInvAlways, PTL
=============================================================================
