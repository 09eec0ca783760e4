-------------------------------- MODULE Fetch --------------------------------
(***************************************************************************)
(* A page fetch behind the per-host limiter: hostLimiter and hostGate      *)
(* (engine), httpFetcher.Fetch with its redirects, retries and backoff     *)
(* (fetch), and the two retry policies (internal/retry).  Engine sees the  *)
(* whole of it as "an attempt succeeds, fails, or backs off"; here the     *)
(* gate, the context and the policies are followed step by step.           *)
(*                                                                         *)
(* Delays are in units of the policy's base delay.  cancelled is the       *)
(* crawl's context; every select that watches it may go either way.        *)
(***************************************************************************)
EXTENDS Integers, FiniteSets

CONSTANTS
  Worker, Host,
  PerHost,
  Policies,        \* the retry policies considered
  MaxRetries, BaseDelay, MaxDelay, FlatDelay,
  Status,          \* the statuses the sites answer with
  RetryAfter,      \* the Retry-After values they send; 0 stands for none
  MaxRedirects,
  SourceMaps,      \* cfg.RecoverSourceMaps
  MayCancel,
  Jobs             \* bound: page fetches per worker

ASSUME FetchAssumption ==
  /\ IsFiniteSet(Worker)
  /\ {MaxRetries, BaseDelay, MaxDelay, FlatDelay, Jobs} \subseteq Nat
  /\ PerHost \in Nat \ {0} /\ MaxRedirects \in Nat \ {0}
  /\ Policies \subseteq {"none", "default", "legacy"}
  /\ Status \subseteq Nat /\ RetryAfter \subseteq Nat
  /\ {SourceMaps, MayCancel} \subseteq BOOLEAN

VARIABLES
  policy,    \* the one configured
  cancelled,
  sems,      \* [Host -> tokens in the semaphore channel]
  pc,
  host,      \* the host whose slot the worker's gate stands for
  held,      \* hostGate.held
  at,        \* the host the request in flight is being served by
  hops,      \* redirects followed in this attempt
  reply,     \* what the last attempt gave
  attempt,   \* retries made: Response.RetryAttempts if a response is returned
  backoff,   \* the delay of the retry being prepared
  sent,      \* requests sent for the current page (redirects not counted)
  jobs       \* page fetches begun

vars == <<policy, cancelled, sems, pc, host, held, at, hops, reply, attempt, backoff, sent, jobs>>

Error(why) == [status |-> 0, after |-> 0, error |-> why]
Response(s, a) == [status |-> s, after |-> a, error |-> ""]
Transient == {429, 500, 502, 503, 504}
-----------------------------------------------------------------------------
(* internal/retry *)

Smaller(x, y) == IF x <= y THEN x ELSE y
Larger(x, y) == IF x >= y THEN x ELSE y

OneRetryTooMany(w) == attempt[w] <= MaxRetries    \* slip: off by one
RetriesLeft(w) == attempt[w] < MaxRetries
MayRetry(w) ==
  CASE policy = "none" -> FALSE
    [] policy = "default" ->
         RetriesLeft(w) /\ (reply[w].error # "" \/ reply[w].status \in Transient)
    [] policy = "legacy" -> RetriesLeft(w) /\ reply[w].status = 429

\* Exponential with full jitter, or flat; Retry-After is a floor for both.
Delays(w) ==
  IF policy = "legacy" THEN {Larger(FlatDelay, reply[w].after)}
  ELSE {Larger(jittered, reply[w].after) :
          jittered \in 0..Smaller(BaseDelay * 2^attempt[w], MaxDelay)}
-----------------------------------------------------------------------------
(* engine/hostlimiter.go *)

TakeToken(h) == sems[h] < PerHost /\ sems' = [sems EXCEPT ![h] = @ + 1]

ReleaseForgets(w) ==   \* slip: the token is never taken out of the channel
  held' = [held EXCEPT ![w] = FALSE] /\ UNCHANGED sems
\* hostGate.Release: the compare-and-swap lets only the holder give back.
ReleaseAlways(w) ==    \* slip: Release does not look at held
  sems' = [sems EXCEPT ![host[w]] = @ - 1] /\ held' = [held EXCEPT ![w] = FALSE]
GateRelease(w) ==
  IF held[w]
    THEN sems' = [sems EXCEPT ![host[w]] = @ - 1] /\ held' = [held EXCEPT ![w] = FALSE]
    ELSE UNCHANGED <<sems, held>>

AcquireUnmarked(w) ==  \* slip: Acquire does not set held
  TakeToken(host[w]) /\ UNCHANGED held
GateAcquire(w) == TakeToken(host[w]) /\ held' = [held EXCEPT ![w] = TRUE]

Goto(w, label) == pc' = [pc EXCEPT ![w] = label]

Init ==
  /\ policy \in Policies /\ cancelled = FALSE
  /\ sems = [h \in Host |-> 0]
  /\ pc = [w \in Worker |-> "idle"]
  /\ host \in {[w \in Worker |-> h] : h \in Host} /\ at = host
  /\ held = [w \in Worker |-> FALSE]
  /\ hops = [w \in Worker |-> 0]
  /\ reply = [w \in Worker |-> Error("none")]
  /\ attempt = [w \in Worker |-> 0]
  /\ backoff = [w \in Worker |-> 0]
  /\ sent = [w \in Worker |-> 0]
  /\ jobs = [w \in Worker |-> 0]

Cancel ==
  /\ MayCancel /\ ~cancelled /\ cancelled' = TRUE
  /\ UNCHANGED <<policy, sems, pc, host, held, at, hops, reply, attempt, backoff, sent, jobs>>

\* The worker popped an item of host h.
Begin(w, h) ==
  /\ pc[w] = "idle" /\ jobs[w] < Jobs
  /\ jobs' = [jobs EXCEPT ![w] = @ + 1]
  /\ host' = [host EXCEPT ![w] = h]
  /\ attempt' = [attempt EXCEPT ![w] = 0] /\ sent' = [sent EXCEPT ![w] = 0]
  /\ Goto(w, "acquire")
  /\ UNCHANGED <<policy, cancelled, sems, held, at, hops, reply, backoff>>

\* hosts.Acquire and newHostGate.
Acquire(w) ==
  /\ pc[w] = "acquire" /\ GateAcquire(w) /\ Goto(w, "attempt")
  /\ UNCHANGED <<policy, cancelled, host, at, hops, reply, attempt, backoff, sent, jobs>>

AcquireCancelled(w) ==
  /\ pc[w] = "acquire" /\ cancelled /\ Goto(w, "idle")
  /\ UNCHANGED <<policy, cancelled, sems, host, held, at, hops, reply, attempt, backoff, sent, jobs>>
-----------------------------------------------------------------------------
(* doOnce: one request and the redirects it follows.                       *)

\* A request on a cancelled context, or one cancelled in the pause cfg.Delay
\* puts before it, is never sent.
Send(w) ==
  /\ pc[w] = "attempt" /\ ~cancelled
  /\ sent' = [sent EXCEPT ![w] = @ + 1]
  /\ at' = [at EXCEPT ![w] = host[w]] /\ hops' = [hops EXCEPT ![w] = 0]
  /\ Goto(w, "inflight")
  /\ UNCHANGED <<policy, cancelled, sems, host, held, reply, attempt, backoff, jobs>>

Got(w, r) == reply' = [reply EXCEPT ![w] = r] /\ Goto(w, "decide")

AttemptCancelled(w) ==
  /\ pc[w] \in {"attempt", "inflight"} /\ cancelled
  /\ Got(w, Error("transport"))
  /\ UNCHANGED <<policy, cancelled, sems, host, held, at, hops, attempt, backoff, sent, jobs>>

\* CheckRedirect sees the requests already made: hops + 1 of them.
MayFollow(w) == hops[w] + 1 < MaxRedirects

Redirect(w, h) ==
  /\ pc[w] = "inflight" /\ MayFollow(w)
  /\ hops' = [hops EXCEPT ![w] = @ + 1] /\ at' = [at EXCEPT ![w] = h]
  /\ UNCHANGED <<policy, cancelled, sems, pc, host, held, reply, attempt, backoff, sent, jobs>>

TooManyRedirects(w) ==
  /\ pc[w] = "inflight" /\ ~MayFollow(w)
  /\ Got(w, Error("redirects"))
  /\ UNCHANGED <<policy, cancelled, sems, host, held, at, hops, attempt, backoff, sent, jobs>>

Answer(w, s, a) ==
  /\ pc[w] = "inflight" /\ Got(w, Response(s, a))
  /\ UNCHANGED <<policy, cancelled, sems, host, held, at, hops, attempt, backoff, sent, jobs>>

TransportError(w) ==
  /\ pc[w] = "inflight" /\ Got(w, Error("transport"))
  /\ UNCHANGED <<policy, cancelled, sems, host, held, at, hops, attempt, backoff, sent, jobs>>
-----------------------------------------------------------------------------
(* Fetch: the retry loop.                                                  *)

WorthRetrying(w) == reply[w].error # "redirects" /\ MayRetry(w)

StartBackoff(w) ==
  /\ pc[w] = "decide" /\ WorthRetrying(w)
  /\ \E d \in Delays(w) : backoff' = [backoff EXCEPT ![w] = d]
  /\ GateRelease(w) /\ Goto(w, "sleep")
  /\ UNCHANGED <<policy, cancelled, host, at, hops, reply, attempt, sent, jobs>>

\* sleepCtx: a delay of zero does not look at the context at all.
Wake(w) ==
  /\ pc[w] = "sleep" /\ Goto(w, "reacquire")
  /\ UNCHANGED <<policy, cancelled, sems, host, held, at, hops, reply, attempt, backoff, sent, jobs>>

SleepCancelled(w) ==
  /\ pc[w] = "sleep" /\ cancelled /\ backoff[w] > 0 /\ Goto(w, "return")
  /\ UNCHANGED <<policy, cancelled, sems, host, held, at, hops, reply, attempt, backoff, sent, jobs>>

Reacquire(w) ==
  /\ pc[w] = "reacquire" /\ GateAcquire(w)
  /\ attempt' = [attempt EXCEPT ![w] = @ + 1] /\ Goto(w, "attempt")
  /\ UNCHANGED <<policy, cancelled, host, at, hops, reply, backoff, sent, jobs>>

CountsLostRetry(w) ==  \* slip: retryAttempts++ before the gate is reacquired
  /\ pc[w] = "reacquire" /\ cancelled /\ Goto(w, "return")
  /\ attempt' = [attempt EXCEPT ![w] = @ + 1]
  /\ UNCHANGED <<policy, cancelled, sems, host, held, at, hops, reply, backoff, sent, jobs>>
ReacquireCancelled(w) ==
  /\ pc[w] = "reacquire" /\ cancelled /\ Goto(w, "return")
  /\ UNCHANGED <<policy, cancelled, sems, host, held, at, hops, reply, attempt, backoff, sent, jobs>>

GiveUp(w) ==
  /\ pc[w] = "decide" /\ ~WorthRetrying(w) /\ Goto(w, "return")
  /\ UNCHANGED <<policy, cancelled, sems, host, held, at, hops, reply, attempt, backoff, sent, jobs>>
-----------------------------------------------------------------------------
(* process, after Fetch returned.                                          *)

OK(w) == reply[w].error = "" /\ reply[w].status < 400

\* An error or a status >= 400: process returns and the deferred Release runs.
Failed(w) ==
  /\ pc[w] = "return" /\ ~OK(w) /\ GateRelease(w) /\ Goto(w, "idle")
  /\ UNCHANGED <<policy, cancelled, host, at, hops, reply, attempt, backoff, sent, jobs>>

\* The slot is given up before extraction; the deferred Release comes again
\* in Finish.
Extract(w) ==
  /\ pc[w] = "return" /\ OK(w) /\ GateRelease(w) /\ Goto(w, "extract")
  /\ UNCHANGED <<policy, cancelled, host, at, hops, reply, attempt, backoff, sent, jobs>>

\* The source-map extractor fetches with a fetcher of its own and no gate.
FetchSourceMap(w) ==
  /\ pc[w] = "extract" /\ SourceMaps
  /\ at' = [at EXCEPT ![w] = host[w]] /\ Goto(w, "map")
  /\ UNCHANGED <<policy, cancelled, sems, host, held, hops, reply, attempt, backoff, sent, jobs>>

Finish(w) ==
  /\ (pc[w] = "extract" /\ ~SourceMaps) \/ pc[w] = "map"
  /\ GateRelease(w) /\ Goto(w, "idle")
  /\ UNCHANGED <<policy, cancelled, host, at, hops, reply, attempt, backoff, sent, jobs>>

Step(w) ==
  \/ Acquire(w) \/ AcquireCancelled(w) \/ Send(w) \/ AttemptCancelled(w)
  \/ TooManyRedirects(w) \/ TransportError(w)
  \/ \E h \in Host : Redirect(w, h)
  \/ \E s \in Status, a \in RetryAfter : Answer(w, s, a)
  \/ StartBackoff(w) \/ Wake(w) \/ SleepCancelled(w) \/ Reacquire(w) \/ ReacquireCancelled(w)
  \/ GiveUp(w) \/ Failed(w) \/ Extract(w) \/ FetchSourceMap(w) \/ Finish(w)

\* Every worker has done its jobs.
Quiet == \A w \in Worker : pc[w] = "idle" /\ jobs[w] = Jobs

Next ==
  \/ Cancel
  \/ \E w \in Worker : Step(w) \/ \E h \in Host : Begin(w, h)
  \/ Quiet /\ UNCHANGED vars

\* Timers fire and the client's timeout ends every request.
Spec == Init /\ [][Next]_vars /\ \A w \in Worker : WF_vars(Step(w))
-----------------------------------------------------------------------------
TypeOK ==
  /\ policy \in Policies /\ cancelled \in BOOLEAN /\ sems \in [Host -> 0..PerHost]
  /\ pc \in [Worker -> {"idle", "acquire", "attempt", "inflight", "decide", "sleep",
                        "reacquire", "return", "extract", "map"}]
  /\ host \in [Worker -> Host] /\ at \in [Worker -> Host] /\ held \in [Worker -> BOOLEAN]
  /\ hops \in [Worker -> 0..MaxRedirects] /\ attempt \in [Worker -> 0..MaxRetries]
  /\ backoff \in [Worker -> Nat] /\ sent \in [Worker -> Nat] /\ jobs \in [Worker -> 0..Jobs]
  /\ reply \in [Worker -> [status : Nat, after : Nat, error : STRING]]

\* The semaphore holds one token per gate that believes it holds a slot, through
\* every pairing of explicit Release, deferred Release and failed reacquire.
TokensMatchGates ==
  \A h \in Host : sems[h] = Cardinality({w \in Worker : held[w] /\ host[w] = h})

\* A request for a page is only ever in flight under its host's slot, and a
\* sleeping fetch holds none.
SlotWhileInFlight ==
  \A w \in Worker : /\ pc[w] \in {"attempt", "inflight", "decide"} => held[w]
                    /\ pc[w] \in {"idle", "acquire", "sleep", "reacquire", "extract", "map"}
                         => ~held[w]

\* A response reports exactly the retries it took: one request was sent per
\* attempt, even when the context was cancelled somewhere in between.
RetriesReported ==
  \A w \in Worker : pc[w] = "return" /\ reply[w].error = "" => sent[w] = attempt[w] + 1

\* At most MaxRetries + 1 requests for a page, whatever mix of errors, statuses
\* and refused attempts the retry loop goes through.
RequestsBounded ==
  \A w \in Worker : sent[w] <= IF policy = "none" THEN 1 ELSE MaxRetries + 1

\* Backing off releases the slot and must queue for it again; all fetches end.
FetchReturns == \A w \in Worker : pc[w] = "acquire" ~> pc[w] = "idle"

InFlightAt(h) == {w \in Worker : pc[w] \in {"inflight", "map"} /\ at[w] = h}

\* "max concurrent in-flight requests per host"
InFlightPerHost == \A h \in Host : Cardinality(InFlightAt(h)) <= PerHost

\* sleepBackoff "returns false if ctx is cancelled; callers must not retry then"
NoRetryAfterCancel ==
  [][\A w \in Worker : pc[w] = "reacquire" /\ pc'[w] = "attempt" => ~cancelled]_vars

\* "maximum redirect hops to follow per request"
FollowsMaxRedirects ==
  \A w \in Worker : pc[w] = "decide" /\ reply[w].error = "redirects" => hops[w] = MaxRedirects
=============================================================================
