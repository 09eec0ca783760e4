------------------------------- MODULE Robots -------------------------------
(***************************************************************************)
(* The robots.txt gate (internal/robots): parse, the longest-match rule,   *)
(* and the Checker that workers call concurrently, which fetches each      *)
(* host's file under a sync.Once and answers from the cache after that.    *)
(*                                                                         *)
(* A line is what parse makes of it: a user-agent, an allow or disallow    *)
(* with a path, one of these with no value ("empty"), or anything it       *)
(* ignores.  A path is a sequence of characters after the leading slash.   *)
(***************************************************************************)
EXTENDS Integers, Sequences, FiniteSets, SequencesExt

CONSTANTS
  Caller, Host,
  Agent,          \* the agents files name
  Star,           \* "*", a member of Agent
  UserAgent,
  Path,           \* paths of rules and of targets
  Files,          \* the robots.txt files served: sequences of lines
  Calls           \* bound: calls of Allowed per caller

AgentLine(a) == [key |-> "user-agent", agent |-> a]
RuleLine(k, p) == [key |-> k, path |-> p]
EmptyLine == [key |-> "empty"]
OtherLine == [key |-> "other"]

Line == {AgentLine(a) : a \in Agent} \cup {EmptyLine, OtherLine}
          \cup {RuleLine(k, p) : k \in {"allow", "disallow"}, p \in Path}

ASSUME RobotsAssumption ==
  /\ IsFiniteSet(Caller) /\ IsFiniteSet(Host) /\ Calls \in Nat
  /\ Star \in Agent
  /\ \A p \in Path : Len(p) \in Nat
  /\ \A f \in Files : f \in Seq(Line)

IsRule(line) == line.key \in {"allow", "disallow"}
-----------------------------------------------------------------------------
(* parse                                                                   *)

Rule(line) == [path |-> line.path, allow |-> line.key = "allow"]

NamesForever(st, a) == st.agents \cup {a}     \* slip: a rule does not end the naming
NextAgents(st, a) == IF st.open THEN {a} ELSE st.agents \cup {a}

ParseLine(st, line) ==
  CASE line.key = "user-agent" ->
         [st EXCEPT !.agents = NextAgents(st, line.agent), !.open = FALSE,
                    !.named = @ \cup {line.agent}]
    [] IsRule(line) ->
         [st EXCEPT !.open = TRUE,
                    !.rules = [a \in Agent |-> IF a \in st.agents THEN Append(@[a], Rule(line))
                                                                  ELSE @[a]]]
    [] line.key = "empty" -> [st EXCEPT !.open = TRUE]
    [] OTHER -> st

Start == [agents |-> {}, open |-> FALSE, named |-> {}, rules |-> [a \in Agent |-> <<>>]]

\* After[n]: what the loop holds when it has read n lines.
Parse(file) ==
  LET After[n \in 0..Len(file)] ==
        IF n = 0 THEN Start ELSE ParseLine(After[n - 1], file[n])
  IN  After[Len(file)]

Groups(file) == LET st == Parse(file) IN [named |-> st.named, rules |-> st.rules]
NoGroups == [named |-> {}, rules |-> [a \in Agent |-> <<>>]]
-----------------------------------------------------------------------------
(* selectGroup and ruleset.allowed                                         *)

LastWins(best, rule) == Len(rule.path) >= best.len      \* slip: a tie goes to the later rule
Better(best, rule) ==
  \/ Len(rule.path) > best.len
  \/ Len(rule.path) = best.len /\ rule.allow /\ ~best.allow

Match(best, rule, path) ==
  IF IsPrefix(rule.path, path) /\ Better(best, rule)
    THEN [len |-> Len(rule.path), allow |-> rule.allow] ELSE best

NoMatch == [len |-> -1, allow |-> TRUE]

\* Best[n]: the best match among the first n rules.
RulesAllow(rules, path) ==
  LET Best[n \in 0..Len(rules)] ==
        IF n = 0 THEN NoMatch ELSE Match(Best[n - 1], rules[n], path)
  IN  Best[Len(rules)].allow

Verdict(groups, path) ==
  CASE UserAgent \in groups.named -> RulesAllow(groups.rules[UserAgent], path)
    [] UserAgent \notin groups.named /\ Star \in groups.named -> RulesAllow(groups.rules[Star], path)
    [] OTHER -> TRUE
-----------------------------------------------------------------------------
(* Checker                                                                 *)

VARIABLES
  file,      \* [Host -> what the host serves]
  once,      \* [Host -> "new", "running" or "done"]: the entry's sync.Once
  groups,    \* [Host -> the entry's groups]
  failed,    \* history: hosts whose fetch failed
  pc, target, answer,
  fetches,   \* history: requests for a host's robots.txt
  verdicts,  \* history: <<host, path, answer>> of every call that returned
  calls

vars == <<file, once, groups, failed, pc, target, answer, fetches, verdicts, calls>>

Init ==
  /\ file \in [Host -> Files]
  /\ once = [h \in Host |-> "new"]
  /\ groups = [h \in Host |-> NoGroups]
  /\ failed = {}
  /\ pc = [c \in Caller |-> "idle"]
  /\ target \in {[c \in Caller |-> <<h, p>>] : h \in Host, p \in {<<>>}}
  /\ answer = [c \in Caller |-> TRUE]
  /\ fetches = [h \in Host |-> 0]
  /\ verdicts = {} /\ calls = [c \in Caller |-> 0]

HostOf(c) == target[c][1]
Goto(c, label) == pc' = [pc EXCEPT ![c] = label]

Call(c, h, p) ==
  /\ pc[c] = "idle" /\ calls[c] < Calls
  /\ target' = [target EXCEPT ![c] = <<h, p>>]
  /\ calls' = [calls EXCEPT ![c] = @ + 1]
  /\ Goto(c, "once")
  /\ UNCHANGED <<file, once, groups, failed, answer, fetches, verdicts>>

EveryoneFetches(h) == once[h] # "done"      \* slip: a nil check in place of the Once
IsFirst(h) == once[h] = "new"

\* once.Do: the first caller fetches, the others wait for it.
StartFetch(c) ==
  /\ pc[c] = "once" /\ IsFirst(HostOf(c))
  /\ once' = [once EXCEPT ![HostOf(c)] = "running"]
  /\ fetches' = [fetches EXCEPT ![HostOf(c)] = @ + 1]
  /\ Goto(c, "fetch")
  /\ UNCHANGED <<file, groups, failed, target, answer, verdicts, calls>>

Fetched(c) ==
  /\ pc[c] = "fetch"
  /\ groups' = [groups EXCEPT ![HostOf(c)] = Groups(file[HostOf(c)])]
  /\ once' = [once EXCEPT ![HostOf(c)] = "done"]
  /\ Goto(c, "answer")
  /\ UNCHANGED <<file, failed, target, answer, fetches, verdicts, calls>>

\* An error (a cancelled context too) or a status >= 400: no groups, for good.
FetchFails(c) ==
  /\ pc[c] = "fetch"
  /\ failed' = failed \cup {HostOf(c)}
  /\ once' = [once EXCEPT ![HostOf(c)] = "done"]
  /\ Goto(c, "answer")
  /\ UNCHANGED <<file, groups, target, answer, fetches, verdicts, calls>>

NobodyWaits(h) == once[h] # "new"           \* slip: an entry in the map counts as filled
OnceDone(h) == once[h] = "done"

Cached(c) ==
  /\ pc[c] = "once" /\ OnceDone(HostOf(c)) /\ Goto(c, "answer")
  /\ UNCHANGED <<file, once, groups, failed, target, answer, fetches, verdicts, calls>>

Answer(c) ==
  LET allowed == Verdict(groups[HostOf(c)], target[c][2]) IN
  /\ pc[c] = "answer"
  /\ answer' = [answer EXCEPT ![c] = allowed]
  /\ verdicts' = verdicts \cup {<<target[c][1], target[c][2], allowed>>}
  /\ Goto(c, "idle")
  /\ UNCHANGED <<file, once, groups, failed, target, fetches, calls>>

Allowed(c) == StartFetch(c) \/ Fetched(c) \/ FetchFails(c) \/ Cached(c) \/ Answer(c)

Quiet == \A c \in Caller : pc[c] = "idle" /\ calls[c] = Calls

Next ==
  \/ \E c \in Caller : Allowed(c) \/ \E h \in Host, p \in Path : Call(c, h, p)
  \/ Quiet /\ UNCHANGED vars

Spec == Init /\ [][Next]_vars
-----------------------------------------------------------------------------
TypeOK ==
  /\ once \in [Host -> {"new", "running", "done"}]
  /\ failed \subseteq Host
  /\ pc \in [Caller -> {"idle", "once", "fetch", "answer"}]
  /\ target \in [Caller -> Host \X Path] /\ answer \in [Caller -> BOOLEAN]
  /\ fetches \in [Host -> 0..1] /\ calls \in [Caller -> 0..Calls]

(* What a robots.txt says, without a parser: rule line k speaks to agent a  *)
(* if a user-agent line j before it names a, and no other record begins in  *)
(* between (a record begins at a user-agent line that follows a directive). *)
Directive(line) == IsRule(line) \/ line.key = "empty"
Speaks(f, k, a) ==
  \E j \in 1..k - 1 :
    /\ f[j] = AgentLine(a)
    /\ ~\E m, n \in j + 1..k - 1 : m < n /\ Directive(f[m]) /\ f[n].key = "user-agent"

MatchingRules(f, a, path) ==
  {k \in DOMAIN f : IsRule(f[k]) /\ Speaks(f, k, a) /\ IsPrefix(f[k].path, path)}

LongestMatch(f, a, path) ==
  LET M == MatchingRules(f, a, path)
      longest == {k \in M : \A m \in M : Len(f[m].path) <= Len(f[k].path)}
  IN  M = {} \/ \E k \in longest : f[k].key = "allow"

Named(f) == {a \in Agent : \E k \in DOMAIN f : f[k] = AgentLine(a)}

FileAllows(f, path) ==
  CASE UserAgent \in Named(f) -> LongestMatch(f, UserAgent, path)
    [] UserAgent \notin Named(f) /\ Star \in Named(f) -> LongestMatch(f, Star, path)
    [] OTHER -> TRUE

\* Every call that returns has given the verdict of the file's own reading:
\* longest match, Allow on ties, the agent's records or else the * records; and
\* "allow everything" when the file could not be had.  No caller that raced the
\* fetch has answered from an entry that was still empty.
VerdictFollowsFile ==
  \A v \in verdicts : v[3] = (v[1] \in failed \/ FileAllows(file[v[1]], v[2]))

\* "fetches and caches robots.txt once per host": never twice, and never zero
\* times for a host that was answered for.
OneFetchPerHost ==
  \A h \in Host : fetches[h] <= 1 /\ ((\E v \in verdicts : v[1] = h) => fetches[h] = 1)
=============================================================================
