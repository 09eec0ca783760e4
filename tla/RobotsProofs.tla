---------------------------- MODULE RobotsProofs ----------------------------
(***************************************************************************)
(* Theorems about Robots, for every file, every path and any number of     *)
(* concurrent callers and hosts.  First the parser and the longest-match   *)
(* rule, by induction on the lines and on the rules: together they read a  *)
(* file the way FileAllows, which knows no parser, does.  Then the         *)
(* Checker: whatever the interleaving, callers get that reading.           *)
(***************************************************************************)
EXTENDS Robots, Induction

(***************************************************************************)
(* What parse makes of a file, for every file: induction on the number of  *)
(* lines read.                                                             *)
(***************************************************************************)
RuleSet == [path : Path, allow : BOOLEAN]
ParseStates ==
  [agents : SUBSET Agent, open : BOOLEAN, named : SUBSET Agent, rules : [Agent -> Seq(RuleSet)]]

LEMMA LineKinds ==
  ASSUME NEW line \in Line
  PROVE  \/ line.key = "user-agent" /\ line.agent \in Agent /\ line = AgentLine(line.agent)
         \/ IsRule(line) /\ line.path \in Path /\ Rule(line) \in RuleSet
         \/ line = EmptyLine
         \/ line = OtherLine
BY DEF Line, AgentLine, RuleLine, EmptyLine, OtherLine, IsRule, Rule, RuleSet

\* ParseLine by the kind of the line, and that it stays within ParseStates.
LEMMA ReadAgent ==
  ASSUME NEW st \in ParseStates, NEW a \in Agent
  PROVE  /\ ParseLine(st, AgentLine(a)) \in ParseStates
         /\ ParseLine(st, AgentLine(a)).agents = NextAgents(st, a)
         /\ ParseLine(st, AgentLine(a)).open = FALSE
         /\ ParseLine(st, AgentLine(a)).named = st.named \cup {a}
         /\ ParseLine(st, AgentLine(a)).rules = st.rules
<1>1. ParseLine(st, AgentLine(a))
        = [st EXCEPT !.agents = NextAgents(st, a), !.open = FALSE, !.named = st.named \cup {a}]
  <2>1. AgentLine(a).key = "user-agent" /\ AgentLine(a).agent = a
    BY DEF AgentLine
  <2>2. ASSUME NEW line, line.key = "user-agent"
        PROVE  ParseLine(st, line)
                 = [st EXCEPT !.agents = NextAgents(st, line.agent), !.open = FALSE,
                              !.named = st.named \cup {line.agent}]
    BY <2>2, Zenon DEF ParseLine, IsRule
  <2> QED BY <2>1, <2>2, Zenon
<1>2. NextAgents(st, a) \in SUBSET Agent
  BY DEF NextAgents, ParseStates
<1> QED BY <1>1, <1>2 DEF ParseStates

LEMMA ReadRule ==
  ASSUME NEW st \in ParseStates, NEW line \in Line, IsRule(line)
  PROVE  /\ ParseLine(st, line) \in ParseStates
         /\ ParseLine(st, line).agents = st.agents
         /\ ParseLine(st, line).open = TRUE
         /\ ParseLine(st, line).named = st.named
         /\ \A a \in Agent : ParseLine(st, line).rules[a]
              = IF a \in st.agents THEN Append(st.rules[a], Rule(line)) ELSE st.rules[a]
<1> DEFINE R == [a \in Agent |-> IF a \in st.agents THEN Append(st.rules[a], Rule(line))
                                                    ELSE st.rules[a]]
<1>1. line.key # "user-agent" /\ line.key # "empty"
  BY DEF IsRule
<1>2. ParseLine(st, line) = [st EXCEPT !.open = TRUE, !.rules = R]
  BY <1>1, Zenon DEF ParseLine
<1>3. Rule(line) \in RuleSet
  BY LineKinds, <1>1 DEF IsRule, EmptyLine, OtherLine
<1>4. R \in [Agent -> Seq(RuleSet)]
  BY <1>3 DEF ParseStates
<1> HIDE DEF R
<1>5. /\ ParseLine(st, line) \in ParseStates
      /\ ParseLine(st, line).agents = st.agents /\ ParseLine(st, line).open = TRUE
      /\ ParseLine(st, line).named = st.named /\ ParseLine(st, line).rules = R
  BY <1>2, <1>4 DEF ParseStates
<1> QED BY <1>5 DEF R

LEMMA ReadEmpty ==
  ASSUME NEW st \in ParseStates
  PROVE  ParseLine(st, EmptyLine) = [st EXCEPT !.open = TRUE]
BY DEF ParseLine, EmptyLine, IsRule

LEMMA ReadOther ==
  ASSUME NEW st \in ParseStates
  PROVE  ParseLine(st, OtherLine) = st
BY DEF ParseLine, OtherLine, IsRule

LEMMA ReadTyped ==
  ASSUME NEW st \in ParseStates, NEW line \in Line
  PROVE  ParseLine(st, line) \in ParseStates
<1>1. CASE line.key = "user-agent" /\ line.agent \in Agent /\ line = AgentLine(line.agent)
  BY <1>1, ReadAgent
<1>2. CASE IsRule(line)
  BY <1>2, ReadRule
<1>3. CASE line = EmptyLine
  <2>1. ParseLine(st, line) = [st EXCEPT !.open = TRUE]
    BY <1>3, ReadEmpty
  <2> QED BY <2>1 DEF ParseStates
<1>4. CASE line = OtherLine
  BY <1>4, ReadOther
<1> QED BY <1>1, <1>2, <1>3, <1>4, LineKinds

\* The states the loop goes through.
Reads(A, f) ==
  /\ A \in [0..Len(f) -> ParseStates]
  /\ A[0] = Start
  /\ \A n \in 0..Len(f) : n # Len(f) => A[n + 1] = ParseLine(A[n], f[n + 1])

LEMMA ParseReads ==
  ASSUME NEW f \in Seq(Line)
  PROVE  \E A : Reads(A, f) /\ Parse(f) = A[Len(f)]
<1> DEFINE N == Len(f)
           Step(A) == [n \in 0..N |-> IF n = 0 THEN Start ELSE ParseLine(A[n - 1], f[n])]
           G == [n \in Nat |-> [st \in ParseStates |->
                   IF n < N THEN ParseLine(st, f[n + 1]) ELSE st]]
<1>1. N \in Nat /\ \A n \in 1..N : f[n] \in Line
  OBVIOUS
<1>2. Start \in ParseStates
  BY DEF Start, ParseStates
<1>3. StepsIn(G, ParseStates)
  <2>1. ASSUME NEW n \in Nat, NEW st \in ParseStates
        PROVE  (IF n < N THEN ParseLine(st, f[n + 1]) ELSE st) \in ParseStates
    <3>1. CASE n < N
      <4>1. f[n + 1] \in Line
        BY <1>1, <3>1
      <4> QED BY <4>1, <3>1, ReadTyped
    <3> QED BY <3>1
  <2> QED BY <2>1 DEF StepsIn
<1>4. PICK h : Follows(h, ParseStates, Start, G)
  <2> HIDE DEF G
  <2> QED BY <1>2, <1>3, NatRecursion
<1> DEFINE A == [n \in 0..N |-> h[n]]
<1>5. A \in [0..N -> ParseStates] /\ A[0] = Start
  BY <1>1, <1>4 DEF Follows
<1>6. ASSUME NEW n \in 0..N, n # N PROVE A[n + 1] = ParseLine(A[n], f[n + 1])
  <2>1. n \in Nat /\ n < N /\ n + 1 \in 0..N
    BY <1>1, <1>6
  <2>2. h[n] \in ParseStates /\ h[n + 1] = G[n][h[n]]
    BY <1>4, <2>1 DEF Follows
  <2>3. h[n + 1] = ParseLine(h[n], f[n + 1])
    BY <2>1, <2>2
  <2> QED BY <2>1, <2>3
<1>7. A = Step(A)
  <2>1. ASSUME NEW n \in 0..N, n # 0 PROVE A[n] = ParseLine(A[n - 1], f[n])
    <3>1. n - 1 \in 0..N /\ n - 1 # N /\ n - 1 + 1 = n
      BY <1>1, <2>1
    <3> HIDE DEF A
    <3> QED BY <1>6, <3>1
  <2>2. \A n \in 0..N : A[n] = Step(A)[n]
    <3> HIDE DEF A
    <3> QED BY <1>5, <2>1
  <2>3. A = [n \in 0..N |-> A[n]]
    OBVIOUS
  <2> HIDE DEF A
  <2> QED BY <2>2, <2>3
<1> DEFINE W == CHOOSE g : g = Step(g)
<1>8. Parse(f) = W[N]
  BY DEF Parse
<1>9. W = Step(W)
  <2> HIDE DEF Step, A
  <2> QED BY <1>7
<1>10. \A n \in 0..N : W[n] = A[n]
  <2> DEFINE T == {n \in Nat : n <= N => W[n] = A[n]}
  <2>1. 0 \in T
    <3>1. W[0] = Start
      <4> HIDE DEF W
      <4>1. 0 \in 0..N
        BY <1>1
      <4>2. Step(W)[0] = Start
        BY <4>1
      <4> QED BY <1>9, <4>2
    <3> HIDE DEF W, A
    <3> QED BY <3>1, <1>5
  <2>2. ASSUME NEW n \in T PROVE n + 1 \in T
    <3>1. n \in Nat /\ (n <= N => W[n] = A[n])
      OBVIOUS
    <3>2. ASSUME n + 1 <= N PROVE W[n + 1] = A[n + 1]
      <4>1. n \in 0..N /\ n # N /\ n + 1 \in 0..N /\ n + 1 # 0 /\ n + 1 - 1 = n
        BY <1>1, <3>1, <3>2
      <4>2. W[n + 1] = ParseLine(W[n], f[n + 1])
        <5> HIDE DEF W
        <5>1. Step(W)[n + 1] = ParseLine(W[n], f[n + 1])
          BY <4>1
        <5> QED BY <1>9, <5>1
      <4> HIDE DEF W, A
      <4> QED BY <1>6, <3>1, <4>1, <4>2
    <3> HIDE DEF W, A
    <3> QED BY <3>1, <3>2
  <2>3. T = Nat
    <3> HIDE DEF T
    <3> QED BY <2>1, <2>2, NatInd DEF T
  <2> HIDE DEF W, A
  <2> QED BY <2>3, <1>1
<1>11. Reads(A, f) /\ Parse(f) = A[N]
  <2> HIDE DEF W, A
  <2> QED BY <1>1, <1>5, <1>6, <1>8, <1>10 DEF Reads
<1> QED BY <1>11
-----------------------------------------------------------------------------
\* A record that has begun is still open for rules: a directive came after the
\* last user-agent line.
Ended(f, n) ==
  \E m \in 1..n : Directive(f[m]) /\ \A q \in m + 1..n : f[q].key # "user-agent"

\* The rules kept for an agent are those of the rule lines that speak to it.
Ruled(f, n, a, rules) ==
  /\ \A i \in DOMAIN rules :
       \E k \in 1..n : IsRule(f[k]) /\ Speaks(f, k, a) /\ rules[i] = Rule(f[k])
  /\ \A k \in 1..n : IsRule(f[k]) /\ Speaks(f, k, a) => \E i \in DOMAIN rules : rules[i] = Rule(f[k])

NamedIn(f, n) == {a \in Agent : \E k \in 1..n : f[k] = AgentLine(a)}

\* What the loop holds after n lines, said without the loop.
ParseInv(f, n, st) ==
  /\ st.named = NamedIn(f, n)
  /\ \A a \in Agent : a \in st.agents <=> Speaks(f, n + 1, a)
  /\ st.open <=> Ended(f, n)
  /\ \A a \in Agent : Ruled(f, n, a, st.rules[a])

LEMMA AgentLines ==
  ASSUME NEW line \in Line
  PROVE  /\ \A a \in Agent : line = AgentLine(a) <=> line.key = "user-agent" /\ line.agent = a
         /\ line.key = "user-agent" => ~Directive(line)
         /\ \A a, b : AgentLine(a) = AgentLine(b) => a = b
BY LineKinds DEF AgentLine, Directive, IsRule, EmptyLine, OtherLine

\* A line that names nobody changes nobody's record,
LEMMA SpeaksOn ==
  ASSUME NEW f \in Seq(Line), NEW n \in 0..Len(f), n # Len(f), NEW a \in Agent,
         f[n + 1].key # "user-agent"
  PROVE  Speaks(f, n + 2, a) <=> Speaks(f, n + 1, a)
<1> DEFINE Broken(j, e) ==
             \E m, q \in j + 1..e : m < q /\ Directive(f[m]) /\ f[q].key = "user-agent"
<1>1. n \in Nat /\ n + 2 - 1 = n + 1 /\ n + 1 - 1 = n
  OBVIOUS
<1>2. f[n + 1] # AgentLine(a)
  BY DEF AgentLine
<1>3. \A j \in 1..n : Broken(j, n + 1) <=> Broken(j, n)
  <2> TAKE j \in 1..n
  <2>1. ASSUME Broken(j, n) PROVE Broken(j, n + 1)
    BY <1>1, <2>1
  <2>2. ASSUME Broken(j, n + 1) PROVE Broken(j, n)
    <3>1. PICK m, q \in j + 1..n + 1 : m < q /\ Directive(f[m]) /\ f[q].key = "user-agent"
      BY <2>2
    <3>2. q # n + 1
      BY <3>1
    <3> QED BY <1>1, <3>1, <3>2
  <2> QED BY <2>1, <2>2
<1>4. Speaks(f, n + 1, a) <=> \E j \in 1..n : f[j] = AgentLine(a) /\ ~Broken(j, n)
  BY <1>1 DEF Speaks
<1>5. Speaks(f, n + 2, a) <=> \E j \in 1..n + 1 : f[j] = AgentLine(a) /\ ~Broken(j, n + 1)
  BY <1>1 DEF Speaks
<1> HIDE DEF Broken
<1>6. \A j : j \in 1..n + 1 <=> j \in 1..n \/ j = n + 1
  BY <1>1
<1> QED BY <1>2, <1>3, <1>4, <1>5, <1>6

\* and one that names an agent begins a new record, or joins its names.
LEMMA SpeaksAnew ==
  ASSUME NEW f \in Seq(Line), NEW n \in 0..Len(f), n # Len(f), NEW a \in Agent,
         f[n + 1].key = "user-agent"
  PROVE  Speaks(f, n + 2, a) <=>
           f[n + 1] = AgentLine(a) \/ (~Ended(f, n) /\ Speaks(f, n + 1, a))
<1> DEFINE Broken(j, e) ==
             \E m, q \in j + 1..e : m < q /\ Directive(f[m]) /\ f[q].key = "user-agent"
<1>1. n \in Nat /\ n + 2 - 1 = n + 1 /\ n + 1 - 1 = n /\ n + 1 \in 1..Len(f)
  OBVIOUS
<1>2. ~Broken(n + 1, n + 1)
  BY <1>1
<1>3. ASSUME NEW j \in 1..n, f[j] = AgentLine(a)
      PROVE  Broken(j, n + 1) <=> Ended(f, n) \/ Broken(j, n)
  <2>1. ASSUME Broken(j, n) PROVE Broken(j, n + 1)
    BY <1>1, <2>1
  <2>2. ASSUME Ended(f, n) PROVE Broken(j, n + 1)
    <3>1. PICK m \in 1..n : Directive(f[m]) /\ \A q \in m + 1..n : f[q].key # "user-agent"
      BY <2>2 DEF Ended
    <3>2. f[j].key = "user-agent" /\ f[j] \in Line
      BY <1>1, <1>3 DEF AgentLine
    <3>3. j # m
      BY <3>1, <3>2, AgentLines
    <3>4. j < m
      BY <1>1, <3>1, <3>2, <3>3
    <3> QED BY <1>1, <3>1, <3>4
  <2>3. ASSUME Broken(j, n + 1), ~Ended(f, n) PROVE Broken(j, n)
    <3>1. PICK m, q \in j + 1..n + 1 : m < q /\ Directive(f[m]) /\ f[q].key = "user-agent"
      BY <2>3
    <3>2. m \in 1..n /\ m \in Nat
      BY <1>1, <3>1
    <3>3. PICK r \in m + 1..n : f[r].key = "user-agent"
      BY <2>3, <3>1, <3>2 DEF Ended
    <3> QED BY <1>1, <3>1, <3>2, <3>3
  <2> QED BY <2>1, <2>2, <2>3
<1>4. Speaks(f, n + 1, a) <=> \E j \in 1..n : f[j] = AgentLine(a) /\ ~Broken(j, n)
  BY <1>1 DEF Speaks
<1>5. Speaks(f, n + 2, a) <=> \E j \in 1..n + 1 : f[j] = AgentLine(a) /\ ~Broken(j, n + 1)
  BY <1>1 DEF Speaks
<1> HIDE DEF Broken
<1>6. \A j : j \in 1..n + 1 <=> j \in 1..n \/ j = n + 1
  BY <1>1
<1> QED BY <1>2, <1>3, <1>4, <1>5, <1>6

LEMMA EndedOn ==
  ASSUME NEW f \in Seq(Line), NEW n \in 0..Len(f), n # Len(f)
  PROVE  Ended(f, n + 1) <=>
           \/ Directive(f[n + 1])
           \/ f[n + 1].key # "user-agent" /\ Ended(f, n)
<1>1. n \in Nat /\ \A j : j \in 1..n + 1 <=> j \in 1..n \/ j = n + 1
  OBVIOUS
<1>2. \A m \in 1..n : \A q : q \in m + 1..n + 1 <=> q \in m + 1..n \/ q = n + 1
  BY <1>1
<1>3. \A q : q \notin n + 1 + 1..n + 1
  BY <1>1
<1>4. f[n + 1] \in Line
  BY <1>1
<1>5. Directive(f[n + 1]) => f[n + 1].key # "user-agent"
  BY <1>4, AgentLines
<1> QED BY <1>1, <1>2, <1>3, <1>5 DEF Ended

\* One more line, which is no rule, leaves the rules what they were.
LEMMA RuledOn ==
  ASSUME NEW f \in Seq(Line), NEW n \in 0..Len(f), n # Len(f), NEW a \in Agent,
         NEW rules, Ruled(f, n, a, rules), ~(IsRule(f[n + 1]) /\ Speaks(f, n + 1, a))
  PROVE  Ruled(f, n + 1, a, rules)
<1>1. \A j : j \in 1..n + 1 <=> j \in 1..n \/ j = n + 1
  OBVIOUS
<1> QED BY <1>1 DEF Ruled

\* A rule line is appended to the rules of whom it speaks to.
LEMMA RuledMore ==
  ASSUME NEW f \in Seq(Line), NEW n \in 0..Len(f), n # Len(f), NEW a \in Agent,
         NEW rules \in Seq(RuleSet), Ruled(f, n, a, rules),
         IsRule(f[n + 1]), Rule(f[n + 1]) \in RuleSet, Speaks(f, n + 1, a)
  PROVE  Ruled(f, n + 1, a, Append(rules, Rule(f[n + 1])))
<1> DEFINE more == Append(rules, Rule(f[n + 1]))
<1>1. n \in Nat /\ \A j : j \in 1..n + 1 <=> j \in 1..n \/ j = n + 1
  OBVIOUS
<1>2. /\ \A i : i \in DOMAIN more <=> i \in DOMAIN rules \/ i = Len(rules) + 1
      /\ \A i \in DOMAIN rules : more[i] = rules[i]
      /\ more[Len(rules) + 1] = Rule(f[n + 1])
  OBVIOUS
<1> HIDE DEF more
<1>3. \A i \in DOMAIN more :
        \E k \in 1..n + 1 : IsRule(f[k]) /\ Speaks(f, k, a) /\ more[i] = Rule(f[k])
  BY <1>1, <1>2 DEF Ruled
<1>4. \A k \in 1..n + 1 : IsRule(f[k]) /\ Speaks(f, k, a) => \E i \in DOMAIN more : more[i] = Rule(f[k])
  BY <1>1, <1>2 DEF Ruled
<1>5. Ruled(f, n + 1, a, more)
  BY <1>3, <1>4 DEF Ruled
<1> QED BY <1>5 DEF more

LEMMA ParseInvStep ==
  ASSUME NEW f \in Seq(Line), NEW n \in 0..Len(f), n # Len(f),
         NEW st \in ParseStates, ParseInv(f, n, st)
  PROVE  ParseInv(f, n + 1, ParseLine(st, f[n + 1]))
<1> DEFINE line == f[n + 1]
           new == ParseLine(st, line)
<1>1. n \in Nat /\ n + 1 \in 1..Len(f) /\ n + 1 + 1 = n + 2 /\ line \in Line
  OBVIOUS
<1>2. \A j : j \in 1..n + 1 <=> j \in 1..n \/ j = n + 1
  BY <1>1
<1>3. NamedIn(f, n + 1) = NamedIn(f, n) \cup {a \in Agent : line = AgentLine(a)}
  BY <1>2 DEF NamedIn
<1>4. \A a \in Agent : st.rules[a] \in Seq(RuleSet)
  BY DEF ParseStates
<1>5. CASE line.key = "user-agent"
  <2>1. line.agent \in Agent /\ line = AgentLine(line.agent) /\ ~IsRule(line) /\ ~Directive(line)
    BY <1>1, <1>5, LineKinds, AgentLines DEF IsRule, EmptyLine, OtherLine
  <2>2. /\ new.agents = NextAgents(st, line.agent) /\ new.open = FALSE
        /\ new.named = st.named \cup {line.agent} /\ new.rules = st.rules
    <3>1. \A a \in Agent :
            LET read == ParseLine(st, AgentLine(a))
            IN  /\ read.agents = NextAgents(st, a) /\ read.open = FALSE
                /\ read.named = st.named \cup {a} /\ read.rules = st.rules
      BY ReadAgent
    <3> HIDE DEF line
    <3>2. LET read == ParseLine(st, AgentLine(line.agent))
          IN  /\ read.agents = NextAgents(st, line.agent) /\ read.open = FALSE
              /\ read.named = st.named \cup {line.agent} /\ read.rules = st.rules
      BY <2>1, <3>1
    <3>3. new = ParseLine(st, AgentLine(line.agent))
      BY <2>1
    <3> QED BY <3>2, <3>3
  <2>3. \A a \in Agent : line = AgentLine(a) <=> line.agent = a
    BY <1>1, <1>5, AgentLines
  <2> HIDE DEF line, new
  <2>4. new.named = NamedIn(f, n + 1)
    BY <1>3, <2>1, <2>2, <2>3 DEF ParseInv
  <2>5. ASSUME NEW a \in Agent PROVE a \in new.agents <=> Speaks(f, n + 2, a)
    <3>1. a \in new.agents <=> a = line.agent \/ (~st.open /\ a \in st.agents)
      BY <2>2 DEF NextAgents
    <3>2. Speaks(f, n + 2, a) <=> line = AgentLine(a) \/ (~Ended(f, n) /\ Speaks(f, n + 1, a))
      BY <1>5, SpeaksAnew DEF line
    <3> QED BY <2>3, <3>1, <3>2 DEF ParseInv
  <2>6. new.open <=> Ended(f, n + 1)
    BY <1>5, <2>1, <2>2, EndedOn DEF line
  <2>7. \A a \in Agent : Ruled(f, n + 1, a, new.rules[a])
    BY <2>1, <2>2, RuledOn DEF ParseInv, line
  <2> QED BY <1>1, <2>4, <2>5, <2>6, <2>7 DEF ParseInv, line, new
<1>6. CASE line.key # "user-agent"
  <2>1. \A a \in Agent : Speaks(f, n + 2, a) <=> Speaks(f, n + 1, a)
    BY <1>6, SpeaksOn
  <2>2. NamedIn(f, n + 1) = NamedIn(f, n)
    <3>1. \A a \in Agent : line # AgentLine(a)
      BY <1>6 DEF AgentLine
    <3> HIDE DEF line
    <3> QED BY <1>3, <3>1
  <2>3. CASE IsRule(line)
    <3>1. /\ new.agents = st.agents /\ new.open = TRUE /\ new.named = st.named
          /\ \A a \in Agent : new.rules[a]
               = IF a \in st.agents THEN Append(st.rules[a], Rule(line)) ELSE st.rules[a]
      BY <1>1, <2>3, ReadRule
    <3>2. Rule(line) \in RuleSet /\ Directive(line)
      BY <1>1, <1>6, <2>3, LineKinds DEF IsRule, EmptyLine, OtherLine, Directive
    <3> HIDE DEF line, new
    <3>3. new.open <=> Ended(f, n + 1)
      BY <3>1, <3>2, EndedOn DEF line
    <3>4. ASSUME NEW a \in Agent PROVE Ruled(f, n + 1, a, new.rules[a])
      <4>1. CASE Speaks(f, n + 1, a)
        <5>1. new.rules[a] = Append(st.rules[a], Rule(line))
          BY <3>1, <4>1 DEF ParseInv
        <5>2. Ruled(f, n, a, st.rules[a])
          BY DEF ParseInv
        <5>3. Ruled(f, n + 1, a, Append(st.rules[a], Rule(f[n + 1])))
          BY <1>4, <2>3, <3>2, <4>1, <5>2, RuledMore DEF line
        <5> QED BY <5>1, <5>3 DEF line
      <4>2. CASE ~Speaks(f, n + 1, a)
        <5>1. new.rules[a] = st.rules[a] /\ Ruled(f, n, a, st.rules[a])
          BY <3>1, <4>2 DEF ParseInv
        <5> QED BY <4>2, <5>1, RuledOn
      <4> QED BY <4>1, <4>2
    <3>5. new.named = NamedIn(f, n + 1) /\ \A a \in Agent : a \in new.agents <=> Speaks(f, n + 2, a)
      BY <2>1, <2>2, <3>1 DEF ParseInv
    <3> QED BY <1>1, <3>3, <3>4, <3>5 DEF ParseInv, line, new
  <2>4. CASE ~IsRule(line)
    <3>1. \/ line = EmptyLine /\ new = [st EXCEPT !.open = TRUE]
          \/ line = OtherLine /\ new = st
      BY <1>1, <1>6, <2>4, LineKinds, ReadEmpty, ReadOther
    <3>2. /\ new.agents = st.agents /\ new.named = st.named /\ new.rules = st.rules
          /\ new.open = IF line = EmptyLine THEN TRUE ELSE st.open
          /\ Directive(line) <=> line = EmptyLine
      <4>1. EmptyLine # OtherLine /\ Directive(EmptyLine) /\ ~Directive(OtherLine)
        BY DEF EmptyLine, OtherLine, Directive, IsRule
      <4> HIDE DEF line, new
      <4> QED BY <3>1, <4>1 DEF ParseStates
    <3> HIDE DEF line, new
    <3>3. new.open <=> Ended(f, n + 1)
      BY <1>6, <3>2, EndedOn DEF line, ParseInv
    <3>4. \A a \in Agent : Ruled(f, n + 1, a, new.rules[a])
      BY <2>4, <3>2, RuledOn DEF ParseInv, line
    <3>5. new.named = NamedIn(f, n + 1) /\ \A a \in Agent : a \in new.agents <=> Speaks(f, n + 2, a)
      BY <2>1, <2>2, <3>2 DEF ParseInv
    <3> QED BY <1>1, <3>3, <3>4, <3>5 DEF ParseInv, line, new
  <2> QED BY <2>3, <2>4
<1> QED BY <1>5, <1>6

\* The whole of a file.
LEMMA ParseFollowsFile ==
  ASSUME NEW f \in Seq(Line)
  PROVE  Parse(f) \in ParseStates /\ ParseInv(f, Len(f), Parse(f))
<1>1. PICK A : Reads(A, f) /\ Parse(f) = A[Len(f)]
  BY ParseReads
<1> DEFINE T == {n \in Nat : n <= Len(f) => ParseInv(f, n, A[n])}
<1>2. Len(f) \in Nat
  OBVIOUS
<1>3. 0 \in T
  <2>1. A[0] = Start
    BY <1>1 DEF Reads
  <2>2. ParseInv(f, 0, Start)
    BY DEF ParseInv, Start, NamedIn, Speaks, Ended, Ruled
  <2> QED BY <2>1, <2>2
<1>4. ASSUME NEW n \in T PROVE n + 1 \in T
  <2>1. n \in Nat /\ n + 1 \in Nat
    OBVIOUS
  <2>2. ASSUME n + 1 <= Len(f) PROVE ParseInv(f, n + 1, A[n + 1])
    <3>1. n \in 0..Len(f) /\ n # Len(f) /\ ParseInv(f, n, A[n])
      BY <1>2, <2>1, <2>2
    <3>2. A[n] \in ParseStates /\ A[n + 1] = ParseLine(A[n], f[n + 1])
      BY <1>1, <3>1 DEF Reads
    <3> QED BY <3>1, <3>2, ParseInvStep
  <2> QED BY <2>1, <2>2
<1>5. T = Nat
  <2> HIDE DEF T
  <2> QED BY <1>3, <1>4, NatInd DEF T
<1>6. ParseInv(f, Len(f), A[Len(f)])
  BY <1>2, <1>5
<1>7. A[Len(f)] \in ParseStates
  BY <1>1, <1>2 DEF Reads
<1> QED BY <1>1, <1>6, <1>7
-----------------------------------------------------------------------------
(***************************************************************************)
(* The longest-match rule, for any list of rules.                          *)
(***************************************************************************)
Bests == [len : Int, allow : BOOLEAN]

Tries(B, rules, path) ==
  /\ B \in [0..Len(rules) -> Bests]
  /\ B[0] = NoMatch
  /\ \A n \in 0..Len(rules) : n # Len(rules) => B[n + 1] = Match(B[n], rules[n + 1], path)

LEMMA RuleLengths == ASSUME NEW rule \in RuleSet PROVE Len(rule.path) \in Nat /\ rule.allow \in BOOLEAN
BY RobotsAssumption DEF RuleSet

LEMMA MatchTyped ==
  ASSUME NEW best \in Bests, NEW rule \in RuleSet, NEW path
  PROVE  Match(best, rule, path) \in Bests
<1>1. Len(rule.path) \in Int /\ rule.allow \in BOOLEAN
  BY RuleLengths
<1> QED BY <1>1 DEF Match, Bests

LEMMA RulesTried ==
  ASSUME NEW rules \in Seq(RuleSet), NEW path
  PROVE  \E B : Tries(B, rules, path) /\ RulesAllow(rules, path) = B[Len(rules)].allow
<1> DEFINE N == Len(rules)
           Step(B) == [n \in 0..N |-> IF n = 0 THEN NoMatch ELSE Match(B[n - 1], rules[n], path)]
           G == [n \in Nat |-> [best \in Bests |->
                   IF n < N THEN Match(best, rules[n + 1], path) ELSE best]]
<1>1. N \in Nat /\ \A n \in 1..N : rules[n] \in RuleSet
  OBVIOUS
<1>2. NoMatch \in Bests
  BY DEF NoMatch, Bests
<1>3. StepsIn(G, Bests)
  <2>1. ASSUME NEW n \in Nat, NEW best \in Bests
        PROVE  (IF n < N THEN Match(best, rules[n + 1], path) ELSE best) \in Bests
    <3>1. CASE n < N
      <4>1. rules[n + 1] \in RuleSet
        BY <1>1, <3>1
      <4> QED BY <4>1, <3>1, MatchTyped
    <3> QED BY <3>1
  <2> QED BY <2>1 DEF StepsIn
<1>4. PICK h : Follows(h, Bests, NoMatch, G)
  <2> HIDE DEF G
  <2> QED BY <1>2, <1>3, NatRecursion
<1> DEFINE B == [n \in 0..N |-> h[n]]
<1>5. B \in [0..N -> Bests] /\ B[0] = NoMatch
  BY <1>1, <1>4 DEF Follows
<1>6. ASSUME NEW n \in 0..N, n # N PROVE B[n + 1] = Match(B[n], rules[n + 1], path)
  <2>1. n \in Nat /\ n < N /\ n + 1 \in 0..N
    BY <1>1, <1>6
  <2>2. h[n] \in Bests /\ h[n + 1] = G[n][h[n]]
    BY <1>4, <2>1 DEF Follows
  <2>3. h[n + 1] = Match(h[n], rules[n + 1], path)
    BY <2>1, <2>2
  <2> QED BY <2>1, <2>3
<1>7. B = Step(B)
  <2>1. ASSUME NEW n \in 0..N, n # 0 PROVE B[n] = Match(B[n - 1], rules[n], path)
    <3>1. n - 1 \in 0..N /\ n - 1 # N /\ n - 1 + 1 = n
      BY <1>1, <2>1
    <3> HIDE DEF B
    <3> QED BY <1>6, <3>1
  <2>2. \A n \in 0..N : B[n] = Step(B)[n]
    <3> HIDE DEF B
    <3> QED BY <1>5, <2>1
  <2>3. B = [n \in 0..N |-> B[n]]
    OBVIOUS
  <2> HIDE DEF B
  <2> QED BY <2>2, <2>3
<1> DEFINE W == CHOOSE g : g = Step(g)
<1>8. RulesAllow(rules, path) = W[N].allow
  BY DEF RulesAllow
<1>9. W = Step(W)
  <2> HIDE DEF Step, B
  <2> QED BY <1>7
<1>10. \A n \in 0..N : W[n] = B[n]
  <2> DEFINE T == {n \in Nat : n <= N => W[n] = B[n]}
  <2>1. 0 \in T
    <3>1. W[0] = NoMatch
      <4> HIDE DEF W
      <4>1. 0 \in 0..N
        BY <1>1
      <4>2. Step(W)[0] = NoMatch
        BY <4>1
      <4> QED BY <1>9, <4>2
    <3> HIDE DEF W, B
    <3> QED BY <3>1, <1>5
  <2>2. ASSUME NEW n \in T PROVE n + 1 \in T
    <3>1. n \in Nat /\ (n <= N => W[n] = B[n])
      OBVIOUS
    <3>2. ASSUME n + 1 <= N PROVE W[n + 1] = B[n + 1]
      <4>1. n \in 0..N /\ n # N /\ n + 1 \in 0..N /\ n + 1 # 0 /\ n + 1 - 1 = n
        BY <1>1, <3>1, <3>2
      <4>2. W[n + 1] = Match(W[n], rules[n + 1], path)
        <5> HIDE DEF W
        <5>1. Step(W)[n + 1] = Match(W[n], rules[n + 1], path)
          BY <4>1
        <5> QED BY <1>9, <5>1
      <4> HIDE DEF W, B
      <4> QED BY <1>6, <3>1, <4>1, <4>2
    <3> HIDE DEF W, B
    <3> QED BY <3>1, <3>2
  <2>3. T = Nat
    <3> HIDE DEF T
    <3> QED BY <2>1, <2>2, NatInd DEF T
  <2> HIDE DEF W, B
  <2> QED BY <2>3, <1>1
<1>11. Tries(B, rules, path) /\ RulesAllow(rules, path) = B[N].allow
  <2> HIDE DEF W, B
  <2> QED BY <1>1, <1>5, <1>6, <1>8, <1>10 DEF Tries
<1> QED BY <1>11

\* The rules among the first n that match, and what the best of them says.
Matches(rules, path, n) == {i \in 1..n : IsPrefix(rules[i].path, path)}
Longest(rules, M) == {i \in M : \A j \in M : Len(rules[j].path) <= Len(rules[i].path)}

BestInv(rules, path, n, best) ==
  LET M == Matches(rules, path, n) IN
  \/ M = {} /\ best = NoMatch
  \/ /\ \E i \in M : best.len = Len(rules[i].path)
     /\ \A i \in M : Len(rules[i].path) <= best.len
     /\ best.allow <=> \E i \in M : best.len = Len(rules[i].path) /\ rules[i].allow

LEMMA BestInvStep ==
  ASSUME NEW rules \in Seq(RuleSet), NEW path, NEW n \in 0..Len(rules), n # Len(rules),
         NEW best \in Bests, BestInv(rules, path, n, best)
  PROVE  BestInv(rules, path, n + 1, Match(best, rules[n + 1], path))
<1> DEFINE rule == rules[n + 1]
           M == Matches(rules, path, n)
           M2 == Matches(rules, path, n + 1)
           new == Match(best, rule, path)
<1>1. n \in Nat /\ rule \in RuleSet /\ \A j : j \in 1..n + 1 <=> j \in 1..n \/ j = n + 1
  OBVIOUS
<1>2. Len(rule.path) \in Nat /\ rule.allow \in BOOLEAN /\ best.len \in Int /\ best.allow \in BOOLEAN
  BY <1>1, RuleLengths DEF Bests
<1>3. \A i \in M : Len(rules[i].path) \in Nat
  BY <1>1, RuleLengths DEF Matches
<1>4. M2 = IF IsPrefix(rule.path, path) THEN M \cup {n + 1} ELSE M
  BY <1>1 DEF Matches
<1>5. n + 1 \notin M
  BY <1>1 DEF Matches
<1>6. CASE ~IsPrefix(rule.path, path)
  <2>1. new = best /\ M2 = M
    BY <1>4, <1>6 DEF Match
  <2> QED BY <2>1 DEF BestInv
<1>7. CASE IsPrefix(rule.path, path)
  <2> DEFINE L == Len(rule.path)
  <2>1. new = IF Better(best, rule) THEN [len |-> L, allow |-> rule.allow] ELSE best
    BY <1>7 DEF Match
  <2>2. M2 = M \cup {n + 1}
    BY <1>4, <1>7
  <2>3. Better(best, rule) <=> L > best.len \/ (L = best.len /\ rule.allow /\ ~best.allow)
    BY DEF Better
  <2>4. \/ M = {} /\ best.len = -1
        \/ /\ \E i \in M : best.len = Len(rules[i].path)
           /\ \A i \in M : Len(rules[i].path) <= best.len
           /\ best.allow <=> \E i \in M : best.len = Len(rules[i].path) /\ rules[i].allow
    BY DEF BestInv, NoMatch
  <2>5. rules[n + 1] = rule
    OBVIOUS
  <2> HIDE DEF M, M2, new, rule
  <2> SUFFICES /\ \E i \in M2 : new.len = Len(rules[i].path)
               /\ \A i \in M2 : Len(rules[i].path) <= new.len
               /\ new.allow <=> \E i \in M2 : new.len = Len(rules[i].path) /\ rules[i].allow
    BY DEF BestInv, M2, new, rule
  <2>6. CASE L > best.len
    <3>1. new.len = L /\ new.allow = rule.allow
      BY <2>1, <2>3, <2>6
    <3>2. \A i \in M : Len(rules[i].path) < L
      BY <1>2, <1>3, <2>4, <2>6
    <3> QED BY <1>2, <2>2, <2>5, <3>1, <3>2
  <2>7. CASE L = best.len /\ rule.allow /\ ~best.allow
    <3>1. new.len = L /\ new.allow = rule.allow
      BY <2>1, <2>3, <2>7
    <3>2. \A i \in M : Len(rules[i].path) <= L
      BY <1>2, <1>3, <2>4, <2>7
    <3> QED BY <1>2, <2>2, <2>5, <2>7, <3>1, <3>2
  <2>8. CASE ~Better(best, rule)
    <3>1. new = best /\ L <= best.len /\ (L = best.len => (rule.allow => best.allow))
      BY <1>2, <2>1, <2>3, <2>8
    <3>2. M # {}
      BY <1>2, <2>4, <3>1
    <3> QED BY <1>2, <2>2, <2>4, <2>5, <3>1, <3>2
  <2> QED BY <2>3, <2>6, <2>7, <2>8
<1> QED BY <1>6, <1>7

\* RulesAllow is longest match, and Allow on ties.
LEMMA RulesAllowLongest ==
  ASSUME NEW rules \in Seq(RuleSet), NEW path
  PROVE  LET M == Matches(rules, path, Len(rules))
         IN  /\ RulesAllow(rules, path) \in BOOLEAN
             /\ RulesAllow(rules, path) <=> M = {} \/ \E i \in Longest(rules, M) : rules[i].allow
<1> DEFINE N == Len(rules)
           M == Matches(rules, path, N)
<1>1. PICK B : Tries(B, rules, path) /\ RulesAllow(rules, path) = B[N].allow
  BY RulesTried
<1> DEFINE T == {n \in Nat : n <= N => BestInv(rules, path, n, B[n])}
<1>2. N \in Nat
  OBVIOUS
<1>3. 0 \in T
  <2>1. B[0] = NoMatch
    BY <1>1 DEF Tries
  <2>2. BestInv(rules, path, 0, NoMatch)
    BY DEF BestInv, Matches
  <2> QED BY <2>1, <2>2
<1>4. ASSUME NEW n \in T PROVE n + 1 \in T
  <2>1. n \in Nat /\ n + 1 \in Nat
    OBVIOUS
  <2>2. ASSUME n + 1 <= N PROVE BestInv(rules, path, n + 1, B[n + 1])
    <3>1. n \in 0..N /\ n # N /\ BestInv(rules, path, n, B[n])
      BY <1>2, <2>1, <2>2
    <3>2. B[n] \in Bests /\ B[n + 1] = Match(B[n], rules[n + 1], path)
      BY <1>1, <3>1 DEF Tries
    <3> QED BY <3>1, <3>2, BestInvStep
  <2> QED BY <2>1, <2>2
<1>5. T = Nat
  <2> HIDE DEF T
  <2> QED BY <1>3, <1>4, NatInd DEF T
<1> DEFINE best == B[N]
<1>6. BestInv(rules, path, N, best) /\ best \in Bests
  BY <1>1, <1>2, <1>5 DEF Tries
<1>7. \A i \in M : Len(rules[i].path) \in Nat
  BY RuleLengths DEF Matches
<1>8. best.len \in Int /\ best.allow \in BOOLEAN
  BY <1>6 DEF Bests
<1>9. best.allow <=> M = {} \/ \E i \in Longest(rules, M) : rules[i].allow
  <2> HIDE DEF M, best
  <2>1. CASE M = {} /\ best = NoMatch
    BY <2>1 DEF NoMatch
  <2>2. CASE /\ \E i \in M : best.len = Len(rules[i].path)
             /\ \A i \in M : Len(rules[i].path) <= best.len
             /\ best.allow <=> \E i \in M : best.len = Len(rules[i].path) /\ rules[i].allow
    <3>1. \A i \in M : i \in Longest(rules, M) <=> best.len = Len(rules[i].path)
      BY <1>7, <1>8, <2>2 DEF Longest
    <3>2. Longest(rules, M) \subseteq M /\ M # {}
      BY <2>2 DEF Longest
    <3> QED BY <2>2, <3>1, <3>2
  <2> QED BY <1>6, <2>1, <2>2 DEF BestInv, M
<1> QED BY <1>1, <1>8, <1>9
-----------------------------------------------------------------------------
\* The rules kept for an agent allow a path just when the file does.
LEMMA KeptRulesAllow ==
  ASSUME NEW f \in Seq(Line), NEW a \in Agent, NEW path
  PROVE  /\ RulesAllow(Parse(f).rules[a], path) \in BOOLEAN
         /\ RulesAllow(Parse(f).rules[a], path) <=> LongestMatch(f, a, path)
<1> DEFINE rules == Parse(f).rules[a]
           K == MatchingRules(f, a, path)
           M == Matches(rules, path, Len(rules))
<1>1. rules \in Seq(RuleSet) /\ Ruled(f, Len(f), a, rules)
  BY ParseFollowsFile DEF ParseInv, ParseStates
<1> HIDE DEF rules
<1>2. DOMAIN f = 1..Len(f) /\ DOMAIN rules = 1..Len(rules)
  BY <1>1
<1>3. \A line : Rule(line).path = line.path /\ Rule(line).allow = (line.key = "allow")
  BY DEF Rule
<1>4. ASSUME NEW i \in M PROVE \E k \in K : rules[i] = Rule(f[k])
  <2>1. i \in DOMAIN rules /\ IsPrefix(rules[i].path, path)
    BY <1>2 DEF Matches
  <2>2. PICK k \in 1..Len(f) : IsRule(f[k]) /\ Speaks(f, k, a) /\ rules[i] = Rule(f[k])
    BY <1>1, <2>1 DEF Ruled
  <2>3. rules[i].path = f[k].path
    BY <1>3, <2>2
  <2> QED BY <1>2, <2>1, <2>2, <2>3 DEF MatchingRules
<1>5. \A k \in K : \E i \in M : rules[i] = Rule(f[k])
  BY <1>1, <1>2, <1>3 DEF Matches, Ruled, MatchingRules
<1>6. /\ RulesAllow(rules, path) \in BOOLEAN
      /\ RulesAllow(rules, path) <=> M = {} \/ \E i \in Longest(rules, M) : rules[i].allow
  BY <1>1, RulesAllowLongest
<1>7. LongestMatch(f, a, path) <=>
        \/ K = {}
        \/ \E k \in K : (\A m \in K : Len(f[m].path) <= Len(f[k].path)) /\ f[k].key = "allow"
  BY DEF LongestMatch
<1> HIDE DEF K, M
<1>8. (M = {}) <=> (K = {})
  BY <1>4, <1>5
<1>9. ASSUME NEW i \in Longest(rules, M), rules[i].allow PROVE LongestMatch(f, a, path)
  <2>1. PICK k \in K : rules[i] = Rule(f[k])
    BY <1>4 DEF Longest
  <2>2. ASSUME NEW m \in K PROVE Len(f[m].path) <= Len(f[k].path)
    <3>1. PICK j \in M : rules[j] = Rule(f[m])
      BY <1>5
    <3>2. Len(rules[j].path) <= Len(rules[i].path)
      BY <1>9 DEF Longest
    <3> QED BY <1>3, <2>1, <3>1, <3>2
  <2>3. f[k].key = "allow"
    BY <1>3, <1>9, <2>1
  <2> QED BY <1>7, <2>2, <2>3
<1>10. ASSUME NEW k \in K, \A m \in K : Len(f[m].path) <= Len(f[k].path), f[k].key = "allow"
       PROVE  \E i \in Longest(rules, M) : rules[i].allow
  <2>1. PICK i \in M : rules[i] = Rule(f[k])
    BY <1>5
  <2>2. ASSUME NEW j \in M PROVE Len(rules[j].path) <= Len(rules[i].path)
    <3>1. PICK m \in K : rules[j] = Rule(f[m])
      BY <1>4
    <3> QED BY <1>3, <1>10, <2>1, <3>1
  <2>3. rules[i].allow
    BY <1>3, <1>10, <2>1
  <2> QED BY <2>2, <2>3 DEF Longest
<1> QED BY <1>6, <1>7, <1>8, <1>9, <1>10 DEF rules

\* Parsing a file and looking a path up in the outcome is reading the file.
LEMMA VerdictReadsFile ==
  ASSUME NEW f \in Seq(Line), NEW path
  PROVE  Verdict(Groups(f), path) = FileAllows(f, path)
<1>1. Groups(f).named = Named(f) /\ Groups(f).rules = Parse(f).rules
  <2>1. Parse(f).named = NamedIn(f, Len(f)) /\ DOMAIN f = 1..Len(f)
    BY ParseFollowsFile DEF ParseInv
  <2> QED BY <2>1 DEF Groups, Named, NamedIn
<1>2. \A a \in Named(f) : a \in Agent
  BY DEF Named
<1>3. \A a \in Named(f) : RulesAllow(Parse(f).rules[a], path) = LongestMatch(f, a, path)
  BY <1>2, KeptRulesAllow DEF LongestMatch
<1>4. CASE UserAgent \in Named(f)
  BY <1>1, <1>3, <1>4, Zenon DEF Verdict, FileAllows
<1>5. CASE UserAgent \notin Named(f) /\ Star \in Named(f)
  BY <1>1, <1>3, <1>5, Zenon DEF Verdict, FileAllows
<1>6. CASE UserAgent \notin Named(f) /\ Star \notin Named(f)
  BY <1>1, <1>6, Zenon DEF Verdict, FileAllows
<1> QED BY <1>4, <1>5, <1>6
-----------------------------------------------------------------------------
(***************************************************************************)
(* The Checker: the sync.Once hands the whole of a file to every caller.   *)
(***************************************************************************)
Target == Host \X (Path \cup {<<>>})
Filled == {Groups(f) : f \in Files} \cup {NoGroups}

RobotsTypes ==
  /\ file \in [Host -> Files]
  /\ once \in [Host -> {"new", "running", "done"}]
  /\ groups \in [Host -> Filled]
  /\ failed \subseteq Host
  /\ pc \in [Caller -> {"idle", "once", "fetch", "answer"}]
  /\ target \in [Caller -> Target]
  /\ fetches \in [Host -> {0, 1}]

\* An entry is requested once, and holds nothing until the fetch is over.
Entry(h) ==
  /\ fetches[h] = IF once[h] = "new" THEN 0 ELSE 1
  /\ groups[h] = IF once[h] = "done" /\ h \notin failed THEN Groups(file[h]) ELSE NoGroups
  /\ h \in failed => once[h] = "done"

\* One caller fetches a running entry, and only a filled one is answered from.
Place(c) ==
  /\ pc[c] = "fetch" => once[HostOf(c)] = "running"
  /\ pc[c] = "answer" => once[HostOf(c)] = "done"
OneFetcher ==
  \A c, d \in Caller : pc[c] = "fetch" /\ pc[d] = "fetch" /\ HostOf(c) = HostOf(d) => c = d

\* A host whose file could not be had allows everything.
Reading(h, path) == IF h \in failed THEN TRUE ELSE Verdict(Groups(file[h]), path)
Given(v) == v[1] \in Host /\ once[v[1]] = "done" /\ v[3] = Reading(v[1], v[2])

RInv ==
  /\ RobotsTypes /\ OneFetcher
  /\ \A h \in Host : Entry(h)
  /\ \A c \in Caller : Place(c)
  /\ \A v \in verdicts : Given(v)

LEMMA Unfetched == ASSUME NEW path PROVE Verdict(NoGroups, path) = TRUE
BY DEF Verdict, NoGroups

LEMMA RobotsStart == Init => RInv
<1> SUFFICES ASSUME Init PROVE RInv
  OBVIOUS
<1>1. target \in [Caller -> Target]
  BY DEF Init, Target
<1>2. RobotsTypes
  BY <1>1 DEF Init, RobotsTypes, Filled
<1>3. OneFetcher /\ (\A c \in Caller : Place(c)) /\ (\A v \in verdicts : Given(v))
  BY DEF Init, OneFetcher, Place
<1>4. \A h \in Host : Entry(h)
  BY DEF Init, Entry
<1> QED BY <1>2, <1>3, <1>4 DEF RInv
-----------------------------------------------------------------------------
LEMMA HostTyped == ASSUME RobotsTypes, NEW c \in Caller PROVE HostOf(c) \in Host
BY DEF RobotsTypes, Target, HostOf

LEMMA CallStep ==
  ASSUME RInv, NEW c \in Caller, NEW h \in Host, NEW p \in Path, Call(c, h, p)
  PROVE  RInv'
<1> USE DEF Call, Goto
<1>1. RobotsTypes'
  BY DEF RInv, RobotsTypes, Target
<1>2. \A g \in Host : Entry(g)'
  BY DEF RInv, Entry
<1>3. \A v \in verdicts' : Given(v)'
  BY DEF RInv, Given, Reading
<1>4. \A d \in Caller : pc'[d] \in {"fetch", "answer"} => pc'[d] = pc[d] /\ HostOf(d)' = HostOf(d)
  BY DEF RInv, RobotsTypes, HostOf
<1>5. OneFetcher' /\ \A d \in Caller : Place(d)'
  BY <1>4 DEF RInv, OneFetcher, Place
<1> QED BY <1>1, <1>2, <1>3, <1>5 DEF RInv

LEMMA StartFetchStep ==
  ASSUME RInv, NEW c \in Caller, StartFetch(c)
  PROVE  RInv'
<1> DEFINE h == HostOf(c)
<1>1. h \in Host
  BY HostTyped DEF RInv
<1>2. pc[c] = "once" /\ once[h] = "new" /\ pc' = [pc EXCEPT ![c] = "fetch"]
      /\ once' = [once EXCEPT ![h] = "running"] /\ fetches' = [fetches EXCEPT ![h] = @ + 1]
  BY DEF StartFetch, IsFirst, Goto
<1>3. UNCHANGED <<file, groups, failed, target, verdicts>>
  BY DEF StartFetch
<1>4. \A d \in Caller : HostOf(d)' = HostOf(d) /\ HostOf(d) \in Host
  BY <1>3, HostTyped DEF HostOf, RInv
<1> HIDE DEF h
<1>5. fetches[h] = 0
  BY <1>1, <1>2 DEF RInv, Entry
<1>6. RobotsTypes'
  BY <1>1, <1>2, <1>3, <1>5 DEF RInv, RobotsTypes
<1>7. \A g \in Host : Entry(g)'
  BY <1>1, <1>2, <1>3, <1>5 DEF RInv, Entry, RobotsTypes
<1>8. \A v \in verdicts' : Given(v)'
  BY <1>1, <1>2, <1>3 DEF RInv, Given, Reading, RobotsTypes
<1>9. \A d \in Caller : Place(d)'
  BY <1>1, <1>2, <1>4 DEF RInv, Place, RobotsTypes, h
<1>10. OneFetcher'
  <2>1. \A d \in Caller : pc[d] = "fetch" => HostOf(d) # h
    BY <1>2 DEF RInv, Place
  <2> QED BY <1>2, <1>4, <2>1 DEF RInv, OneFetcher, RobotsTypes, h
<1> QED BY <1>6, <1>7, <1>8, <1>9, <1>10 DEF RInv

\* Both ends of a fetch fill the entry.
LEMMA FilledStep ==
  ASSUME RInv, NEW c \in Caller, Fetched(c) \/ FetchFails(c)
  PROVE  RInv'
<1> DEFINE h == HostOf(c)
<1>1. h \in Host
  BY HostTyped DEF RInv
<1>2. pc[c] = "fetch" /\ pc' = [pc EXCEPT ![c] = "answer"] /\ once' = [once EXCEPT ![h] = "done"]
      /\ UNCHANGED <<file, target, fetches, verdicts>>
  BY DEF Fetched, FetchFails, Goto
<1>3. \/ groups' = [groups EXCEPT ![h] = Groups(file[h])] /\ failed' = failed
      \/ groups' = groups /\ failed' = failed \cup {h}
  BY DEF Fetched, FetchFails
<1>4. \A d \in Caller : HostOf(d)' = HostOf(d) /\ HostOf(d) \in Host
  BY <1>2, HostTyped DEF HostOf, RInv
<1>5. once[h] = "running" /\ h \notin failed
  BY <1>1, <1>2 DEF RInv, Place, Entry
<1> HIDE DEF h
<1>6. RobotsTypes'
  BY <1>1, <1>2, <1>3 DEF RInv, RobotsTypes, Filled
<1>7. \A g \in Host : Entry(g)'
  BY <1>1, <1>2, <1>3, <1>5 DEF RInv, Entry, RobotsTypes
<1>8. \A v \in verdicts' : Given(v)'
  <2>1. \A v \in verdicts : v[1] # h
    BY <1>5 DEF RInv, Given
  <2> QED BY <1>1, <1>2, <1>3, <2>1 DEF RInv, Given, Reading, RobotsTypes
<1>9. \A d \in Caller : Place(d)'
  <2>1. \A d \in Caller : pc[d] = "fetch" /\ d # c => HostOf(d) # h
    BY <1>2 DEF RInv, OneFetcher, h
  <2> QED BY <1>1, <1>2, <1>4, <2>1 DEF RInv, Place, RobotsTypes, h
<1>10. OneFetcher'
  BY <1>2, <1>4 DEF RInv, OneFetcher, RobotsTypes
<1> QED BY <1>6, <1>7, <1>8, <1>9, <1>10 DEF RInv

LEMMA CachedStep ==
  ASSUME RInv, NEW c \in Caller, Cached(c)
  PROVE  RInv'
<1>1. once[HostOf(c)] = "done" /\ pc[c] = "once" /\ pc' = [pc EXCEPT ![c] = "answer"]
      /\ UNCHANGED <<file, once, groups, failed, target, fetches, verdicts>>
  BY DEF Cached, OnceDone, Goto
<1>2. RobotsTypes'
  BY <1>1 DEF RInv, RobotsTypes
<1>3. (\A h \in Host : Entry(h)') /\ (\A v \in verdicts' : Given(v)')
  BY <1>1 DEF RInv, Entry, Given, Reading
<1>4. OneFetcher' /\ \A d \in Caller : Place(d)'
  BY <1>1 DEF RInv, OneFetcher, Place, RobotsTypes, HostOf
<1> QED BY <1>2, <1>3, <1>4 DEF RInv

LEMMA AnswerStep ==
  ASSUME RInv, NEW c \in Caller, Answer(c)
  PROVE  RInv'
<1> DEFINE h == HostOf(c)
           path == target[c][2]
<1>1. h \in Host /\ once[h] = "done"
  BY HostTyped DEF RInv, Answer, Place
<1>2. pc' = [pc EXCEPT ![c] = "idle"] /\ UNCHANGED <<file, once, groups, failed, target, fetches>>
      /\ verdicts' = verdicts \cup {<<h, path, Verdict(groups[h], path)>>}
  BY DEF Answer, Goto, HostOf
<1>3. Verdict(groups[h], path) = Reading(h, path)
  <2>1. groups[h] = IF h \notin failed THEN Groups(file[h]) ELSE NoGroups
    BY <1>1 DEF RInv, Entry
  <2> QED BY <2>1, Unfetched DEF Reading
<1> HIDE DEF h, path
<1>4. RobotsTypes'
  BY <1>2 DEF RInv, RobotsTypes
<1>5. \A g \in Host : Entry(g)'
  BY <1>2 DEF RInv, Entry
<1>6. OneFetcher' /\ \A d \in Caller : Place(d)'
  BY <1>2 DEF RInv, OneFetcher, Place, RobotsTypes, HostOf
<1>7. \A v \in verdicts' : Given(v)'
  <2>1. \A v \in verdicts : Given(v)'
    BY <1>2 DEF RInv, Given, Reading
  <2>2. ASSUME NEW v, v = <<h, path, Verdict(groups[h], path)>> PROVE Given(v)'
    <3>1. v[1] = h /\ v[2] = path /\ v[3] = Reading(h, path)
      BY <1>3, <2>2
    <3> QED BY <1>1, <1>2, <3>1 DEF Given, Reading
  <2> QED BY <1>2, <2>1, <2>2
<1> QED BY <1>4, <1>5, <1>6, <1>7 DEF RInv

LEMMA RobotsInductive == RInv /\ [Next]_vars => RInv'
<1> SUFFICES ASSUME RInv, [Next]_vars PROVE RInv'
  OBVIOUS
<1>1. ASSUME UNCHANGED vars PROVE RInv'
  BY <1>1 DEF vars, RInv, RobotsTypes, OneFetcher, Entry, Place, Given, Reading, HostOf
<1>2. ASSUME NEW c \in Caller, Allowed(c) PROVE RInv'
  BY <1>2, StartFetchStep, FilledStep, CachedStep, AnswerStep DEF Allowed
<1> QED BY <1>1, <1>2, CallStep DEF Next

LEMMA RInvAlways == Spec => []RInv
BY RobotsStart, RobotsInductive, PTL DEF Spec
-----------------------------------------------------------------------------
\* sync.Once in hostEntry: however many workers ask about a host at once, its
\* robots.txt is requested once, and not zero times for an answer given.
THEOREM OneFetchCorrect == Spec => []OneFetchPerHost
<1>1. ASSUME RInv, NEW h \in Host
      PROVE  fetches[h] <= 1 /\ ((\E v \in verdicts : v[1] = h) => fetches[h] = 1)
  BY <1>1 DEF RInv, Entry, Given
<1>2. RInv => OneFetchPerHost
  BY <1>1 DEF OneFetchPerHost
<1> QED BY <1>2, RInvAlways, PTL

\* Every answer of Allowed is what the whole parsed file says, or "allow" for a
\* host whose file could not be had: no caller sees an entry half filled, and an
\* answer once given stays what the entry says.
AnsweredFromWholeFile == \A v \in verdicts : v[3] = Reading(v[1], v[2])
THEOREM WholeFileCorrect == Spec => []AnsweredFromWholeFile
<1>1. RInv => AnsweredFromWholeFile
  BY DEF RInv, Given, AnsweredFromWholeFile
<1> QED BY <1>1, RInvAlways, PTL

\* The gate answers as robots.txt is written: for every file a host may serve,
\* every path and any number of callers, the verdict of Allowed is the longest
\* match among the rule lines that speak to the crawler's agent, or else to *.
THEOREM VerdictCorrect == Spec => []VerdictFollowsFile
<1>1. ASSUME RInv, NEW v \in verdicts
      PROVE  v[3] = (v[1] \in failed \/ FileAllows(file[v[1]], v[2]))
  <2>1. v[1] \in Host /\ file[v[1]] \in Files /\ v[3] = Reading(v[1], v[2])
    BY <1>1 DEF RInv, Given, RobotsTypes
  <2>2. Verdict(Groups(file[v[1]]), v[2]) = FileAllows(file[v[1]], v[2])
    BY <2>1, RobotsAssumption, VerdictReadsFile
  <2>3. FileAllows(file[v[1]], v[2]) \in BOOLEAN
    BY DEF FileAllows, LongestMatch
  <2> QED BY <2>1, <2>2, <2>3 DEF Reading
<1>2. RInv => VerdictFollowsFile
  BY <1>1 DEF VerdictFollowsFile
<1> QED BY <1>2, RInvAlways, PTL
=============================================================================
