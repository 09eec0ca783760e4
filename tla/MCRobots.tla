------------------------------ MODULE MCRobots ------------------------------
(* Files and callers for Robots. *)
EXTENDS Robots, TLC

CONSTANTS c1, c2, h1, star, bot

OneHost == {h1}
TwoCallers == {c1, c2}
RobotsSymmetry == Permutations(TwoCallers)
Agents == {star, bot}
Paths == {<<>>, <<"a">>, <<"a", "b">>}

Lines ==
  {AgentLine(a) : a \in Agents} \cup {EmptyLine, OtherLine}
    \cup {RuleLine(k, p) : k \in {"allow", "disallow"}, p \in {<<"a">>, <<"a", "b">>}}
\* Every file of up to four lines; and files of five without the lines that
\* say nothing.
ShortFiles == UNION {[1..n -> Lines] : n \in 0..4}
Speaking == {AgentLine(a) : a \in Agents}
              \cup {RuleLine("allow", <<"a", "b">>), RuleLine("disallow", <<"a">>)}
AllFiles == ShortFiles \cup [1..5 -> Speaking]
=============================================================================
