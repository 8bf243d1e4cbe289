----------------------------- MODULE RobotsRules -----------------------------
(***************************************************************************)
(* What a source's robots.txt forbids, by the two readings of it that the  *)
(* collectors obey: the paths listed for every agent, which the source's   *)
(* policy keeps, and the library's parser for our own agent.               *)
(*                                                                         *)
(* A fetched robots.txt is [readable, lines]: a line names an agent ("*",  *)
(* "us" or "other") or forbids a path.  It is unreadable when the request  *)
(* fails, is answered with an error, or shows an HTML page.                *)
(***************************************************************************)
EXTENDS Naturals, Sequences

CONSTANTS
  Urls,    \* pages that collectors may request
  Matches  \* by path: the URLs it covers, as a prefix

Agent(who)     == [kind |-> "agent", of |-> who]
Disallow(path) == [kind |-> "disallow", of |-> path]

Unreadable      == [readable |-> FALSE, lines |-> <<>>]
Readable(lines) == [readable |-> TRUE, lines |-> lines]

AgentLines(lines)    == {i \in DOMAIN lines : lines[i].kind = "agent"}
DisallowLines(lines) == {i \in DOMAIN lines : lines[i].kind = "disallow"}

\* The last agent line above line i.
AgentAbove(lines, i) ==
  CHOOSE k \in AgentLines(lines) : k < i /\ \A j \in k+1 .. i : j \notin AgentLines(lines)

\* _disallow_paths: those under a line for "*".  Of several agent lines in a
\* row it sees the last alone.
DisallowPaths(lines) ==
  {lines[i].of : i \in {j \in DisallowLines(lines) :
                          /\ \E k \in AgentLines(lines) : k < j
                          /\ lines[AgentAbove(lines, j)].of = "*"}}

\* The snapshot's status: one that forbids "/" and nothing else forbids all.
RobotsStatus(robots) ==
  IF ~robots.readable THEN "unreadable"
  ELSE IF DisallowPaths(robots.lines) = {"/"} THEN "disallowed" ELSE "allowed"

\* RobotFileParser: the agents of a rule are the agent lines in a row above it.
Group(lines, i) ==
  {k \in AgentLines(lines) :
     k < i /\ \A j \in k .. AgentAbove(lines, i) : j \in AgentLines(lines)}

Rules(lines, who) ==
  {i \in DisallowLines(lines) : \E k \in Group(lines, i) : lines[k].of = who}

\* can_fetch: the rules for our agent or, if it has none, those for "*" (of
\* which the files modelled have one group).
Denied(lines) ==
  LET own   == Rules(lines, "us") \ Rules(lines, "*")
      rules == IF own # {} THEN own ELSE Rules(lines, "*")
  IN  UNION {Matches[lines[i].of] : i \in rules}

\* path_is_blocked and request_permitted.
BlockedUrls(paths) == UNION {Matches[p] : p \in paths}

\* Mutated: the policy keeps the last list only.
MergedLast(paths, robots) == IF robots.readable THEN DisallowPaths(robots.lines) ELSE paths

\* apply_robots_snapshot: what a source has listed once stays in its policy.
Merged(paths, robots) == paths \union DisallowPaths(robots.lines)
=============================================================================
