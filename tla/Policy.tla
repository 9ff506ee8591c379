------------------------------- MODULE Policy -------------------------------
(***************************************************************************)
(* What a policy file lets an agent do (internal/policy/policy.go).  A     *)
(* pattern is known by the names it matches, by whether it is a glob, and  *)
(* by whether path.Match can parse it; a list of patterns is a set, since  *)
(* the order of a list only chooses the rule a decision quotes.            *)
(*                                                                         *)
(* An agent's policy is a record with its lists "deny", "ask", "allow",    *)
(* "shadow" and "require" (require_approval), "mode" and "failMode" ("" if *)
(* absent), "denyMethods", the "inject" rules, "pinned" (it constrains     *)
(* tool definitions), "window" and "max" of its rate limit (max 0: none),  *)
(* "spend", its cap on calls in all (0: none), and "trust".                *)
(***************************************************************************)
EXTENDS Integers, Sequences, FiniteSets

Literal(t) == [glob |-> FALSE, valid |-> TRUE, names |-> {t}]
Glob(ts) == [glob |-> TRUE, valid |-> TRUE, names |-> ts]
Malformed == [glob |-> TRUE, valid |-> FALSE, names |-> {}]

\* An agent without a policy gets what this one allows: nothing.
NoPolicy ==
  [deny |-> {}, ask |-> {}, allow |-> {}, shadow |-> {}, require |-> {}, mode |-> "",
   failMode |-> "", denyMethods |-> {}, inject |-> <<>>, pinned |-> FALSE, max |-> 0,
   window |-> 0, spend |-> 0, trust |-> FALSE]

\* The named policy, else the default one.
agentPolicy(agents, agent) ==
  IF agent \in DOMAIN agents THEN agents[agent]
  ELSE IF "default" \in DOMAIN agents THEN agents["default"] ELSE NoPolicy

matchPattern(p, t) == t \in p.names
matchesAny(ps, t) == \E p \in ps : matchPattern(p, t)

-----------------------------------------------------------------------------
(***************************************************************************)
(* loadFrom: the policies the program runs with.                           *)
(***************************************************************************)
\* No tool matches both, as far as this can tell: not of two globs.
isGlobPatternDisjoint(p, q) == ~(p.glob /\ q.glob) /\ p.names \cap q.names = {}

\* Two rules for one argument never meet.
InjectDisjoint(rules) ==
  \A i, j \in DOMAIN rules : i < j /\ rules[i].arg = rules[j].arg =>
    \A p \in rules[i].tools, q \in rules[j].tools : isGlobPatternDisjoint(p, q)

InjectLoads(rules) ==
  /\ \A i \in DOMAIN rules : rules[i].tools # {} /\ \A p \in rules[i].tools : p.valid
  /\ InjectDisjoint(rules)

PatternsLoad(pol) ==
  \A p \in pol.deny \cup pol.ask \cup pol.allow \cup pol.shadow \cup pol.require : p.valid

Loads(pol, paired) ==
  /\ pol.pinned => paired
  /\ "tools/call" \notin pol.denyMethods
  /\ pol.max > 0 => pol.window > 0
  /\ PatternsLoad(pol)
  /\ InjectLoads(pol.inject)

-----------------------------------------------------------------------------
(***************************************************************************)
(* Evaluate.  A malformed deny pattern, which no loaded policy has, denies *)
(* every tool.                                                             *)
(***************************************************************************)
DeniedByRule(pol, t) == \E p \in pol.deny : ~p.valid \/ matchPattern(p, t)

Allowed(pol, t) ==
  IF pol.allow # {} THEN matchesAny(pol.allow, t) ELSE pol.mode = "allow"

Verdict(pol, t) ==
  IF DeniedByRule(pol, t) THEN "deny"
  ELSE IF matchesAny(pol.ask, t) THEN "ask"
  ELSE IF Allowed(pol, t) THEN "allow" ELSE "deny"

ShadowWouldDeny(pol, t) ==
  pol.shadow # {} /\ ~matchesAny(pol.shadow, t) /\ Verdict(pol, t) = "allow"

RequiresApproval(pol, t) == matchesAny(pol.require, t)

\* Fault: require_approval is left to a gate that lets through without an approver.
NeedsHumanIfAsked(pol, t) == Verdict(pol, t) = "ask"

\* The verdict decideToolCall acts on: require_approval makes an allow an ask.
NeedsHuman(pol, t) ==
  \/ Verdict(pol, t) = "ask"
  \/ Verdict(pol, t) = "allow" /\ RequiresApproval(pol, t)

DeniesMethod(pol, m) == m \in pol.denyMethods

FailModeAsks(pol) == pol.failMode = "ask"

InjectRulesFor(pol, t) == SelectSeq(pol.inject, LAMBDA r : matchesAny(r.tools, t))

=============================================================================
