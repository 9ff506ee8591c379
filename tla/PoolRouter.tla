----------------------------- MODULE PoolRouter -----------------------------
(***************************************************************************)
(* The router of nockguard-pool (internal/pool): which account gets a      *)
(* request, and what that costs the tree of sessions it belongs to.  Its   *)
(* methods are atomic, behind one lock.  The command does not serve yet:   *)
(* the proxy that will call them is whoever calls here.                    *)
(*                                                                         *)
(* Costs are counted in cents, for which the program uses floats, and      *)
(* headroom in halves of the quota.                                        *)
(***************************************************************************)
EXTENDS Integers, SequencesExt

CONSTANTS
  Configs,      \* pool files: [upstreams, cooldown, max, thresholds], and of
                \* each upstream [label, tier, cost]
  Sessions, Roots, NoId,   \* session and root session ids, or none
  Default,      \* the tree of requests without either
  NoLabel,
  MaxSteps      \* bound

VARIABLES
  config,
  sessions,     \* the pins
  headroom, coolUntil, \* of each label
  spend,        \* of each tree
  asked,        \* of each tree: the thresholds announced
  now,
  steps,
  \* For reference: what each tree's calls to upstreams that are not marked cheap
  \* cost, the thresholds its calls crossed, those announced, and when an
  \* upstream last failed.
  dear, crossed, told, failed,
  routed        \* the request just routed: its tree, its reason and its label

vars == <<config, sessions, headroom, coolUntil, spend, asked, now, steps, dear, crossed, told,
          failed, routed>>
settings == <<sessions, headroom, coolUntil, failed>>
account == <<spend, asked, dear, crossed, told>>

Full == 2
Unknown == -1
Never == -1
Trees == Sessions \cup Roots \cup {Default}
Nothing == [tree |-> Default, reason |-> "", label |-> NoLabel]

-----------------------------------------------------------------------------
(***************************************************************************)
(* The configuration.                                                      *)
(***************************************************************************)
Validate(c) ==
  /\ c.upstreams # <<>>
  /\ \A i, j \in DOMAIN c.upstreams : c.upstreams[i].label = c.upstreams[j].label => i = j
  /\ \A i \in DOMAIN c.upstreams :
       /\ c.upstreams[i].label # NoLabel
       /\ c.upstreams[i].tier \in {"", "cheap", "standard", "expensive"}
       /\ c.upstreams[i].cost >= 0
  /\ c.max >= 0
  /\ \A i \in DOMAIN c.thresholds : c.thresholds[i] >= 0

defaultCooldown == 2
Cooldown == IF config.cooldown <= 0 THEN defaultCooldown ELSE config.cooldown

Labels == [i \in DOMAIN config.upstreams |-> config.upstreams[i].label]
Upstream(l) == config.upstreams[CHOOSE i \in DOMAIN Labels : Labels[i] = l]
Cost(l) == Upstream(l).cost

\* Fault: an upstream without a tier counts as a cheap one.
TierOrCheap(u) == IF u.tier = "" THEN "cheap" ELSE u.tier

EffectiveTier(u) == IF u.tier = "" THEN "expensive" ELSE u.tier

Enabled == config.max > 0

-----------------------------------------------------------------------------
(***************************************************************************)
(* Routing.                                                                *)
(***************************************************************************)
Cooling(l) == coolUntil[l] # Never /\ now < coolUntil[l]
Headroom(l) == IF headroom[l] = Unknown THEN Full ELSE headroom[l]

\* The pin, or the first label with the most headroom of those that do not cool.
routeCandidates(session, allowed) ==
  LET open == {i \in DOMAIN Labels : Labels[i] \in allowed /\ ~Cooling(Labels[i])}
      best == {i \in open : \A k \in open : Headroom(Labels[k]) <= Headroom(Labels[i])}
  IN  IF session # NoId /\ sessions[session] \in allowed
        THEN [reason |-> "sticky-session", label |-> sessions[session]]
      ELSE IF open = {} THEN [reason |-> "all-upstreams-exhausted", label |-> NoLabel]
      ELSE [reason |-> IF \E l \in allowed : Cooling(l) THEN "cooldown-skip" ELSE "max-headroom",
            label |-> Labels[Min(best)]]

Route(session) == routeCandidates(session, Range(Labels))

budgetRoot(root, session) ==
  IF root # NoId THEN root ELSE IF session # NoId THEN session ELSE Default

\* routeLocked: a tree at its cap keeps no pin and gets what is cheap.
routeLocked(session, tree) ==
  LET cheap == {l \in Range(Labels) : EffectiveTier(Upstream(l)) = "cheap"}
      found == routeCandidates(NoId, cheap)
  IN  IF spend[tree] < config.max THEN Route(session)
      ELSE IF found.label = NoLabel
        THEN [reason |-> "budget-no-cheap-upstreams", label |-> NoLabel]
      ELSE [reason |-> "budget-downgrade", label |-> found.label]

Crossed(before, after) == {t \in Range(config.thresholds) : before < t /\ t <= after}

\* Fault: every crossed threshold on the list is announced.
EveryListed(tree, before, after) ==
  SelectSeq(config.thresholds, LAMBDA t : t \in Crossed(before, after))

\* newAskThresholdsLocked: the file may list a threshold twice.
newAskThresholds(tree, before, after) ==
  SetToSeq(Crossed(before, after) \ asked[tree])

Step == steps < MaxSteps /\ steps' = steps + 1

\* RouteWithBudget.
Charge(tree, l) ==
  LET after == spend[tree] + Cost(l)
      asks == newAskThresholds(tree, spend[tree], after)
  IN  /\ spend' = [spend EXCEPT ![tree] = after]
      /\ asked' = [asked EXCEPT ![tree] = @ \cup Range(asks)]
      /\ told' = told \o [i \in DOMAIN asks |-> <<tree, asks[i]>>]
      /\ crossed' = crossed \cup {<<tree, t>> : t \in Crossed(spend[tree], after)}
      /\ dear' = IF Upstream(l).tier = "cheap" THEN dear ELSE [dear EXCEPT ![tree] = @ + Cost(l)]

RouteWithBudget(session, root) ==
  LET tree == budgetRoot(root, session)
      r == IF Enabled THEN routeLocked(session, tree) ELSE Route(session)
  IN  /\ Step
      /\ routed' = [tree |-> tree, reason |-> r.reason, label |-> r.label]
      /\ IF Enabled /\ r.label # NoLabel THEN Charge(tree, r.label) ELSE UNCHANGED account
      /\ UNCHANGED <<config, settings, now>>

\* RecordSpend: what was spent elsewhere.
RecordSpend(root, cost) ==
  /\ Step /\ routed' = Nothing
  /\ spend' = IF Enabled THEN [spend EXCEPT ![budgetRoot(root, NoId)] = @ + cost] ELSE spend
  /\ UNCHANGED <<config, settings, asked, dear, crossed, told, now>>

Pin(session, l) ==
  /\ Step /\ routed' = Nothing
  /\ sessions' = [sessions EXCEPT ![session] = l]
  /\ UNCHANGED <<config, headroom, coolUntil, failed, account, now>>

Unpin(session) ==
  /\ sessions[session] # NoLabel
  /\ Step /\ routed' = Nothing
  /\ sessions' = [sessions EXCEPT ![session] = NoLabel]
  /\ UNCHANGED <<config, headroom, coolUntil, failed, account, now>>

RecordHeadroom(l, remaining) ==
  /\ Step /\ routed' = Nothing
  /\ headroom' = [headroom EXCEPT ![l] = remaining]
  /\ UNCHANGED <<config, sessions, coolUntil, failed, account, now>>

RecordFailure(l) ==
  /\ Step /\ routed' = Nothing
  /\ coolUntil' = [coolUntil EXCEPT ![l] = now + Cooldown]
  /\ failed' = [failed EXCEPT ![l] = now]
  /\ UNCHANGED <<config, sessions, headroom, account, now>>

Tick ==
  /\ Step /\ routed' = Nothing
  /\ now' = now + 1
  /\ UNCHANGED <<config, settings, account>>

-----------------------------------------------------------------------------
Init ==
  /\ config \in {c \in Configs : Validate(c)}
  /\ sessions = [s \in Sessions |-> NoLabel]
  /\ headroom = [l \in Range(Labels) |-> Unknown]
  /\ coolUntil = [l \in Range(Labels) |-> Never]
  /\ spend = [t \in Trees |-> 0] /\ asked = [t \in Trees |-> {}]
  /\ now = 0 /\ steps = 0
  /\ dear = [t \in Trees |-> 0] /\ crossed = {} /\ told = <<>>
  /\ failed = [l \in Range(Labels) |-> Never] /\ routed = Nothing

Next ==
  \/ \E s \in Sessions \cup {NoId}, r \in Roots \cup {NoId} : RouteWithBudget(s, r)
  \/ \E r \in Roots \cup {NoId} : RecordSpend(r, 1)
  \/ \E s \in Sessions : Unpin(s) \/ \E l \in Range(Labels) : Pin(s, l)
  \/ \E l \in Range(Labels) : RecordFailure(l) \/ \E h \in {0, 1} : RecordHeadroom(l, h)
  \/ Tick

Spec == Init /\ [][Next]_vars

-----------------------------------------------------------------------------
(***************************************************************************)
(* However its sessions are pinned, named and mixed, a tree's calls to     *)
(* upstreams that are not cheap cost less than the cap and one call more.  *)
(* Each threshold its calls cross is announced once, and no other is.  And *)
(* an upstream that failed is spared for the cooldown by all but the       *)
(* sessions pinned to it.                                                  *)
(***************************************************************************)
TreesKeepBudget ==
  /\ Enabled => \A t \in Trees : \/ dear[t] = 0
                                 \/ \E l \in Range(Labels) : dear[t] < config.max + Cost(l)
  /\ IsInjective(told) /\ Range(told) = crossed
  /\ routed.reason \notin {"", "sticky-session"} /\ routed.label # NoLabel =>
       failed[routed.label] = Never \/ now - failed[routed.label] >= Cooldown

=============================================================================
