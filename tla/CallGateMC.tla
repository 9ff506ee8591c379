----------------------------- MODULE CallGateMC -----------------------------
(***************************************************************************)
(* The two places that bound what an agent spends: the gate of the calls   *)
(* to tools (CallGate), and the router of the calls to models (PoolRouter).*)
(* They share no state, so a behaviour is about one of them.               *)
(*                                                                         *)
(* Three policies for the gate: one with every list, a rate limit scaled   *)
(* by trust and a spend cap; one that allows by mode, under a shadow list  *)
(* and a spend cap; and one that only limits the rate, and injects.  The   *)
(* second is the default of the policy file, and an agent of no policy of  *)
(* its own runs under it.  Two files for the router: one with a cheap      *)
(* account, one without a tier and a threshold listed twice, and one       *)
(* without a budget.                                                       *)
(***************************************************************************)
EXTENDS CallGate

CONSTANTS
  read, write, drop,
  PoolConfigs, PoolSessions, Roots, NoId, NoLabel, MaxSteps   \* of PoolRouter

VARIABLES
  subject,     \* "calls" or "pool"
  config, sessions, headroom, coolUntil, spend, asked, clock, steps, dear, crossed, told,
  failed, routed   \* of PoolRouter

Upstreams(tier) ==
  << [label |-> "first", tier |-> tier, cost |-> 2],
     [label |-> "second", tier |-> "cheap", cost |-> 1] >>

PoolFiles ==
  { [upstreams |-> Upstreams(""), cooldown |-> 0, max |-> 3, thresholds |-> <<2, 2, 4>>],
    [upstreams |-> Upstreams("expensive"), cooldown |-> 1, max |-> 0, thresholds |-> <<>>] }

P == INSTANCE PoolRouter WITH
       Configs <- PoolConfigs, Sessions <- PoolSessions, Default <- "default", now <- clock

\* What a pool file that parses looks like; Validate checks the rest.
ASSUME PoolAssumption ==
  \A c \in PoolConfigs :
    /\ c.upstreams \in Seq([label : STRING, tier : STRING, cost : Int])
    /\ c.cooldown \in Int /\ c.max \in Int /\ c.thresholds \in Seq(Int)

pool == <<config, sessions, headroom, coolUntil, spend, asked, clock, steps, dear, crossed, told,
          failed, routed>>
all == <<subject, vars, pool>>

Listed ==
  [NoPolicy EXCEPT !.deny = {Literal(drop)}, !.allow = {Glob({read, write, drop})},
                   !.require = {Literal(write)}, !.failMode = "ask",
                   !.max = 2, !.window = 2, !.spend = 3, !.trust = TRUE]

ByMode ==
  [NoPolicy EXCEPT !.mode = "allow", !.ask = {Glob({write})}, !.shadow = {Literal(write)},
                   !.spend = 1, !.denyMethods = Methods]

Injecting ==
  [NoPolicy EXCEPT !.allow = {Literal(read)}, !.max = 1, !.window = 1, !.trust = TRUE,
                   !.inject = <<[tools |-> {Literal(read)}, arg |-> "token"]>>]

PolicyFile == [scout |-> Listed, clerk |-> Injecting, default |-> ByMode]
AllPolicies == {agentPolicy(PolicyFile, agent) : agent \in {"scout", "clerk", "stranger"}}

InitBoth ==
  /\ Init /\ P!Init
  /\ \/ subject = "calls" /\ ~P!Enabled
     \/ subject = "pool" /\ policy = ByMode /\ ~approver /\ host = "http"

NextBoth ==
  /\ UNCHANGED subject
  /\ \/ subject = "calls" /\ Next /\ UNCHANGED pool
     \/ subject = "pool" /\ P!Next /\ UNCHANGED vars

SpecBoth == InitBoth /\ [][NextBoth]_all

-----------------------------------------------------------------------------
(***************************************************************************)
(* The sessions together never get more calls through in any window than   *)
(* the score allows at that moment, nor more in all than the spend cap,    *)
(* and none is refused while there is room (KeepsLimits of CallGate).  Nor *)
(* is the budget of the router overspent, however the sessions of a tree   *)
(* take turns (TreesKeepBudget of PoolRouter).                             *)
(***************************************************************************)
BudgetsKept == [][KeepsLimits /\ P!TreesKeepBudget']_all

=============================================================================
