------------------------------- MODULE Routing -------------------------------
(***************************************************************************)
(* The deterministic router: which resource serves a task at an attempt.   *)
(* A configured resource serves the first two attempts; afterwards, or     *)
(* without one, the task goes to its base tier, one tier stronger for each *)
(* attempt from the third on, and from there to the next tier that has a   *)
(* resource at all.  Tiers are their places in TIER_ORDER.                 *)
(***************************************************************************)
EXTENDS Integers

CONSTANTS
  FirstInTier,   \* tier -> its enabled resource with the least id, or NoResource
  Configured,    \* task kind -> the resource configured for it, or NoResource
  NoResource

TIER_ORDER == << "TOOLS", "LOCAL", "CHEAP", "STANDARD", "STRONG", "CRITICAL" >>

Tiers   == 1..6
TopTier == 6

(* The kinds of task that the goal loop routes; "remediate" is routed as   *)
(* "implement" is.                                                         *)
TaskKinds == {"implement", "review"}

ASSUME RoutingAssumption ==
  /\ DOMAIN FirstInTier = Tiers
  /\ DOMAIN Configured = TaskKinds
  /\ FirstInTier[TopTier] # NoResource

BaseTier(kind) == IF kind = "review" THEN 5 ELSE 4

Escalate(tier, steps) == IF tier + steps > TopTier THEN TopTier ELSE tier + steps

(* The tier asked for, before empty tiers are passed over. *)
TaskTier(kind, attempt) ==
  IF attempt >= 3 THEN Escalate(BaseTier(kind), attempt - 2) ELSE BaseTier(kind)

Serving(tier) == {t \in tier..TopTier : FirstInTier[t] # NoResource}

ServingTier(tier) == CHOOSE t \in Serving(tier) : \A u \in Serving(tier) : t <= u

route_task(kind, attempt) ==
  IF Configured[kind] # NoResource /\ attempt <= 2
  THEN Configured[kind]
  ELSE FirstInTier[ServingTier(TaskTier(kind, attempt))]
=============================================================================
