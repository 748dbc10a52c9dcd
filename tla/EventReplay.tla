----------------------------- MODULE EventReplay -----------------------------
(***************************************************************************)
(* The causal validator that turns an event journal into run state.        *)
(*                                                                         *)
(* fold_envelopes walks the journal from left to right and raises at the   *)
(* first event that breaks a rule.  Accepts(v, e) is the conjunction of    *)
(* the rules for the event e in the view v, Applied(v, e) the view after   *)
(* it; a rejected view stays rejected.  An artifact is named by a value    *)
(* that stands for its digest, and the pair operation_id, call_id of a     *)
(* dispatch by one value, op.                                              *)
(***************************************************************************)
EXTENDS Integers, Sequences, FiniteSets

CONSTANTS
  ExpectedNodes,   \* node_count of run.created
  CapCalls, CapTokens, CapCost,  \* the caps of run.created
  Unset            \* an absent optional value

(* The closed vocabularies the validator checks reasons against. *)
DispatchKinds ==
  {"auth", "api", "rate_limit", "timeout", "connection", "protocol",
   "usage_missing", "cancelled"}

NodeFailureReasons ==
  {"dependency_failed", "budget_rejected", "budget_exceeded", "backend_error",
   "invalid_decision", "unexpected_error", "cancelled"}

UsageSources == {"provider", "ceiling", "mixed"}

(* Fault: a failed node may be started again. *)
NodeTransitionsWithRetry(status) ==
  CASE status = "pending"   -> {"running", "failed"}
    [] status = "running"   -> {"completed", "failed"}
    [] status = "completed" -> {}
    [] status = "failed"    -> {"running"}

NodeTransitions(status) ==
  CASE status = "pending"   -> {"running", "failed"}
    [] status = "running"   -> {"completed", "failed"}
    [] status = "completed" -> {}
    [] status = "failed"    -> {}

-----------------------------------------------------------------------------
(* The derived view together with the fold-local causal state. *)

Untracked == [ status |-> "pending", calls |-> 0, role |-> Unset,
               lastOutput |-> Unset, output |-> Unset ]

ZeroTotals == [ calls |-> 0, input |-> 0, output |-> 0, cost |-> 0 ]

EmptyView ==
  [ rejected  |-> FALSE,
    seq       |-> 0,
    status    |-> "created",
    nodes     |-> << >>,          \* the tracked nodes only
    open      |-> << >>,          \* <<node, op>> -> reservation
    ops       |-> {},             \* dispatch ids ever used
    artifacts |-> {},
    totals    |-> ZeroTotals,
    decision  |-> Unset ]

NodeOf(v, n) == IF n \in DOMAIN v.nodes THEN v.nodes[n] ELSE Untracked

WithNode(v, n, record) ==
  [ v EXCEPT !.nodes =
      [ m \in DOMAIN v.nodes \cup {n} |-> IF m = n THEN record ELSE v.nodes[m] ] ]

Billed(totals, usage) ==
  [ calls  |-> totals.calls + 1,
    input  |-> totals.input + usage.input,
    output |-> totals.output + usage.output,
    cost   |-> totals.cost + usage.cost ]

Without(f, key) == [ k \in DOMAIN f \ {key} |-> f[k] ]

NonNegative(usage) == usage.input >= 0 /\ usage.output >= 0 /\ usage.cost >= 0

OpenOps(v, n) == {key \in DOMAIN v.open : key[1] = n}

NodesWith(v, status) == {n \in DOMAIN v.nodes : v.nodes[n].status = status}

-----------------------------------------------------------------------------
(* The rules, one operator per family of events. *)

RunningNode(v, e) == NodeOf(v, e.node).status = "running"

(* Fault: the identifiers of a dispatch may be used again. *)
AcceptsReusedDispatch(v, e) == RunningNode(v, e) /\ e.request \in v.artifacts

AcceptsDispatch(v, e) ==
  /\ RunningNode(v, e)
  /\ e.op \notin v.ops
  /\ e.request \in v.artifacts

AcceptsModelCompleted(v, e) ==
  /\ RunningNode(v, e)
  /\ <<e.node, e.op>> \in DOMAIN v.open
  /\ e.output \in v.artifacts
  /\ NonNegative(e.usage)

(* Fault: a cancelled dispatch may claim any source for its bill. *)
AcceptsModelFailedAnySource(v, e) ==
  /\ RunningNode(v, e)
  /\ <<e.node, e.op>> \in DOMAIN v.open
  /\ e.reason \in DispatchKinds
  /\ e.source \in UsageSources
  /\ NonNegative(e.usage)
  /\ e.source = "ceiling" =>
       /\ e.usage.input + e.usage.output = v.open[<<e.node, e.op>>].tokens
       /\ e.usage.cost = v.open[<<e.node, e.op>>].cost

(* A billed failure must account for its dispatch exactly as it claims. *)
AcceptsModelFailed(v, e) ==
  /\ RunningNode(v, e)
  /\ <<e.node, e.op>> \in DOMAIN v.open
  /\ e.reason \in DispatchKinds
  /\ e.source \in UsageSources
  /\ NonNegative(e.usage)
  /\ e.reason = "cancelled" => e.source = "ceiling"
  /\ e.source = "ceiling" =>
       /\ e.usage.input + e.usage.output = v.open[<<e.node, e.op>>].tokens
       /\ e.usage.cost = v.open[<<e.node, e.op>>].cost

(* _check_terminal *)
AcceptsRunFinished(v, e) ==
  /\ e.status \in {"completed", "failed"}
  /\ e.totals = v.totals
  /\ Cardinality(DOMAIN v.nodes) = ExpectedNodes
  /\ DOMAIN v.nodes = NodesWith(v, "completed") \cup NodesWith(v, "failed")
  /\ e.status = "completed" =>
       /\ NodesWith(v, "failed") = {}
       /\ e.reason = Unset
       /\ DOMAIN v.open = {}
       /\ v.totals.calls <= CapCalls
       /\ v.totals.input + v.totals.output <= CapTokens
       /\ v.totals.cost <= CapCost
  /\ e.status = "failed" =>
       /\ e.reason # Unset
       /\ NodesWith(v, "failed") # {}

(* Fault: any output the node has written may be its result. *)
AcceptsAnyOutput(v, e) ==
  /\ "completed" \in NodeTransitions(NodeOf(v, e.node).status)
  /\ NodeOf(v, e.node).calls >= 1
  /\ e.output \in v.artifacts
  /\ OpenOps(v, e.node) = {}

AcceptsNodeCompleted(v, e) ==
  /\ "completed" \in NodeTransitions(NodeOf(v, e.node).status)
  /\ NodeOf(v, e.node).calls >= 1
  /\ e.output = NodeOf(v, e.node).lastOutput
  /\ OpenOps(v, e.node) = {}

AcceptsNodeFailed(v, e) ==
  /\ "failed" \in NodeTransitions(NodeOf(v, e.node).status)
  /\ e.reason \in NodeFailureReasons
  /\ e.reason = "cancelled" => OpenOps(v, e.node) = {}

AcceptsNodeEvent(v, e) ==
  CASE e.type = "node.started" ->
         "running" \in NodeTransitions(NodeOf(v, e.node).status)
    [] e.type \in {"artifact.written", "budget.rejected"} -> RunningNode(v, e)
    [] e.type = "model.dispatched" -> AcceptsDispatch(v, e)
    [] e.type = "model.completed" -> AcceptsModelCompleted(v, e)
    [] e.type = "model.failed" -> AcceptsModelFailed(v, e)
    [] e.type = "node.completed" -> AcceptsNodeCompleted(v, e)
    [] e.type = "node.failed" -> AcceptsNodeFailed(v, e)

(* Fault: the role of the deciding node is not looked at. *)
AcceptsAnyDecision(v, e) ==
  /\ v.decision = Unset
  /\ \E n \in NodesWith(v, "completed") : v.nodes[n].output = e.source

AcceptsDecision(v, e) ==
  /\ v.decision = Unset
  /\ \E n \in NodesWith(v, "completed") :
       v.nodes[n].role = "judge" /\ v.nodes[n].output = e.source

Accepts(v, e) ==
  /\ v.status \notin {"completed", "failed"}      \* nothing after the terminal event
  /\ (e.type = "run.created") <=> (v.status = "created")
  /\ CASE e.type = "run.created" -> ExpectedNodes >= 1
       [] e.type = "decision.recorded" -> AcceptsDecision(v, e)
       [] e.type = "run.finished" -> AcceptsRunFinished(v, e)
       [] OTHER -> AcceptsNodeEvent(v, e)

-----------------------------------------------------------------------------
(* The effect of an accepted event. *)

BilledTo(v, e, record) ==
  [ WithNode(v, e.node, [ record EXCEPT !.calls = @ + 1 ])
      EXCEPT !.open   = Without(v.open, <<e.node, e.op>>),
             !.totals = Billed(v.totals, e.usage) ]

Applied(v, e) ==
  CASE e.type = "run.created" -> [ v EXCEPT !.status = "running" ]
    [] e.type = "node.started" ->
         WithNode(v, e.node,
                  [ NodeOf(v, e.node) EXCEPT !.status = "running", !.role = e.role ])
    [] e.type = "artifact.written" -> [ v EXCEPT !.artifacts = @ \cup {e.artifact} ]
    [] e.type = "budget.rejected" -> v
    [] e.type = "model.dispatched" ->
         [ v EXCEPT !.ops = @ \cup {e.op},
                    !.open = [ k \in DOMAIN v.open \cup {<<e.node, e.op>>} |->
                                 IF k = <<e.node, e.op>> THEN e.reserved
                                 ELSE v.open[k] ] ]
    [] e.type = "model.completed" ->
         BilledTo(v, e, [ NodeOf(v, e.node) EXCEPT !.lastOutput = e.output ])
    [] e.type = "model.failed" -> BilledTo(v, e, NodeOf(v, e.node))
    [] e.type = "node.completed" ->
         WithNode(v, e.node, [ NodeOf(v, e.node) EXCEPT !.status = "completed",
                                                        !.output = e.output ])
    [] e.type = "node.failed" ->
         WithNode(v, e.node, [ NodeOf(v, e.node) EXCEPT !.status = "failed" ])
    [] e.type = "decision.recorded" -> [ v EXCEPT !.decision = e.source ]
    [] e.type = "run.finished" -> [ v EXCEPT !.status = e.status ]

(* One turn of the loop of fold_envelopes, on a frame numbered seq. *)
FoldFrame(v, frame) ==
  IF ~v.rejected /\ frame.seq = v.seq + 1 /\ Accepts(v, frame.event)
  THEN [ Applied(v, frame.event) EXCEPT !.seq = frame.seq ]
  ELSE [ v EXCEPT !.rejected = TRUE ]

(* The bound u makes TLC compute each view once.                           *)
FoldFrames(frames) ==
  LET view[i \in 0..Len(frames)] ==
        IF i = 0 THEN EmptyView
        ELSE CHOOSE v \in {FoldFrame(u, frames[i]) : u \in {view[i - 1]}} : TRUE
  IN  view[Len(frames)]

(* An in-memory list of events is numbered by position. *)
Frames(from, events) ==
  [ i \in DOMAIN events |-> [ seq |-> from + i, event |-> events[i] ] ]

Fold(events) == FoldFrames(Frames(0, events))

(* fold_envelopes(..., require_terminal=False) and its default. *)
ReplaysPartially(frames) == frames # << >> /\ ~FoldFrames(frames).rejected

Replays(frames) ==
  ReplaysPartially(frames) /\ FoldFrames(frames).status \in {"completed", "failed"}
=============================================================================
