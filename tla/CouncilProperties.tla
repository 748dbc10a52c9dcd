-------------------------- MODULE CouncilProperties --------------------------
(***************************************************************************)
(* The correctness properties of a Council run.                            *)
(***************************************************************************)
EXTENDS CouncilRun, FiniteSetsExt

(* What a reader of the executor's own journal sees. *)
View == Replay!Fold(journal)

Concluded == phase \in {"finished", "reported", "returned"}

Recorded(type) == {i \in DOMAIN journal : journal[i].type = type}

-----------------------------------------------------------------------------
(* Types. *)

Phases == {"created", "running", "finished", "reported", "returned", "raised"}

CostedUsage == [input : Nat, output : Nat, cost : Nat]

Artifacts == {"request", "output", "receipt"} \X Nodes

NodeLevelEvents ==
  [type : {"node.started"}, node : Nodes, role : {"proposer", "reviewer", "judge"}]
    \cup [type : {"artifact.written"}, node : Nodes, artifact : Artifacts]
    \cup [type : {"budget.rejected"}, node : Nodes]
    \cup [type : {"model.dispatched"}, node : Nodes, op : Nodes,
          request : Artifacts, reserved : Reservation]
    \cup [type : {"model.completed"}, node : Nodes, op : Nodes,
          output : Artifacts, usage : CostedUsage]
    \cup [type : {"model.failed"}, node : Nodes, op : Nodes,
          reason : {"timeout", "protocol", "cancelled"}, usage : CostedUsage,
          source : {"provider", "ceiling", "mixed"}]
    \cup [type : {"node.completed"}, node : Nodes, output : Artifacts]
    \cup [type : {"node.failed"}, node : Nodes,
          reason : {"dependency_failed", "budget_rejected", "budget_exceeded",
                    "backend_error", "invalid_decision", "unexpected_error",
                    "cancelled"}]
    \cup [type : {"decision.recorded"}, source : Artifacts]

RunLevelEvents ==
  [type : {"run.created"}]
    \cup [type : {"run.finished"}, status : {"completed", "failed"},
          reason : {None, "node failure"},
          totals : BudgetTotals]

Events == NodeLevelEvents \cup RunLevelEvents

(* Every variable of the run has the shape the code gives it. *)
TypeOK ==
  /\ phase \in Phases
  /\ task \in [Nodes -> {"waiting", "inflight", "completed", "failed"}]
  /\ raised \subseteq Nodes
  /\ cancelled \subseteq Nodes
  /\ engineAbort \in BOOLEAN
  /\ groupAborted \in BOOLEAN
  /\ ownerCancelled \in BOOLEAN
  /\ ledger \in Ledger
  /\ journal \in Seq(Events)
  /\ file \in Seq([seq : Nat, event : Events])
  /\ decided \in BOOLEAN
  /\ documents \subseteq {"report", "decision"}

-----------------------------------------------------------------------------
(* The journal. *)

(* The single code path of replay.py: at every moment what the executor    *)
(* has journaled is a valid prefix, and once the run is finished it is a   *)
(* complete history whose totals are those of the ledger.                  *)
JournalReplays ==
  /\ journal # << >> => Replay!ReplaysPartially(Replay!Frames(0, journal))
  /\ Concluded => Replay!Replays(Replay!Frames(0, journal))

(* A journal file that holds a terminal event can be replayed, whichever   *)
(* writes failed on the way: duplicates left behind by a failed append are *)
(* only ever found in the file of a run that was abandoned.                *)
TerminalFileReplays ==
  (\E i \in DOMAIN file : file[i].event.type = "run.finished") =>
     Replay!Replays(file)

(* run-report.json and decision.json are derived from the very events of   *)
(* the file, and decision.json is there exactly when the journal records a *)
(* decision and the run got to return.                                     *)
DocumentsMatchFile ==
  /\ documents # {} => file = Replay!Frames(0, journal) /\ Replay!Replays(file)
  /\ "decision" \in documents => "report" \in documents /\ View.decision # None
  /\ phase = "returned" /\ View.decision # None => "decision" \in documents

(* The barriers of a plan: whoever failed to write while a node was in     *)
(* flight is above what waits for that node, or below it.  The validator   *)
(* accepts no other plan.                                                  *)
Above(n) == DependsOn[n] \cup UNION {DependsOn[d] : d \in DependsOn[n]}

Barriers ==
  \A n \in Nodes : \A d \in DependsOn[n], r \in Nodes \ {n} :
    r \in Above(n) \/ n \in Above(r) \/ d \in DependsOn[r]

(* Events are journaled in causal order: a node starts after the           *)
(* completion of each of its dependencies, and blames a dependency only    *)
(* for a failure that has happened, in the journal or by an exception.     *)
CausalOrder ==
  \A i \in DOMAIN journal :
    LET e == journal[i]
        Before(x) == \E j \in 1..(i - 1) : journal[j] = x
        FailedBefore(d) ==
          \E j \in 1..(i - 1) : journal[j].type = "node.failed" /\ journal[j].node = d
    IN  /\ e.type = "node.started" =>
             \A d \in DependsOn[e.node] : Before(NodeCompleted(d))
        /\ e.type = "node.failed" /\ e.reason = "dependency_failed" =>
             \E d \in DependsOn[e.node] : FailedBefore(d) \/ d \in raised

-----------------------------------------------------------------------------
(* The budget. *)

InflightNodes == {n \in Nodes : task[n] = "inflight"}

(* No path out of a dispatch leaks its reservation or returns it twice:    *)
(* what the ledger holds in flight is what the dispatched nodes reserved.  *)
ReservationsExact ==
  /\ ledger.inflight.calls = Cardinality(InflightNodes)
  /\ ledger.inflight.tokens =
       MapThenSumSet(LAMBDA n : ReservationFor(Ceiling[n]).tokens, InflightNodes)
  /\ ledger.inflight.cost =
       MapThenSumSet(LAMBDA n : ReservationFor(Ceiling[n]).cost, InflightNodes)

(* The journal never claims spending the ledger did not commit, and while  *)
(* no node was torn down by a failed write it accounts for all of it.      *)
JournalAccountsForSpending ==
  LET claimed == View.totals  committed == Totals(ledger)
  IN  /\ \A d \in DOMAIN claimed : claimed[d] <= committed[d]
      /\ raised = {} => claimed = committed

(* The hard caps hold at admission: calls never exceed their cap, and      *)
(* tokens and cost do not either as long as no billed report exceeds what  *)
(* its dispatch reserved.                                                  *)
HonestBackend ==
  \A u \in Reported, n \in Nodes :
    /\ u.input <= Ceiling[n].input
    /\ LiveBackend => u.output <= Ceiling[n].output

CallsWithinCap == UsedCalls(ledger) <= MaxCalls

TokensWithinCap == UsedTokens(ledger) <= MaxTotalTokens

CostWithinCap == UsedCost(ledger) <= MaxCostMicrousd

HardCaps == CallsWithinCap /\ (HonestBackend => TokensWithinCap /\ CostWithinCap)

(* A run never completes successfully above its configured caps, whatever  *)
(* the providers report.                                                   *)
CompletedWithinCaps ==
  \A i \in Recorded("run.finished") :
    journal[i].status = "completed" => ~Breached(ledger)

-----------------------------------------------------------------------------
(* Progress and refinement. *)

(* A run ends, by returning or by raising, however its nodes fail, are     *)
(* cancelled or lose their store: no node waits for an event nobody sets.  *)
RunEnds == <>(phase \in {"returned", "raised"})

(* The statuses the journal tells of. *)
NodeEvents(n) ==
  {journal[i].type : i \in
     {j \in DOMAIN journal :
        /\ journal[j].type \in {"node.started", "node.completed", "node.failed"}
        /\ journal[j].node = n}}

JournaledNodeStatus(n) ==
  CASE "node.failed" \in NodeEvents(n)    -> "failed"
    [] "node.failed" \notin NodeEvents(n) /\ "node.completed" \in NodeEvents(n) -> "completed"
    [] NodeEvents(n) = {"node.started"}   -> "running"
    [] NodeEvents(n) = {}                 -> "pending"

JournaledRunStatus ==
  CASE journal = << >> -> "created"
    [] journal # << >> /\ Recorded("run.finished") = {} -> "running"
    [] Recorded("run.finished") # {} -> journal[Len(journal)].status

Contract == INSTANCE RunContract WITH
  run <- JournaledRunStatus,
  node <- [n \in Nodes |-> JournaledNodeStatus(n)]

(* The journal tells the story of a run of the contract: nodes start after *)
(* their dependencies, move along the transition table, and the verdict of *)
(* the run is the verdict of its nodes.                                    *)
KeepsContract == Contract!ContractSpec
=============================================================================
