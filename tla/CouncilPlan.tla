----------------------------- MODULE CouncilPlan ------------------------------
(***************************************************************************)
(* The plan of a Council run: what PlanValidator accepts, and the plan     *)
(* that CouncilTemplate builds.                                            *)
(*                                                                         *)
(* The validator looks at the nodes and at the entries of a manifest in no *)
(* order, so both are sets here; that leaves out only an exact duplicate,  *)
(* which the code refuses as a repeated node id or label.                  *)
(***************************************************************************)
EXTENDS Integers, FiniteSets

CONSTANT None    \* the producer of a task entry

Kinds == {"task", "proposal", "review"}

(* A plan as a Python value: nodes with a manifest each, and the sealed    *)
(* mapping from labels to the proposers behind them.                       *)
IsPlan(plan) ==
  /\ IsFiniteSet(plan.nodes)
  /\ \A n \in plan.nodes : IsFiniteSet(n.manifest)

NodesIn(plan, role) == {n \in plan.nodes : n.role = role}

Ids(nodes) == {n.id : n \in nodes}

Identities(nodes) == {n.identity : n \in nodes}

Entries(n, kind) == {e \in n.manifest : e.kind = kind}

Producers(entries) == {e.producer : e \in entries}

ProposalEntries(plan) == UNION {Entries(n, "proposal") : n \in plan.nodes}

-----------------------------------------------------------------------------
(* Dependencies. *)

(* A set of nodes that holds whatever its members wait for. *)
Closed(plan, ids) == \A n \in plan.nodes : n.id \in ids => n.depends_on \subseteq ids

Ancestors(plan, n) ==
  {i \in Ids(plan.nodes) :
     \A ids \in SUBSET Ids(plan.nodes) :
       n.depends_on \subseteq ids /\ Closed(plan, ids) => i \in ids}

WellFormed(plan, routes) ==
  /\ \A m, n \in plan.nodes : m.id = n.id => m = n
  /\ \A n \in plan.nodes : n.depends_on \subseteq Ids(plan.nodes) /\ n.route \in routes

Acyclic(plan) == \A n \in plan.nodes : n.id \notin Ancestors(plan, n)

(* Two proposers, an opposite reviewer for each, one judge. *)
Topology(plan) ==
  /\ Cardinality(NodesIn(plan, "proposer")) = 2
  /\ Cardinality(NodesIn(plan, "reviewer")) = 2
  /\ Cardinality(NodesIn(plan, "judge")) = 1
  /\ Cardinality(Identities(NodesIn(plan, "proposer"))) = 2
  /\ Identities(NodesIn(plan, "reviewer")) = Identities(NodesIn(plan, "proposer"))

-----------------------------------------------------------------------------
(* Manifests. *)

ProducerRole(kind) == IF kind = "proposal" THEN "proposer" ELSE "reviewer"

ValidEntry(plan, n, e) ==
  /\ e.kind \in Kinds
  /\ e.kind = "task" => e.producer = None
  /\ e.kind # "task" =>
       /\ e.producer \in Ancestors(plan, n) \ {None}
       /\ \A m \in plan.nodes : m.id = e.producer => m.role = ProducerRole(e.kind)

ValidManifest(plan, n) ==
  /\ \A e, f \in n.manifest : e.label = f.label => e = f
  /\ \A e \in n.manifest : ValidEntry(plan, n, e)

(* Anti-anchoring: a proposer sees the task alone. *)
ProposerNode(n) == Entries(n, "task") = n.manifest /\ Cardinality(n.manifest) = 1

(* The barrier, the task and one proposal of the other identity. *)
ReviewerNode(plan, n) ==
  /\ Ids(NodesIn(plan, "proposer")) \subseteq n.depends_on
  /\ Cardinality(Entries(n, "task")) = 1
  /\ Cardinality(Entries(n, "proposal")) = 1
  /\ Cardinality(n.manifest) = 2
  /\ \A e \in Entries(n, "proposal"), m \in plan.nodes :
       m.id = e.producer => m.identity # n.identity

JudgeNode(plan, n) ==
  LET proposers == NodesIn(plan, "proposer")
      reviewers == NodesIn(plan, "reviewer")
  IN /\ Ids(reviewers) \subseteq n.depends_on
     /\ Cardinality(Entries(n, "task")) = 1
     /\ Cardinality(n.manifest) = 1 + Cardinality(proposers) + Cardinality(reviewers)
     /\ Producers(Entries(n, "proposal")) = Ids(proposers)
     /\ Producers(Entries(n, "review")) = Ids(reviewers)

ValidNode(plan, n) ==
  /\ ValidManifest(plan, n)
  /\ \/ n.role = "proposer" /\ ProposerNode(n)
     \/ n.role = "reviewer" /\ ReviewerNode(plan, n)
     \/ n.role = "judge" /\ JudgeNode(plan, n)

(* A label stands for one producer in every manifest, and the sealed       *)
(* mapping is a bijection between the labels in use and the proposers.     *)
Sealed(plan) ==
  LET seal == plan.anonymization
      used == ProposalEntries(plan)
      proposers == Ids(NodesIn(plan, "proposer"))
  IN /\ \A e, f \in used : e.label = f.label => e.producer = f.producer
     /\ DOMAIN seal = {e.label : e \in used}
     /\ \A e \in used : seal[e.label] = e.producer
     /\ {seal[l] : l \in DOMAIN seal} = proposers
     /\ \A k, l \in DOMAIN seal : seal[k] = seal[l] => k = l

(* PlanValidator.validate raises nothing. *)
Valid(plan, routes) ==
  /\ WellFormed(plan, routes)
  /\ Acyclic(plan)
  /\ Topology(plan)
  /\ \A n \in plan.nodes : ValidNode(plan, n)
  /\ Sealed(plan)

-----------------------------------------------------------------------------
(* CouncilTemplate.build, with a node id and a route for each slot.        *)

Slots == {"proposer_a", "proposer_b", "reviewer_a", "reviewer_b", "judge"}

Template(id, route) ==
  LET entry(kind, label, producer) ==
        [kind |-> kind, label |-> label, producer |-> producer]
      task  == entry("task", "task", None)
      first == entry("proposal", "candidate-1", id["proposer_a"])
      other == entry("proposal", "candidate-2", id["proposer_b"])
      node(slot, role, identity, waits, manifest) ==
        [ id |-> id[slot], role |-> role, identity |-> identity, route |-> route[slot],
          depends_on |-> {id[s] : s \in waits}, manifest |-> manifest ]
      proposers == {"proposer_a", "proposer_b"}
  IN [ nodes |->
         { node("proposer_a", "proposer", "A", {}, {task}),
           node("proposer_b", "proposer", "B", {}, {task}),
           node("reviewer_a", "reviewer", "A", proposers, {task, other}),
           node("reviewer_b", "reviewer", "B", proposers, {task, first}),
           node("judge", "judge", "J", {"reviewer_a", "reviewer_b"},
                { task, first, other,
                  entry("review", "review-of-candidate-1", id["reviewer_b"]),
                  entry("review", "review-of-candidate-2", id["reviewer_a"]) }) },
       anonymization |->
         [ l \in {"candidate-1", "candidate-2"} |->
             IF l = "candidate-1" THEN id["proposer_a"] ELSE id["proposer_b"] ] ]
=============================================================================
