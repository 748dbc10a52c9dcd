------------------------------ MODULE MCCouncil ------------------------------
(***************************************************************************)
(* Small instances of the Council run for TLC: the five-node council-v1    *)
(* plan, and the same without a reviewer for the run that explores failing *)
(* writes and cancellations and proves that every run ends.                *)
(***************************************************************************)
EXTENDS CouncilProperties, TLC

CONSTANTS ProposerA, ProposerB, ReviewerA, ReviewerB, Judge

Proposers == {ProposerA, ProposerB}
Reviewers == {ReviewerA, ReviewerB}

CouncilNodes == Proposers \cup Reviewers \cup {Judge}

Plans == INSTANCE CouncilPlan

(* The plan of the template, each role slot with its own route. *)
TemplatePlan ==
  Plans!Template(
    [s \in Plans!Slots |-> CASE s = "proposer_a" -> ProposerA
                             [] s = "proposer_b" -> ProposerB
                             [] s = "reviewer_a" -> ReviewerA
                             [] s = "reviewer_b" -> ReviewerB
                             [] s = "judge" -> Judge],
    [s \in Plans!Slots |-> s])

PlanNode(n) == CHOOSE node \in TemplatePlan.nodes : node.id = n

CouncilDependsOn == [n \in CouncilNodes |-> PlanNode(n).depends_on]
CouncilRole      == [n \in CouncilNodes |-> PlanNode(n).role]

(* The validator accepts the template's plan, and no plan with a part of   *)
(* it left out.                                                            *)
ASSUME TemplateIsValid == Plans!Valid(TemplatePlan, Plans!Slots)

ASSUME NothingIsOptional ==
  \A node \in TemplatePlan.nodes :
    /\ \A dep \in node.depends_on :
         ~Plans!Valid([TemplatePlan EXCEPT !.nodes =
           (@ \ {node}) \cup {[node EXCEPT !.depends_on = @ \ {dep}]}], Plans!Slots)
    /\ \A entry \in node.manifest :
         ~Plans!Valid([TemplatePlan EXCEPT !.nodes =
           (@ \ {node}) \cup {[node EXCEPT !.manifest = @ \ {entry}]}], Plans!Slots)

(* Two barriers: the judge waits for a reviewer of both proposals. *)
LayeredNodes == CouncilNodes \ {ReviewerB}

LayeredDependsOn == [n \in LayeredNodes |-> CouncilDependsOn[n] \ {ReviewerB}]

LayeredRole    == [n \in LayeredNodes |-> CouncilRole[n]]
LayeredCeiling == [n \in LayeredNodes |-> [input |-> 2, output |-> 2]]

(* Every dispatch reserves four tokens. *)
CouncilCeiling == [n \in CouncilNodes |-> [input |-> 2, output |-> 2]]

(* As the validator has it of every plan it accepts. *)
ASSUME PlanHasBarriers == Barriers

Cheap      == [input |-> 1, output |-> 1]
Honest     == [input |-> 2, output |-> 1]
OverInput  == [input |-> 4, output |-> 2]
OverOutput == [input |-> 1, output |-> 3]

(* The fixture of the fakes stays within the estimated input, as a usage   *)
(* derived from the texts does; a provider may report anything.            *)
FakeReports == {Cheap, Honest, OverOutput}
AnyReports  == {Cheap, OverInput, OverOutput}

Symmetry == Permutations(Proposers) \cup Permutations(Reviewers)
=============================================================================
