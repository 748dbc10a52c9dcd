----------------------------- MODULE RunContract -----------------------------
(***************************************************************************)
(* What a run promises to whoever reads its journal.                       *)
(*                                                                         *)
(* The reader sees run and node statuses only.  They follow the transition *)
(* tables of the domain model, a node starts only when all it depends on   *)
(* has completed, and the verdict of the run is the verdict of its nodes.  *)
(* A run may also be abandoned: it then never gets a verdict.              *)
(***************************************************************************)
CONSTANTS Nodes, DependsOn

VARIABLES
  run,    \* RunStatus
  node    \* node -> NodeStatus

contractVars == << run, node >>

RunStatus  == {"created", "running", "completed", "failed"}
NodeStatus == {"pending", "running", "completed", "failed"}

(* RUN_TRANSITIONS *)
RunMoves == {<<"created", "running">>, <<"running", "completed">>, <<"running", "failed">>}

(* NODE_TRANSITIONS *)
NodeMoves == {<<"pending", "running">>, <<"pending", "failed">>,
              <<"running", "completed">>, <<"running", "failed">>}

ContractInit ==
  /\ run = "created"
  /\ node = [n \in Nodes |-> "pending"]

advance_run_status(status) ==
  /\ <<run, status>> \in RunMoves
  /\ run' = status

advance_node_status(n, status) ==
  /\ <<node[n], status>> \in NodeMoves
  /\ node' = [node EXCEPT ![n] = status]

Begin == advance_run_status("running") /\ UNCHANGED node

Start(n) ==
  /\ run = "running"
  /\ \A d \in DependsOn[n] : node[d] = "completed"
  /\ advance_node_status(n, "running")
  /\ UNCHANGED run

Settle(n, status) ==
  /\ run = "running"
  /\ advance_node_status(n, status)
  /\ UNCHANGED run

Conclude ==
  /\ \A n \in Nodes : node[n] \in {"completed", "failed"}
  /\ advance_run_status(IF \E n \in Nodes : node[n] = "failed"
                        THEN "failed" ELSE "completed")
  /\ UNCHANGED node

ContractNext ==
  \/ Begin
  \/ \E n \in Nodes : Start(n) \/ Settle(n, "completed") \/ Settle(n, "failed")
  \/ Conclude

ContractSpec == ContractInit /\ [][ContractNext]_contractVars
=============================================================================
