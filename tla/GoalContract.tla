----------------------------- MODULE GoalContract -----------------------------
(***************************************************************************)
(* What a goal promises to whoever reads its two files.                    *)
(*                                                                         *)
(* The reader sees the status of the goal and the record of its run.  A    *)
(* run begins on an approved goal, its record only ever grows, within the  *)
(* limits, until it ends once, as achieved only with evidence, and the     *)
(* status of the goal is that of its run, or what its owner has made it.   *)
(***************************************************************************)
EXTENDS Naturals

CONSTANTS NeedsReview, MaxAttempts, MaxAgentCalls, None

VARIABLES
  status,     \* of the goal
  approving,  \* the owner's approval has yet to save its baseline
  run,        \* the record of the run
  verified    \* candidates on which every check has passed

contractVars == << status, approving, run, verified >>

Outcomes == {"achieved", "cancelled", "budget_exhausted", "blocked", "failed"}

Blank ==
  [ status |-> "none", candidate |-> None, attempts |-> 0, calls |-> 0,
    reviews |-> {}, contributors |-> {} ]

ContractInit ==
  /\ status = "prepared" /\ approving = FALSE
  /\ run = Blank
  /\ verified = {}

Alive == run.status = "running"

-----------------------------------------------------------------------------
(* The status of the goal. *)

Approve ==
  /\ status = "prepared" /\ status' = "approved"
  /\ approving' = TRUE
  /\ UNCHANGED << run, verified >>

(* The command saves the record that it approved, over any other.          *)
SaveApproval ==
  /\ approving /\ approving' = FALSE
  /\ status' \in {status, "approved"}
  /\ UNCHANGED << run, verified >>

Cancel ==
  /\ status' = "cancelled"
  /\ UNCHANGED << approving, run, verified >>

(* A run about to begin saves the goal's baseline if it has none.          *)
SaveBaseline ==
  /\ ~Alive
  /\ status \in {"approved", "cancelled"} /\ status' = "approved"
  /\ UNCHANGED << approving, run, verified >>

Announce ==
  /\ Alive
  /\ status \in {"approved", "running", "cancelled"} /\ status' = "running"
  /\ UNCHANGED << approving, run, verified >>

Report ==
  /\ run.status \in Outcomes /\ status' = run.status
  /\ UNCHANGED << approving, run, verified >>

-----------------------------------------------------------------------------
(* The run. *)

Begin ==
  /\ ~Alive
  /\ status \in {"approved", "cancelled"}
  /\ run' = [Blank EXCEPT !.status = "running"]
  /\ UNCHANGED << status, approving, verified >>

Attempt ==
  /\ Alive
  /\ run.attempts < MaxAttempts
  /\ run' = [run EXCEPT !.attempts = @ + 1]
  /\ UNCHANGED << status, approving, verified >>

(* A review may share the look at the limit with a writer.                 *)
Call ==
  /\ Alive
  /\ run.calls <= MaxAgentCalls
  /\ run' = [run EXCEPT !.calls = @ + 1]
  /\ UNCHANGED << status, approving, verified >>

(* The candidate never goes back, and no contributor is forgotten.         *)
Move ==
  /\ Alive
  /\ run' = [run EXCEPT !.candidate = run'.candidate, !.contributors = run'.contributors]
  /\ run.contributors \subseteq run'.contributors
  /\ run.candidate # None => run.candidate <= run'.candidate
  /\ UNCHANGED << status, approving, verified >>

Verify ==
  /\ Alive
  /\ verified' = verified \cup {run.candidate}
  /\ UNCHANGED << status, approving, run >>

(* A review is by none of the contributors.                                *)
Review ==
  /\ Alive
  /\ \E r \in run'.reviews :
       /\ r.sha = run.candidate /\ r.by \notin run.contributors
       /\ run' = [run EXCEPT !.reviews = @ \cup {r}]
  /\ UNCHANGED << status, approving, verified >>

Evidence ==
  /\ run.candidate \in verified
  /\ \A r \in run.reviews : r.sha = run.candidate => ~r.blocking
  /\ run.candidate \in NeedsReview => \E r \in run.reviews : r.sha = run.candidate

End(outcome) ==
  /\ Alive
  /\ outcome = "achieved" => Evidence
  /\ run' = [run EXCEPT !.status = outcome]
  /\ UNCHANGED << status, approving, verified >>

ContractNext ==
  \/ Approve \/ SaveApproval \/ Cancel
  \/ SaveBaseline \/ Announce \/ Report
  \/ Begin \/ Attempt \/ Call \/ Move \/ Verify \/ Review
  \/ \E outcome \in Outcomes : End(outcome)

ContractSpec == ContractInit /\ [][ContractNext]_contractVars
===============================================================================
