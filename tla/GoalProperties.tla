---------------------------- MODULE GoalProperties ----------------------------
(***************************************************************************)
(* The correctness properties of a goal run.                               *)
(***************************************************************************)
EXTENDS GoalRun

(* Whatever moment a runner dies at, the run state it leaves passes the    *)
(* validation of RunState.from_doc, which refuses evidence that is not     *)
(* about the persisted candidate.                                          *)
LoadableState == Loads(disk)

(* No byte of the candidate, committed or not, is without its author in    *)
(* the durable run state; what check commands left is nobody's.            *)
Attributed ==
  /\ Authors(tree.head) \ {Shell, Late} \subseteq disk.contributors \cup {disk.pending}
  /\ tree.bytes \ {Shell, Late} \subseteq {disk.pending}

(* No valid review is by an author of any byte it reviewed, across         *)
(* restarts, failed attempts and escalation of the routing.                *)
IndependentReview == \A r \in disk.reviews : r.by \notin Authors(r.sha)

(* A goal is achieved only on a candidate that is the worktree's commit,   *)
(* passed every check and gate in a pinned checkout, was reviewed without  *)
(* blocking findings where the policy wants it, and against which no       *)
(* blocking finding was ever recorded.                                     *)
AchievedOnEvidence ==
  disk.status = "achieved" =>
    /\ disk.candidate = tree.head
    /\ disk.candidate \in verified
    /\ \A r \in disk.reviews : r.sha = disk.candidate => ~r.blocking
    /\ disk.candidate \in NeedsReview => \E r \in disk.reviews : r.sha = disk.candidate

(* The split writes of start and finish leave no pair of files that resume *)
(* refuses: a run that is running can always be resumed.                   *)
ResumeAccepted ==
  disk.status = "running" => goal.status \in {"approved", "running", "cancelled"}

(* Neither crashes nor retries buy attempts or agent calls beyond the      *)
(* limits of the goal; a review and a writer of the same iteration share   *)
(* one look at the limit, so the calls may exceed theirs by one.           *)
LimitsHold ==
  /\ disk.attempts <= MaxAttempts
  /\ disk.calls <= MaxAgentCalls + 1

(* The module comment of the loop: it "never commits post-cancel work".    *)
(* As long as the cancel stands in goal.json, what an agent wrote after it *)
(* is in no commit that the worktree is bound to, whether the agent is     *)
(* terminated, ends by itself or outlives its runner.                      *)
NoLateWork == CancelRequested => Late \notin Authors(tree.bound)

(* A disposable view left by a dead runner, of a candidate that is no more. *)
ViewIsStale(purpose) == views[purpose] \notin {None, disk.candidate}

(* What no resume gets past: bytes left by check commands, a HEAD that an  *)
(* agent has moved, a stale view.                                          *)
Wedged ==
  \/ Shell \in tree.bytes
  \/ HeadMoved
  \/ \E purpose \in DOMAIN views : ViewIsStale(purpose)

(* Every run ends in both files, however often its runner dies, unless the *)
(* worktree is wedged.                                                     *)
RunEnds ==
  (disk.status = "running" \/ goal.status = "running") ~>
     ((disk.status # "running" /\ goal.status # "running") \/ Wedged)

(* The module comment of the loop: "goal cancel durably records the        *)
(* intent"; nothing but a terminal status may take its place.              *)
CancelIsDurable ==
  [][goal.status = "cancelled" => goal'.status \in Ended]_vars

(* The module comment of the loop: "killing the process at any point and   *)
(* running dagvane goal resume continues from the last completed stage".   *)
(* The review that a candidate is due can be held.                         *)
ReviewCanBeHeld == pc = "gate" /\ ReviewDue => ~ViewRefused("review")

-----------------------------------------------------------------------------
(* The record of the run, as run-state.json has it. *)
Recorded ==
  [ status |-> disk.status, candidate |-> disk.candidate, attempts |-> disk.attempts,
    calls |-> disk.calls, reviews |-> disk.reviews, contributors |-> disk.contributors ]

Contract == INSTANCE GoalContract WITH status <- goal.status, run <- Recorded

(* The two files tell the story of a run of the contract, whatever runner  *)
(* wrote them last: no resume and no save of a stale copy takes back a     *)
(* recorded attempt, call, review or contributor, the candidate never goes *)
(* back, a run ends once, as achieved only on evidence, and the goal's     *)
(* status follows it.                                                      *)
KeepsGoalContract == Contract!ContractSpec
===============================================================================
