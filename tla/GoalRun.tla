------------------------------- MODULE GoalRun -------------------------------
(***************************************************************************)
(* The fixed state machine of autonomous development: one goal, its owner, *)
(* the runner processes that execute it, the agents they start, and the    *)
(* managed candidate worktree.                                             *)
(*                                                                         *)
(* Two files are durable, goal.json and run-state.json.  A runner holds    *)
(* the goal's lease, keeps a copy of the run state in memory and writes it *)
(* back after each stage; it may die between any two durable effects, and  *)
(* then only the files, the worktree and a running agent are left.  Each   *)
(* action is the code from one durable effect to the next.  The owner      *)
(* works from other processes and does not take the lease.                 *)
(*                                                                         *)
(* Commits are numbered from 1 in the order they are made; the base SHA of *)
(* the contract is 0.  The managed lifecycle is taken at its word here:    *)
(* its operations are atomic, a SHA advance is begun and completed.  The   *)
(* lifecycle itself is the module ManagedWorktrees.                        *)
(***************************************************************************)
EXTENDS Routing, Sequences, FiniteSets

CONSTANTS
  Resources,            \* external agents
  Checks,               \* ids of the contract's acceptance checks
  NeedsReview,          \* the SHAs whose diff the review policy wants reviewed
  MaxAgentCalls, MaxAttempts, MaxConsecutiveFailures,   \* GoalLimits
  MaxReviewFailures,    \* _MAX_REVIEW_FAILURES
  Litter,               \* what a check may leave in the writer's worktree
  AgentsMoveHead,       \* writers that commit on their own exist
  MaxCrashes,           \* bound on the runner's deaths
  Shell,                \* the author of bytes left by check commands
  None

ASSUME GoalAssumption ==
  /\ None \notin Nat \cup Resources /\ Shell \notin Resources
  /\ "late" \notin Resources \cup {Shell}
  /\ \A t \in Tiers : FirstInTier[t] \in Resources \cup {NoResource}
  /\ \A k \in TaskKinds : Configured[k] \in Resources \cup {NoResource}
  /\ NoResource \notin Resources
  /\ NeedsReview \subseteq Nat
  /\ MaxAgentCalls \in Nat /\ MaxAttempts \in Nat
  /\ MaxConsecutiveFailures \in Nat /\ MaxReviewFailures \in Nat
  /\ Litter \subseteq SUBSET {Shell}
  /\ AgentsMoveHead \in BOOLEAN
  /\ MaxCrashes \in Nat

VARIABLES
  goal,       \* goal.json: status, and whether its baseline is completed
  disk,       \* run-state.json
  mem,        \* the runner's RunState
  pc,         \* where the runner stands; "down" when there is none
  frame,      \* its other local variables
  tree,       \* the managed candidate worktree of the run
  views,      \* the SHA of the disposable checkout kept for each purpose
  commits,    \* the authors of the bytes between the base and each commit
  agent,      \* the running agent, or the exit the runner has to look at
  verified,   \* SHAs on which every check and gate passed in a pinned checkout
  approving,  \* goal approve is collecting the baseline
  killing,    \* goal cancel has yet to terminate the agent
  cancelled,  \* the owner has cancelled
  crashes

vars == << goal, disk, mem, pc, frame, tree, views, commits, agent, verified,
           approving, killing, cancelled, crashes >>

OwnerVars == << approving, killing, cancelled, crashes >>

Late == "late"    \* a mark among the authors of bytes

Base == 0

Authors(sha) == IF sha = Base THEN {} ELSE commits[sha]

(* RunState.  Of the reviews only the valid ones bear on later decisions;  *)
(* the other entries are counted by review_failures.                       *)
Fresh ==
  [ status |-> "running", worktree |-> FALSE, candidate |-> None, tested |-> None,
    passed |-> None, calls |-> 0, attempts |-> 0, failures |-> 0, unmet |-> {},
    reviews |-> {}, reviewFailures |-> 0, pending |-> None, contributors |-> {} ]

NoRun == [Fresh EXCEPT !.status = "none"]

NoFrame == [ prev |-> {}, base |-> Base, next |-> "top", advanced |-> FALSE ]

NoViews == [verification |-> None, review |-> None]

NoTree == [ exists |-> FALSE, bound |-> Base, head |-> Base, advancing |-> FALSE,
            bytes |-> {} ]

Ended == {"achieved", "cancelled", "budget_exhausted", "blocked", "failed"}

Init ==
  /\ goal = [status |-> "prepared", baselined |-> FALSE]
  /\ disk = NoRun /\ mem = NoRun
  /\ pc = "down" /\ frame = NoFrame
  /\ tree = NoTree /\ views = NoViews /\ commits = << >>
  /\ agent = None
  /\ verified = {}
  /\ approving = FALSE /\ killing = FALSE /\ cancelled = FALSE
  /\ crashes = 0

(* RunState.from_doc: evidence that is not about the persisted candidate   *)
(* is refused, and then neither start nor resume gets anywhere.            *)
Loads(state) ==
  /\ state.tested # None => state.tested = state.candidate
  /\ state.passed # None => state.candidate # None
  /\ state.passed # None /\ state.passed = state.candidate => state.tested # None

(* _save_state *)
Save(state) == mem' = state /\ disk' = state

(* An exception leaves the runner, or its process dies. *)
Down == pc' = "down" /\ mem' = NoRun /\ frame' = NoFrame

-----------------------------------------------------------------------------
(* The owner's commands. *)

Approve ==
  /\ goal.status = "prepared"
  /\ goal' = [goal EXCEPT !.status = "approved"]
  /\ approving' = TRUE
  /\ UNCHANGED << disk, mem, pc, frame, tree, views, commits, agent, verified,
                  killing, cancelled, crashes >>

(* The baseline that goal approve collects: it saves the record that the   *)
(* command approved, whatever became of the file; or it fails.             *)
ApproveBaseline ==
  /\ approving
  /\ approving' = FALSE
  /\ goal' \in {goal, [status |-> "approved", baselined |-> TRUE]}
  /\ UNCHANGED << disk, mem, pc, frame, tree, views, commits, agent, verified,
                  killing, cancelled, crashes >>

Cancel ==
  /\ ~cancelled
  /\ cancelled' = TRUE
  /\ killing' = TRUE
  /\ goal' = [goal EXCEPT !.status = "cancelled"]
  /\ UNCHANGED << disk, mem, pc, frame, tree, views, commits, agent, verified,
                  approving, crashes >>

Waiting == pc \in {"writing", "reviewing"}

(* The exit of an agent that a runner waits for is kept for it to see. *)
Exits(exit) ==
  agent' = IF Waiting THEN [agent EXCEPT !.exit = exit]
           ELSE None

Running == agent # None /\ agent.exit = "running"

TerminateAgent ==
  /\ killing
  /\ killing' = FALSE
  /\ IF Running THEN Exits("failed") ELSE UNCHANGED agent
  /\ UNCHANGED << goal, disk, mem, pc, frame, tree, views, commits, verified,
                  approving, cancelled, crashes >>

-----------------------------------------------------------------------------
(* The agents. *)

(* What it writes once goal.json says cancelled is marked as late. *)
AgentEdits ==
  /\ Running /\ agent.writes
  /\ tree' = [tree EXCEPT !.bytes =
                @ \cup {agent.by} \cup (IF goal.status = "cancelled" THEN {Late} ELSE {})]
  /\ UNCHANGED << goal, disk, mem, pc, frame, views, commits, agent, verified, OwnerVars >>

(* Against its instructions. *)
AgentMovesHead ==
  /\ AgentsMoveHead
  /\ Running /\ agent.writes
  /\ tree.head = tree.bound /\ tree.bytes # {}
  /\ commits' = Append(commits, Authors(tree.head) \cup tree.bytes)
  /\ tree' = [tree EXCEPT !.head = Len(commits) + 1, !.bytes = {}]
  /\ UNCHANGED << goal, disk, mem, pc, frame, views, agent, verified, OwnerVars >>

AgentExits ==
  /\ Running
  /\ Exits("ok") \/ Exits("failed")
  /\ UNCHANGED << goal, disk, mem, pc, frame, tree, views, commits, verified, OwnerVars >>

(* A runner that waits for no agent has none; an orphan outlives it. *)
Crash ==
  /\ pc # "down"
  /\ crashes < MaxCrashes
  /\ crashes' = crashes + 1
  /\ Down
  /\ agent' = IF Running THEN agent ELSE None
  /\ UNCHANGED << goal, disk, tree, views, commits, verified, approving, killing, cancelled >>

-----------------------------------------------------------------------------
(* GoalRunner.start. *)

(* Fault: an unfinished run is started over. *)
StartOver ==
  /\ pc = "down" /\ Loads(disk)
  /\ goal.status = "approved"
  /\ pc' = IF goal.baselined THEN "begin" ELSE "baseline"
  /\ UNCHANGED << goal, disk, mem, frame, tree, views, commits, agent, verified, OwnerVars >>

Start ==
  /\ pc = "down" /\ Loads(disk)
  /\ disk.status # "running"
  /\ goal.status = "approved"
  /\ pc' = IF goal.baselined THEN "begin" ELSE "baseline"
  /\ UNCHANGED << goal, disk, mem, frame, tree, views, commits, agent, verified, OwnerVars >>

(* collect_baseline saves the record that start has loaded. *)
StartBaseline ==
  /\ pc = "baseline"
  /\ \/ /\ goal' = [status |-> "approved", baselined |-> TRUE]
        /\ pc' = "begin"
        /\ UNCHANGED << mem, frame >>
     \/ Down /\ UNCHANGED goal
  /\ UNCHANGED << disk, tree, views, commits, agent, verified, OwnerVars >>

(* The worktrees of a new run_id do not exist yet. *)
BeginRun ==
  /\ pc = "begin"
  /\ Save(Fresh)
  /\ tree' = NoTree /\ views' = NoViews
  /\ pc' = "announce"
  /\ UNCHANGED << goal, frame, commits, agent, verified, OwnerVars >>

AnnounceRun ==
  /\ pc = "announce"
  /\ goal' = [status |-> "running", baselined |-> TRUE]
  /\ pc' = "create"
  /\ UNCHANGED << disk, mem, frame, tree, views, commits, agent, verified, OwnerVars >>

(* Also on the way of a resume; the reconciliation that follows it there   *)
(* finds nothing to do on a fresh candidate.                               *)
CreateCandidate ==
  /\ pc = "create"
  /\ tree' = [NoTree EXCEPT !.exists = TRUE]
  /\ mem' = [mem EXCEPT !.worktree = TRUE, !.tested = None]
  /\ pc' = "top"
  /\ frame' = NoFrame
  /\ UNCHANGED << goal, disk, views, commits, agent, verified, OwnerVars >>

-----------------------------------------------------------------------------
(* GoalRunner.resume. *)

(* Fault: only a goal that agrees with its run state is looked at. *)
ReplayNoFinish ==
  /\ pc = "down"
  /\ disk.status \in Ended
  /\ goal.status = disk.status
  /\ UNCHANGED vars

(* The crash came between the two writes of a finish. *)
ReplayFinish ==
  /\ pc = "down" /\ Loads(disk)
  /\ disk.status \in Ended
  /\ goal.status = "running"
  /\ goal' = [goal EXCEPT !.status = disk.status]
  /\ UNCHANGED << disk, mem, pc, frame, tree, views, commits, agent, verified, OwnerVars >>

(* attempt_base_sha is taken before the candidate is recovered. *)
Resume ==
  /\ pc = "down" /\ Loads(disk)
  /\ disk.status = "running"
  /\ goal.status \in {"approved", "running", "cancelled"}
  /\ goal' = IF goal.status = "approved" THEN [goal EXCEPT !.status = "running"]
             ELSE goal
  /\ mem' = disk
  /\ frame' = [ NoFrame EXCEPT
                  !.base = IF disk.candidate = None THEN Base ELSE disk.candidate,
                  !.next = IF goal.status = "cancelled" THEN "cancelled" ELSE "top" ]
  /\ pc' = "acquire"
  /\ UNCHANGED << disk, tree, views, commits, agent, verified, OwnerVars >>

(* What the manager binds the candidate to: an interrupted SHA advance is  *)
(* completed if its commit was made and undone if it was not.              *)
RecoveredSha == IF tree.advancing THEN tree.head ELSE tree.bound

HeadMoved == tree.head # tree.bound /\ ~tree.advancing

Opened(sha) ==
  [ mem EXCEPT !.worktree = TRUE,
               !.contributors = IF sha = Base /\ mem.candidate \notin {None, Base}
                                THEN {} ELSE @ ]

(* _reap_orphan_writer, then _open_candidate_worktree.  A binding that     *)
(* differs from the run state is not saved before it has been reconciled.  *)
Acquire ==
  /\ pc = "acquire"
  /\ agent' = None
  /\ tree.exists /\ ~HeadMoved
  /\ tree' = [tree EXCEPT !.bound = RecoveredSha, !.advancing = FALSE]
  /\ IF mem.candidate = RecoveredSha
     THEN Save(Opened(RecoveredSha))
     ELSE mem' = [Opened(RecoveredSha) EXCEPT !.tested = None] /\ UNCHANGED disk
  /\ pc' = "reconcile"
  /\ UNCHANGED << goal, frame, views, commits, verified, OwnerVars >>

(* A candidate that the run state asserts is never made anew. *)
AcquireNothing ==
  /\ pc = "acquire"
  /\ agent' = None
  /\ ~tree.exists
  /\ ~mem.worktree /\ mem.candidate = None
  /\ pc' = IF frame.next = "top" THEN "create" ELSE "cancelled"
  /\ UNCHANGED << goal, disk, mem, frame, tree, views, commits, verified, OwnerVars >>

AcquireRefuses ==
  /\ pc = "acquire"
  /\ agent' = None
  /\ tree.exists /\ HeadMoved
  /\ Down
  /\ UNCHANGED << goal, disk, tree, views, commits, verified, OwnerVars >>

-----------------------------------------------------------------------------
(* _reconcile_pending_attempt: reached from a resume, from a failed agent  *)
(* and from a cancellation, frame.next being where it goes on.             *)

Reconciling == pc = "reconcile" /\ ~HeadMoved

(* The run state with the manager's binding for its candidate. *)
Adopting(state) ==
  IF state.candidate = tree.bound THEN state
  ELSE [state EXCEPT !.candidate = tree.bound, !.tested = None]

DiscardBytes ==
  /\ Reconciling
  /\ mem.pending # None /\ tree.bytes # {}
  /\ tree' = [tree EXCEPT !.bytes = {}]
  /\ pc' = "discarded"
  /\ UNCHANGED << goal, disk, mem, frame, views, commits, agent, verified, OwnerVars >>

RecordDiscard ==
  /\ pc = "discarded"
  /\ Save([Adopting(mem) EXCEPT !.pending = None])
  /\ pc' = frame.next
  /\ UNCHANGED << goal, frame, tree, views, commits, agent, verified, OwnerVars >>

(* Fault: the writer of a recovered commit is not recorded. *)
AttributeNobody ==
  /\ Reconciling
  /\ mem.pending # None /\ tree.bytes = {}
  /\ Save([ (IF tree.head = frame.base THEN mem ELSE Adopting(mem))
              EXCEPT !.pending = None ])
  /\ pc' = frame.next
  /\ UNCHANGED << goal, frame, tree, views, commits, agent, verified, OwnerVars >>

(* A commit beyond the base of the attempt is the pending writer's. *)
AttributeAttempt ==
  /\ Reconciling
  /\ mem.pending # None /\ tree.bytes = {}
  /\ Save(IF tree.head = frame.base THEN [mem EXCEPT !.pending = None]
          ELSE [ Adopting(mem) EXCEPT
                   !.contributors = @ \cup {mem.pending}, !.pending = None ])
  /\ pc' = frame.next
  /\ UNCHANGED << goal, frame, tree, views, commits, agent, verified, OwnerVars >>

Attributable ==
  /\ tree.bytes = {}
  /\ tree.head = frame.base
  /\ tree.head = Base \/ mem.contributors # {}

NothingPending ==
  /\ Reconciling
  /\ mem.pending = None
  /\ frame.next # "cancelled"
  /\ Attributable
  /\ pc' = frame.next
  /\ UNCHANGED << goal, disk, mem, frame, tree, views, commits, agent, verified, OwnerVars >>

RefuseUnattributed ==
  /\ Reconciling
  /\ mem.pending = None
  /\ frame.next # "cancelled"
  /\ ~Attributable
  /\ Down
  /\ UNCHANGED << goal, disk, tree, views, commits, agent, verified, OwnerVars >>

(* enforce_unattributed=False: a cancelled run is terminal. *)
AdoptCancelled ==
  /\ Reconciling
  /\ mem.pending = None
  /\ frame.next = "cancelled"
  /\ IF tree.head # frame.base \/ mem.candidate # tree.bound
     THEN Save(Adopting(mem)) ELSE UNCHANGED << mem, disk >>
  /\ pc' = "cancelled"
  /\ UNCHANGED << goal, frame, tree, views, commits, agent, verified, OwnerVars >>

-----------------------------------------------------------------------------
(* _finish: the run state first, then goal.json. *)

(* Fault: the run state is not saved before the goal is finalized. *)
FinishingUnsaved(status) ==
  /\ mem' = [mem EXCEPT !.status = status] /\ UNCHANGED disk
  /\ pc' = "finalize"
  /\ frame' = NoFrame

Finishing(status) ==
  /\ Save([mem EXCEPT !.status = status])
  /\ pc' = "finalize"
  /\ frame' = NoFrame

(* The runner's copy of the record is saved, whatever the file says now. *)
Finalize ==
  /\ pc = "finalize"
  /\ goal' = [goal EXCEPT !.status = mem.status]
  /\ Down
  /\ UNCHANGED << disk, tree, views, commits, agent, verified, OwnerVars >>

FinishCancelled ==
  /\ pc = "cancelled"
  /\ Finishing("cancelled")
  /\ UNCHANGED << goal, tree, views, commits, agent, verified, OwnerVars >>

-----------------------------------------------------------------------------
(* _loop_with_candidate: the head of the loop. *)

CancelRequested == goal.status = "cancelled"

(* Fault: the last call is not counted. *)
CallsOverspent == mem.calls > MaxAgentCalls

CallsSpent == mem.calls >= MaxAgentCalls

AttemptsSpent == \/ mem.attempts >= MaxAttempts
                 \/ mem.failures >= MaxConsecutiveFailures

StopCancelled ==
  /\ pc = "top"
  /\ CancelRequested
  /\ Finishing("cancelled")
  /\ UNCHANGED << goal, tree, views, commits, agent, verified, OwnerVars >>

(* The wall time may be over at any iteration. *)
StopExhausted ==
  /\ pc = "top"
  /\ ~CancelRequested
  /\ Finishing("budget_exhausted")
  /\ UNCHANGED << goal, tree, views, commits, agent, verified, OwnerVars >>

StopBlocked ==
  /\ pc = "top"
  /\ ~CancelRequested
  /\ ~CallsSpent /\ AttemptsSpent
  /\ Finishing("blocked")
  /\ UNCHANGED << goal, tree, views, commits, agent, verified, OwnerVars >>

(* The acceptance checks, in the writer's worktree; with all of them met   *)
(* the candidate is frozen, else a writer is called.                       *)
RunChecks ==
  /\ pc = "top"
  /\ ~CancelRequested
  /\ ~CallsSpent /\ ~AttemptsSpent
  /\ \E unmet \in SUBSET Checks, litter \in Litter :
       /\ Save([mem EXCEPT !.unmet = unmet])
       /\ tree' = [tree EXCEPT !.bytes = @ \cup litter]
       /\ frame' = [NoFrame EXCEPT !.prev = mem.unmet, !.next = "verify"]
       /\ pc' = IF unmet = {} THEN "commit" ELSE "write"
  /\ UNCHANGED << goal, views, commits, agent, verified, OwnerVars >>

-----------------------------------------------------------------------------
(* _commit_candidate: before the evaluation of a candidate, and after a    *)
(* writer's attempt.                                                       *)

CommitNothing ==
  /\ pc = "commit"
  /\ tree.bytes = {}
  /\ Save([Adopting(mem) EXCEPT !.pending = None])
  /\ pc' = frame.next
  /\ UNCHANGED << goal, frame, tree, views, commits, agent, verified, OwnerVars >>

CommitRefused ==
  /\ pc = "commit"
  /\ tree.bytes # {}
  /\ mem.pending = None
  /\ Down
  /\ UNCHANGED << goal, disk, tree, views, commits, agent, verified, OwnerVars >>

BeginAdvance ==
  /\ pc = "commit"
  /\ tree.bytes # {}
  /\ mem.pending # None
  /\ tree' = [tree EXCEPT !.advancing = TRUE]
  /\ pc' = "advance"
  /\ UNCHANGED << goal, disk, mem, frame, views, commits, agent, verified, OwnerVars >>

(* GitOps.commit_all: everything in the worktree. *)
CommitAll ==
  /\ pc = "advance"
  /\ commits' = Append(commits, Authors(tree.head) \cup tree.bytes)
  /\ tree' = [tree EXCEPT !.head = Len(commits) + 1, !.bytes = {}]
  /\ pc' = "advanced"
  /\ UNCHANGED << goal, disk, mem, frame, views, agent, verified, OwnerVars >>

CompleteAdvance ==
  /\ pc = "advanced"
  /\ tree' = [tree EXCEPT !.bound = tree.head, !.advancing = FALSE]
  /\ pc' = "record"
  /\ UNCHANGED << goal, disk, mem, frame, views, commits, agent, verified, OwnerVars >>

(* Fault: the evidence about the old candidate is kept. *)
RecordCommitOnly ==
  /\ pc = "record"
  /\ Save([ mem EXCEPT !.candidate = tree.bound,
                       !.contributors = @ \cup {mem.pending}, !.pending = None ])
  /\ frame' = [frame EXCEPT !.advanced = TRUE]
  /\ pc' = frame.next
  /\ UNCHANGED << goal, tree, views, commits, agent, verified, OwnerVars >>

RecordCommit ==
  /\ pc = "record"
  /\ Save([ Adopting(mem) EXCEPT
              !.contributors = @ \cup {mem.pending}, !.pending = None ])
  /\ frame' = [frame EXCEPT !.advanced = TRUE]
  /\ pc' = frame.next
  /\ UNCHANGED << goal, tree, views, commits, agent, verified, OwnerVars >>

-----------------------------------------------------------------------------
(* _evaluate_candidate and _immutable_verification. *)

(* Fault: the findings of another candidate count, not those of this one. *)
BlockedBefore(state) == \E r \in state.reviews : r.sha # state.candidate /\ r.blocking

(* blocking_findings *)
Blocked(state) == \E r \in state.reviews : r.sha = state.candidate /\ r.blocking

StillBlocked ==
  /\ pc = "verify"
  /\ Blocked(mem)
  /\ pc' = "write"
  /\ UNCHANGED << goal, disk, mem, frame, tree, views, commits, agent, verified, OwnerVars >>

AlreadyTested ==
  /\ pc = "verify"
  /\ ~Blocked(mem)
  /\ mem.tested = mem.candidate
  /\ pc' = "gate"
  /\ UNCHANGED << goal, disk, mem, frame, tree, views, commits, agent, verified, OwnerVars >>

(* ManagedWorktrees.create of a disposable view: one that a runner left    *)
(* behind is made anew if it is of the same SHA and refused if it is not.  *)
ViewRefused(purpose) == views[purpose] \notin {None, mem.candidate}

CreateView(purpose) ==
  /\ ~ViewRefused(purpose)
  /\ views' = [views EXCEPT ![purpose] = mem.candidate]

RemoveView(purpose) == views' = [views EXCEPT ![purpose] = None]

VerificationDue ==
  /\ pc = "verify"
  /\ ~Blocked(mem)
  /\ mem.tested # mem.candidate

Verify ==
  /\ VerificationDue
  /\ CreateView("verification")
  /\ pc' = "verifying"
  /\ UNCHANGED << goal, disk, mem, frame, tree, commits, agent, verified, OwnerVars >>

(* In a fresh checkout of exactly the candidate; commands that fail, touch *)
(* tracked files or move its HEAD all end here.                            *)
VerifyFails ==
  /\ pc = "verifying"
  /\ RemoveView("verification")
  /\ pc' = "write"
  /\ UNCHANGED << goal, disk, mem, frame, tree, commits, agent, verified, OwnerVars >>

VerifyPasses ==
  /\ pc = "verifying"
  /\ RemoveView("verification")
  /\ verified' = verified \cup {mem.candidate}
  /\ Save([mem EXCEPT !.tested = mem.candidate, !.failures = 0])
  /\ pc' = "gate"
  /\ UNCHANGED << goal, frame, tree, commits, agent, OwnerVars >>

(* _review_required, for a candidate that no review has passed yet *)
ReviewDue ==
  /\ mem.candidate \in NeedsReview
  /\ mem.passed # mem.candidate

Achieve ==
  /\ pc = "gate"
  /\ ~ReviewDue
  /\ Finishing("achieved")
  /\ UNCHANGED << goal, tree, views, commits, agent, verified, OwnerVars >>

-----------------------------------------------------------------------------
(* _review_candidate. *)

Reviewer == route_task("review", mem.reviewFailures + 1)

(* Fault: only the configured implementer may not review. *)
ExcludedImplementer(state) == {Configured["implement"]} \ {NoResource}

Excluded(state) == state.contributors \cup ({Configured["implement"]} \ {NoResource})

ReviewFatal ==
  /\ pc = "gate"
  /\ ReviewDue
  /\ Reviewer \in Excluded(mem)
  /\ Finishing("failed")
  /\ UNCHANGED << goal, tree, views, commits, agent, verified, OwnerVars >>

(* The reviewer works in a pinned checkout of its own. *)
InvokeReviewer ==
  /\ pc = "gate"
  /\ ReviewDue
  /\ Reviewer \notin Excluded(mem)
  /\ CreateView("review")
  /\ Save([mem EXCEPT !.calls = @ + 1])
  /\ agent' = [by |-> Reviewer, writes |-> FALSE, exit |-> "running"]
  /\ pc' = "reviewing"
  /\ UNCHANGED << goal, frame, tree, commits, verified, OwnerVars >>

ViewInTheWay ==
  /\ \/ VerificationDue /\ ViewRefused("verification")
     \/ /\ pc = "gate" /\ ReviewDue /\ Reviewer \notin Excluded(mem)
        /\ ViewRefused("review")
  /\ Down
  /\ UNCHANGED << goal, disk, tree, views, commits, agent, verified, OwnerVars >>

Returned(place) == pc = place /\ agent # None /\ agent.exit # "running"

(* The outcome of a review is saved before its checkout is removed. *)
Reviewed(next) == pc' = "reviewed" /\ frame' = [frame EXCEPT !.next = next]

(* _record_review_failure: a failed agent, a moved HEAD, no valid findings. *)
ReviewFails ==
  /\ Returned("reviewing")
  /\ agent' = None
  /\ Save([mem EXCEPT !.reviewFailures = @ + 1])
  /\ Reviewed("misreviewed")
  /\ UNCHANGED << goal, tree, views, commits, verified, OwnerVars >>

ReviewCompletes ==
  /\ Returned("reviewing")
  /\ agent.exit = "ok"
  /\ agent' = None
  /\ \E blocking \in BOOLEAN :
       /\ Save([mem EXCEPT !.reviews = @ \cup
                  {[sha |-> mem.candidate, by |-> agent.by, blocking |-> blocking]}])
       /\ Reviewed(IF blocking THEN "write" ELSE "passed")
  /\ UNCHANGED << goal, tree, views, commits, verified, OwnerVars >>

EndReview ==
  /\ pc = "reviewed"
  /\ RemoveView("review")
  /\ pc' = frame.next
  /\ UNCHANGED << goal, disk, mem, frame, tree, commits, agent, verified, OwnerVars >>

GiveUpReview ==
  /\ pc = "misreviewed"
  /\ mem.reviewFailures >= MaxReviewFailures
  /\ Finishing("failed")
  /\ UNCHANGED << goal, tree, views, commits, agent, verified, OwnerVars >>

RetryReview ==
  /\ pc = "misreviewed"
  /\ mem.reviewFailures < MaxReviewFailures
  /\ pc' = "top"
  /\ frame' = NoFrame
  /\ UNCHANGED << goal, disk, mem, tree, views, commits, agent, verified, OwnerVars >>

RecordPass ==
  /\ pc = "passed"
  /\ Save([mem EXCEPT !.passed = mem.candidate])
  /\ pc' = "gate"
  /\ UNCHANGED << goal, frame, tree, views, commits, agent, verified, OwnerVars >>

-----------------------------------------------------------------------------
(* One writer. *)

(* The attribution of the attempt is durable before the writer exists. *)
AnnounceWriter ==
  /\ pc = "write"
  /\ Save([mem EXCEPT !.attempts = @ + 1,
                      !.pending = route_task("implement", mem.failures + 1)])
  /\ pc' = "invoke"
  /\ UNCHANGED << goal, frame, tree, views, commits, agent, verified, OwnerVars >>

InvokeWriter ==
  /\ pc = "invoke"
  /\ Save([mem EXCEPT !.calls = @ + 1])
  /\ agent' = [by |-> mem.pending, writes |-> TRUE, exit |-> "running"]
  /\ pc' = "writing"
  /\ UNCHANGED << goal, frame, tree, views, commits, verified, OwnerVars >>

WriterReturns ==
  /\ Returned("writing")
  /\ agent' = None
  /\ \/ HeadMoved /\ Down
     \/ /\ ~HeadMoved /\ agent.exit = "failed"
        /\ pc' = "reconcile"
        /\ frame' = [frame EXCEPT !.base = tree.bound, !.next = "failed"]
        /\ UNCHANGED mem
     \/ /\ ~HeadMoved /\ agent.exit = "ok"
        /\ pc' = "written"
        /\ UNCHANGED << mem, frame >>
  /\ UNCHANGED << goal, disk, tree, views, commits, verified, OwnerVars >>

CountFailure ==
  /\ pc = "failed"
  /\ Save([mem EXCEPT !.failures = @ + 1])
  /\ pc' = "top"
  /\ frame' = NoFrame
  /\ UNCHANGED << goal, tree, views, commits, agent, verified, OwnerVars >>

(* Fault: the writer's work is committed without another look at goal.json. *)
CheckNothing ==
  /\ pc = "written"
  /\ pc' = "commit"
  /\ frame' = [frame EXCEPT !.next = "measure"]
  /\ UNCHANGED << goal, disk, mem, tree, views, commits, agent, verified, OwnerVars >>

(* The last look at goal.json before the writer's work is committed. *)
CheckCancel ==
  /\ pc = "written"
  /\ pc' = IF CancelRequested THEN "reconcile" ELSE "commit"
  /\ frame' = IF CancelRequested
              THEN [frame EXCEPT !.base = tree.bound, !.next = "cancelled"]
              ELSE [frame EXCEPT !.next = "measure"]
  /\ UNCHANGED << goal, disk, mem, tree, views, commits, agent, verified, OwnerVars >>

(* The checks that were unmet, or all of them, run again: only a newly met *)
(* one resets the escalation ladder, and a new candidate that leaves every *)
(* check met is judged by its verification.                                *)
Measure ==
  /\ pc = "measure"
  /\ \E met \in SUBSET (IF frame.prev = {} THEN Checks ELSE frame.prev), litter \in Litter :
       /\ tree' = [tree EXCEPT !.bytes = @ \cup litter]
       /\ Save([mem EXCEPT !.failures =
                  CASE met \cap mem.unmet # {} -> 0
                    [] met \cap mem.unmet = {} /\ mem.unmet = {} /\ frame.advanced -> @
                    [] OTHER -> @ + 1])
  /\ pc' = "top"
  /\ frame' = NoFrame
  /\ UNCHANGED << goal, views, commits, agent, verified, OwnerVars >>

-----------------------------------------------------------------------------
Owner == Approve \/ ApproveBaseline \/ Cancel \/ TerminateAgent

Agents == AgentEdits \/ AgentMovesHead \/ AgentExits

Reconcile ==
  \/ DiscardBytes \/ RecordDiscard \/ AttributeAttempt
  \/ NothingPending \/ RefuseUnattributed \/ AdoptCancelled

Evaluate ==
  \/ StillBlocked \/ AlreadyTested \/ Verify \/ VerifyFails \/ VerifyPasses
  \/ Achieve \/ ReviewFatal \/ InvokeReviewer \/ ViewInTheWay
  \/ ReviewFails \/ ReviewCompletes \/ EndReview \/ GiveUpReview \/ RetryReview
  \/ RecordPass

Commit ==
  \/ CommitNothing \/ CommitRefused \/ BeginAdvance \/ CommitAll
  \/ CompleteAdvance \/ RecordCommit

Write ==
  \/ AnnounceWriter \/ InvokeWriter \/ WriterReturns \/ CountFailure
  \/ CheckCancel \/ Measure

Runner ==
  \/ StartBaseline \/ BeginRun \/ AnnounceRun \/ CreateCandidate
  \/ ReplayFinish \/ Resume \/ Acquire \/ AcquireNothing \/ AcquireRefuses
  \/ Reconcile \/ FinishCancelled \/ Finalize
  \/ StopCancelled \/ StopExhausted \/ StopBlocked \/ RunChecks
  \/ Commit \/ Evaluate \/ Write

Next == Owner \/ Agents \/ Start \/ Runner \/ Crash

Spec == Init /\ [][Next]_vars

(* A runner keeps running, an agent it waits for is ended by its deadline  *)
(* if not by itself, and somebody resumes a run that was left behind.      *)
(* Nobody has to approve, start or cancel, and an orphan may live on until *)
(* a resume terminates it.                                                 *)
FairSpec == Spec /\ WF_vars(Runner) /\ WF_vars(Waiting /\ AgentExits)
=============================================================================
