------------------------------ MODULE GoalProofs ------------------------------
(***************************************************************************)
(* Theorems about a goal run, for any resources, catalog, limits and       *)
(* number of crashes.                                                      *)
(***************************************************************************)
EXTENDS GoalProperties, TLAPS

(* Where the runner stands. *)
Idle       == {"down", "baseline", "begin"}
Opening    == {"announce", "create", "acquire"}
Recovering == {"reconcile", "discarded"}
Committing == {"commit", "advance", "advanced", "record"}
Gated      == {"gate", "reviewing", "reviewed", "misreviewed", "passed"}
Judging    == {"verify", "verifying"} \cup Gated
Attempting == {"invoke", "writing", "written"}
Aside      == {"top", "write", "failed", "measure"}
Ending     == {"cancelled", "finalize"}

Bytes == Resources \cup {Shell, Late}
Shas  == Nat \cup {None}

GoalStates ==
  [status : {"prepared", "approved", "running"} \cup Ended, baselined : BOOLEAN]

Reviews == [sha : Nat, by : Resources, blocking : BOOLEAN]

RunStates ==
  [ status : {"none", "running"} \cup Ended, worktree : BOOLEAN, candidate : Shas,
    tested : Shas, passed : Shas, calls : Nat, attempts : Nat, failures : Nat,
    unmet : SUBSET Checks, reviews : SUBSET Reviews, reviewFailures : Nat,
    pending : Resources \cup {None}, contributors : SUBSET Resources ]

Frames ==
  [ prev : SUBSET Checks, base : Nat, advanced : BOOLEAN,
    next : {"top", "cancelled", "failed", "verify", "measure", "write", "passed",
            "misreviewed"} ]

Trees ==
  [ exists : BOOLEAN, bound : Nat, head : Nat, advancing : BOOLEAN, bytes : SUBSET Bytes ]

ViewStates == [verification : Shas, review : Shas]

Histories == Seq(SUBSET Bytes)

Exited == {"running", "ok", "failed"}

AgentStates == {None} \cup [by : Resources, writes : BOOLEAN, exit : Exited]

Places ==
  Idle \cup Opening \cup Recovering \cup Committing \cup Judging \cup Attempting
    \cup Aside \cup Ending

Types ==
  /\ goal \in GoalStates /\ disk \in RunStates /\ mem \in RunStates
  /\ pc \in Places /\ frame \in Frames
  /\ tree \in Trees /\ views \in ViewStates /\ commits \in Histories
  /\ agent \in AgentStates
  /\ verified \in SUBSET Nat
  /\ approving \in BOOLEAN /\ killing \in BOOLEAN /\ cancelled \in BOOLEAN
  /\ crashes \in Nat

(* The way back from a shared stage, and on which stages a cancelled run   *)
(* is on its way out.                                                      *)
Returns ==
  /\ pc \in Recovering => frame.next \in {"top", "cancelled", "failed"}
  /\ pc = "acquire" => frame.next \in {"top", "cancelled"}
  /\ pc \in Committing => frame.next = IF disk.pending = None THEN "verify" ELSE "measure"
  /\ pc = "reviewed" => frame.next \in {"write", "passed", "misreviewed"}
  /\ frame.next = "cancelled" => pc \in Recovering \cup {"acquire", "cancelled"}

(* What the runner has in memory, the mark of the worktree and the tested  *)
(* commit aside, is what a crash leaves in the file.                       *)
InStep ==
  /\ pc \notin Idle =>
       /\ mem.status = disk.status
       /\ mem.candidate = disk.candidate
       /\ mem.passed = disk.passed
       /\ mem.calls = disk.calls
       /\ mem.attempts = disk.attempts
       /\ mem.reviews = disk.reviews
       /\ mem.pending = disk.pending
       /\ mem.contributors = disk.contributors
  /\ pc = "acquire" => mem = disk
  /\ pc \notin Idle \cup Opening \cup Ending => mem.worktree = TRUE
  /\ disk.pending # None \/ disk.candidate # None => disk.worktree = TRUE
  /\ pc \notin Idle /\ (mem.pending # None \/ mem.candidate # None) => mem.worktree = TRUE
  /\ pc \in {"baseline", "begin"} => disk.status # "running"
  /\ pc = "finalize" => disk.status \in Ended
  /\ pc \notin Idle \cup {"finalize"} => disk.status = "running"

(* The two files fit together. *)
FilesAgree ==
  /\ ResumeAccepted
  /\ pc \in {"baseline", "begin"} => goal.status \in {"approved", "cancelled"}

(* An agent belongs to the attempt that the file announces. *)
AgentsAnnounced ==
  agent # None =>
    /\ disk.status = "running"
    /\ pc \in {"writing", "reviewing", "down", "acquire"}
    /\ tree.advancing = FALSE
    /\ agent.writes = TRUE => tree.exists = TRUE
    /\ agent.writes = TRUE => agent.by = disk.pending /\ pc # "reviewing"
    /\ pc = "reviewing" => agent.by \notin disk.contributors

(* HEAD is where the manager has bound it, except in a SHA advance and     *)
(* where an agent that is not looked at yet has moved it.                  *)
TreeBound ==
  /\ tree.bound <= tree.head /\ tree.head <= Len(commits)
  /\ pc \notin Idle \cup Opening \cup Ending => tree.exists = TRUE
  /\ tree.exists = FALSE =>
       tree.head = tree.bound /\ tree.advancing = FALSE /\ tree.bytes = {}
  /\ tree.head # tree.bound =>
       disk.status = "running" /\ pc \in {"advanced", "writing", "down", "acquire"}
  /\ tree.advancing = TRUE =>
       disk.status = "running" /\ pc \in {"advance", "advanced", "down", "acquire"}
  /\ pc \in {"advance", "advanced"} => tree.advancing = TRUE
  /\ tree.head # tree.bound /\ tree.advancing = TRUE => tree.bytes = {}
  /\ pc \in {"advanced", "record", "discarded"} => tree.bytes = {}

(* An attempt is pending from its announcement to its commit, discard or   *)
(* recovery.                                                               *)
PendingPlaced ==
  /\ pc \in {"announce", "create"} \cup Judging \cup Aside \cup Ending => disk.pending = None
  /\ pc \in Attempting \cup (Committing \ {"commit"}) => disk.pending # None

Settled == Authors(tree.head) \ {Shell, Late} \subseteq disk.contributors

(* As long as an attempt is not committed, the file covers the authors of  *)
(* HEAD without it; and the recorded candidate always.                     *)
AttemptApart ==
  /\ Attributed
  /\ disk.pending = None => tree.bytes \subseteq {Shell}
  /\ disk.candidate # None =>
       Authors(disk.candidate) \ {Shell, Late} \subseteq disk.contributors
  /\ tree.head = tree.bound =>
       /\ pc \in Attempting \cup {"commit", "advance", "discarded"} => Settled
       /\ agent # None /\ agent.writes = TRUE => Settled
       /\ disk.pending # None /\ tree.bytes # {} => Settled
  /\ pc = "acquire" => frame.base = Base \/ frame.base = disk.candidate
  /\ pc = "reconcile" /\ frame.base = tree.head =>
       Settled /\ disk.candidate \in {None, tree.bound}

(* The candidate only moves forward with the worktree, and evidence about  *)
(* it stays behind.                                                        *)
EvidenceFits ==
  /\ LoadableState
  /\ disk.candidate # None => disk.candidate <= tree.bound
  /\ disk.passed # None => disk.passed <= disk.candidate
  /\ pc \notin Idle \cup Recovering \cup {"acquire", "record"} =>
       disk.candidate \in {None, tree.bound}
  /\ pc \in Judging => disk.candidate = tree.bound
  /\ pc \in {"announce", "create"} => disk.candidate = None
  /\ pc \notin Idle =>
       /\ mem.tested # None => mem.tested = mem.candidate
       /\ mem.passed # None /\ mem.passed = mem.candidate /\ mem.candidate = tree.bound =>
            mem.tested # None
  /\ pc \in Gated => mem.tested = mem.candidate

Freezing == pc = "commit" /\ disk.pending = None

(* An iteration that has passed the look at the limits spends at most one  *)
(* attempt and two calls.                                                  *)
LimitsAhead ==
  /\ LimitsHold
  /\ pc \in Judging \cup {"write"} \/ Freezing =>
       disk.attempts < MaxAttempts
  /\ pc \in {"verify", "verifying"} \/ Freezing =>
       disk.calls < MaxAgentCalls
  /\ pc \in Gated \cup {"write", "invoke"} => disk.calls <= MaxAgentCalls
  /\ pc = "gate" /\ disk.candidate \in NeedsReview /\ disk.passed # disk.candidate =>
       disk.calls < MaxAgentCalls

ReviewedCandidate == \E r \in disk.reviews : r.sha = disk.candidate

Passing == \/ pc = "passed"
           \/ pc = "reviewed" /\ frame.next = "passed"

(* Every claim of the file about a commit has its evidence. *)
ClaimsHold ==
  /\ \A r \in disk.reviews : r.sha <= Len(commits) /\ r.by \notin Authors(r.sha)
  /\ disk.tested # None => disk.tested \in verified
  /\ pc \notin Idle /\ mem.tested # None => mem.tested \in verified
  /\ disk.passed # None => \E r \in disk.reviews : r.sha = disk.passed
  /\ pc \in {"verifying", "gate", "reviewing"} \/ Passing => ~Blocked(disk)
  /\ Passing => ReviewedCandidate
  /\ AchievedOnEvidence

(* The cancel has been overwritten, and nobody is about to restore it. *)
Uncancelled ==
  /\ cancelled = TRUE
  /\ "cancelled" \notin {goal.status, disk.status, frame.next, pc}

(* Late bytes get beyond the last look at goal.json only if the cancel was *)
(* overwritten before it.                                                  *)
LateKeptOut ==
  /\ Late \in tree.bytes \/ "cancelled" \in {goal.status, disk.status, frame.next, pc} =>
       cancelled = TRUE
  /\ Late \in Authors(tree.bound) => Uncancelled
  /\ tree.advancing = TRUE /\ Late \in Authors(tree.head) => Uncancelled
  /\ pc \in {"commit", "advance"} /\ Late \in tree.bytes => Uncancelled

IInv ==
  /\ Types /\ Returns /\ InStep /\ FilesAgree /\ AgentsAnnounced /\ TreeBound
  /\ PendingPlaced /\ AttemptApart /\ EvidenceFits /\ LimitsAhead /\ ClaimsHold
  /\ LateKeptOut
-----------------------------------------------------------------------------
USE DEF Idle, Opening, Recovering, Committing, Gated, Judging, Attempting,
        Aside, Ending, Ended, Shas, Bytes, Base, Late

(* The router only ever names an external agent. *)
LEMMA RoutedToResource ==
  ASSUME NEW kind \in TaskKinds, NEW attempt \in Nat
  PROVE  route_task(kind, attempt) \in Resources
<1> DEFINE tier == TaskTier(kind, attempt)
<1>1. tier \in Tiers
  BY DEF TaskTier, BaseTier, Escalate, Tiers, TopTier
<1>2. Serving(tier) \subseteq Tiers /\ TopTier \in Serving(tier)
  BY <1>1, RoutingAssumption DEF Serving, Tiers, TopTier
<1>3. \E t \in Serving(tier) : \A u \in Serving(tier) : t <= u
  BY <1>2 DEF Tiers, TopTier
<1>4. ServingTier(tier) \in Serving(tier)
  BY <1>3 DEF ServingTier
<1>5. FirstInTier[ServingTier(tier)] \in Resources
  BY <1>2, <1>4, GoalAssumption DEF Serving
<1> QED
  BY <1>5, GoalAssumption DEF route_task

(* Whoever is routed next, as writer or as reviewer, is one of them.       *)
LEMMA RoutedAgents ==
  ASSUME Types
  PROVE  /\ route_task("implement", mem.failures + 1) \in Resources
         /\ Reviewer \in Resources
<1>1. mem.failures + 1 \in Nat /\ mem.reviewFailures + 1 \in Nat
  BY DEF Types, RunStates
<1> QED
  BY <1>1, RoutedToResource DEF Reviewer, TaskKinds

(* A commit keeps its authors when another is made. *)
LEMMA AuthorsKept ==
  ASSUME Types, NEW authors \in SUBSET Bytes, commits' = Append(commits, authors)
  PROVE  /\ commits' \in Histories
         /\ Len(commits) \in Nat /\ Len(commits') = Len(commits) + 1
         /\ \A sha \in Nat : sha <= Len(commits) => Authors(sha)' = Authors(sha)
         /\ \A sha \in Nat : sha = Len(commits) + 1 => Authors(sha)' = authors
<1>1. commits \in Seq(SUBSET Bytes)
  BY DEF Types, Histories
<1>2. /\ commits' \in Seq(SUBSET Bytes)
      /\ Len(commits) \in Nat /\ Len(commits') = Len(commits) + 1
      /\ \A sha \in 1..Len(commits) : commits'[sha] = commits[sha]
      /\ commits'[Len(commits) + 1] = authors
  BY <1>1
<1> QED
  BY <1>2 DEF Authors, Histories

(* The authors of a commit are agents, the checks, or the late mark.       *)
LEMMA AuthorsTyped ==
  ASSUME Types, NEW sha \in Nat, sha <= Len(commits)
  PROVE  Authors(sha) \subseteq Bytes
<1>1. commits \in Seq(SUBSET Bytes)
  BY DEF Types, Histories
<1> QED
  BY <1>1 DEF Authors
(* A run begins in a run state.                                            *)
LEMMA FreshTyped == Fresh \in RunStates /\ NoRun \in RunStates
<1>1. Fresh \in RunStates
  BY DEF Fresh, RunStates
<1> QED
  BY <1>1 DEF NoRun, RunStates

(* The binding of the manager is a candidate.                              *)
LEMMA AdoptingTyped ==
  ASSUME Types, NEW state \in RunStates
  PROVE  Adopting(state) \in RunStates
<1>1. tree.bound \in Nat
  BY DEF Types, Trees
<1> QED
  BY <1>1 DEF Adopting, RunStates


(* A runner starts with its locals in their types.                         *)
LEMMA FramesTyped == NoFrame \in Frames
  BY DEF NoFrame, Frames

(* A step leaves every variable in its type.                               *)
LEMMA TypesKept ==
  ASSUME Types, InStep, PendingPlaced, AgentsAnnounced, TreeBound,
         EvidenceFits, [Next]_vars
  PROVE  Types'
<1>1. CASE Approve
  BY <1>1 DEF Approve, Places, GoalStates, Types, OwnerVars
<1>2. CASE ApproveBaseline
  <2>1. goal' \in GoalStates
    <3>1. [status |-> "approved", baselined |-> TRUE] \in GoalStates
      BY DEF GoalStates
    <3> QED
      BY <1>2, <3>1 DEF ApproveBaseline, Types
  <2> QED
    BY <1>2, <2>1 DEF ApproveBaseline, Types
<1>3. CASE Cancel
  BY <1>3 DEF Cancel, Places, GoalStates, Types, OwnerVars
<1>4. CASE TerminateAgent
  BY <1>4 DEF TerminateAgent, Exits, Running, Waiting, Places, AgentStates,
     Exited, Types, OwnerVars
<1>5. CASE AgentEdits
  BY <1>5 DEF AgentEdits, Running, Places, Trees, AgentStates, Types, OwnerVars
<1>6. CASE AgentMovesHead
  <2>1. tree.head \in Nat /\ tree.bytes \subseteq Bytes /\ tree.head <= Len(commits)
    BY DEF Types, Trees, TreeBound
  <2>2. Authors(tree.head) \cup tree.bytes \in SUBSET Bytes
    BY <2>1, AuthorsTyped
  <2>3. commits' \in Histories /\ Len(commits) \in Nat
    BY <1>6, <2>2, AuthorsKept DEF AgentMovesHead
  <2>4. tree \in Trees /\ Len(commits) + 1 \in Nat
    BY <2>3 DEF Types
  <2>5. tree' \in Trees
    BY <1>6, <2>4 DEF AgentMovesHead, Trees
  <2>6. UNCHANGED << goal, disk, mem, pc, frame, views, agent, verified, OwnerVars >>
    BY <1>6 DEF AgentMovesHead
  <2> QED
    BY <2>3, <2>5, <2>6 DEF Types, OwnerVars, Places
<1>7. CASE AgentExits
  BY <1>7 DEF AgentExits, Running, Exits, Waiting, Places, AgentStates, Exited,
     Types, OwnerVars
<1>8. CASE Crash
  BY <1>8, FreshTyped, FramesTyped DEF Crash, Running, Places, Down,
     AgentStates, Exited, Types, OwnerVars
<1>9. CASE Start
  BY <1>9 DEF Start, Places, Types, OwnerVars
<1>10. CASE StartBaseline
  <2>1. [status |-> "approved", baselined |-> TRUE] \in GoalStates
    BY DEF GoalStates
  <2> QED
    BY <1>10, <2>1, FreshTyped, FramesTyped DEF StartBaseline, Down, Types, OwnerVars, Places
<1>11. CASE BeginRun
  <2>1. NoTree \in Trees /\ NoViews \in ViewStates
    BY DEF NoTree, Trees, NoViews, ViewStates
  <2> QED
    BY <1>11, <2>1, FreshTyped DEF BeginRun, Save, Types, OwnerVars, Places
<1>12. CASE AnnounceRun
  BY <1>12 DEF AnnounceRun, Places, GoalStates, Types, OwnerVars
<1>13. CASE CreateCandidate
  <2>1. tree' \in Trees
    BY <1>13 DEF CreateCandidate, NoTree, Trees
  <2>2. mem' \in RunStates
    BY <1>13 DEF CreateCandidate, Types, RunStates
  <2> QED
    BY <1>13, <2>1, <2>2, FramesTyped DEF CreateCandidate, Types, OwnerVars, Places
<1>14. CASE ReplayFinish
  BY <1>14 DEF ReplayFinish, Places, GoalStates, RunStates, Types, OwnerVars
<1>15. CASE Resume
  BY ZenonT(60), <1>15 DEF Resume, Places, GoalStates, NoFrame, Frames, RunStates, Types,
     OwnerVars
<1>16. CASE Acquire
  <2>1. RecoveredSha \in Nat /\ tree' \in Trees
    BY <1>16 DEF Acquire, RecoveredSha, Types, Trees
  <2>2. Opened(RecoveredSha) \in RunStates
    <3>1. mem \in RunStates /\ mem.contributors \in SUBSET Resources
      BY DEF Types, RunStates
    <3>2. PICK c \in SUBSET Resources :
            Opened(RecoveredSha) = [mem EXCEPT !.worktree = TRUE, !.contributors = c]
      BY <3>1 DEF Opened
    <3> QED
      BY <3>1, <3>2 DEF RunStates
  <2>3. [Opened(RecoveredSha) EXCEPT !.tested = None] \in RunStates
    BY <2>2 DEF RunStates
  <2>4. mem' \in RunStates /\ disk' \in RunStates
    BY <1>16, <2>2, <2>3 DEF Acquire, Save, Types
  <2> QED
    BY <1>16, <2>1, <2>4 DEF Acquire, Types, OwnerVars, AgentStates, Places
<1>17. CASE AcquireNothing
  BY <1>17 DEF AcquireNothing, Places, AgentStates, Exited, Types, OwnerVars
<1>18. CASE AcquireRefuses
  BY <1>18, FreshTyped, FramesTyped DEF AcquireRefuses, HeadMoved, Places,
     Down, AgentStates, Exited, Types, OwnerVars
<1>19. CASE DiscardBytes
  BY <1>19 DEF DiscardBytes, Reconciling, HeadMoved, Places, Trees, Types,
     OwnerVars
<1>20. CASE RecordDiscard
  BY <1>20, AdoptingTyped DEF RecordDiscard, Places, RunStates, Save, Frames,
     Types, OwnerVars
<1>21. CASE AttributeAttempt
  <2>1. mem.pending \in Resources
    BY <1>21 DEF AttributeAttempt, Types, RunStates
  <2>2. /\ [mem EXCEPT !.pending = None] \in RunStates
        /\ [ Adopting(mem) EXCEPT
              !.contributors = @ \cup {mem.pending}, !.pending = None ] \in RunStates
    BY ZenonT(60), <2>1, AdoptingTyped DEF Types, RunStates
  <2>3. mem' \in RunStates /\ disk' \in RunStates
    BY <1>21, <2>2 DEF AttributeAttempt, Save
  <2> QED
    BY <1>21, <2>3 DEF AttributeAttempt, Types, OwnerVars, Frames, Places
<1>22. CASE NothingPending
  BY <1>22 DEF NothingPending, Reconciling, HeadMoved, Attributable, Places,
     Frames, Types, OwnerVars
<1>23. CASE RefuseUnattributed
  BY <1>23, FreshTyped, FramesTyped DEF RefuseUnattributed, Reconciling,
     HeadMoved, Places, Down, Types, OwnerVars
<1>24. CASE AdoptCancelled
  BY <1>24, AdoptingTyped DEF AdoptCancelled, Reconciling, HeadMoved, Places,
     Save, Types, OwnerVars
<1>25. CASE FinishCancelled
  BY <1>25, FramesTyped DEF FinishCancelled, Finishing, Places, RunStates,
     Save, Types, OwnerVars
<1>26. CASE Finalize
  <2>1. mem.status \in Ended
    BY <1>26 DEF Finalize, InStep
  <2>2. goal' \in GoalStates
    BY <1>26, <2>1 DEF Finalize, Types, GoalStates
  <2> QED
    BY <1>26, <2>2, FreshTyped, FramesTyped DEF Finalize, Down, Types, OwnerVars, Places
<1>27. CASE StopCancelled \/ StopExhausted \/ StopBlocked
  BY <1>27, FramesTyped DEF StopCancelled, Finishing, CancelRequested, Places,
     RunStates, Save, StopExhausted, StopBlocked, Types, OwnerVars
<1>28. CASE RunChecks
  <2>1. PICK unmet \in SUBSET Checks, litter \in Litter :
          /\ Save([mem EXCEPT !.unmet = unmet])
          /\ tree' = [tree EXCEPT !.bytes = @ \cup litter]
          /\ frame' = [NoFrame EXCEPT !.prev = mem.unmet, !.next = "verify"]
          /\ pc' = IF unmet = {} THEN "commit" ELSE "write"
    BY <1>28 DEF RunChecks
  <2>2. litter \subseteq Bytes
    BY GoalAssumption
  <2>3. tree' \in Trees
    BY <2>1, <2>2 DEF Types, Trees
  <2>4. frame' \in Frames
    BY <2>1 DEF Types, RunStates, NoFrame, Frames
  <2>5. mem' \in RunStates /\ disk' \in RunStates
    BY <2>1 DEF Save, Types, RunStates
  <2> QED
    BY <1>28, <2>1, <2>3, <2>4, <2>5 DEF RunChecks, Types, OwnerVars, Places
<1>29. CASE CommitNothing
  BY <1>29, AdoptingTyped DEF CommitNothing, Places, RunStates, Save, Frames,
     Types, OwnerVars
<1>30. CASE CommitRefused
  BY <1>30, FreshTyped, FramesTyped DEF CommitRefused, Places, Down, Types,
     OwnerVars
<1>31. CASE BeginAdvance
  BY <1>31 DEF BeginAdvance, Places, Trees, Types, OwnerVars
<1>32. CASE CommitAll
  <2>1. tree.head \in Nat /\ tree.bytes \subseteq Bytes /\ tree.head <= Len(commits)
    BY DEF Types, Trees, TreeBound
  <2>2. Authors(tree.head) \cup tree.bytes \in SUBSET Bytes
    BY <2>1, AuthorsTyped
  <2>3. commits' \in Histories /\ Len(commits) \in Nat
    BY <1>32, <2>2, AuthorsKept DEF CommitAll
  <2>4. tree \in Trees /\ Len(commits) + 1 \in Nat
    BY <2>3 DEF Types
  <2>5. tree' \in Trees
    BY <1>32, <2>4 DEF CommitAll, Trees
  <2> QED
    BY <1>32, <2>3, <2>5 DEF CommitAll, Types, OwnerVars, Places
<1>33. CASE CompleteAdvance
  BY <1>33 DEF CompleteAdvance, Places, Trees, Types, OwnerVars
<1>34. CASE RecordCommit
  BY ZenonT(60), <1>34, AdoptingTyped DEF RecordCommit, Places, RunStates, Save, InStep,
     PendingPlaced, Frames, Types, OwnerVars
<1>35. CASE StillBlocked \/ AlreadyTested \/ Verify \/ VerifyFails
  BY <1>35 DEF StillBlocked, Places, AlreadyTested, Verify, VerificationDue,
     CreateView, ViewRefused, ViewStates, RunStates, VerifyFails, RemoveView,
     Types, OwnerVars
<1>36. CASE VerifyPasses
  BY ZenonT(60), <1>36 DEF VerifyPasses, RemoveView, Places, RunStates, Save, ViewStates,
     EvidenceFits, InStep, Trees, Types, OwnerVars
<1>37. CASE Achieve \/ ReviewFatal
  BY <1>37, FramesTyped DEF Achieve, Finishing, ReviewDue, Places, RunStates,
     Save, ReviewFatal, Types, OwnerVars
<1>38. CASE InvokeReviewer
  BY <1>38, RoutedAgents DEF InvokeReviewer, ReviewDue, Excluded, CreateView,
     ViewRefused, Places, RunStates, Save, AgentStates, Exited, ViewStates,
     Types, OwnerVars
<1>39. CASE ViewInTheWay
  BY <1>39, FreshTyped, FramesTyped DEF ViewInTheWay, Places, Down, Types,
     OwnerVars
<1>40. CASE ReviewFails
  BY <1>40 DEF ReviewFails, Returned, Reviewed, Places, RunStates, Save,
     Frames, AgentStates, Exited, Types, OwnerVars
<1>41. CASE ReviewCompletes
  <2>1. PICK blocking \in BOOLEAN :
          /\ Save([mem EXCEPT !.reviews = @ \cup
                     {[sha |-> mem.candidate, by |-> agent.by, blocking |-> blocking]}])
          /\ Reviewed(IF blocking THEN "write" ELSE "passed")
    BY <1>41 DEF ReviewCompletes
  <2>2. agent.by \in Resources
    BY <1>41 DEF ReviewCompletes, Returned, Types, AgentStates
  <2>3. mem.candidate \in Nat
    BY <1>41 DEF ReviewCompletes, Returned, InStep, EvidenceFits, Types, Trees
  <2>4. [sha |-> mem.candidate, by |-> agent.by, blocking |-> blocking] \in Reviews
    BY <2>2, <2>3 DEF Reviews
  <2>5. mem' \in RunStates /\ disk' \in RunStates
    BY <2>1, <2>4 DEF Save, Types, RunStates
  <2>6. frame' \in Frames /\ pc' \in Places
    BY <2>1 DEF Reviewed, Types, Frames, Places
  <2> QED
    BY <1>41, <2>5, <2>6 DEF ReviewCompletes, Types, OwnerVars, AgentStates
<1>42. CASE EndReview
  BY <1>42 DEF EndReview, RemoveView, Places, Frames, ViewStates, RunStates,
     Types, OwnerVars
<1>43. CASE GiveUpReview \/ RetryReview
  BY <1>43, FramesTyped DEF GiveUpReview, Finishing, Places, RunStates, Save,
     RetryReview, Types, OwnerVars
<1>44. CASE RecordPass
  BY <1>44 DEF RecordPass, Places, RunStates, Save, Types, OwnerVars
<1>45. CASE AnnounceWriter
  <2>1. route_task("implement", mem.failures + 1) \in Resources
    BY RoutedAgents
  <2>2. mem' \in RunStates /\ disk' \in RunStates
    <3>1. mem \in RunStates /\ mem.attempts + 1 \in Nat
      BY DEF Types, RunStates
    <3>2. [mem EXCEPT !.attempts = @ + 1,
                      !.pending = route_task("implement", mem.failures + 1)] \in RunStates
      BY <2>1, <3>1 DEF RunStates
    <3> QED
      BY <1>45, <3>2 DEF AnnounceWriter, Save
  <2> QED
    BY <1>45, <2>2 DEF AnnounceWriter, Types, OwnerVars, Places
<1>46. CASE InvokeWriter
  BY <1>46 DEF InvokeWriter, Places, RunStates, Save, AgentStates, Exited,
     InStep, PendingPlaced, Types, OwnerVars
<1>47. CASE WriterReturns
  BY <1>47, FreshTyped, FramesTyped DEF WriterReturns, Returned, HeadMoved,
     Places, Down, Frames, Trees, AgentStates, Exited, Types, OwnerVars
<1>48. CASE CountFailure
  BY <1>48, FramesTyped DEF CountFailure, Places, RunStates, Save, Types,
     OwnerVars
<1>49. CASE CheckCancel
  BY <1>49 DEF CheckCancel, CancelRequested, Places, Frames, Trees, Types,
     OwnerVars
<1>50. CASE Measure
  BY <1>50, FramesTyped, GoalAssumption DEF Measure, Places, RunStates, Save,
     Trees, Types, OwnerVars
<1>51. CASE UNCHANGED vars
  BY <1>51 DEF vars, OwnerVars, Types
<1> QED
  BY <1>1, <1>2, <1>3, <1>4, <1>5, <1>6, <1>7, <1>8, <1>9, <1>10, <1>11, <1>12,
     <1>13, <1>14, <1>15, <1>16, <1>17, <1>18, <1>19, <1>20, <1>21, <1>22,
     <1>23, <1>24, <1>25, <1>26, <1>27, <1>28, <1>29, <1>30, <1>31, <1>32,
     <1>33, <1>34, <1>35, <1>36, <1>37, <1>38, <1>39, <1>40, <1>41, <1>42,
     <1>43, <1>44, <1>45, <1>46, <1>47, <1>48, <1>49, <1>50, <1>51 DEF Next,
     Owner, Agents, Runner, Reconcile, Evaluate, Commit, Write

(* The way back of a stage leads where the code has it lead.               *)
LEMMA ReturnsKept ==
  ASSUME Types, Returns, InStep, AgentsAnnounced, TreeBound, PendingPlaced,
         [Next]_vars
  PROVE  Returns'
<1>1. CASE Approve \/ ApproveBaseline \/ Cancel \/ TerminateAgent
  BY <1>1 DEF Approve, ApproveBaseline, Cancel, TerminateAgent, Exits, Running,
     Waiting, Types, Returns, OwnerVars
<1>2. CASE AgentEdits \/ AgentMovesHead \/ AgentExits \/ Crash
  BY <1>2 DEF AgentEdits, Running, AgentMovesHead, AgentExits, Exits, Waiting,
     Crash, Down, NoFrame, Types, Returns, OwnerVars
<1>3. CASE Start \/ StartBaseline \/ BeginRun \/ AnnounceRun
  BY <1>3 DEF Start, StartBaseline, Down, NoFrame, BeginRun, RunStates, Save,
     Fresh, AnnounceRun, Types, Returns, OwnerVars
<1>4. CASE CreateCandidate
  BY <1>4 DEF CreateCandidate, RunStates, Save, NoFrame, Types, Returns,
     OwnerVars
<1>5. CASE ReplayFinish
  BY <1>5 DEF ReplayFinish, Types, Returns, OwnerVars
<1>6. CASE Resume
  BY <1>6 DEF Resume, Frames, NoFrame, Types, Returns, OwnerVars
<1>7. CASE Acquire
  BY <1>7 DEF Acquire, RecoveredSha, Opened, RunStates, Save, Types, Returns,
     OwnerVars
<1>8. CASE AcquireNothing \/ AcquireRefuses \/ DiscardBytes \/ RecordDiscard
  BY <1>8 DEF AcquireNothing, AcquireRefuses, Down, NoFrame, DiscardBytes,
     Reconciling, RecordDiscard, Adopting, RunStates, Save, Returns, Types,
     OwnerVars
<1>9. CASE AttributeAttempt \/ NothingPending \/ RefuseUnattributed
            \/ AdoptCancelled
  BY <1>9 DEF AttributeAttempt, Reconciling, Adopting, RunStates, Save,
     Returns, NothingPending, Attributable, RefuseUnattributed, Down, NoFrame,
     AdoptCancelled, Types, OwnerVars
<1>10. CASE FinishCancelled \/ Finalize \/ StopCancelled \/ StopExhausted
  BY <1>10 DEF FinishCancelled, Finishing, RunStates, Save, NoFrame, Finalize,
     Down, StopCancelled, CancelRequested, StopExhausted, Types, Returns,
     OwnerVars
<1>11. CASE StopBlocked
  BY <1>11 DEF StopBlocked, Finishing, CancelRequested, RunStates, Save,
     NoFrame, Types, Returns, OwnerVars
<1>12. CASE RunChecks
  BY <1>12 DEF RunChecks, CancelRequested, CallsSpent, AttemptsSpent,
     RunStates, Save, NoFrame, PendingPlaced, InStep, Types, Returns, OwnerVars
<1>13. CASE CommitNothing
  BY <1>13 DEF CommitNothing, Adopting, RunStates, Save, Returns,
     PendingPlaced, InStep, Types, OwnerVars
<1>14. CASE CommitRefused
  BY <1>14 DEF CommitRefused, Down, NoFrame, Types, Returns, OwnerVars
<1>15. CASE BeginAdvance \/ CommitAll \/ CompleteAdvance \/ RecordCommit
  BY <1>15 DEF BeginAdvance, PendingPlaced, InStep, CommitAll, CompleteAdvance,
     RecordCommit, Adopting, RunStates, Save, Frames, Returns, Types, OwnerVars
<1>16. CASE StillBlocked \/ AlreadyTested \/ Verify \/ VerifyFails
  BY <1>16 DEF StillBlocked, AlreadyTested, Verify, VerificationDue,
     CreateView, ViewRefused, VerifyFails, RemoveView, Types, Returns,
     OwnerVars
<1>17. CASE VerifyPasses \/ Achieve \/ ReviewFatal \/ InvokeReviewer
  BY <1>17 DEF VerifyPasses, RemoveView, RunStates, Save, Achieve, Finishing,
     ReviewDue, NoFrame, ReviewFatal, InvokeReviewer, Reviewer, Excluded,
     CreateView, ViewRefused, Types, Returns, OwnerVars
<1>18. CASE ViewInTheWay \/ ReviewFails \/ ReviewCompletes \/ EndReview
  BY <1>18 DEF ViewInTheWay, Down, NoFrame, ReviewFails, Returned, Reviewed,
     RunStates, Save, Frames, ReviewCompletes, EndReview, RemoveView, Returns,
     Types, OwnerVars
<1>19. CASE GiveUpReview \/ RetryReview \/ RecordPass \/ AnnounceWriter
  BY <1>19 DEF GiveUpReview, Finishing, RunStates, Save, NoFrame, RetryReview,
     RecordPass, AnnounceWriter, Types, Returns, OwnerVars
<1>20. CASE InvokeWriter
  BY <1>20 DEF InvokeWriter, RunStates, Save, Types, Returns, OwnerVars
<1>21. CASE WriterReturns
  <2>1. CASE Down
    BY <2>1 DEF Down, NoFrame, Returns
  <2>2. CASE /\ pc' = "reconcile"
             /\ frame' = [frame EXCEPT !.base = tree.bound, !.next = "failed"]
    BY <2>2 DEF Types, Frames, Returns
  <2>3. CASE pc' = "written" /\ UNCHANGED frame
    BY <1>21, <2>3 DEF WriterReturns, Returned, Returns
  <2> QED
    BY <1>21, <2>1, <2>2, <2>3 DEF WriterReturns
<1>22. CASE CountFailure
  BY <1>22 DEF CountFailure, RunStates, Save, NoFrame, Types, Returns,
     OwnerVars
<1>23. CASE CheckCancel
  BY <1>23 DEF CheckCancel, CancelRequested, Frames, PendingPlaced, InStep,
     Types, Returns, OwnerVars
<1>24. CASE Measure
  BY <1>24 DEF Measure, RunStates, Save, NoFrame, Types, Returns, OwnerVars
<1>25. CASE UNCHANGED vars
  BY <1>25 DEF vars, OwnerVars, Types, Returns
<1> QED
  BY <1>1, <1>2, <1>3, <1>4, <1>5, <1>6, <1>7, <1>8, <1>9, <1>10, <1>11, <1>12,
     <1>13, <1>14, <1>15, <1>16, <1>17, <1>18, <1>19, <1>20, <1>21, <1>22,
     <1>23, <1>24, <1>25 DEF Next, Owner, Agents, Runner, Reconcile, Evaluate,
     Commit, Write

(* The contributors survive the opening of the worktree: the candidate is  *)
(* never ahead of it, so only a run without one is reset.                  *)
LEMMA OpenedKeeps ==
  ASSUME Types, TreeBound, EvidenceFits, InStep, pc = "acquire", tree.exists = TRUE, ~HeadMoved
  PROVE  /\ RecoveredSha = tree.head
         /\ Opened(RecoveredSha) = [mem EXCEPT !.worktree = TRUE]
<1>1. tree.bound \in Nat /\ tree.head \in Nat /\ tree.advancing \in BOOLEAN
  BY DEF Types, Trees
<1>2. RecoveredSha = tree.head
  BY <1>1 DEF RecoveredSha, HeadMoved
<1>3. mem.candidate \in Shas /\ mem \in RunStates
  BY DEF Types, RunStates
<1>4. ~(tree.head = Base /\ mem.candidate \notin {None, Base})
  BY <1>1, <1>3 DEF TreeBound, EvidenceFits, InStep
<1>5. Opened(RecoveredSha) = [mem EXCEPT !.worktree = TRUE, !.contributors = mem.contributors]
  BY <1>2, <1>4 DEF Opened
<1> QED
  BY <1>2, <1>3, <1>5 DEF RunStates

(* What opening the worktree leaves behind.                                *)
LEMMA AcquireEffect ==
  ASSUME Types, TreeBound, EvidenceFits, InStep, Acquire
  PROVE  /\ pc = "acquire" /\ pc' = "reconcile" /\ agent' = None /\ ~HeadMoved
         /\ tree'.head = tree.head /\ tree'.bound = tree.head /\ tree'.bytes = tree.bytes
         /\ tree'.exists = TRUE /\ tree'.advancing = FALSE
         /\ disk' \in {disk, [disk EXCEPT !.worktree = TRUE]}
         /\ mem' = [disk EXCEPT !.worktree = TRUE,
                                !.tested = IF disk.candidate = tree.head THEN @ ELSE None]
         /\ UNCHANGED << goal, frame, commits, verified, OwnerVars >>
<1>1. pc = "acquire" /\ mem = disk /\ disk \in RunStates
  BY DEF Acquire, Types, InStep
<1>2. RecoveredSha = tree.head /\ Opened(RecoveredSha) = [disk EXCEPT !.worktree = TRUE]
  BY <1>1, OpenedKeeps DEF Acquire, Types, Trees
<1>3. /\ tree'.head = tree.head /\ tree'.bound = tree.head /\ tree'.bytes = tree.bytes
      /\ tree'.exists = TRUE /\ tree'.advancing = FALSE
  BY <1>2 DEF Acquire, Types, Trees
<1>4. CASE disk.candidate = tree.head
  <2>1. disk' = mem' /\ mem' = [disk EXCEPT !.worktree = TRUE]
    BY <1>1, <1>2, <1>4 DEF Acquire, Save
  <2>2. mem' = [disk EXCEPT !.worktree = TRUE, !.tested = disk.tested]
    BY <1>1, <2>1 DEF RunStates
  <2> QED
    BY <1>1, <1>3, <1>4, <2>1, <2>2 DEF Acquire
<1>5. CASE disk.candidate # tree.head
  <2>1. UNCHANGED disk /\ mem' = [[disk EXCEPT !.worktree = TRUE] EXCEPT !.tested = None]
    BY <1>1, <1>2, <1>5 DEF Acquire
  <2>2. mem' = [disk EXCEPT !.worktree = TRUE, !.tested = None]
    BY <1>1, <2>1 DEF RunStates
  <2> QED
    BY <1>1, <1>3, <1>5, <2>1, <2>2 DEF Acquire
<1> QED
  BY <1>4, <1>5

(* A crash loses no more of the run state than a mark.                     *)
LEMMA InStepKept ==
  ASSUME Types, Returns, InStep, AgentsAnnounced, TreeBound, PendingPlaced,
         EvidenceFits, [Next]_vars
  PROVE  InStep'
<1>1. CASE Approve \/ ApproveBaseline \/ Cancel \/ TerminateAgent
  BY <1>1 DEF Approve, ApproveBaseline, Cancel, TerminateAgent, Exits, Running,
     Waiting, AgentStates, Exited, Types, InStep, OwnerVars
<1>2. CASE AgentEdits \/ AgentMovesHead \/ AgentExits \/ Crash
  BY <1>2 DEF AgentEdits, Running, AgentMovesHead, AgentExits, Exits, Waiting,
     AgentStates, Exited, Crash, Down, Types, InStep, OwnerVars
<1>3. CASE Start
  BY <1>3 DEF Start, Types, InStep, OwnerVars
<1>4. CASE StartBaseline
  BY <1>4 DEF StartBaseline, Down, Types, InStep, OwnerVars
<1>5. CASE BeginRun
  BY <1>5 DEF BeginRun, RunStates, Save, Fresh, Types, InStep, OwnerVars
<1>6. CASE AnnounceRun
  BY <1>6 DEF AnnounceRun, Types, InStep, OwnerVars
<1>7. CASE CreateCandidate \/ ReplayFinish \/ Resume
  BY <1>7 DEF CreateCandidate, RunStates, Save, ReplayFinish, Resume, Types,
     InStep, OwnerVars
<1>8. CASE Acquire
  <2>1. /\ pc = "acquire" /\ pc' = "reconcile"
        /\ disk' \in {disk, [disk EXCEPT !.worktree = TRUE]}
        /\ mem' = [disk EXCEPT !.worktree = TRUE,
                               !.tested = IF disk.candidate = tree.head THEN @ ELSE None]
    BY <1>8, AcquireEffect
  <2> QED
    BY <2>1 DEF Types, RunStates, InStep
<1>9. CASE AcquireNothing
  BY <1>9 DEF AcquireNothing, AgentStates, Exited, Types, InStep, OwnerVars
<1>10. CASE AcquireRefuses
  BY <1>10 DEF AcquireRefuses, Down, AgentStates, Exited, Types, InStep,
     OwnerVars
<1>11. CASE DiscardBytes
  BY <1>11 DEF DiscardBytes, Reconciling, Types, InStep, OwnerVars
<1>12. CASE RecordDiscard
  BY <1>12 DEF RecordDiscard, Adopting, RunStates, Save, Returns, Types,
     InStep, OwnerVars
<1>13. CASE AttributeAttempt
  BY <1>13 DEF AttributeAttempt, Reconciling, Adopting, RunStates, Save,
     Returns, Types, InStep, OwnerVars
<1>14. CASE NothingPending
  BY <1>14 DEF NothingPending, Reconciling, Attributable, Returns, Types,
     InStep, OwnerVars
<1>15. CASE RefuseUnattributed
  BY <1>15 DEF RefuseUnattributed, Reconciling, Down, Types, InStep, OwnerVars
<1>16. CASE AdoptCancelled
  <2>1. CASE Save(Adopting(mem))
    BY <1>16, <2>1 DEF AdoptCancelled, Reconciling, Save, Adopting, Types, RunStates, InStep
  <2>2. CASE UNCHANGED << mem, disk >>
    BY <1>16, <2>2 DEF AdoptCancelled, Reconciling, InStep
  <2> QED
    BY <1>16, <2>1, <2>2 DEF AdoptCancelled
<1>17. CASE FinishCancelled \/ Finalize \/ StopCancelled \/ StopExhausted
  BY <1>17 DEF FinishCancelled, Finishing, RunStates, Save, Finalize, Down,
     StopCancelled, CancelRequested, StopExhausted, Types, InStep, OwnerVars
<1>18. CASE StopBlocked
  BY <1>18 DEF StopBlocked, Finishing, CancelRequested, RunStates, Save, Types,
     InStep, OwnerVars
<1>19. CASE RunChecks
  BY <1>19 DEF RunChecks, CancelRequested, CallsSpent, AttemptsSpent,
     RunStates, Save, Types, InStep, OwnerVars
<1>20. CASE CommitNothing
  BY <1>20 DEF CommitNothing, Adopting, RunStates, Save, Returns, Types,
     InStep, OwnerVars
<1>21. CASE CommitRefused
  BY <1>21 DEF CommitRefused, Down, Types, InStep, OwnerVars
<1>22. CASE BeginAdvance
  BY <1>22 DEF BeginAdvance, Types, InStep, OwnerVars
<1>23. CASE CommitAll
  BY <1>23 DEF CommitAll, Types, InStep, OwnerVars
<1>24. CASE CompleteAdvance
  BY <1>24 DEF CompleteAdvance, Types, InStep, OwnerVars
<1>25. CASE RecordCommit
  BY <1>25 DEF RecordCommit, Adopting, RunStates, Save, Returns, Types, InStep,
     OwnerVars
<1>26. CASE StillBlocked \/ AlreadyTested \/ Verify \/ VerifyFails
  BY <1>26 DEF StillBlocked, AlreadyTested, Verify, VerificationDue,
     CreateView, ViewRefused, VerifyFails, RemoveView, Types, InStep, OwnerVars
<1>27. CASE VerifyPasses \/ Achieve
  BY <1>27 DEF VerifyPasses, RemoveView, RunStates, Save, Achieve, Finishing,
     ReviewDue, AgentStates, Exited, Types, InStep, OwnerVars
<1>27b. CASE ReviewFatal \/ InvokeReviewer
  BY <1>27b DEF RunStates, Save, Finishing, ReviewDue, ReviewFatal,
     InvokeReviewer, Reviewer, Excluded, CreateView, ViewRefused, AgentStates,
     Exited, Types, InStep, OwnerVars
<1>28. CASE ViewInTheWay \/ ReviewFails \/ ReviewCompletes \/ EndReview
  BY <1>28 DEF ViewInTheWay, Down, ReviewFails, Returned, Reviewed, RunStates,
     Save, AgentStates, Exited, ReviewCompletes, EndReview, RemoveView,
     Returns, Types, InStep, OwnerVars
<1>29. CASE GiveUpReview \/ RetryReview \/ RecordPass \/ AnnounceWriter
  BY <1>29 DEF GiveUpReview, Finishing, RunStates, Save, RetryReview,
     RecordPass, AnnounceWriter, Types, InStep, OwnerVars
<1>30. CASE InvokeWriter \/ WriterReturns \/ CountFailure \/ CheckCancel
  BY <1>30 DEF InvokeWriter, RunStates, Save, AgentStates, Exited,
     WriterReturns, Returned, Down, CountFailure, CheckCancel, CancelRequested,
     Types, InStep, OwnerVars
<1>31. CASE Measure
  BY <1>31 DEF Measure, RunStates, Save, Types, InStep, OwnerVars
<1>32. CASE UNCHANGED vars
  BY <1>32 DEF vars, OwnerVars, Types, InStep
<1> QED
  BY <1>1, <1>2, <1>3, <1>4, <1>5, <1>6, <1>7, <1>8, <1>9, <1>10, <1>11, <1>12,
     <1>13, <1>14, <1>15, <1>16, <1>17, <1>18, <1>19, <1>20, <1>21, <1>22,
     <1>23, <1>24, <1>25, <1>26, <1>27, <1>27b, <1>28, <1>29, <1>30, <1>31,
     <1>32 DEF
     Next, Owner, Agents, Runner, Reconcile, Evaluate, Commit, Write

(* The files stay fit for a resume.                                        *)
LEMMA FilesAgreeKept ==
  ASSUME Types, Returns, InStep, AgentsAnnounced, TreeBound, PendingPlaced,
         FilesAgree, [Next]_vars
  PROVE  FilesAgree'
<1>1. CASE Approve \/ ApproveBaseline \/ Cancel \/ TerminateAgent
  BY <1>1 DEF Approve, GoalStates, ApproveBaseline, Cancel, TerminateAgent,
     Exits, Running, Waiting, Types, FilesAgree, ResumeAccepted, InStep,
     OwnerVars
<1>2. CASE AgentEdits \/ AgentMovesHead \/ AgentExits \/ Crash
  BY <1>2 DEF AgentEdits, Running, AgentMovesHead, AgentExits, Exits, Waiting,
     Crash, Down, Types, FilesAgree, ResumeAccepted, InStep, OwnerVars
<1>3. CASE Start \/ StartBaseline \/ BeginRun \/ AnnounceRun
  BY <1>3 DEF Start, StartBaseline, Down, GoalStates, BeginRun, RunStates,
     Save, Fresh, AnnounceRun, Types, FilesAgree, ResumeAccepted, InStep,
     OwnerVars
<1>4. CASE CreateCandidate \/ ReplayFinish \/ Resume \/ Acquire
  BY <1>4 DEF CreateCandidate, RunStates, Save, ReplayFinish, GoalStates,
     Resume, Acquire, RecoveredSha, Opened, Types, FilesAgree, ResumeAccepted,
     InStep, OwnerVars
<1>5. CASE AcquireNothing \/ AcquireRefuses \/ DiscardBytes \/ RecordDiscard
  BY <1>5 DEF AcquireNothing, AcquireRefuses, Down, DiscardBytes, Reconciling,
     RecordDiscard, Adopting, RunStates, Save, Returns, Types, FilesAgree,
     ResumeAccepted, InStep, OwnerVars
<1>6. CASE AttributeAttempt \/ NothingPending \/ RefuseUnattributed
            \/ AdoptCancelled
  BY <1>6 DEF AttributeAttempt, Reconciling, Adopting, RunStates, Save,
     Returns, NothingPending, Attributable, RefuseUnattributed, Down,
     AdoptCancelled, Types, FilesAgree, ResumeAccepted, InStep, OwnerVars
<1>7. CASE FinishCancelled \/ Finalize \/ StopCancelled \/ StopExhausted
  BY <1>7 DEF FinishCancelled, Finishing, RunStates, Save, Finalize, Down,
     GoalStates, StopCancelled, CancelRequested, StopExhausted, Types,
     FilesAgree, ResumeAccepted, InStep, OwnerVars
<1>8. CASE StopBlocked \/ RunChecks \/ CommitNothing \/ CommitRefused
  BY <1>8 DEF StopBlocked, Finishing, CancelRequested, RunStates, Save,
     RunChecks, CallsSpent, AttemptsSpent, CommitNothing, Adopting, Returns,
     CommitRefused, Down, Types, FilesAgree, ResumeAccepted, InStep, OwnerVars
<1>9. CASE BeginAdvance \/ CommitAll \/ CompleteAdvance \/ RecordCommit
  BY <1>9 DEF BeginAdvance, CommitAll, CompleteAdvance, RecordCommit, Adopting,
     RunStates, Save, Returns, Types, FilesAgree, ResumeAccepted, InStep,
     OwnerVars
<1>10. CASE StillBlocked \/ AlreadyTested \/ Verify \/ VerifyFails
  BY <1>10 DEF StillBlocked, AlreadyTested, Verify, VerificationDue,
     CreateView, ViewRefused, VerifyFails, RemoveView, Types, FilesAgree,
     ResumeAccepted, InStep, OwnerVars
<1>11. CASE VerifyPasses \/ Achieve \/ ReviewFatal \/ InvokeReviewer
  BY <1>11 DEF VerifyPasses, RemoveView, RunStates, Save, Achieve, Finishing,
     ReviewDue, ReviewFatal, InvokeReviewer, Reviewer, Excluded, CreateView,
     ViewRefused, Types, FilesAgree, ResumeAccepted, InStep, OwnerVars
<1>12. CASE ViewInTheWay \/ ReviewFails \/ ReviewCompletes \/ EndReview
  BY <1>12 DEF ViewInTheWay, Down, ReviewFails, Returned, Reviewed, RunStates,
     Save, ReviewCompletes, EndReview, RemoveView, Returns, Types, FilesAgree,
     ResumeAccepted, InStep, OwnerVars
<1>13. CASE GiveUpReview \/ RetryReview \/ RecordPass \/ AnnounceWriter
  BY <1>13 DEF GiveUpReview, Finishing, RunStates, Save, RetryReview,
     RecordPass, AnnounceWriter, Types, FilesAgree, ResumeAccepted, InStep,
     OwnerVars
<1>14. CASE InvokeWriter \/ WriterReturns \/ CountFailure \/ CheckCancel
  BY <1>14 DEF InvokeWriter, RunStates, Save, WriterReturns, Returned, Down,
     CountFailure, CheckCancel, CancelRequested, Types, FilesAgree,
     ResumeAccepted, InStep, OwnerVars
<1>15. CASE Measure
  BY <1>15 DEF Measure, RunStates, Save, Types, FilesAgree, ResumeAccepted,
     InStep, OwnerVars
<1>16. CASE UNCHANGED vars
  BY <1>16 DEF vars, OwnerVars, Types, FilesAgree, ResumeAccepted, InStep
<1> QED
  BY <1>1, <1>2, <1>3, <1>4, <1>5, <1>6, <1>7, <1>8, <1>9, <1>10, <1>11, <1>12,
     <1>13, <1>14, <1>15, <1>16 DEF Next, Owner, Agents, Runner, Reconcile,
     Evaluate, Commit, Write

(* An agent stays with the attempt of the file.                            *)
LEMMA AgentsAnnouncedKept ==
  ASSUME Types, Returns, InStep, AgentsAnnounced, TreeBound, PendingPlaced,
         AgentsAnnounced, [Next]_vars
  PROVE  AgentsAnnounced'
<1>1. CASE Approve \/ ApproveBaseline \/ Cancel \/ TerminateAgent
  BY <1>1 DEF Approve, ApproveBaseline, Cancel, TerminateAgent, Exits, Running,
     Waiting, AgentStates, Exited, Types, AgentsAnnounced, InStep,
     PendingPlaced, TreeBound, OwnerVars
<1>2. CASE AgentEdits \/ AgentMovesHead
  BY <1>2 DEF AgentEdits, Running, Trees, AgentMovesHead, AgentStates, Exited,
     Types, AgentsAnnounced, InStep, PendingPlaced, TreeBound, OwnerVars
<1>2b. CASE AgentExits \/ Crash
  BY <1>2b DEF Running, Trees, AgentExits, Exits, Waiting, AgentStates, Exited,
     Crash, Down, Types, AgentsAnnounced, InStep, PendingPlaced, TreeBound,
     OwnerVars
<1>3. CASE Start \/ StartBaseline \/ BeginRun \/ AnnounceRun
  BY <1>3 DEF Start, StartBaseline, Down, BeginRun, RunStates, Save, Fresh,
     Trees, NoTree, AnnounceRun, Types, AgentsAnnounced, InStep, PendingPlaced,
     TreeBound, OwnerVars
<1>4. CASE CreateCandidate \/ ReplayFinish \/ Resume \/ Acquire
  BY <1>4 DEF CreateCandidate, RunStates, Save, Trees, NoTree, ReplayFinish,
     Resume, Acquire, RecoveredSha, Opened, HeadMoved, AgentStates, Exited,
     Types, AgentsAnnounced, InStep, PendingPlaced, TreeBound, OwnerVars
<1>5. CASE AcquireNothing \/ AcquireRefuses \/ DiscardBytes \/ RecordDiscard
  BY <1>5 DEF AcquireNothing, AgentStates, Exited, AcquireRefuses, Down,
     DiscardBytes, Reconciling, Trees, HeadMoved, RecordDiscard, Adopting,
     RunStates, Save, Returns, Types, AgentsAnnounced, InStep, PendingPlaced,
     TreeBound, OwnerVars
<1>6. CASE AttributeAttempt \/ NothingPending \/ RefuseUnattributed
            \/ AdoptCancelled
  BY <1>6 DEF AttributeAttempt, Reconciling, Adopting, RunStates, Save,
     HeadMoved, Returns, NothingPending, Attributable, RefuseUnattributed,
     Down, AdoptCancelled, Types, AgentsAnnounced, InStep, PendingPlaced,
     TreeBound, OwnerVars
<1>7. CASE FinishCancelled \/ Finalize \/ StopCancelled \/ StopExhausted
  BY <1>7 DEF FinishCancelled, Finishing, RunStates, Save, Finalize, Down,
     StopCancelled, CancelRequested, StopExhausted, Types, AgentsAnnounced,
     InStep, PendingPlaced, TreeBound, OwnerVars
<1>8. CASE StopBlocked \/ RunChecks \/ CommitNothing \/ CommitRefused
  BY <1>8 DEF StopBlocked, Finishing, CancelRequested, RunStates, Save,
     RunChecks, CallsSpent, AttemptsSpent, Trees, CommitNothing, Adopting,
     Returns, CommitRefused, Down, Types, AgentsAnnounced, InStep,
     PendingPlaced, TreeBound, OwnerVars
<1>9. CASE BeginAdvance \/ CommitAll \/ CompleteAdvance \/ RecordCommit
  BY <1>9 DEF BeginAdvance, Trees, CommitAll, CompleteAdvance, RecordCommit,
     Adopting, RunStates, Save, Returns, Types, AgentsAnnounced, InStep,
     PendingPlaced, TreeBound, OwnerVars
<1>10. CASE StillBlocked \/ AlreadyTested \/ Verify \/ VerifyFails
  BY <1>10 DEF StillBlocked, AlreadyTested, Verify, VerificationDue,
     CreateView, ViewRefused, VerifyFails, RemoveView, Types, AgentsAnnounced,
     InStep, PendingPlaced, TreeBound, OwnerVars
<1>11. CASE VerifyPasses \/ Achieve
  BY <1>11 DEF VerifyPasses, RemoveView, RunStates, Save, Achieve, Finishing,
     ReviewDue, AgentStates, Exited, Types, AgentsAnnounced, InStep,
     PendingPlaced, TreeBound, OwnerVars
<1>11b. CASE ReviewFatal \/ InvokeReviewer
  BY SMTT(30), <1>11b DEF RunStates, Save, Finishing, ReviewDue, ReviewFatal,
     InvokeReviewer, Reviewer, Excluded, CreateView, ViewRefused, AgentStates,
     Exited, Types, AgentsAnnounced, InStep, PendingPlaced, TreeBound, OwnerVars
<1>12. CASE ViewInTheWay \/ ReviewFails \/ ReviewCompletes \/ EndReview
  BY <1>12 DEF ViewInTheWay, Down, ReviewFails, Returned, Reviewed, RunStates,
     Save, AgentStates, Exited, ReviewCompletes, EndReview, RemoveView,
     Returns, Types, AgentsAnnounced, InStep, PendingPlaced, TreeBound,
     OwnerVars
<1>13. CASE GiveUpReview \/ RetryReview \/ RecordPass \/ AnnounceWriter
  BY <1>13 DEF GiveUpReview, Finishing, RunStates, Save, RetryReview,
     RecordPass, AnnounceWriter, Types, AgentsAnnounced, InStep, PendingPlaced,
     TreeBound, OwnerVars
<1>14. CASE InvokeWriter \/ WriterReturns \/ CountFailure \/ CheckCancel
  BY <1>14 DEF InvokeWriter, RunStates, Save, AgentStates, Exited,
     WriterReturns, Returned, Down, HeadMoved, CountFailure, CheckCancel,
     CancelRequested, Types, AgentsAnnounced, InStep, PendingPlaced, TreeBound,
     OwnerVars
<1>15. CASE Measure
  BY <1>15 DEF Measure, RunStates, Save, Trees, Types, AgentsAnnounced, InStep,
     PendingPlaced, TreeBound, OwnerVars
<1>16. CASE UNCHANGED vars
  BY <1>16 DEF vars, OwnerVars, Types, AgentsAnnounced, InStep, PendingPlaced,
     TreeBound
<1> QED
  BY <1>1, <1>2, <1>2b, <1>3, <1>4, <1>5, <1>6, <1>7, <1>8, <1>9, <1>10, <1>11,
     <1>11b, <1>12,
     <1>13, <1>14, <1>15, <1>16 DEF Next, Owner, Agents, Runner, Reconcile,
     Evaluate, Commit, Write

(* HEAD leaves the binding only in the hands of an advance or an agent.    *)
LEMMA TreeBoundKept ==
  ASSUME Types, Returns, InStep, AgentsAnnounced, TreeBound, PendingPlaced,
         EvidenceFits, [Next]_vars
  PROVE  TreeBound'
<1>1. CASE Approve \/ ApproveBaseline \/ Cancel \/ TerminateAgent
  BY <1>1 DEF Approve, ApproveBaseline, Cancel, TerminateAgent, Exits, Running,
     Waiting, Types, TreeBound, InStep, PendingPlaced, OwnerVars
<1>2. CASE AgentEdits
  BY <1>2 DEF AgentEdits, Running, Trees, AgentsAnnounced, Types, TreeBound,
     InStep, PendingPlaced, OwnerVars
<1>3. CASE AgentMovesHead
  <2>1. tree.head \in Nat /\ tree.bytes \subseteq Bytes /\ tree.head <= Len(commits)
    BY DEF Types, Trees, TreeBound
  <2>2. Authors(tree.head) \cup tree.bytes \in SUBSET Bytes
    BY <2>1, AuthorsTyped
  <2>3. Len(commits) \in Nat /\ Len(commits') = Len(commits) + 1
    BY <1>3, <2>2, AuthorsKept DEF AgentMovesHead
  <2> QED
    BY <1>3, <2>1, <2>3 DEF AgentMovesHead, Running, AgentsAnnounced, Types, Trees, TreeBound
<1>4. CASE AgentExits \/ Crash \/ Start \/ StartBaseline
  BY <1>4 DEF AgentExits, Running, Exits, Waiting, Crash, Down, Start,
     StartBaseline, Types, TreeBound, InStep, PendingPlaced, OwnerVars
<1>5. CASE BeginRun \/ AnnounceRun
  BY <1>5 DEF BeginRun, RunStates, Save, Fresh, Trees, NoTree, AnnounceRun,
     Types, TreeBound, InStep, PendingPlaced, OwnerVars
<1>5b. CASE CreateCandidate \/ ReplayFinish
  BY <1>5b DEF RunStates, Trees, NoTree, CreateCandidate, ReplayFinish, Types,
     TreeBound, InStep, PendingPlaced, OwnerVars
<1>6. CASE Resume
  BY <1>6 DEF Resume, Types, TreeBound, InStep, PendingPlaced, OwnerVars
<1>7. CASE Acquire
  <2>1. /\ pc' = "reconcile" /\ UNCHANGED commits
        /\ tree'.head = tree.head /\ tree'.bound = tree.head
        /\ tree'.exists = TRUE /\ tree'.advancing = FALSE
    BY <1>7, AcquireEffect
  <2>2. tree.head \in Nat
    BY DEF Types, Trees
  <2> QED
    BY <2>1, <2>2 DEF TreeBound
<1>8. CASE AcquireNothing \/ AcquireRefuses
  BY <1>8 DEF AcquireNothing, AcquireRefuses, Down, Trees, HeadMoved, RunStates,
     Types, TreeBound, InStep, PendingPlaced, OwnerVars
<1>8b. CASE DiscardBytes
  BY <1>8b DEF DiscardBytes, Reconciling, Trees, HeadMoved, Adopting, RunStates,
     Save, Returns, Types, TreeBound, InStep, PendingPlaced, OwnerVars
<1>8c. CASE RecordDiscard
  BY <1>8c DEF Reconciling, Trees, HeadMoved, RecordDiscard, Adopting,
     RunStates, Save, Returns, Types, TreeBound, InStep, PendingPlaced, OwnerVars
<1>9. CASE AttributeAttempt \/ NothingPending \/ RefuseUnattributed
            \/ AdoptCancelled
  BY <1>9 DEF AttributeAttempt, Reconciling, Adopting, RunStates, Save,
     HeadMoved, Returns, NothingPending, Attributable, RefuseUnattributed,
     Down, AdoptCancelled, Types, TreeBound, InStep, PendingPlaced, OwnerVars
<1>10. CASE FinishCancelled \/ Finalize \/ StopCancelled \/ StopExhausted
  BY <1>10 DEF FinishCancelled, Finishing, RunStates, Save, Finalize, Down,
     StopCancelled, CancelRequested, StopExhausted, Types, TreeBound, InStep,
     PendingPlaced, OwnerVars
<1>11. CASE StopBlocked \/ RunChecks
  BY <1>11 DEF StopBlocked, Finishing, CancelRequested, RunStates, Save,
     RunChecks, CallsSpent, AttemptsSpent, Trees, Types, TreeBound, InStep,
     PendingPlaced, OwnerVars
<1>11b. CASE CommitNothing
  BY <1>11b DEF RunStates, Save, Trees, CommitNothing, Adopting, Down, Returns, Types,
     TreeBound, InStep, PendingPlaced, OwnerVars
<1>11c. CASE CommitRefused
  BY <1>11c DEF RunStates, Save, Trees, Adopting, CommitRefused, Down, Returns, Types,
     TreeBound, InStep, PendingPlaced, OwnerVars
<1>12. CASE BeginAdvance
  BY <1>12 DEF BeginAdvance, Trees, Types, TreeBound, InStep, PendingPlaced,
     OwnerVars
<1>13. CASE CommitAll
  <2>1. tree.head \in Nat /\ tree.bytes \subseteq Bytes /\ tree.head <= Len(commits)
    BY DEF Types, Trees, TreeBound
  <2>2. Authors(tree.head) \cup tree.bytes \in SUBSET Bytes
    BY <2>1, AuthorsTyped
  <2>3. Len(commits) \in Nat /\ Len(commits') = Len(commits) + 1
    BY <1>13, <2>2, AuthorsKept DEF CommitAll
  <2> QED
    BY <1>13, <2>1, <2>3 DEF CommitAll, InStep, Types, Trees, TreeBound
<1>14. CASE CompleteAdvance
  BY <1>14 DEF CompleteAdvance, Trees, Types, TreeBound, InStep, PendingPlaced,
     OwnerVars
<1>15. CASE RecordCommit
  BY <1>15 DEF RecordCommit, Adopting, RunStates, Save, Returns, Types,
     TreeBound, InStep, PendingPlaced, OwnerVars
<1>16. CASE StillBlocked
  BY <1>16 DEF StillBlocked, Types, TreeBound, InStep, PendingPlaced, OwnerVars
<1>17. CASE AlreadyTested
  BY <1>17 DEF AlreadyTested, Types, TreeBound, InStep, PendingPlaced,
     OwnerVars
<1>18. CASE Verify \/ VerifyFails \/ VerifyPasses \/ Achieve
  BY <1>18 DEF Verify, VerificationDue, CreateView, ViewRefused, VerifyFails,
     RemoveView, VerifyPasses, RunStates, Save, Achieve, Finishing, ReviewDue,
     Types, TreeBound, InStep, PendingPlaced, OwnerVars
<1>19. CASE ReviewFatal \/ InvokeReviewer \/ ViewInTheWay \/ ReviewFails
  BY <1>19 DEF ReviewFatal, Finishing, ReviewDue, RunStates, Save,
     InvokeReviewer, Reviewer, Excluded, CreateView, ViewRefused, ViewInTheWay,
     Down, ReviewFails, Returned, Reviewed, Types, TreeBound, InStep,
     PendingPlaced, OwnerVars
<1>20. CASE ReviewCompletes \/ EndReview \/ GiveUpReview \/ RetryReview
  BY <1>20 DEF ReviewCompletes, Returned, Reviewed, RunStates, Save, EndReview,
     RemoveView, Returns, GiveUpReview, Finishing, RetryReview, Types,
     TreeBound, InStep, PendingPlaced, OwnerVars
<1>21. CASE RecordPass \/ AnnounceWriter \/ InvokeWriter \/ WriterReturns
  BY <1>21 DEF RecordPass, RunStates, Save, AnnounceWriter, InvokeWriter,
     WriterReturns, Returned, Down, HeadMoved, Types, TreeBound, InStep,
     PendingPlaced, OwnerVars
<1>22. CASE CountFailure \/ CheckCancel
  BY <1>22 DEF CountFailure, RunStates, Save, CheckCancel, CancelRequested,
     Trees, Types, TreeBound, InStep, PendingPlaced, OwnerVars
<1>22b. CASE Measure
  BY <1>22b DEF RunStates, Save, Measure, Trees, Types, TreeBound, InStep,
     PendingPlaced, OwnerVars
<1>23. CASE UNCHANGED vars
  BY <1>23 DEF vars, OwnerVars, Types, TreeBound, InStep, PendingPlaced
<1> QED
  BY <1>1, <1>2, <1>3, <1>4, <1>5, <1>5b, <1>6, <1>7, <1>8, <1>8b, <1>8c, <1>9,
     <1>10, <1>11,
     <1>11b, <1>11c, <1>12,
     <1>13, <1>14, <1>15, <1>16, <1>17, <1>18, <1>19, <1>20, <1>21, <1>22,
     <1>22b,
     <1>23 DEF Next, Owner, Agents, Runner, Reconcile, Evaluate, Commit, Write

(* An attempt is announced where one is under way.                         *)
LEMMA PendingPlacedKept ==
  ASSUME Types, Returns, InStep, AgentsAnnounced, TreeBound, PendingPlaced,
         [Next]_vars
  PROVE  PendingPlaced'
<1>1. CASE Approve \/ ApproveBaseline \/ Cancel \/ TerminateAgent
  BY <1>1 DEF Approve, ApproveBaseline, Cancel, TerminateAgent, Exits, Running,
     Waiting, Types, PendingPlaced, InStep, OwnerVars
<1>2. CASE AgentEdits \/ AgentMovesHead \/ AgentExits \/ Crash
  BY <1>2 DEF AgentEdits, Running, AgentMovesHead, AgentExits, Exits, Waiting,
     Crash, Down, Types, PendingPlaced, InStep, OwnerVars
<1>3. CASE Start \/ StartBaseline \/ BeginRun \/ AnnounceRun
  BY <1>3 DEF Start, StartBaseline, Down, BeginRun, RunStates, Save, Fresh,
     AnnounceRun, Types, PendingPlaced, InStep, OwnerVars
<1>4. CASE CreateCandidate \/ ReplayFinish \/ Resume \/ Acquire
  BY <1>4 DEF CreateCandidate, RunStates, Save, ReplayFinish, Resume, Acquire,
     RecoveredSha, Opened, Types, PendingPlaced, InStep, OwnerVars
<1>5. CASE AcquireNothing \/ AcquireRefuses \/ DiscardBytes \/ RecordDiscard
  BY <1>5 DEF AcquireNothing, AcquireRefuses, Down, DiscardBytes, Reconciling,
     RecordDiscard, Adopting, RunStates, Save, Returns, Types, PendingPlaced,
     InStep, OwnerVars
<1>6. CASE AttributeAttempt
  BY <1>6 DEF AttributeAttempt, Reconciling, Adopting, RunStates, Save,
     Attributable, Returns, Types, PendingPlaced, InStep, OwnerVars
<1>6b. CASE NothingPending
  BY <1>6b DEF Reconciling, Adopting, RunStates, Save, NothingPending,
     Attributable, Returns, Types, PendingPlaced, InStep, OwnerVars
<1>6c. CASE RefuseUnattributed \/ AdoptCancelled
  BY <1>6c DEF Reconciling, Adopting, RunStates, Save, Attributable,
     RefuseUnattributed, Down, AdoptCancelled, Types, PendingPlaced, InStep,
     OwnerVars
<1>7. CASE FinishCancelled \/ Finalize \/ StopCancelled \/ StopExhausted
  BY <1>7 DEF FinishCancelled, Finishing, RunStates, Save, Finalize, Down,
     StopCancelled, CancelRequested, StopExhausted, Types, PendingPlaced,
     InStep, OwnerVars
<1>8. CASE StopBlocked \/ RunChecks \/ CommitNothing \/ CommitRefused
  BY <1>8 DEF StopBlocked, Finishing, CancelRequested, RunStates, Save,
     RunChecks, CallsSpent, AttemptsSpent, CommitNothing, Adopting, Returns,
     CommitRefused, Down, Types, PendingPlaced, InStep, OwnerVars
<1>9. CASE BeginAdvance \/ CommitAll \/ CompleteAdvance \/ RecordCommit
  BY <1>9 DEF BeginAdvance, CommitAll, CompleteAdvance, RecordCommit, Adopting,
     RunStates, Save, Returns, Types, PendingPlaced, InStep, OwnerVars
<1>10. CASE StillBlocked \/ AlreadyTested \/ Verify \/ VerifyFails
  BY <1>10 DEF StillBlocked, AlreadyTested, Verify, VerificationDue,
     CreateView, ViewRefused, VerifyFails, RemoveView, Types, PendingPlaced,
     InStep, OwnerVars
<1>11. CASE VerifyPasses \/ Achieve \/ ReviewFatal \/ InvokeReviewer
  BY <1>11 DEF VerifyPasses, RemoveView, RunStates, Save, Achieve, Finishing,
     ReviewDue, ReviewFatal, InvokeReviewer, Reviewer, Excluded, CreateView,
     ViewRefused, Types, PendingPlaced, InStep, OwnerVars
<1>12. CASE ViewInTheWay \/ ReviewFails \/ ReviewCompletes \/ EndReview
  BY <1>12 DEF ViewInTheWay, Down, ReviewFails, Returned, Reviewed, RunStates,
     Save, ReviewCompletes, EndReview, RemoveView, Returns, Types,
     PendingPlaced, InStep, OwnerVars
<1>13. CASE GiveUpReview \/ RetryReview \/ RecordPass
  BY <1>13 DEF GiveUpReview, Finishing, RunStates, Save, RetryReview,
     RecordPass, Types, PendingPlaced, InStep, OwnerVars
<1>14. CASE AnnounceWriter
  BY <1>14, RoutedAgents, GoalAssumption DEF AnnounceWriter, RunStates, Save,
     Types, PendingPlaced, InStep, OwnerVars
<1>15. CASE InvokeWriter \/ WriterReturns \/ CountFailure \/ CheckCancel
  BY <1>15 DEF InvokeWriter, RunStates, Save, WriterReturns, Returned, Down,
     CountFailure, CheckCancel, CancelRequested, Types, PendingPlaced, InStep,
     OwnerVars
<1>16. CASE Measure
  BY <1>16 DEF Measure, RunStates, Save, Types, PendingPlaced, InStep,
     OwnerVars
<1>17. CASE UNCHANGED vars
  BY <1>17 DEF vars, OwnerVars, Types, PendingPlaced, InStep
<1> QED
  BY <1>1, <1>2, <1>3, <1>4, <1>5, <1>6, <1>6b, <1>6c, <1>7, <1>8, <1>9, <1>10,
     <1>11, <1>12,
     <1>13, <1>14, <1>15, <1>16, <1>17 DEF Next, Owner, Agents, Runner,
     Reconcile, Evaluate, Commit, Write

(* No byte loses its author, and an attempt stays apart until its commit.  *)
LEMMA AttemptApartKept ==
  ASSUME Types, Returns, InStep, AgentsAnnounced, TreeBound, PendingPlaced,
         EvidenceFits, AttemptApart, [Next]_vars
  PROVE  AttemptApart'
<1>a. /\ tree.head \in Nat /\ tree.bound \in Nat /\ Len(commits) \in Nat
      /\ tree.bound <= tree.head /\ tree.head <= Len(commits)
      /\ disk.candidate # None => disk.candidate \in Nat /\ disk.candidate <= tree.bound
      /\ Authors(tree.head) \subseteq Bytes /\ tree.bytes \subseteq Bytes
      /\ disk.pending \in Resources \cup {None} /\ None \notin Resources \cup Nat
  <2>1. /\ tree.head \in Nat /\ tree.bound \in Nat /\ Len(commits) \in Nat
        /\ tree.bytes \subseteq Bytes
    BY DEF Types, Trees, Histories
  <2>2. disk.candidate \in Shas /\ disk.pending \in Resources \cup {None}
    BY DEF Types, RunStates
  <2> QED
    BY <2>1, <2>2, AuthorsTyped, GoalAssumption DEF TreeBound, EvidenceFits
<1>b. AttemptApart
  OBVIOUS
<1>1. CASE Approve \/ ApproveBaseline \/ Cancel \/ TerminateAgent
  BY <1>1 DEF Approve, ApproveBaseline, Cancel, TerminateAgent, Exits, Running,
     Waiting, AgentStates, Exited, Types, AttemptApart, Attributed, Settled,
     Authors, InStep, PendingPlaced, OwnerVars
<1>2. CASE AgentEdits
  <2>1. agent.by = disk.pending /\ agent.by \in Resources
    BY <1>2 DEF AgentEdits, Running, AgentsAnnounced, Types, AgentStates
  <2>2. PICK late \in SUBSET {Late} : tree'.bytes = tree.bytes \cup {agent.by} \cup late
    BY <1>2 DEF AgentEdits, Types, Trees
  <2>3. tree'.head = tree.head /\ tree'.bound = tree.bound /\ Running /\ agent.writes = TRUE
    BY <1>2 DEF AgentEdits, Types, Trees, AgentStates, Running
  <2>4. UNCHANGED << disk, pc, frame, agent, commits >>
    BY <1>2 DEF AgentEdits
  <2>5. pc # "reconcile" /\ disk.pending # None
    BY <2>1, <2>3, GoalAssumption DEF Running, AgentsAnnounced
  <2> QED
    BY <1>b, <2>1, <2>2, <2>3, <2>4, <2>5 DEF AttemptApart, Attributed, Settled, Authors, Running
<1>3. CASE AgentMovesHead
  <2>1. Authors(tree.head) \cup tree.bytes \in SUBSET Bytes
    BY <1>a
  <2>2. /\ Len(commits') = Len(commits) + 1
        /\ \A sha \in Nat : sha <= Len(commits) => Authors(sha)' = Authors(sha)
        /\ \A sha \in Nat :
             sha = Len(commits) + 1 => Authors(sha)' = Authors(tree.head) \cup tree.bytes
    BY <1>3, <2>1, AuthorsKept DEF AgentMovesHead
  <2>3. /\ tree'.head = Len(commits) + 1 /\ tree'.bound = tree.bound /\ tree'.bytes = {}
        /\ UNCHANGED << disk, frame, agent >>
    BY <1>3 DEF AgentMovesHead, Types, Trees
  <2>4. Authors(tree.head)' = Authors(tree.head) \cup tree.bytes
    BY <1>a, <2>2, <2>3
  <2>5. disk.candidate # None => Authors(disk.candidate)' = Authors(disk.candidate)
    BY <1>a, <2>2, <2>3
  <2>6. tree'.head # tree'.bound
    BY <1>a, <2>3
  <2>7. pc' = pc /\ pc \in {"writing", "reviewing", "down", "acquire"}
    BY <1>3 DEF AgentMovesHead, Running, AgentsAnnounced
  <2> QED
    BY <1>a, <1>b, <2>3, <2>4, <2>5, <2>6, <2>7 DEF AttemptApart, Attributed, Settled
<1>4. CASE AgentExits \/ Crash \/ Start \/ StartBaseline
  BY <1>4 DEF AgentExits, Running, Exits, Waiting, AgentStates, Exited, Crash,
     Down, NoFrame, Start, StartBaseline, Types, AttemptApart, Attributed,
     Settled, Authors, InStep, PendingPlaced, OwnerVars
<1>5. CASE BeginRun \/ AnnounceRun \/ CreateCandidate \/ ReplayFinish
  BY <1>5 DEF BeginRun, RunStates, Save, Fresh, Trees, NoTree, AnnounceRun,
     CreateCandidate, NoFrame, ReplayFinish, Types, AttemptApart, Attributed,
     Settled, Authors, InStep, PendingPlaced, OwnerVars
<1>6. CASE Resume
  BY <1>6 DEF Resume, Frames, NoFrame, Types, AttemptApart, Attributed,
     Settled, Authors, InStep, PendingPlaced, OwnerVars
<1>7. CASE Acquire
  <2>2. /\ tree'.head = tree.head /\ tree'.bound = tree.head /\ tree'.bytes = tree.bytes
        /\ agent' = None /\ pc' = "reconcile" /\ pc = "acquire" /\ ~HeadMoved
        /\ UNCHANGED << frame, commits >>
    BY <1>7, AcquireEffect
  <2>3. disk' \in {disk, [disk EXCEPT !.worktree = TRUE]}
    BY <1>7, AcquireEffect
  <2>4. /\ disk'.pending = disk.pending /\ disk'.candidate = disk.candidate
        /\ disk'.contributors = disk.contributors
    BY <2>3 DEF Types, RunStates
  <2>5. disk.pending # None /\ tree.bytes # {} => Settled
    BY <1>b, <2>2 DEF HeadMoved, TreeBound, AttemptApart
  <2>6. frame.base = tree.head => Settled /\ disk.candidate \in {None, tree.head}
    <3>1. CASE frame.base = Base
      BY <1>a, <2>2, <3>1 DEF Settled, Authors
    <3>2. CASE frame.base = disk.candidate
      BY <1>a, <1>b, <3>2 DEF Settled, AttemptApart
    <3> QED
      BY <1>b, <2>2, <3>1, <3>2 DEF AttemptApart
  <2> QED
    BY <1>b, <2>2, <2>4, <2>5, <2>6 DEF AttemptApart, Attributed, Settled, Authors
<1>8. CASE AcquireNothing \/ AcquireRefuses \/ DiscardBytes
  BY <1>8 DEF AcquireNothing, AgentStates, Exited, AcquireRefuses, Down,
     NoFrame, DiscardBytes, Reconciling, Trees, HeadMoved, Types, AttemptApart,
     Attributed, Settled, Authors, InStep, PendingPlaced, OwnerVars
<1>9. CASE RecordDiscard
  <2>1. /\ pc = "discarded" /\ disk'.pending = None
        /\ disk'.candidate = tree.bound /\ disk'.contributors = disk.contributors
        /\ pc' \in {"top", "cancelled", "failed"}
        /\ UNCHANGED << tree, commits, agent >>
    BY <1>9, <1>a DEF RecordDiscard, Save, Adopting, Reconciling, Types, RunStates, InStep, Returns
  <2> QED
    BY <1>a, <1>b, <2>1 DEF AttemptApart, Attributed, Settled, Authors, TreeBound, PendingPlaced
<1>10. CASE AttributeAttempt
  <2>1. /\ pc = "reconcile" /\ tree.bytes = {} /\ pc' \in {"top", "cancelled", "failed"}
        /\ UNCHANGED << tree, commits, agent >>
    BY <1>10 DEF AttributeAttempt, Reconciling, Returns
  <2>2. CASE tree.head = frame.base
    <3>1. /\ disk'.pending = None /\ disk'.candidate = disk.candidate
          /\ disk'.contributors = disk.contributors
      BY <1>10, <2>1, <2>2 DEF AttributeAttempt, Save, Types, RunStates, InStep
    <3> QED
      BY <1>a, <1>b, <2>1, <2>2, <3>1 DEF AttemptApart, Attributed, Settled, Authors, TreeBound
  <2>3. CASE tree.head # frame.base
    <3>1. /\ disk'.pending = None /\ disk'.candidate = tree.bound
          /\ disk'.contributors = disk.contributors \cup {disk.pending}
      BY <1>10, <2>1, <2>3 DEF AttributeAttempt, Save, Adopting, Types, RunStates, InStep
    <3> QED
      BY <1>a, <1>b, <2>1, <3>1 DEF AttemptApart, Attributed, Settled, Authors, TreeBound
  <2> QED
    BY <2>2, <2>3
<1>11. CASE NothingPending \/ RefuseUnattributed
  BY <1>11 DEF NothingPending, Reconciling, Attributable, HeadMoved, Returns,
     RefuseUnattributed, Down, NoFrame, Types, AttemptApart, Attributed,
     Settled, Authors, InStep, PendingPlaced, OwnerVars
<1>12. CASE AdoptCancelled
  <2>1. /\ pc = "reconcile" /\ pc' = "cancelled" /\ disk.pending = None
        /\ UNCHANGED << tree, frame, commits, agent >>
    BY <1>12 DEF AdoptCancelled, Reconciling, InStep
  <2>2. \/ UNCHANGED disk
        \/ /\ disk'.pending = disk.pending /\ disk'.candidate = tree.bound
           /\ disk'.contributors = disk.contributors
    BY ZenonT(60), <1>12 DEF AdoptCancelled, Reconciling, Save, Adopting, Types, RunStates, InStep
  <2> QED
    BY <1>a, <1>b, <2>1, <2>2 DEF AttemptApart, Attributed, Settled, Authors, TreeBound
<1>13. CASE FinishCancelled \/ Finalize \/ StopCancelled \/ StopExhausted
  BY <1>13 DEF FinishCancelled, Finishing, RunStates, Save, NoFrame, Finalize,
     Down, StopCancelled, CancelRequested, StopExhausted, Types, AttemptApart,
     Attributed, Settled, Authors, InStep, PendingPlaced, OwnerVars
<1>14. CASE StopBlocked
  BY <1>14 DEF StopBlocked, Finishing, CancelRequested, RunStates, Save,
     NoFrame, Types, AttemptApart, Attributed, Settled, Authors, InStep,
     PendingPlaced, OwnerVars
<1>15. CASE RunChecks
  <2>1. PICK litter \in Litter : tree' = [tree EXCEPT !.bytes = @ \cup litter]
    BY <1>15 DEF RunChecks
  <2>2. /\ tree'.head = tree.head /\ tree'.bound = tree.bound
        /\ tree'.bytes = tree.bytes \cup litter /\ litter \subseteq {Shell}
    BY <2>1, GoalAssumption DEF Types, Trees
  <2>3. /\ disk'.pending = None /\ disk'.candidate = disk.candidate /\ disk.pending = None
        /\ disk'.contributors = disk.contributors
        /\ pc' \in {"commit", "write", "top"}
        /\ UNCHANGED << commits, agent >>
    BY <1>15 DEF RunChecks, Save, Types, RunStates, InStep, PendingPlaced
  <2> QED
    BY <1>a, <1>b, <2>2, <2>3 DEF AttemptApart, Attributed, Settled, Authors
<1>16. CASE CommitNothing
  <2>1. /\ pc = "commit" /\ disk'.pending = None /\ tree.bytes = {}
        /\ disk'.candidate = tree.bound /\ disk'.contributors = disk.contributors
        /\ pc' \in {"verify", "measure"}
        /\ UNCHANGED << tree, commits, agent >>
    BY <1>16, <1>a DEF CommitNothing, Save, Adopting, Reconciling, Types, RunStates, InStep, Returns
  <2> QED
    BY <1>a, <1>b, <2>1 DEF AttemptApart, Attributed, Settled, Authors, TreeBound, PendingPlaced
<1>17. CASE CommitRefused \/ BeginAdvance
  BY <1>17 DEF CommitRefused, Down, NoFrame, BeginAdvance, Trees, Types,
     AttemptApart, Attributed, Settled, Authors, InStep, PendingPlaced,
     OwnerVars
<1>18. CASE CommitAll
  <2>1. Authors(tree.head) \cup tree.bytes \in SUBSET Bytes
    BY <1>a
  <2>2. /\ Len(commits') = Len(commits) + 1
        /\ \A sha \in Nat : sha <= Len(commits) => Authors(sha)' = Authors(sha)
        /\ \A sha \in Nat :
             sha = Len(commits) + 1 => Authors(sha)' = Authors(tree.head) \cup tree.bytes
    BY <1>18, <2>1, AuthorsKept DEF CommitAll
  <2>3. /\ tree'.head = Len(commits) + 1 /\ tree'.bound = tree.bound /\ tree'.bytes = {}
        /\ UNCHANGED << disk, frame, agent >>
    BY <1>18 DEF CommitAll, Types, Trees
  <2>4. Authors(tree.head)' = Authors(tree.head) \cup tree.bytes
    BY <1>a, <2>2, <2>3
  <2>5. disk.candidate # None => Authors(disk.candidate)' = Authors(disk.candidate)
    BY <1>a, <2>2, <2>3
  <2>6. tree'.head # tree'.bound
    BY <1>a, <2>3
  <2>7. pc' = "advanced"
    BY <1>18 DEF CommitAll
  <2> QED
    BY <1>a, <1>b, <2>3, <2>4, <2>5, <2>6, <2>7 DEF AttemptApart, Attributed, Settled
<1>19. CASE CompleteAdvance
  <2>1. /\ tree'.head = tree.head /\ tree'.bound = tree.head /\ tree'.bytes = tree.bytes
        /\ pc = "advanced" /\ pc' = "record" /\ UNCHANGED << disk, frame, commits, agent >>
    BY <1>19 DEF CompleteAdvance, Types, Trees
  <2>2. agent = None /\ tree.bytes = {}
    BY <2>1 DEF AgentsAnnounced, TreeBound
  <2> QED
    BY <1>b, <2>1, <2>2 DEF AttemptApart, Attributed, Settled, Authors
<1>20. CASE RecordCommit
  <2>1. /\ pc = "record" /\ disk'.pending = None
        /\ disk'.candidate = tree.bound
        /\ disk'.contributors = disk.contributors \cup {disk.pending}
        /\ pc' \in {"verify", "measure"}
        /\ UNCHANGED << tree, commits, agent >>
    BY <1>20, <1>a DEF RecordCommit, Save, Adopting, Reconciling, Types, RunStates, InStep, Returns
  <2> QED
    BY <1>a, <1>b, <2>1 DEF AttemptApart, Attributed, Settled, Authors, TreeBound, PendingPlaced
<1>21. CASE StillBlocked \/ AlreadyTested \/ Verify \/ VerifyFails
  BY <1>21 DEF StillBlocked, AlreadyTested, Verify, VerificationDue,
     CreateView, ViewRefused, VerifyFails, RemoveView, Types, AttemptApart,
     Attributed, Settled, Authors, InStep, PendingPlaced, OwnerVars
<1>22. CASE VerifyPasses
  BY <1>22 DEF VerifyPasses, RemoveView, RunStates, Save, Types, AttemptApart,
     Attributed, Settled, Authors, InStep, PendingPlaced, OwnerVars
<1>23. CASE Achieve
  BY <1>23 DEF Achieve, Finishing, ReviewDue, RunStates, Save, NoFrame, Types,
     AttemptApart, Attributed, Settled, Authors, InStep, PendingPlaced,
     OwnerVars
<1>24. CASE ReviewFatal
  BY <1>24 DEF ReviewFatal, Finishing, ReviewDue, RunStates, Save, NoFrame,
     Types, AttemptApart, Attributed, Settled, Authors, InStep, PendingPlaced,
     OwnerVars
<1>25. CASE InvokeReviewer
  BY <1>25 DEF InvokeReviewer, ReviewDue, Reviewer, Excluded, CreateView,
     ViewRefused, RunStates, Save, AgentStates, Exited, Types, AttemptApart,
     Attributed, Settled, Authors, InStep, PendingPlaced, OwnerVars
<1>26. CASE ViewInTheWay \/ ReviewFails \/ ReviewCompletes \/ EndReview
  BY <1>26 DEF ViewInTheWay, Down, NoFrame, ReviewFails, Returned, Reviewed,
     RunStates, Save, Frames, AgentStates, Exited, ReviewCompletes, EndReview,
     RemoveView, Returns, Types, AttemptApart, Attributed, Settled, Authors,
     InStep, PendingPlaced, OwnerVars
<1>27. CASE GiveUpReview \/ RetryReview \/ RecordPass
  BY <1>27 DEF GiveUpReview, Finishing, RunStates, Save, NoFrame, RetryReview,
     RecordPass, Types, AttemptApart, Attributed, Settled, Authors, InStep,
     PendingPlaced, OwnerVars
<1>28. CASE AnnounceWriter
  <2>1. /\ disk'.pending = route_task("implement", mem.failures + 1)
        /\ disk'.candidate = disk.candidate /\ disk'.contributors = disk.contributors
        /\ disk.pending = None /\ pc' = "invoke"
        /\ UNCHANGED << tree, frame, commits, agent >>
    BY <1>28 DEF AnnounceWriter, Save, Types, RunStates, InStep, PendingPlaced
  <2>2. disk'.pending \in Resources /\ disk'.pending # None
    BY <2>1, RoutedAgents, GoalAssumption
  <2> QED
    BY <1>a, <1>b, <2>1, <2>2 DEF AttemptApart, Attributed, Settled, Authors
<1>29. CASE InvokeWriter
  BY <1>29 DEF InvokeWriter, RunStates, Save, AgentStates, Exited, Types,
     AttemptApart, Attributed, Settled, Authors, InStep, PendingPlaced,
     OwnerVars
<1>30. CASE WriterReturns
  <2>1. agent' = None /\ pc = "writing" /\ UNCHANGED << disk, tree, commits >>
    BY <1>30 DEF WriterReturns, Returned
  <2>2. \/ pc' = "down"
        \/ pc' = "reconcile" /\ frame'.base = tree.bound /\ ~HeadMoved
        \/ pc' = "written"
    BY <1>30 DEF WriterReturns, Down, Types, Frames
  <2>3. ~HeadMoved => tree.head = tree.bound
    BY <2>1 DEF HeadMoved, TreeBound
  <2>4. disk.candidate \in {None, tree.bound}
    BY <2>1 DEF EvidenceFits
  <2> QED
    BY <1>b, <2>1, <2>2, <2>3, <2>4 DEF AttemptApart, Attributed, Settled, Authors, TreeBound
<1>31. CASE CountFailure
  BY <1>31 DEF CountFailure, RunStates, Save, NoFrame, Types, AttemptApart,
     Attributed, Settled, Authors, InStep, PendingPlaced, OwnerVars
<1>32. CASE CheckCancel
  <2>1. pc = "written" /\ UNCHANGED << disk, tree, commits, agent >>
    BY <1>32 DEF CheckCancel
  <2>2. \/ pc' = "reconcile" /\ frame'.base = tree.bound
        \/ pc' = "commit"
    BY <1>32 DEF CheckCancel, Types, Frames
  <2>3. disk.candidate \in {None, tree.bound} /\ tree.head = tree.bound
    BY <2>1 DEF EvidenceFits, TreeBound
  <2> QED
    BY <1>b, <2>1, <2>2, <2>3 DEF AttemptApart, Attributed, Settled, Authors, TreeBound
<1>33. CASE Measure
  <2>1. PICK litter \in Litter : tree' = [tree EXCEPT !.bytes = @ \cup litter]
    BY <1>33 DEF Measure
  <2>2. /\ tree'.head = tree.head /\ tree'.bound = tree.bound
        /\ tree'.bytes = tree.bytes \cup litter /\ litter \subseteq {Shell}
    BY <2>1, GoalAssumption DEF Types, Trees
  <2>3. /\ disk'.pending = None /\ disk'.candidate = disk.candidate /\ disk.pending = None
        /\ disk'.contributors = disk.contributors
        /\ pc' \in {"commit", "write", "top"}
        /\ UNCHANGED << commits, agent >>
    BY <1>33 DEF Measure, Save, Types, RunStates, InStep, PendingPlaced
  <2> QED
    BY <1>a, <1>b, <2>2, <2>3 DEF AttemptApart, Attributed, Settled, Authors
<1>34. CASE UNCHANGED vars
  BY <1>34 DEF vars, OwnerVars, Types, AttemptApart, Attributed, Settled,
     Authors, InStep, PendingPlaced
<1> QED
  BY <1>1, <1>2, <1>3, <1>4, <1>5, <1>6, <1>7, <1>8, <1>9, <1>10, <1>11, <1>12,
     <1>13, <1>14, <1>15, <1>16, <1>17, <1>18, <1>19, <1>20, <1>21, <1>22,
     <1>23, <1>24, <1>25, <1>26, <1>27, <1>28, <1>29, <1>30, <1>31, <1>32,
     <1>33, <1>34 DEF Next, Owner, Agents, Runner, Reconcile, Evaluate, Commit,
     Write

(* Evidence about an earlier candidate is never taken for this one's.      *)
LEMMA EvidenceFitsKept ==
  ASSUME Types, Returns, InStep, AgentsAnnounced, TreeBound, PendingPlaced,
         AttemptApart, EvidenceFits, [Next]_vars
  PROVE  EvidenceFits'
<1>a. /\ tree.head \in Nat /\ tree.bound \in Nat /\ tree.bound <= tree.head
      /\ disk.candidate \in Shas /\ disk.passed \in Shas /\ mem.tested \in Shas
      /\ None \notin Nat
  BY GoalAssumption DEF Types, Trees, RunStates, TreeBound
<1>1. CASE Approve \/ ApproveBaseline \/ Cancel \/ TerminateAgent
  BY <1>1, <1>a DEF Approve, ApproveBaseline, Cancel, TerminateAgent, Exits,
     Running, Waiting, Types, EvidenceFits, LoadableState, Loads, InStep,
     OwnerVars
<1>2. CASE AgentEdits \/ AgentMovesHead
  BY ZenonT(60), <1>2, <1>a DEF AgentEdits, Running, Trees, AgentMovesHead, Types,
     EvidenceFits, LoadableState, Loads, InStep, OwnerVars
<1>2b. CASE AgentExits \/ Crash
  BY <1>2b, <1>a DEF Running, Trees, AgentExits, Exits, Waiting, Crash, Down,
     NoFrame, Types, EvidenceFits, LoadableState, Loads, InStep, OwnerVars
<1>3. CASE Start \/ StartBaseline \/ BeginRun \/ AnnounceRun
  BY <1>3, <1>a DEF Start, StartBaseline, Down, NoFrame, BeginRun, RunStates,
     Save, Fresh, Trees, NoTree, AnnounceRun, Types, EvidenceFits,
     LoadableState, Loads, InStep, OwnerVars
<1>4. CASE CreateCandidate
  <2>1. /\ disk.candidate = None /\ mem.candidate = None /\ mem.passed = disk.passed
        /\ UNCHANGED disk /\ tree'.bound = Base /\ pc' = "top"
    BY <1>4 DEF CreateCandidate, InStep, EvidenceFits, NoTree
  <2>2. mem'.candidate = mem.candidate /\ mem'.tested = None /\ mem'.passed = mem.passed
    BY <1>4 DEF CreateCandidate, Types, RunStates
  <2> QED
    BY <1>a, <2>1, <2>2 DEF EvidenceFits, LoadableState, Loads
<1>5. CASE ReplayFinish \/ Resume
  BY <1>5, <1>a DEF ReplayFinish, Resume, Frames, NoFrame, Types, EvidenceFits,
     LoadableState, Loads, InStep, OwnerVars
<1>6. CASE Acquire
  <2>1. /\ pc = "acquire" /\ pc' = "reconcile" /\ tree'.bound = tree.head
        /\ disk' \in {disk, [disk EXCEPT !.worktree = TRUE]}
        /\ mem' = [disk EXCEPT !.worktree = TRUE,
                               !.tested = IF disk.candidate = tree.head THEN @ ELSE None]
    BY <1>6, AcquireEffect
  <2>2. /\ disk'.candidate = disk.candidate /\ disk'.tested = disk.tested
        /\ disk'.passed = disk.passed
        /\ mem'.candidate = disk.candidate /\ mem'.passed = disk.passed
        /\ mem'.tested = IF disk.candidate = tree.head THEN disk.tested ELSE None
    BY <2>1 DEF Types, RunStates
  <2> QED
    BY <1>a, <2>1, <2>2 DEF EvidenceFits, LoadableState, Loads
<1>7. CASE AcquireNothing
  BY <1>7, <1>a DEF AcquireNothing, Types, EvidenceFits, LoadableState, Loads,
     InStep, OwnerVars
<1>8. CASE AcquireRefuses
  BY <1>8, <1>a DEF AcquireRefuses, Down, NoFrame, Types, EvidenceFits,
     LoadableState, Loads, InStep, OwnerVars
<1>9. CASE DiscardBytes
  BY <1>9, <1>a DEF DiscardBytes, Reconciling, Trees, HeadMoved, Types,
     EvidenceFits, LoadableState, Loads, InStep, OwnerVars
<1>10. CASE RecordDiscard
  BY <1>10, <1>a DEF RecordDiscard, Adopting, RunStates, Save, Returns, Types,
     EvidenceFits, LoadableState, Loads, InStep, OwnerVars
<1>11. CASE AttributeAttempt
  <2>1. /\ pc = "reconcile" /\ pc' \in {"top", "cancelled", "failed"}
        /\ mem.candidate = disk.candidate /\ mem.passed = disk.passed /\ UNCHANGED tree
    BY <1>11 DEF AttributeAttempt, Reconciling, Returns, InStep
  <2>2. CASE tree.head = frame.base
    <3>1. disk' = mem' /\ mem' = [mem EXCEPT !.pending = None]
      BY <1>11, <2>2 DEF AttributeAttempt, Save
    <3>2. disk.candidate \in {None, tree.bound}
      BY <2>1, <2>2 DEF AttemptApart
    <3> QED
      BY <1>a, <2>1, <3>1, <3>2 DEF Types, RunStates, EvidenceFits, LoadableState, Loads
  <2>3. CASE tree.head # frame.base
    <3>1. disk' = mem' /\ mem' = [ Adopting(mem) EXCEPT
            !.contributors = @ \cup {mem.pending}, !.pending = None ]
      BY <1>11, <2>3 DEF AttributeAttempt, Save
    <3> QED
      BY <1>a, <2>1, <3>1 DEF Adopting, Types, RunStates, EvidenceFits, LoadableState, Loads
  <2> QED
    BY <2>2, <2>3
<1>12. CASE NothingPending
  <2>1. /\ pc = "reconcile" /\ pc' \in {"top", "cancelled", "failed"}
        /\ tree.head = frame.base /\ UNCHANGED << mem, disk, tree >>
    BY <1>12 DEF NothingPending, Reconciling, Returns, Attributable
  <2>2. disk.candidate \in {None, tree.bound}
    BY <2>1 DEF AttemptApart
  <2> QED
    BY <1>a, <2>1, <2>2 DEF EvidenceFits, LoadableState, Loads
<1>13. CASE RefuseUnattributed
  BY <1>13, <1>a DEF RefuseUnattributed, Reconciling, Down, NoFrame, HeadMoved,
     Types, EvidenceFits, LoadableState, Loads, InStep, OwnerVars
<1>14. CASE AdoptCancelled
  <2>1. /\ pc = "reconcile" /\ pc' = "cancelled"
        /\ mem.candidate = disk.candidate /\ mem.passed = disk.passed /\ UNCHANGED tree
    BY <1>14 DEF AdoptCancelled, Reconciling, InStep
  <2>2. CASE mem.candidate = tree.bound /\ UNCHANGED << mem, disk >>
    BY <1>a, <2>1, <2>2 DEF EvidenceFits, LoadableState, Loads
  <2>3. CASE Save(Adopting(mem))
    BY <1>a, <2>1, <2>3 DEF Save, Adopting, Types, RunStates, EvidenceFits, LoadableState, Loads
  <2> QED
    BY <1>14, <2>2, <2>3 DEF AdoptCancelled
<1>15. CASE FinishCancelled \/ Finalize \/ StopCancelled \/ StopExhausted
  BY <1>15, <1>a DEF FinishCancelled, Finishing, RunStates, Save, NoFrame,
     Finalize, Down, StopCancelled, CancelRequested, StopExhausted, Types,
     EvidenceFits, LoadableState, Loads, InStep, OwnerVars
<1>16. CASE StopBlocked
  BY <1>16, <1>a DEF StopBlocked, Finishing, CancelRequested, RunStates, Save,
     NoFrame, Types, EvidenceFits, LoadableState, Loads, InStep, OwnerVars
<1>17. CASE RunChecks
  BY <1>17, <1>a DEF RunChecks, CancelRequested, CallsSpent, AttemptsSpent,
     RunStates, Save, NoFrame, Trees, Types, EvidenceFits, LoadableState,
     Loads, InStep, OwnerVars
<1>18. CASE CommitNothing
  BY <1>18, <1>a DEF CommitNothing, Adopting, RunStates, Save, Returns, Types,
     EvidenceFits, LoadableState, Loads, InStep, OwnerVars
<1>19. CASE CommitRefused
  BY <1>19, <1>a DEF CommitRefused, Down, NoFrame, Types, EvidenceFits,
     LoadableState, Loads, InStep, OwnerVars
<1>20. CASE BeginAdvance
  BY <1>20, <1>a DEF BeginAdvance, Trees, Types, EvidenceFits, LoadableState,
     Loads, InStep, OwnerVars
<1>21. CASE CommitAll
  BY <1>21, <1>a DEF CommitAll, Trees, Types, EvidenceFits, LoadableState,
     Loads, InStep, OwnerVars
<1>22. CASE CompleteAdvance
  BY <1>22, <1>a DEF CompleteAdvance, Trees, Types, EvidenceFits,
     LoadableState, Loads, InStep, OwnerVars
<1>23. CASE RecordCommit
  BY <1>23, <1>a DEF RecordCommit, Adopting, RunStates, Save, Frames, Returns,
     Types, EvidenceFits, LoadableState, Loads, InStep, OwnerVars
<1>24. CASE StillBlocked \/ AlreadyTested \/ Verify \/ VerifyFails
  BY <1>24, <1>a DEF StillBlocked, AlreadyTested, Verify, VerificationDue,
     CreateView, ViewRefused, VerifyFails, RemoveView, Types, EvidenceFits,
     LoadableState, Loads, InStep, OwnerVars
<1>25. CASE VerifyPasses
  BY <1>25, <1>a DEF VerifyPasses, RemoveView, RunStates, Save, Types,
     EvidenceFits, LoadableState, Loads, InStep, OwnerVars
<1>26. CASE Achieve
  BY <1>26, <1>a DEF Achieve, Finishing, ReviewDue, RunStates, Save, NoFrame,
     Types, EvidenceFits, LoadableState, Loads, InStep, OwnerVars
<1>27. CASE ReviewFatal
  BY <1>27, <1>a DEF ReviewFatal, Finishing, ReviewDue, RunStates, Save,
     NoFrame, Types, EvidenceFits, LoadableState, Loads, InStep, OwnerVars
<1>28. CASE InvokeReviewer
  BY <1>28, <1>a DEF InvokeReviewer, ReviewDue, Reviewer, Excluded, CreateView,
     ViewRefused, RunStates, Save, Types, EvidenceFits, LoadableState, Loads,
     InStep, OwnerVars
<1>29. CASE ViewInTheWay \/ ReviewFails \/ ReviewCompletes \/ EndReview
  BY <1>29, <1>a DEF ViewInTheWay, Down, NoFrame, ReviewFails, Returned,
     Reviewed, RunStates, Save, Frames, ReviewCompletes, EndReview, RemoveView,
     Returns, Types, EvidenceFits, LoadableState, Loads, InStep, OwnerVars
<1>30. CASE GiveUpReview
  BY <1>30, <1>a DEF GiveUpReview, Finishing, RunStates, Save, NoFrame, Types,
     EvidenceFits, LoadableState, Loads, InStep, OwnerVars
<1>31. CASE RetryReview
  BY <1>31, <1>a DEF RetryReview, NoFrame, Types, EvidenceFits, LoadableState,
     Loads, InStep, OwnerVars
<1>32. CASE RecordPass
  BY <1>32, <1>a DEF RecordPass, RunStates, Save, Types, EvidenceFits,
     LoadableState, Loads, InStep, OwnerVars
<1>33. CASE AnnounceWriter
  BY <1>33, <1>a DEF AnnounceWriter, RunStates, Save, Types, EvidenceFits,
     LoadableState, Loads, InStep, OwnerVars
<1>34. CASE InvokeWriter \/ WriterReturns \/ CountFailure \/ CheckCancel
  BY <1>34, <1>a DEF InvokeWriter, RunStates, Save, WriterReturns, Returned,
     Down, Frames, NoFrame, HeadMoved, CountFailure, CheckCancel,
     CancelRequested, Types, EvidenceFits, LoadableState, Loads, InStep,
     OwnerVars
<1>35. CASE Measure
  BY <1>35, <1>a DEF Measure, RunStates, Save, NoFrame, Trees, Types,
     EvidenceFits, LoadableState, Loads, InStep, OwnerVars
<1>36. CASE UNCHANGED vars
  BY <1>36 DEF vars, OwnerVars, Types, EvidenceFits, LoadableState, Loads,
     InStep
<1> QED
  BY <1>1, <1>2, <1>2b, <1>3, <1>4, <1>5, <1>6, <1>7, <1>8, <1>9, <1>10,
     <1>11, <1>12,
     <1>13, <1>14, <1>15, <1>16, <1>17, <1>18, <1>19, <1>20, <1>21, <1>22,
     <1>23, <1>24, <1>25, <1>26, <1>27, <1>28, <1>29, <1>30, <1>31, <1>32,
     <1>33, <1>34, <1>35, <1>36 DEF Next, Owner, Agents, Runner, Reconcile,
     Evaluate, Commit, Write

(* The look at the limits covers the iteration.                            *)
LEMMA LimitsAheadKept ==
  ASSUME Types, Returns, InStep, AgentsAnnounced, TreeBound, PendingPlaced,
         AttemptApart, EvidenceFits, LimitsAhead, [Next]_vars
  PROVE  LimitsAhead'
<1>a. /\ disk.calls \in Nat /\ disk.attempts \in Nat
      /\ MaxAgentCalls \in Nat /\ MaxAttempts \in Nat
  BY GoalAssumption DEF Types, RunStates
<1>1. CASE Approve \/ ApproveBaseline \/ Cancel \/ TerminateAgent
  BY <1>1, <1>a DEF Approve, ApproveBaseline, Cancel, TerminateAgent, Exits,
     Running, Waiting, Types, LimitsAhead, LimitsHold, InStep, Freezing,
     PendingPlaced, OwnerVars
<1>2. CASE AgentEdits \/ AgentMovesHead \/ AgentExits \/ Crash
  BY <1>2, <1>a DEF AgentEdits, Running, AgentMovesHead, AgentExits, Exits,
     Waiting, Crash, Down, Types, LimitsAhead, LimitsHold, InStep, Freezing,
     PendingPlaced, OwnerVars
<1>3. CASE Start \/ StartBaseline \/ BeginRun \/ AnnounceRun
  BY <1>3, <1>a DEF Start, StartBaseline, Down, BeginRun, RunStates, Save,
     Fresh, AnnounceRun, Types, LimitsAhead, LimitsHold, InStep, Freezing,
     PendingPlaced, OwnerVars
<1>4. CASE CreateCandidate \/ ReplayFinish \/ Resume \/ Acquire
  BY <1>4, <1>a DEF CreateCandidate, RunStates, Save, ReplayFinish, Resume,
     Acquire, RecoveredSha, Opened, Types, LimitsAhead, LimitsHold, InStep,
     Freezing, PendingPlaced, OwnerVars
<1>5. CASE AcquireNothing \/ AcquireRefuses
  BY <1>5, <1>a DEF AcquireNothing, AcquireRefuses, Down, RunStates, Types,
     LimitsAhead, LimitsHold, InStep, Freezing, PendingPlaced, OwnerVars
<1>5b. CASE DiscardBytes
  BY <1>5b, <1>a DEF DiscardBytes, Reconciling, Adopting, RunStates, Save,
     Types, LimitsAhead, LimitsHold, InStep, Freezing, PendingPlaced, OwnerVars
<1>5c. CASE RecordDiscard
  BY <1>5c, <1>a DEF Reconciling, RecordDiscard, Adopting, RunStates, Save,
     Returns, Types, LimitsAhead, LimitsHold, InStep, Freezing, PendingPlaced, OwnerVars
<1>6. CASE AttributeAttempt
  BY <1>6, <1>a DEF AttributeAttempt, Reconciling, Adopting, RunStates, Save,
     Returns, Types, LimitsAhead, LimitsHold, InStep, Freezing, PendingPlaced,
     OwnerVars
<1>7. CASE NothingPending
  BY <1>7, <1>a DEF NothingPending, Reconciling, Attributable, Returns, Types,
     LimitsAhead, LimitsHold, InStep, Freezing, PendingPlaced, OwnerVars
<1>8. CASE RefuseUnattributed
  BY <1>8, <1>a DEF RefuseUnattributed, Reconciling, Down, Types, LimitsAhead,
     LimitsHold, InStep, Freezing, PendingPlaced, OwnerVars
<1>9. CASE AdoptCancelled
  <2>1. disk'.calls = disk.calls /\ disk'.attempts = disk.attempts /\ pc' = "cancelled"
    BY ZenonT(60), <1>9 DEF AdoptCancelled, Adopting, Reconciling, Save, Types, RunStates, InStep
  <2> QED
    BY <1>a, <2>1 DEF LimitsAhead, LimitsHold, Freezing
<1>10. CASE FinishCancelled \/ Finalize \/ StopCancelled \/ StopExhausted
  BY <1>10, <1>a DEF FinishCancelled, Finishing, RunStates, Save, Finalize,
     Down, StopCancelled, CancelRequested, StopExhausted, Types, LimitsAhead,
     LimitsHold, InStep, Freezing, PendingPlaced, OwnerVars
<1>11. CASE StopBlocked
  BY <1>11, <1>a DEF StopBlocked, Finishing, CancelRequested, RunStates, Save,
     Types, LimitsAhead, LimitsHold, InStep, Freezing, PendingPlaced, OwnerVars
<1>12. CASE RunChecks
  BY <1>12, <1>a DEF RunChecks, CancelRequested, CallsSpent, AttemptsSpent,
     RunStates, Save, Types, LimitsAhead, LimitsHold, InStep, Freezing,
     PendingPlaced, OwnerVars
<1>13. CASE CommitNothing
  BY <1>13, <1>a DEF CommitNothing, Adopting, RunStates, Save, Returns, Types,
     LimitsAhead, LimitsHold, InStep, Freezing, PendingPlaced, OwnerVars
<1>14. CASE CommitRefused
  BY <1>14, <1>a DEF CommitRefused, Down, Types, LimitsAhead, LimitsHold,
     InStep, Freezing, PendingPlaced, OwnerVars
<1>15. CASE BeginAdvance
  BY <1>15, <1>a DEF BeginAdvance, Returns, Types, LimitsAhead, LimitsHold,
     InStep, Freezing, PendingPlaced, OwnerVars
<1>16. CASE CommitAll
  BY <1>16, <1>a DEF CommitAll, Types, LimitsAhead, LimitsHold, InStep,
     Freezing, PendingPlaced, OwnerVars
<1>17. CASE CompleteAdvance
  BY <1>17, <1>a DEF CompleteAdvance, Types, LimitsAhead, LimitsHold, InStep,
     Freezing, PendingPlaced, OwnerVars
<1>18. CASE RecordCommit
  BY <1>18, <1>a DEF RecordCommit, Adopting, RunStates, Save, Returns, Types,
     LimitsAhead, LimitsHold, InStep, Freezing, PendingPlaced, OwnerVars
<1>19. CASE StillBlocked \/ AlreadyTested \/ Verify \/ VerifyFails
  BY <1>19, <1>a DEF StillBlocked, AlreadyTested, Verify, VerificationDue,
     CreateView, ViewRefused, VerifyFails, RemoveView, Types, LimitsAhead,
     LimitsHold, InStep, Freezing, PendingPlaced, OwnerVars
<1>20. CASE VerifyPasses
  BY <1>20, <1>a DEF VerifyPasses, RemoveView, RunStates, Save, Types,
     LimitsAhead, LimitsHold, InStep, Freezing, PendingPlaced, OwnerVars
<1>21. CASE Achieve
  BY <1>21, <1>a DEF Achieve, Finishing, ReviewDue, RunStates, Save, Types,
     LimitsAhead, LimitsHold, InStep, Freezing, PendingPlaced, OwnerVars
<1>22. CASE ReviewFatal
  BY <1>22, <1>a DEF ReviewFatal, Finishing, ReviewDue, RunStates, Save, Types,
     LimitsAhead, LimitsHold, InStep, Freezing, PendingPlaced, OwnerVars
<1>23. CASE InvokeReviewer
  BY <1>23, <1>a DEF InvokeReviewer, ReviewDue, Reviewer, Excluded, CreateView,
     ViewRefused, RunStates, Save, Types, LimitsAhead, LimitsHold, InStep,
     Freezing, PendingPlaced, OwnerVars
<1>24. CASE ViewInTheWay \/ ReviewFails \/ ReviewCompletes \/ EndReview
  BY <1>24, <1>a DEF ViewInTheWay, Down, ReviewFails, Returned, Reviewed,
     RunStates, Save, ReviewCompletes, EndReview, RemoveView, Returns, Types,
     LimitsAhead, LimitsHold, InStep, Freezing, PendingPlaced, OwnerVars
<1>25. CASE GiveUpReview
  BY <1>25, <1>a DEF GiveUpReview, Finishing, RunStates, Save, Types,
     LimitsAhead, LimitsHold, InStep, Freezing, PendingPlaced, OwnerVars
<1>26. CASE RetryReview
  BY <1>26, <1>a DEF RetryReview, Types, LimitsAhead, LimitsHold, InStep,
     Freezing, PendingPlaced, OwnerVars
<1>27. CASE RecordPass
  BY <1>27, <1>a DEF RecordPass, RunStates, Save, Types, LimitsAhead,
     LimitsHold, InStep, Freezing, PendingPlaced, OwnerVars
<1>28. CASE AnnounceWriter
  BY <1>28, <1>a DEF AnnounceWriter, RunStates, Save, Types, LimitsAhead,
     LimitsHold, InStep, Freezing, PendingPlaced, OwnerVars
<1>29. CASE InvokeWriter \/ WriterReturns \/ CountFailure \/ CheckCancel
  BY <1>29, <1>a DEF InvokeWriter, RunStates, Save, WriterReturns, Returned,
     Down, CountFailure, CheckCancel, CancelRequested, Types, LimitsAhead,
     LimitsHold, InStep, Freezing, PendingPlaced, OwnerVars
<1>30. CASE Measure
  BY <1>30, <1>a DEF Measure, RunStates, Save, Types, LimitsAhead, LimitsHold,
     InStep, Freezing, PendingPlaced, OwnerVars
<1>31. CASE UNCHANGED vars
  BY <1>31 DEF vars, OwnerVars, Types, LimitsAhead, LimitsHold, InStep,
     Freezing, PendingPlaced
<1> QED
  BY <1>1, <1>2, <1>3, <1>4, <1>5, <1>5b, <1>5c, <1>6, <1>7, <1>8, <1>9, <1>10,
     <1>11, <1>12,
     <1>13, <1>14, <1>15, <1>16, <1>17, <1>18, <1>19, <1>20, <1>21, <1>22,
     <1>23, <1>24, <1>25, <1>26, <1>27, <1>28, <1>29, <1>30, <1>31 DEF Next,
     Owner, Agents, Runner, Reconcile, Evaluate, Commit, Write

(* Every claim keeps its evidence.                                         *)
LEMMA ClaimsHoldKept ==
  ASSUME Types, Returns, InStep, AgentsAnnounced, TreeBound, PendingPlaced,
         AttemptApart, EvidenceFits, ClaimsHold, [Next]_vars
  PROVE  ClaimsHold'
<1>a. /\ tree.head \in Nat /\ tree.bound \in Nat /\ tree.bound <= tree.head
      /\ Len(commits) \in Nat /\ tree.head <= Len(commits)
      /\ disk.candidate \in Shas /\ disk.passed \in Shas /\ mem.tested \in Shas
      /\ None \notin Nat /\ disk.reviews \subseteq Reviews
      /\ Authors(tree.head) \subseteq Bytes /\ tree.bytes \subseteq Bytes
  <2>1. /\ tree.head \in Nat /\ tree.bound \in Nat /\ Len(commits) \in Nat
        /\ tree.bytes \subseteq Bytes
    BY DEF Types, Trees, Histories
  <2>2. /\ disk.candidate \in Shas /\ disk.passed \in Shas /\ mem.tested \in Shas
        /\ disk.reviews \subseteq Reviews
    BY DEF Types, RunStates
  <2> QED
    BY <2>1, <2>2, AuthorsTyped, GoalAssumption DEF TreeBound
<1>1. CASE Approve \/ ApproveBaseline \/ Cancel \/ TerminateAgent
  BY <1>1, <1>a DEF Approve, ApproveBaseline, Cancel, TerminateAgent, Exits,
     Running, Waiting, Types, ClaimsHold, ReviewedCandidate, Passing, Blocked,
     AchievedOnEvidence, Authors, InStep, OwnerVars
<1>2. CASE AgentEdits
  BY <1>2, <1>a DEF AgentEdits, Running, Trees, Types, ClaimsHold,
     ReviewedCandidate, Passing, Blocked, AchievedOnEvidence, Authors, InStep,
     OwnerVars
<1>3. CASE AgentMovesHead
  <2>1. Authors(tree.head) \cup tree.bytes \in SUBSET Bytes
    BY <1>a
  <2>2. /\ Len(commits') = Len(commits) + 1
        /\ \A sha \in Nat : sha <= Len(commits) => Authors(sha)' = Authors(sha)
        /\ \A sha \in Nat :
             sha = Len(commits) + 1 => Authors(sha)' = Authors(tree.head) \cup tree.bytes
    BY <1>3, <2>1, AuthorsKept DEF AgentMovesHead
  <2>3. /\ tree'.head = Len(commits) + 1 /\ tree'.bound = tree.bound /\ tree'.bytes = {}
        /\ tree'.advancing = tree.advancing
        /\ UNCHANGED << goal, disk, mem, frame, verified, cancelled >>
    BY <1>3 DEF AgentMovesHead, Types, Trees, OwnerVars
  <2>4. disk.status = "running"
    BY <1>3 DEF AgentMovesHead, Running, AgentsAnnounced, InStep
  <2>5. \A r \in disk.reviews : r.sha \in Nat
    BY <1>a DEF Reviews
  <2>6. pc' = pc \/ pc' = "advanced"
    BY <1>3 DEF AgentMovesHead
  <2>7. \A r \in disk.reviews : r.sha <= Len(commits') /\ r.by \notin Authors(r.sha)'
    BY <1>a, <2>2, <2>5 DEF ClaimsHold
  <2>8. \A r \in disk'.reviews : r.sha <= Len(commits') /\ r.by \notin Authors(r.sha)'
    BY <2>3, <2>7
  <2>9. UNCHANGED << disk, mem, frame, verified >>
    BY <2>3
  <2>10. Passing' => Passing
    BY <2>6, <2>9 DEF Passing
  <2>11. pc' \in {"verifying", "gate", "reviewing"} \/ Passing' => ~Blocked(disk)'
    BY <2>6, <2>9, <2>10 DEF ClaimsHold, Blocked
  <2>12. Passing' => ReviewedCandidate'
    BY <2>9, <2>10 DEF ClaimsHold, ReviewedCandidate
  <2>13. AchievedOnEvidence'
    BY <2>4, <2>9 DEF AchievedOnEvidence
  <2>14. pc' \notin Idle => pc \notin Idle
    BY <1>3 DEF AgentMovesHead
  <2> QED
    BY <2>8, <2>9, <2>11, <2>12, <2>13, <2>14 DEF ClaimsHold
<1>4. CASE AgentExits \/ Crash \/ Start \/ StartBaseline
  BY <1>4, <1>a DEF AgentExits, Running, Exits, Waiting, Crash, Down, NoFrame,
     Start, StartBaseline, Types, ClaimsHold, ReviewedCandidate, Passing,
     Blocked, AchievedOnEvidence, Authors, InStep, OwnerVars
<1>5. CASE BeginRun
  BY <1>5, <1>a DEF BeginRun, RunStates, Save, Fresh, Trees, NoTree, Types,
     ClaimsHold, ReviewedCandidate, Passing, Blocked, AchievedOnEvidence,
     Authors, InStep, OwnerVars
<1>6. CASE AnnounceRun
  BY <1>6, <1>a DEF AnnounceRun, Types, ClaimsHold, ReviewedCandidate, Passing,
     Blocked, AchievedOnEvidence, Authors, InStep, OwnerVars
<1>7. CASE CreateCandidate
  BY <1>7, <1>a DEF CreateCandidate, RunStates, Save, NoFrame, Trees, NoTree,
     Types, ClaimsHold, ReviewedCandidate, Passing, Blocked,
     AchievedOnEvidence, Authors, InStep, OwnerVars
<1>8. CASE ReplayFinish
  BY <1>8, <1>a DEF ReplayFinish, Types, ClaimsHold, ReviewedCandidate,
     Passing, Blocked, AchievedOnEvidence, Authors, InStep, OwnerVars
<1>9. CASE Resume
  BY <1>9, <1>a DEF Resume, Frames, NoFrame, Types, ClaimsHold,
     ReviewedCandidate, Passing, Blocked, AchievedOnEvidence, Authors, InStep,
     OwnerVars
<1>10. CASE Acquire
  <2>1. /\ pc = "acquire" /\ pc' = "reconcile"
        /\ disk' \in {disk, [disk EXCEPT !.worktree = TRUE]}
        /\ mem' = [disk EXCEPT !.worktree = TRUE,
                               !.tested = IF disk.candidate = tree.head THEN @ ELSE None]
        /\ UNCHANGED << frame, commits, verified >>
    BY <1>10, AcquireEffect
  <2>2. /\ disk'.tested = disk.tested /\ disk'.passed = disk.passed
        /\ disk'.reviews = disk.reviews /\ disk'.status = "running"
        /\ mem'.tested \in {disk.tested, None}
    BY <2>1 DEF Types, RunStates, InStep
  <2> QED
    BY <2>1, <2>2 DEF Authors, ClaimsHold, ReviewedCandidate, Passing, Blocked, AchievedOnEvidence
<1>11. CASE AcquireNothing
  BY <1>11, <1>a DEF AcquireNothing, Types, ClaimsHold, ReviewedCandidate,
     Passing, Blocked, AchievedOnEvidence, Authors, InStep, OwnerVars
<1>12. CASE AcquireRefuses
  BY <1>12, <1>a DEF AcquireRefuses, Down, NoFrame, Types, ClaimsHold,
     ReviewedCandidate, Passing, Blocked, AchievedOnEvidence, Authors, InStep,
     OwnerVars
<1>13. CASE DiscardBytes
  BY <1>13, <1>a DEF DiscardBytes, Reconciling, Trees, HeadMoved, Types,
     ClaimsHold, ReviewedCandidate, Passing, Blocked, AchievedOnEvidence,
     Authors, InStep, OwnerVars
<1>14. CASE RecordDiscard
  BY <1>14, <1>a DEF RecordDiscard, Adopting, RunStates, Save, Returns, Types,
     ClaimsHold, ReviewedCandidate, Passing, Blocked, AchievedOnEvidence,
     Authors, InStep, OwnerVars
<1>15. CASE AttributeAttempt
  BY <1>15, <1>a DEF AttributeAttempt, Reconciling, Adopting, RunStates, Save,
     HeadMoved, Returns, Types, ClaimsHold, ReviewedCandidate, Passing,
     Blocked, AchievedOnEvidence, Authors, InStep, OwnerVars
<1>16. CASE NothingPending
  BY <1>16, <1>a DEF NothingPending, Reconciling, Attributable, HeadMoved,
     Returns, Types, ClaimsHold, ReviewedCandidate, Passing, Blocked,
     AchievedOnEvidence, Authors, InStep, OwnerVars
<1>17. CASE RefuseUnattributed
  BY <1>17, <1>a DEF RefuseUnattributed, Reconciling, Down, NoFrame, HeadMoved,
     Types, ClaimsHold, ReviewedCandidate, Passing, Blocked,
     AchievedOnEvidence, Authors, InStep, OwnerVars
<1>18. CASE AdoptCancelled
  <2>1. /\ pc = "reconcile" /\ pc' = "cancelled" /\ disk.status = "running"
        /\ UNCHANGED << frame, commits, verified >>
    BY <1>18 DEF AdoptCancelled, Reconciling, InStep
  <2>2. \/ UNCHANGED << mem, disk >>
        \/ /\ disk' = mem' /\ mem'.tested \in {mem.tested, None}
           /\ mem'.passed = disk.passed /\ mem'.reviews = disk.reviews
           /\ mem'.status = "running"
    BY ZenonT(60), <1>18, <2>1 DEF AdoptCancelled, Save, Adopting, Types, RunStates, InStep
  <2> QED
    BY <2>1, <2>2 DEF Authors, ClaimsHold, ReviewedCandidate, Passing, Blocked, AchievedOnEvidence
<1>19. CASE FinishCancelled \/ Finalize
  BY SMTT(30), <1>19, <1>a DEF FinishCancelled, Finishing, RunStates, Save, NoFrame,
     Finalize, Down, Types, ClaimsHold, ReviewedCandidate, Passing, Blocked,
     AchievedOnEvidence, Authors, InStep, OwnerVars
<1>19b. CASE StopCancelled \/ StopExhausted
  BY ZenonT(60), <1>19b, <1>a DEF Finishing, RunStates, Save, NoFrame, StopCancelled,
     CancelRequested, StopExhausted, Types, ClaimsHold, ReviewedCandidate,
     Passing, Blocked, AchievedOnEvidence, Authors, InStep, OwnerVars
<1>20. CASE StopBlocked
  BY <1>20, <1>a DEF StopBlocked, Finishing, CancelRequested, RunStates, Save,
     NoFrame, Types, ClaimsHold, ReviewedCandidate, Passing, Blocked,
     AchievedOnEvidence, Authors, InStep, OwnerVars
<1>21. CASE RunChecks
  BY <1>21, <1>a DEF RunChecks, CancelRequested, CallsSpent, AttemptsSpent,
     RunStates, Save, NoFrame, Trees, Types, ClaimsHold, ReviewedCandidate,
     Passing, Blocked, AchievedOnEvidence, Authors, InStep, OwnerVars
<1>22. CASE CommitNothing
  BY <1>22, <1>a DEF CommitNothing, Adopting, RunStates, Save, Returns, Types,
     ClaimsHold, ReviewedCandidate, Passing, Blocked, AchievedOnEvidence,
     Authors, InStep, OwnerVars
<1>23. CASE CommitRefused
  BY <1>23, <1>a DEF CommitRefused, Down, NoFrame, Types, ClaimsHold,
     ReviewedCandidate, Passing, Blocked, AchievedOnEvidence, Authors, InStep,
     OwnerVars
<1>24. CASE BeginAdvance
  BY <1>24, <1>a DEF BeginAdvance, Trees, Types, ClaimsHold, ReviewedCandidate,
     Passing, Blocked, AchievedOnEvidence, Authors, InStep, OwnerVars
<1>25. CASE CommitAll
  <2>1. Authors(tree.head) \cup tree.bytes \in SUBSET Bytes
    BY <1>a
  <2>2. /\ Len(commits') = Len(commits) + 1
        /\ \A sha \in Nat : sha <= Len(commits) => Authors(sha)' = Authors(sha)
        /\ \A sha \in Nat :
             sha = Len(commits) + 1 => Authors(sha)' = Authors(tree.head) \cup tree.bytes
    BY <1>25, <2>1, AuthorsKept DEF CommitAll
  <2>3. /\ tree'.head = Len(commits) + 1 /\ tree'.bound = tree.bound /\ tree'.bytes = {}
        /\ tree'.advancing = tree.advancing
        /\ UNCHANGED << goal, disk, mem, frame, verified, cancelled >>
    BY <1>25 DEF CommitAll, Types, Trees, OwnerVars
  <2>4. disk.status = "running"
    BY <1>25 DEF CommitAll, Running, AgentsAnnounced, InStep
  <2>5. \A r \in disk.reviews : r.sha \in Nat
    BY <1>a DEF Reviews
  <2>6. pc' = pc \/ pc' = "advanced"
    BY <1>25 DEF CommitAll
  <2>7. \A r \in disk.reviews : r.sha <= Len(commits') /\ r.by \notin Authors(r.sha)'
    BY <1>a, <2>2, <2>5 DEF ClaimsHold
  <2>8. \A r \in disk'.reviews : r.sha <= Len(commits') /\ r.by \notin Authors(r.sha)'
    BY <2>3, <2>7
  <2>9. UNCHANGED << disk, mem, frame, verified >>
    BY <2>3
  <2>10. Passing' => Passing
    BY <2>6, <2>9 DEF Passing
  <2>11. pc' \in {"verifying", "gate", "reviewing"} \/ Passing' => ~Blocked(disk)'
    BY <2>6, <2>9, <2>10 DEF ClaimsHold, Blocked
  <2>12. Passing' => ReviewedCandidate'
    BY <2>9, <2>10 DEF ClaimsHold, ReviewedCandidate
  <2>13. AchievedOnEvidence'
    BY <2>4, <2>9 DEF AchievedOnEvidence
  <2>14. pc' \notin Idle => pc \notin Idle
    BY <1>25 DEF CommitAll
  <2> QED
    BY <2>8, <2>9, <2>11, <2>12, <2>13, <2>14 DEF ClaimsHold
<1>26. CASE CompleteAdvance
  BY <1>26, <1>a DEF CompleteAdvance, Trees, Types, ClaimsHold,
     ReviewedCandidate, Passing, Blocked, AchievedOnEvidence, Authors, InStep,
     OwnerVars
<1>27. CASE RecordCommit
  BY <1>27, <1>a DEF RecordCommit, Adopting, RunStates, Save, Frames, Returns,
     Types, ClaimsHold, ReviewedCandidate, Passing, Blocked,
     AchievedOnEvidence, Authors, InStep, OwnerVars
<1>28. CASE StillBlocked
  BY <1>28, <1>a DEF StillBlocked, EvidenceFits, VerificationDue, Types,
     ClaimsHold, ReviewedCandidate, Passing, Blocked, AchievedOnEvidence,
     Authors, InStep, OwnerVars
<1>29. CASE AlreadyTested
  BY <1>29, <1>a DEF AlreadyTested, EvidenceFits, VerificationDue, Types,
     ClaimsHold, ReviewedCandidate, Passing, Blocked, AchievedOnEvidence,
     Authors, InStep, OwnerVars
<1>30. CASE Verify
  BY <1>30, <1>a DEF Verify, VerificationDue, CreateView, ViewRefused,
     EvidenceFits, Types, ClaimsHold, ReviewedCandidate, Passing, Blocked,
     AchievedOnEvidence, Authors, InStep, OwnerVars
<1>31. CASE VerifyFails
  BY <1>31, <1>a DEF VerifyFails, RemoveView, Types, ClaimsHold,
     ReviewedCandidate, Passing, Blocked, AchievedOnEvidence, Authors, InStep,
     OwnerVars
<1>32. CASE VerifyPasses
  BY <1>32, <1>a DEF VerifyPasses, RemoveView, RunStates, Save, EvidenceFits,
     VerificationDue, Types, ClaimsHold, ReviewedCandidate, Passing, Blocked,
     AchievedOnEvidence, Authors, InStep, OwnerVars
<1>33. CASE Achieve
  <2>1. /\ pc = "gate" /\ pc' = "finalize" /\ disk' = mem' /\ frame' = NoFrame
        /\ mem' = [mem EXCEPT !.status = "achieved"]
        /\ UNCHANGED << tree, commits, verified >>
        /\ ~(mem.candidate \in NeedsReview /\ mem.passed # mem.candidate)
    BY <1>33 DEF Achieve, Finishing, Save, ReviewDue
  <2>2. /\ mem'.candidate = disk.candidate /\ mem'.reviews = disk.reviews
        /\ mem'.passed = disk.passed /\ mem'.tested = mem.tested
    BY <2>1 DEF Types, RunStates, InStep
  <2>3. disk.candidate = tree.head /\ mem.tested = disk.candidate
    BY <2>1 DEF EvidenceFits, InStep, TreeBound
  <2> QED
    BY <1>a, <2>1, <2>2, <2>3 DEF InStep, NoFrame, Authors, ClaimsHold,
       ReviewedCandidate, Passing, Blocked, AchievedOnEvidence
<1>34. CASE ReviewFatal
  BY <1>34, <1>a DEF ReviewFatal, Finishing, ReviewDue, RunStates, Save,
     NoFrame, Types, ClaimsHold, ReviewedCandidate, Passing, Blocked,
     AchievedOnEvidence, Authors, InStep, OwnerVars
<1>35. CASE InvokeReviewer
  BY <1>35, <1>a DEF InvokeReviewer, ReviewDue, Reviewer, Excluded, CreateView,
     ViewRefused, RunStates, Save, Types, ClaimsHold, ReviewedCandidate,
     Passing, Blocked, AchievedOnEvidence, Authors, InStep, OwnerVars
<1>36. CASE ViewInTheWay
  BY <1>36, <1>a DEF ViewInTheWay, Down, NoFrame, Types, ClaimsHold,
     ReviewedCandidate, Passing, Blocked, AchievedOnEvidence, Authors, InStep,
     OwnerVars
<1>37. CASE ReviewFails
  BY <1>37, <1>a DEF ReviewFails, Returned, Reviewed, RunStates, Save, Frames,
     Types, ClaimsHold, ReviewedCandidate, Passing, Blocked,
     AchievedOnEvidence, Authors, InStep, OwnerVars
<1>38. CASE ReviewCompletes
  <2>1. PICK blocking \in BOOLEAN :
          /\ Save([mem EXCEPT !.reviews = @ \cup
                     {[sha |-> mem.candidate, by |-> agent.by, blocking |-> blocking]}])
          /\ Reviewed(IF blocking THEN "write" ELSE "passed")
    BY <1>38 DEF ReviewCompletes
  <2> DEFINE r == [sha |-> disk.candidate, by |-> agent.by, blocking |-> blocking]
  <2>2. /\ pc = "reviewing" /\ agent # None /\ disk.status = "running"
        /\ UNCHANGED << commits, verified, tree >>
    BY <1>38 DEF ReviewCompletes, Returned, InStep
  <2>3. /\ disk' = mem' /\ disk'.reviews = disk.reviews \cup {r}
        /\ disk'.candidate = disk.candidate /\ disk'.tested = mem.tested
        /\ disk'.passed = disk.passed /\ disk'.status = "running"
        /\ pc' = "reviewed" /\ frame'.next = IF blocking THEN "write" ELSE "passed"
    BY <2>1, <2>2 DEF Save, Reviewed, Types, RunStates, Frames, InStep
  <2>4. disk.candidate = tree.bound /\ agent.by \in Resources /\ agent.by \notin disk.contributors
    BY <2>2 DEF EvidenceFits, AgentsAnnounced, Types, AgentStates
  <2>5. agent.by \notin Authors(disk.candidate)
    BY <1>a, <2>4, GoalAssumption DEF AttemptApart
  <2>6. r.sha <= Len(commits) /\ r.by \notin Authors(r.sha)
    BY <1>a, <2>4, <2>5
  <2>7. \A q \in disk.reviews : q.sha = disk.candidate => ~q.blocking
    BY <2>2 DEF ClaimsHold, Blocked
  <2>8. \A q \in disk.reviews : q.sha <= Len(commits) /\ q.by \notin Authors(q.sha)
    BY DEF ClaimsHold
  <2>9. /\ disk.passed # None => \E q \in disk.reviews : q.sha = disk.passed
        /\ mem.tested # None => mem.tested \in verified
    BY <2>2 DEF ClaimsHold
  <2>10. \A q \in disk'.reviews : q.sha <= Len(commits)' /\ q.by \notin Authors(q.sha)'
    BY <2>2, <2>3, <2>6, <2>8 DEF Authors
  <2>11. r \in disk'.reviews /\ r.sha = disk.candidate /\ r.blocking = blocking
    BY <2>3
  <2>12. Passing' => /\ blocking = FALSE /\ ReviewedCandidate'
                     /\ \A q \in disk'.reviews : q.sha = disk'.candidate => ~q.blocking
    BY <2>3, <2>7, <2>11 DEF Passing, ReviewedCandidate
  <2>13. disk'.passed # None => \E q \in disk'.reviews : q.sha = disk'.passed
    BY <2>3, <2>9
  <2> HIDE DEF r
  <2> QED
    BY <2>2, <2>3, <2>9, <2>10, <2>12, <2>13 DEF ClaimsHold, Blocked, AchievedOnEvidence
<1>39. CASE EndReview
  BY <1>39, <1>a DEF EndReview, RemoveView, Returns, Types, ClaimsHold,
     ReviewedCandidate, Passing, Blocked, AchievedOnEvidence, Authors, InStep,
     OwnerVars
<1>40. CASE GiveUpReview
  BY <1>40, <1>a DEF GiveUpReview, Finishing, RunStates, Save, NoFrame, Types,
     ClaimsHold, ReviewedCandidate, Passing, Blocked, AchievedOnEvidence,
     Authors, InStep, OwnerVars
<1>41. CASE RetryReview
  BY <1>41, <1>a DEF RetryReview, NoFrame, Types, ClaimsHold,
     ReviewedCandidate, Passing, Blocked, AchievedOnEvidence, Authors, InStep,
     OwnerVars
<1>42. CASE RecordPass
  BY <1>42, <1>a DEF RecordPass, RunStates, Save, EvidenceFits,
     VerificationDue, Types, ClaimsHold, ReviewedCandidate, Passing, Blocked,
     AchievedOnEvidence, Authors, InStep, OwnerVars
<1>43. CASE AnnounceWriter
  BY <1>43, <1>a DEF AnnounceWriter, RunStates, Save, Types, ClaimsHold,
     ReviewedCandidate, Passing, Blocked, AchievedOnEvidence, Authors, InStep,
     OwnerVars
<1>44. CASE InvokeWriter
  BY <1>44, <1>a DEF InvokeWriter, RunStates, Save, Types, ClaimsHold,
     ReviewedCandidate, Passing, Blocked, AchievedOnEvidence, Authors, InStep,
     OwnerVars
<1>45. CASE WriterReturns
  BY <1>45, <1>a DEF WriterReturns, Returned, Down, Frames, NoFrame, HeadMoved,
     Types, ClaimsHold, ReviewedCandidate, Passing, Blocked,
     AchievedOnEvidence, Authors, InStep, OwnerVars
<1>46. CASE CountFailure
  BY <1>46, <1>a DEF CountFailure, RunStates, Save, NoFrame, Types, ClaimsHold,
     ReviewedCandidate, Passing, Blocked, AchievedOnEvidence, Authors, InStep,
     OwnerVars
<1>47. CASE CheckCancel
  BY <1>47, <1>a DEF CheckCancel, CancelRequested, Frames, Types, ClaimsHold,
     ReviewedCandidate, Passing, Blocked, AchievedOnEvidence, Authors, InStep,
     OwnerVars
<1>48. CASE Measure
  BY <1>48, <1>a DEF Measure, RunStates, Save, NoFrame, Trees, Types,
     ClaimsHold, ReviewedCandidate, Passing, Blocked, AchievedOnEvidence,
     Authors, InStep, OwnerVars
<1>49. CASE UNCHANGED vars
  BY <1>49 DEF vars, OwnerVars, Types, ClaimsHold, ReviewedCandidate, Passing,
     Blocked, AchievedOnEvidence, Authors, InStep
<1> QED
  BY <1>1, <1>2, <1>3, <1>4, <1>5, <1>6, <1>7, <1>8, <1>9, <1>10, <1>11, <1>12,
     <1>13, <1>14, <1>15, <1>16, <1>17, <1>18, <1>19, <1>19b, <1>20, <1>21,
     <1>22,
     <1>23, <1>24, <1>25, <1>26, <1>27, <1>28, <1>29, <1>30, <1>31, <1>32,
     <1>33, <1>34, <1>35, <1>36, <1>37, <1>38, <1>39, <1>40, <1>41, <1>42,
     <1>43, <1>44, <1>45, <1>46, <1>47, <1>48, <1>49 DEF Next, Owner, Agents,
     Runner, Reconcile, Evaluate, Commit, Write

(* No late byte gets past the last look at goal.json.                      *)
LEMMA LateKeptOutKept ==
  ASSUME Types, Returns, InStep, AgentsAnnounced, TreeBound, PendingPlaced,
         AttemptApart, EvidenceFits, FilesAgree, LateKeptOut, [Next]_vars
  PROVE  LateKeptOut'
<1>a. /\ tree.head \in Nat /\ tree.bound \in Nat /\ tree.bound <= tree.head
      /\ Len(commits) \in Nat /\ tree.head <= Len(commits)
      /\ disk.candidate \in Shas /\ disk.passed \in Shas /\ mem.tested \in Shas
      /\ None \notin Nat /\ disk.reviews \subseteq Reviews
      /\ Authors(tree.head) \subseteq Bytes /\ tree.bytes \subseteq Bytes
  <2>1. /\ tree.head \in Nat /\ tree.bound \in Nat /\ Len(commits) \in Nat
        /\ tree.bytes \subseteq Bytes
    BY DEF Types, Trees, Histories
  <2>2. /\ disk.candidate \in Shas /\ disk.passed \in Shas /\ mem.tested \in Shas
        /\ disk.reviews \subseteq Reviews
    BY DEF Types, RunStates
  <2> QED
    BY <2>1, <2>2, AuthorsTyped, GoalAssumption DEF TreeBound
<1>1. CASE Approve \/ ApproveBaseline \/ Cancel \/ TerminateAgent
  BY <1>1 DEF Approve, GoalStates, ApproveBaseline, Cancel, TerminateAgent,
     Exits, Running, Waiting, Types, LateKeptOut, Uncancelled, Authors, InStep,
     OwnerVars
<1>2. CASE AgentEdits
  <2>1. /\ pc \in {"writing", "reviewing", "down", "acquire"} /\ tree.advancing = FALSE
        /\ UNCHANGED << goal, disk, mem, pc, frame, commits, OwnerVars >>
    BY <1>2 DEF AgentEdits, Running, AgentsAnnounced
  <2>2. /\ tree'.head = tree.head /\ tree'.bound = tree.bound
        /\ tree'.advancing = tree.advancing
    BY <1>2 DEF AgentEdits, Types, Trees
  <2>3. agent.by \in Resources
    BY <1>2 DEF AgentEdits, Running, Types, AgentStates
  <2>4. Late \in tree'.bytes => Late \in tree.bytes \/ goal.status = "cancelled"
    BY <1>2, <2>3, GoalAssumption DEF AgentEdits, Types, Trees
  <2> QED
    BY <2>1, <2>2, <2>4 DEF OwnerVars, Authors, LateKeptOut, Uncancelled
<1>3. CASE AgentMovesHead
  <2>1. Authors(tree.head) \cup tree.bytes \in SUBSET Bytes
    BY <1>a
  <2>2. /\ Len(commits') = Len(commits) + 1
        /\ \A sha \in Nat : sha <= Len(commits) => Authors(sha)' = Authors(sha)
        /\ \A sha \in Nat :
             sha = Len(commits) + 1 => Authors(sha)' = Authors(tree.head) \cup tree.bytes
    BY <1>3, <2>1, AuthorsKept DEF AgentMovesHead
  <2>3. /\ tree'.head = Len(commits) + 1 /\ tree'.bound = tree.bound /\ tree'.bytes = {}
        /\ tree'.advancing = tree.advancing
        /\ UNCHANGED << goal, disk, mem, frame, verified, cancelled >>
    BY <1>3 DEF AgentMovesHead, Types, Trees, OwnerVars
  <2>4. /\ pc' = pc /\ pc \in {"writing", "reviewing", "down", "acquire"}
        /\ tree.advancing = FALSE
    BY <1>3 DEF AgentMovesHead, Running, AgentsAnnounced
  <2> QED
    BY <1>a, <2>2, <2>3, <2>4 DEF LateKeptOut, Uncancelled
<1>4. CASE AgentExits \/ Crash \/ Start \/ StartBaseline
  BY <1>4 DEF AgentExits, Running, Exits, Waiting, Crash, Down, NoFrame, Start,
     StartBaseline, GoalStates, Types, LateKeptOut, Uncancelled, Authors,
     InStep, OwnerVars
<1>5. CASE BeginRun \/ AnnounceRun \/ CreateCandidate \/ ReplayFinish
  BY <1>5 DEF BeginRun, RunStates, Save, Fresh, Trees, NoTree, AnnounceRun,
     GoalStates, CreateCandidate, NoFrame, ReplayFinish, Types, LateKeptOut,
     Uncancelled, Authors, InStep, OwnerVars
<1>6. CASE Resume
  BY <1>6 DEF Resume, Frames, NoFrame, GoalStates, Types, LateKeptOut,
     Uncancelled, Authors, InStep, OwnerVars
<1>7. CASE Acquire
  <2>1. /\ pc = "acquire" /\ pc' = "reconcile" /\ ~HeadMoved
        /\ tree'.head = tree.head /\ tree'.bound = tree.head /\ tree'.bytes = tree.bytes
        /\ tree'.advancing = FALSE
        /\ disk' \in {disk, [disk EXCEPT !.worktree = TRUE]}
        /\ UNCHANGED << goal, frame, commits, OwnerVars >>
    BY <1>7, AcquireEffect
  <2>2. disk'.status = disk.status
    BY <2>1 DEF Types, RunStates
  <2>3. tree.head = tree.bound \/ tree.advancing = TRUE
    BY <2>1 DEF HeadMoved, Types, Trees
  <2> QED
    BY <2>1, <2>2, <2>3 DEF OwnerVars, Authors, LateKeptOut, Uncancelled
<1>8. CASE AcquireNothing
  BY <1>8 DEF AcquireNothing, Returns, Types, LateKeptOut, Uncancelled,
     Authors, InStep, OwnerVars
<1>9. CASE AcquireRefuses
  BY <1>9 DEF AcquireRefuses, Down, NoFrame, Types, LateKeptOut, Uncancelled,
     Authors, InStep, OwnerVars
<1>10. CASE DiscardBytes
  BY <1>10 DEF DiscardBytes, Reconciling, Trees, HeadMoved, Types, LateKeptOut,
     Uncancelled, Authors, InStep, OwnerVars
<1>11. CASE RecordDiscard
  BY <1>11 DEF RecordDiscard, Adopting, RunStates, Save, Returns, Types,
     LateKeptOut, Uncancelled, Authors, InStep, OwnerVars
<1>12. CASE AttributeAttempt
  BY <1>12 DEF AttributeAttempt, Reconciling, Adopting, RunStates, Save,
     HeadMoved, Returns, Types, LateKeptOut, Uncancelled, Authors, InStep,
     OwnerVars
<1>13. CASE NothingPending
  BY <1>13 DEF NothingPending, Reconciling, Attributable, HeadMoved, Returns,
     Types, LateKeptOut, Uncancelled, Authors, InStep, OwnerVars
<1>14. CASE RefuseUnattributed
  BY <1>14 DEF RefuseUnattributed, Reconciling, Down, NoFrame, HeadMoved,
     Types, LateKeptOut, Uncancelled, Authors, InStep, OwnerVars
<1>15. CASE AdoptCancelled
  BY <1>15 DEF AdoptCancelled, Reconciling, Adopting, RunStates, Save,
     HeadMoved, Types, LateKeptOut, Uncancelled, Authors, InStep, OwnerVars
<1>16. CASE FinishCancelled \/ Finalize \/ StopCancelled \/ StopExhausted
  BY <1>16 DEF FinishCancelled, Finishing, RunStates, Save, NoFrame, Finalize,
     Down, GoalStates, StopCancelled, CancelRequested, StopExhausted, Types,
     LateKeptOut, Uncancelled, Authors, InStep, OwnerVars
<1>17. CASE StopBlocked
  BY <1>17 DEF StopBlocked, Finishing, CancelRequested, RunStates, Save,
     NoFrame, Types, LateKeptOut, Uncancelled, Authors, InStep, OwnerVars
<1>18. CASE RunChecks
  <2>1. PICK litter \in Litter : tree' = [tree EXCEPT !.bytes = @ \cup litter]
    BY <1>18 DEF RunChecks
  <2>2. /\ tree'.head = tree.head /\ tree'.bound = tree.bound
        /\ tree'.advancing = tree.advancing
        /\ tree'.bytes \subseteq {Shell} /\ Late # Shell
    BY <1>18, <2>1, GoalAssumption DEF RunChecks, Types, Trees, AttemptApart, PendingPlaced
  <2>3. /\ disk'.status = disk.status /\ frame'.next \in {"top", "verify"}
        /\ pc' \in {"commit", "write", "top"}
        /\ UNCHANGED << goal, commits, OwnerVars >>
    BY <1>18 DEF RunChecks, Save, NoFrame, Types, RunStates, InStep
  <2> QED
    BY <2>2, <2>3 DEF OwnerVars, Authors, LateKeptOut, Uncancelled
<1>19. CASE CommitNothing
  BY <1>19 DEF CommitNothing, Adopting, RunStates, Save, Returns, Types,
     LateKeptOut, Uncancelled, Authors, InStep, OwnerVars
<1>20. CASE CommitRefused
  BY <1>20 DEF CommitRefused, Down, NoFrame, Types, LateKeptOut, Uncancelled,
     Authors, InStep, OwnerVars
<1>21. CASE BeginAdvance
  <2>1. /\ tree'.head = tree.head /\ tree'.bound = tree.bound /\ tree'.bytes = tree.bytes
        /\ tree.head = tree.bound /\ pc = "commit" /\ pc' = "advance"
        /\ UNCHANGED << goal, disk, frame, commits, OwnerVars >>
    BY <1>21 DEF BeginAdvance, Types, Trees, TreeBound
  <2> QED
    BY <2>1 DEF OwnerVars, Authors, LateKeptOut, Uncancelled
<1>22. CASE CommitAll
  <2>1. Authors(tree.head) \cup tree.bytes \in SUBSET Bytes
    BY <1>a
  <2>2. /\ Len(commits') = Len(commits) + 1
        /\ \A sha \in Nat : sha <= Len(commits) => Authors(sha)' = Authors(sha)
        /\ \A sha \in Nat :
             sha = Len(commits) + 1 => Authors(sha)' = Authors(tree.head) \cup tree.bytes
    BY <1>22, <2>1, AuthorsKept DEF CommitAll
  <2>3. /\ tree'.head = Len(commits) + 1 /\ tree'.bound = tree.bound /\ tree'.bytes = {}
        /\ tree'.advancing = tree.advancing
        /\ UNCHANGED << goal, disk, mem, frame, verified, cancelled >>
    BY <1>22 DEF CommitAll, Types, Trees, OwnerVars
  <2>4. pc = "advance" /\ pc' = "advanced" /\ tree.head = tree.bound
    BY <1>22 DEF CommitAll, TreeBound
  <2>5. Authors(tree.head)' = Authors(tree.head) \cup tree.bytes
    BY <1>a, <2>2, <2>3
  <2>6. Authors(tree.bound)' = Authors(tree.bound)
    BY <1>a, <2>2, <2>3
  <2> QED
    BY <2>3, <2>4, <2>5, <2>6 DEF LateKeptOut, Uncancelled
<1>23. CASE CompleteAdvance
  <2>1. /\ tree'.head = tree.head /\ tree'.bound = tree.head /\ tree'.bytes = tree.bytes
        /\ tree.advancing = TRUE /\ tree'.advancing = FALSE
        /\ pc = "advanced" /\ pc' = "record"
        /\ UNCHANGED << goal, disk, frame, commits, OwnerVars >>
    BY <1>23 DEF CompleteAdvance, Types, Trees, TreeBound
  <2> QED
    BY <2>1 DEF OwnerVars, Authors, LateKeptOut, Uncancelled
<1>24. CASE RecordCommit
  BY <1>24 DEF RecordCommit, Adopting, RunStates, Save, Frames, Returns, Types,
     LateKeptOut, Uncancelled, Authors, InStep, OwnerVars
<1>25. CASE StillBlocked
  BY <1>25 DEF StillBlocked, Types, LateKeptOut, Uncancelled, Authors, InStep,
     OwnerVars
<1>26. CASE AlreadyTested
  BY <1>26 DEF AlreadyTested, Types, LateKeptOut, Uncancelled, Authors, InStep,
     OwnerVars
<1>27. CASE Verify
  BY <1>27 DEF Verify, VerificationDue, CreateView, ViewRefused, Types,
     LateKeptOut, Uncancelled, Authors, InStep, OwnerVars
<1>28. CASE VerifyFails
  BY <1>28 DEF VerifyFails, RemoveView, Types, LateKeptOut, Uncancelled,
     Authors, InStep, OwnerVars
<1>29. CASE VerifyPasses
  BY <1>29 DEF VerifyPasses, RemoveView, RunStates, Save, Types, LateKeptOut,
     Uncancelled, Authors, InStep, OwnerVars
<1>30. CASE Achieve
  BY <1>30 DEF Achieve, Finishing, ReviewDue, RunStates, Save, NoFrame, Types,
     LateKeptOut, Uncancelled, Authors, InStep, OwnerVars
<1>31. CASE ReviewFatal
  BY <1>31 DEF ReviewFatal, Finishing, ReviewDue, RunStates, Save, NoFrame,
     Types, LateKeptOut, Uncancelled, Authors, InStep, OwnerVars
<1>32. CASE InvokeReviewer \/ ViewInTheWay \/ ReviewFails \/ ReviewCompletes
  BY <1>32 DEF InvokeReviewer, ReviewDue, Reviewer, Excluded, CreateView,
     ViewRefused, RunStates, Save, ViewInTheWay, Down, NoFrame, ReviewFails,
     Returned, Reviewed, Frames, ReviewCompletes, Types, LateKeptOut,
     Uncancelled, Authors, InStep, OwnerVars
<1>33. CASE EndReview \/ GiveUpReview \/ RetryReview \/ RecordPass
  BY <1>33 DEF EndReview, RemoveView, Returns, GiveUpReview, Finishing,
     RunStates, Save, NoFrame, RetryReview, RecordPass, Types, LateKeptOut,
     Uncancelled, Authors, InStep, OwnerVars
<1>34. CASE AnnounceWriter \/ InvokeWriter
  BY <1>34 DEF AnnounceWriter, RunStates, Save, InvokeWriter, Types,
     LateKeptOut, Uncancelled, Authors, InStep, OwnerVars
<1>35. CASE WriterReturns
  <2>1. pc = "writing" /\ UNCHANGED << goal, disk, tree, commits, OwnerVars >>
    BY <1>35 DEF WriterReturns, Returned
  <2>2. /\ pc' \in {"down", "reconcile", "written"}
        /\ frame'.next \in {"top", "failed", frame.next}
    <3>1. CASE Down
      BY <3>1 DEF Down, NoFrame
    <3>2. CASE /\ pc' = "reconcile"
               /\ frame' = [frame EXCEPT !.base = tree.bound, !.next = "failed"]
      BY <3>2 DEF Types, Frames
    <3>3. CASE pc' = "written" /\ UNCHANGED frame
      BY <3>3
    <3> QED
      BY <1>35, <3>1, <3>2, <3>3 DEF WriterReturns
  <2> QED
    BY <2>1, <2>2 DEF OwnerVars, Authors, LateKeptOut, Uncancelled
<1>36. CASE CountFailure \/ CheckCancel
  BY <1>36 DEF CountFailure, RunStates, Save, NoFrame, CheckCancel,
     CancelRequested, Frames, Types, LateKeptOut, Uncancelled, Authors, InStep,
     OwnerVars
<1>37. CASE Measure
  <2>1. PICK litter \in Litter : tree' = [tree EXCEPT !.bytes = @ \cup litter]
    BY <1>37 DEF Measure
  <2>2. /\ tree'.head = tree.head /\ tree'.bound = tree.bound
        /\ tree'.advancing = tree.advancing
        /\ tree'.bytes \subseteq {Shell} /\ Late # Shell
    BY <1>37, <2>1, GoalAssumption DEF Measure, Types, Trees, AttemptApart, PendingPlaced
  <2>3. /\ disk'.status = disk.status /\ frame'.next \in {"top", "verify"}
        /\ pc' \in {"commit", "write", "top"}
        /\ UNCHANGED << goal, commits, OwnerVars >>
    BY <1>37 DEF Measure, Save, NoFrame, Types, RunStates, InStep
  <2> QED
    BY <2>2, <2>3 DEF OwnerVars, Authors, LateKeptOut, Uncancelled
<1>38. CASE UNCHANGED vars
  BY <1>38 DEF vars, OwnerVars, Types, LateKeptOut, Uncancelled, Authors,
     InStep
<1> QED
  BY <1>1, <1>2, <1>3, <1>4, <1>5, <1>6, <1>7, <1>8, <1>9, <1>10, <1>11, <1>12,
     <1>13, <1>14, <1>15, <1>16, <1>17, <1>18, <1>19, <1>20, <1>21, <1>22,
     <1>23, <1>24, <1>25, <1>26, <1>27, <1>28, <1>29, <1>30, <1>31, <1>32,
     <1>33, <1>34, <1>35, <1>36, <1>37, <1>38 DEF Next, Owner, Agents, Runner,
     Reconcile, Evaluate, Commit, Write

-----------------------------------------------------------------------------

(* The inductive invariant holds at the start. *)
LEMMA Started == Init => IInv
<1> SUFFICES ASSUME Init PROVE IInv
  OBVIOUS
<1>1. /\ goal.status = "prepared" /\ disk = NoRun /\ mem = NoRun /\ pc = "down"
      /\ frame.next = "top" /\ tree = NoTree /\ commits = << >> /\ agent = None
      /\ verified = {}
  BY DEF Init, NoFrame
<1>2. /\ disk.status = "none" /\ disk.pending = None /\ disk.candidate = None
      /\ disk.tested = None /\ disk.passed = None /\ disk.reviews = {}
      /\ disk.contributors = {} /\ disk.calls = 0 /\ disk.attempts = 0
  BY <1>1 DEF NoRun, Fresh
<1>3. /\ tree.head = 0 /\ tree.bound = 0 /\ tree.advancing = FALSE /\ tree.bytes = {}
      /\ tree.exists = FALSE /\ Len(commits) = 0 /\ Authors(tree.head) = {}
      /\ Authors(tree.bound) = {}
  BY <1>1 DEF NoTree, Authors
<1>4. Types
  <2>1. goal \in GoalStates
    BY DEF Init, GoalStates
  <2>2. tree \in Trees /\ views \in ViewStates
    BY DEF Init, NoTree, Trees, NoViews, ViewStates
  <2>3. commits \in Histories
    BY DEF Init, Histories
  <2> QED
    BY <1>1, <2>1, <2>2, <2>3, FreshTyped, FramesTyped DEF Init, Types, Places, AgentStates
<1>5. Returns /\ InStep /\ FilesAgree
  BY <1>1, <1>2 DEF Returns, InStep, FilesAgree, ResumeAccepted
<1>6. AgentsAnnounced /\ TreeBound /\ PendingPlaced
  BY <1>1, <1>2, <1>3 DEF AgentsAnnounced, TreeBound, PendingPlaced
<1>7. AttemptApart
  BY <1>1, <1>2, <1>3 DEF AttemptApart, Attributed
<1>8. EvidenceFits
  BY <1>1, <1>2 DEF EvidenceFits, LoadableState, Loads
<1>9. LimitsAhead
  BY <1>1, <1>2, GoalAssumption DEF LimitsAhead, LimitsHold, Freezing
<1>10. ClaimsHold
  BY <1>1, <1>2 DEF ClaimsHold, Passing, AchievedOnEvidence
<1>11. LateKeptOut
  BY <1>1, <1>2, <1>3 DEF LateKeptOut
<1> QED
  BY <1>4, <1>5, <1>6, <1>7, <1>8, <1>9, <1>10, <1>11 DEF IInv

(* The inductive invariant of a goal run: on every stage, after every      *)
(* crash and under every overlap with the owner's commands, the two files, *)
(* the memory of the runner, its agent and the worktree fit together.      *)
THEOREM Invariance == Spec => []IInv
<1>1. ASSUME IInv, [Next]_vars
      PROVE  IInv'
  <2>1. /\ Types /\ Returns /\ InStep /\ FilesAgree /\ AgentsAnnounced /\ TreeBound
        /\ PendingPlaced /\ AttemptApart /\ EvidenceFits /\ LimitsAhead /\ ClaimsHold
        /\ LateKeptOut
    BY <1>1 DEF IInv
  <2>2. Types' /\ Returns' /\ InStep'
    BY <1>1, <2>1, TypesKept, ReturnsKept, InStepKept
  <2>3. FilesAgree' /\ AgentsAnnounced' /\ TreeBound' /\ PendingPlaced'
    BY <1>1, <2>1, FilesAgreeKept, AgentsAnnouncedKept, TreeBoundKept, PendingPlacedKept
  <2>4. AttemptApart' /\ EvidenceFits'
    BY <1>1, <2>1, AttemptApartKept, EvidenceFitsKept
  <2>5. LimitsAhead' /\ ClaimsHold' /\ LateKeptOut'
    BY <1>1, <2>1, LimitsAheadKept, ClaimsHoldKept, LateKeptOutKept
  <2> QED
    BY <2>2, <2>3, <2>4, <2>5 DEF IInv
<1> QED
  BY Started, <1>1, PTL DEF Spec

(* Whatever moment a runner dies at, the run state it leaves is one that   *)
(* RunState.from_doc accepts: no evidence about another candidate.         *)
THEOREM AlwaysLoadable == Spec => []LoadableState
<1>1. IInv => LoadableState
  BY DEF IInv, EvidenceFits
<1> QED
  BY Invariance, <1>1, PTL

(* Every byte of the candidate has its author in the durable run state,    *)
(* for any number of agents, failed attempts and crashes.                  *)
THEOREM NobodyUnnamed == Spec => []Attributed
<1>1. IInv => Attributed
  BY DEF IInv, AttemptApart
<1> QED
  BY Invariance, <1>1, PTL

(* No valid review is by an author of any byte it reviewed.                *)
THEOREM ReviewsIndependent == Spec => []IndependentReview
<1>1. IInv => IndependentReview
  BY DEF IInv, ClaimsHold, IndependentReview
<1> QED
  BY Invariance, <1>1, PTL

(* A goal is achieved only on the worktree's commit, tested and reviewed.  *)
THEOREM AchievedWithEvidence == Spec => []AchievedOnEvidence
<1>1. IInv => AchievedOnEvidence
  BY DEF IInv, ClaimsHold
<1> QED
  BY Invariance, <1>1, PTL

(* No crash between the two files leaves a running run that resume refuses *)
(* for its goal's status.                                                  *)
THEOREM AlwaysResumable == Spec => []ResumeAccepted
<1>1. IInv => ResumeAccepted
  BY DEF IInv, FilesAgree
<1> QED
  BY Invariance, <1>1, PTL

(* Crashes and retries buy neither attempts nor agent calls.               *)
THEOREM NothingOverspent == Spec => []LimitsHold
<1>1. IInv => LimitsHold
  BY DEF IInv, LimitsAhead
<1> QED
  BY Invariance, <1>1, PTL

(* As long as a cancel stands in goal.json, nothing that an agent wrote    *)
(* after it is in the commit the worktree is bound to.                     *)
THEOREM LateWorkUnbound == Spec => []NoLateWork
<1>1. IInv => NoLateWork
  BY DEF IInv, LateKeptOut, Uncancelled, NoLateWork, CancelRequested
<1> QED
  BY Invariance, <1>1, PTL

-----------------------------------------------------------------------------
(* The two files keep the contract of a goal.                              *)

(* A save that leaves what the record shows of the run's evidence.         *)
SameButStatus ==
  /\ disk'.candidate = disk.candidate /\ disk'.attempts = disk.attempts
  /\ disk'.calls = disk.calls /\ disk'.reviews = disk.reviews
  /\ disk'.contributors = disk.contributors

(* What the record does not show is no step of the contract.               *)
LEMMA RecordKept ==
  ASSUME UNCHANGED << goal, approving, verified >>,
         disk'.status = disk.status, SameButStatus
  PROVE  UNCHANGED Contract!contractVars
BY DEF Contract!contractVars, Recorded, SameButStatus

(* The records of a run.                                                   *)
Records ==
  [ status : {"none", "running"} \cup Ended, candidate : Shas, attempts : Nat,
    calls : Nat, reviews : SUBSET Reviews, contributors : SUBSET Resources ]

(* The candidate moves with the worktree, the contributors with it.        *)
LEMMA RecordMoves ==
  ASSUME Types, Types', UNCHANGED << goal, approving, verified >>,
         disk.status = "running", disk'.status = "running",
         disk.candidate # None => disk.candidate <= disk'.candidate,
         disk.contributors \subseteq disk'.contributors,
         disk'.attempts = disk.attempts, disk'.calls = disk.calls,
         disk'.reviews = disk.reviews
  PROVE  Contract!Move
<1>1. Recorded' = [Recorded EXCEPT !.candidate = Recorded'.candidate,
                                   !.contributors = Recorded'.contributors]
  <2>1. Recorded \in Records /\ Recorded' \in Records
    BY DEF Types, RunStates, Recorded, Records
  <2>2. /\ Recorded'.status = Recorded.status /\ Recorded'.attempts = Recorded.attempts
        /\ Recorded'.calls = Recorded.calls /\ Recorded'.reviews = Recorded.reviews
    BY DEF Recorded
  <2> QED
    BY <2>1, <2>2 DEF Records
<1>2. /\ Contract!Alive
      /\ Recorded.contributors \subseteq Recorded'.contributors
      /\ Recorded.candidate # None => Recorded.candidate <= Recorded'.candidate
  BY DEF Contract!Alive, Recorded
<1> QED
  BY <1>1, <1>2 DEF Contract!Move

(* A run ends in one save, and as achieved only with its evidence.         *)
LEMMA RecordEnds ==
  ASSUME UNCHANGED << goal, approving, verified >>,
         disk.status = "running", disk'.status \in Ended, SameButStatus,
         disk'.status = "achieved" => AchievedOnEvidence'
  PROVE  \E outcome \in Contract!Outcomes : Contract!End(outcome)
<1>1. disk'.status \in Contract!Outcomes /\ Contract!Alive
  BY DEF Contract!Outcomes, Contract!Alive, Recorded
<1>2. Recorded' = [Recorded EXCEPT !.status = disk'.status]
  BY DEF Recorded, SameButStatus
<1>3. disk'.status = "achieved" => Contract!Evidence
  BY DEF AchievedOnEvidence, Contract!Evidence, Recorded, SameButStatus
<1> QED
  BY <1>1, <1>2, <1>3 DEF Contract!End

(* What the owner does, and the announcements of a runner, move the status *)
(* of the goal as the contract has it.                                     *)
LEMMA StatusKeepsContract ==
  ASSUME Types, InStep, FilesAgree,
         \/ Approve \/ ApproveBaseline \/ Cancel \/ StartBaseline
         \/ AnnounceRun \/ ReplayFinish \/ Resume \/ Finalize
  PROVE  [Contract!ContractNext]_(Contract!contractVars)
<1>1. CASE Approve
  <2>1. Contract!Approve
    BY <1>1 DEF Approve, Contract!Approve, Recorded, Types, GoalStates
  <2> QED BY <2>1 DEF Contract!ContractNext
<1>2. CASE ApproveBaseline
  <2>1. Contract!SaveApproval
    BY <1>2 DEF ApproveBaseline, Contract!SaveApproval, Recorded
  <2> QED BY <2>1 DEF Contract!ContractNext
<1>3. CASE Cancel
  <2>1. Contract!Cancel
    BY <1>3 DEF Cancel, Contract!Cancel, Recorded, Types, GoalStates
  <2> QED BY <2>1 DEF Contract!ContractNext
<1>4. CASE StartBaseline
  <2>1. CASE goal' = [status |-> "approved", baselined |-> TRUE]
    <3>1. Contract!SaveBaseline
      BY <1>4, <2>1 DEF StartBaseline, Contract!SaveBaseline, Contract!Alive,
         Recorded, FilesAgree, InStep, OwnerVars
    <3> QED BY <3>1 DEF Contract!ContractNext
  <2>2. CASE UNCHANGED goal
    BY <1>4, <2>2, RecordKept DEF StartBaseline, SameButStatus, OwnerVars
  <2> QED BY <1>4, <2>1, <2>2 DEF StartBaseline
<1>5. CASE AnnounceRun
  <2>1. Contract!Announce
    BY <1>5 DEF AnnounceRun, Contract!Announce, Contract!Alive, Recorded,
       FilesAgree, ResumeAccepted, InStep, OwnerVars
  <2> QED BY <2>1 DEF Contract!ContractNext
<1>6. CASE ReplayFinish
  <2>1. Contract!Report
    BY <1>6 DEF ReplayFinish, Contract!Report, Contract!Outcomes, Recorded,
       Types, GoalStates, OwnerVars
  <2> QED BY <2>1 DEF Contract!ContractNext
<1>7. CASE Resume
  <2>1. CASE goal.status = "approved"
    <3>1. Contract!Announce
      BY <1>7, <2>1 DEF Resume, Contract!Announce, Contract!Alive, Recorded,
         Types, GoalStates, OwnerVars
    <3> QED BY <3>1 DEF Contract!ContractNext
  <2>2. CASE goal.status # "approved"
    BY <1>7, <2>2, RecordKept DEF Resume, SameButStatus, OwnerVars
  <2> QED BY <2>1, <2>2
<1>8. CASE Finalize
  <2>1. Contract!Report
    BY <1>8 DEF Finalize, Contract!Report, Contract!Outcomes, Recorded, InStep,
       Types, GoalStates, OwnerVars
  <2> QED BY <2>1 DEF Contract!ContractNext
<1> QED
  BY <1>1, <1>2, <1>3, <1>4, <1>5, <1>6, <1>7, <1>8

(* What is left of a runner's steps without a save.                        *)
LEMMA UnsavedKeepContract ==
  ASSUME \/ TerminateAgent \/ Agents \/ Start \/ Crash
         \/ CreateCandidate \/ AcquireNothing \/ AcquireRefuses
         \/ DiscardBytes \/ NothingPending \/ RefuseUnattributed
         \/ CommitRefused \/ BeginAdvance \/ CommitAll \/ CompleteAdvance
         \/ StillBlocked \/ AlreadyTested \/ Verify \/ VerifyFails
         \/ ViewInTheWay \/ EndReview \/ RetryReview
         \/ WriterReturns \/ CheckCancel
         \/ UNCHANGED vars
  PROVE  UNCHANGED Contract!contractVars
<1>1. UNCHANGED << goal, disk, approving, verified >>
  <2>1. CASE TerminateAgent \/ Agents \/ Start \/ Crash \/ UNCHANGED vars
    BY <2>1 DEF TerminateAgent, Agents, AgentEdits, AgentMovesHead, AgentExits,
       Start, Crash, OwnerVars, vars
  <2>2. CASE \/ CreateCandidate \/ AcquireNothing \/ AcquireRefuses
             \/ DiscardBytes \/ NothingPending \/ RefuseUnattributed
    BY <2>2 DEF CreateCandidate, AcquireNothing, AcquireRefuses, DiscardBytes,
       NothingPending, RefuseUnattributed, OwnerVars
  <2>3. CASE CommitRefused \/ BeginAdvance \/ CommitAll \/ CompleteAdvance
    BY <2>3 DEF CommitRefused, BeginAdvance, CommitAll, CompleteAdvance, OwnerVars
  <2>4. CASE StillBlocked \/ AlreadyTested \/ Verify \/ VerifyFails \/ ViewInTheWay
    BY <2>4 DEF StillBlocked, AlreadyTested, Verify, VerifyFails, ViewInTheWay, OwnerVars
  <2>5. CASE EndReview \/ RetryReview \/ WriterReturns \/ CheckCancel
    BY <2>5 DEF EndReview, RetryReview, WriterReturns, CheckCancel, OwnerVars
  <2> QED
    BY <2>1, <2>2, <2>3, <2>4, <2>5
<1> QED
  BY <1>1, RecordKept DEF SameButStatus

(* A save of what the record does not show.                                *)
LEMMA QuietSavesKeepContract ==
  ASSUME Types, InStep, TreeBound, EvidenceFits,
         \/ Acquire \/ RunChecks \/ ReviewFails \/ RecordPass \/ CountFailure \/ Measure
  PROVE  UNCHANGED Contract!contractVars
<1>1. /\ UNCHANGED << goal, approving, verified >>
      /\ disk'.status = disk.status /\ SameButStatus
  <2>1. CASE Acquire
    BY <2>1, AcquireEffect DEF SameButStatus, OwnerVars, Types, RunStates
  <2>2. CASE RunChecks
    BY <2>2 DEF RunChecks, Save, InStep, SameButStatus, OwnerVars, Types, RunStates
  <2>3. CASE ReviewFails
    BY <2>3 DEF ReviewFails, Returned, Save, InStep, SameButStatus, OwnerVars, Types, RunStates
  <2>4. CASE RecordPass
    BY <2>4 DEF RecordPass, Save, InStep, SameButStatus, OwnerVars, Types, RunStates
  <2>5. CASE CountFailure
    BY <2>5 DEF CountFailure, Save, InStep, SameButStatus, OwnerVars, Types, RunStates
  <2>6. CASE Measure
    BY <2>6 DEF Measure, Save, InStep, SameButStatus, OwnerVars, Types, RunStates
  <2> QED
    BY <2>1, <2>2, <2>3, <2>4, <2>5, <2>6
<1> QED
  BY <1>1, RecordKept

(* A save of the manager's binding, with or without a contributor.         *)
LEMMA AdoptionsKeepContract ==
  ASSUME Types, Types', InStep, EvidenceFits,
         \/ RecordDiscard \/ AttributeAttempt \/ AdoptCancelled
         \/ CommitNothing \/ RecordCommit
  PROVE  [Contract!ContractNext]_(Contract!contractVars)
<1>1. pc \notin Idle \cup {"finalize"} /\ disk.status = "running" /\ mem.status = "running"
  BY DEF RecordDiscard, AttributeAttempt, AdoptCancelled, Reconciling,
     CommitNothing, RecordCommit, InStep
<1>2. UNCHANGED << goal, approving, verified >>
  BY DEF RecordDiscard, AttributeAttempt, AdoptCancelled, CommitNothing,
     RecordCommit, OwnerVars
<1> DEFINE Adopts(state) ==
             /\ state.status = "running"
             /\ disk.candidate # None => disk.candidate <= state.candidate
             /\ disk.contributors \subseteq state.contributors
             /\ state.attempts = disk.attempts /\ state.calls = disk.calls
             /\ state.reviews = disk.reviews
<1>3. /\ Adopting(mem) \in RunStates /\ mem \in RunStates
      /\ Adopting(mem).candidate = tree.bound
      /\ Adopting(mem).contributors = mem.contributors
      /\ Adopting(mem).status = mem.status /\ Adopting(mem).attempts = mem.attempts
      /\ Adopting(mem).calls = mem.calls /\ Adopting(mem).reviews = mem.reviews
  BY AdoptingTyped DEF Adopting, Types, RunStates
<1>4. /\ disk.candidate # None => disk.candidate <= tree.bound
      /\ mem.candidate = disk.candidate /\ mem.contributors = disk.contributors
      /\ mem.attempts = disk.attempts /\ mem.calls = disk.calls /\ mem.reviews = disk.reviews
      /\ disk.candidate # None => disk.candidate <= disk.candidate
  BY <1>1 DEF EvidenceFits, InStep, Types, RunStates
<1>5. /\ Adopts(Adopting(mem)) /\ Adopts([Adopting(mem) EXCEPT !.pending = None])
      /\ Adopts([Adopting(mem) EXCEPT !.contributors = @ \cup {mem.pending}, !.pending = None])
      /\ Adopts([mem EXCEPT !.pending = None])
  BY <1>1, <1>3, <1>4 DEF RunStates
<1>6. Adopts(disk') \/ UNCHANGED disk
  <2> HIDE DEF Adopts
  <2>1. CASE RecordDiscard \/ CommitNothing
    BY <1>5, <2>1 DEF RecordDiscard, CommitNothing, Save
  <2>2. CASE AttributeAttempt
    BY <1>5, <2>2 DEF AttributeAttempt, Save
  <2>3. CASE AdoptCancelled
    BY <1>5, <2>3 DEF AdoptCancelled, Save
  <2>4. CASE RecordCommit
    BY <1>5, <2>4 DEF RecordCommit, Save
  <2> QED BY <2>1, <2>2, <2>3, <2>4
<1>7. CASE Adopts(disk')
  <2>1. Contract!Move
    BY <1>1, <1>2, <1>7, RecordMoves
  <2> QED BY <2>1 DEF Contract!ContractNext
<1>8. CASE UNCHANGED disk
  BY <1>2, <1>8, RecordKept DEF SameButStatus
<1> QED
  BY <1>6, <1>7, <1>8

(* The ways a run ends.                                                    *)
LEMMA EndsKeepContract ==
  ASSUME Types, InStep, AchievedOnEvidence',
         \/ FinishCancelled \/ StopCancelled \/ StopExhausted \/ StopBlocked
         \/ Achieve \/ ReviewFatal \/ GiveUpReview
  PROVE  [Contract!ContractNext]_(Contract!contractVars)
<1>1. PICK outcome \in Ended : Finishing(outcome)
  BY DEF FinishCancelled, StopCancelled, StopExhausted, StopBlocked, Achieve,
     ReviewFatal, GiveUpReview
<1>2. /\ pc \notin Idle \cup {"finalize"}
      /\ UNCHANGED << goal, approving, verified >>
  BY DEF FinishCancelled, StopCancelled, StopExhausted, StopBlocked, Achieve,
     ReviewFatal, GiveUpReview, OwnerVars
<1>3. disk.status = "running" /\ disk'.status = outcome /\ SameButStatus
  BY <1>1, <1>2 DEF Finishing, Save, InStep, SameButStatus, Types, RunStates
<1>4. \E o \in Contract!Outcomes : Contract!End(o)
  BY <1>1, <1>2, <1>3, RecordEnds
<1> QED
  BY <1>4 DEF Contract!ContractNext

(* A run begins, tries, calls, verifies and reviews as the contract says.  *)
LEMMA StagesKeepContract ==
  ASSUME Types, InStep, FilesAgree, AgentsAnnounced, LimitsAhead, LimitsHold',
         \/ BeginRun \/ VerifyPasses \/ InvokeReviewer \/ ReviewCompletes
         \/ AnnounceWriter \/ InvokeWriter
  PROVE  [Contract!ContractNext]_(Contract!contractVars)
<1>1. CASE BeginRun
  <2>1. Contract!Begin
    <3>1. Recorded' = [Contract!Blank EXCEPT !.status = "running"]
      BY <1>1 DEF BeginRun, Save, Fresh, Recorded, Contract!Blank
    <3>2. ~Contract!Alive /\ goal.status \in {"approved", "cancelled"}
      BY <1>1 DEF BeginRun, Contract!Alive, Recorded, InStep, FilesAgree
    <3>3. UNCHANGED << goal, approving, verified >>
      BY <1>1 DEF BeginRun, OwnerVars
    <3> QED BY <3>1, <3>2, <3>3 DEF Contract!Begin
  <2> QED BY <2>1 DEF Contract!ContractNext
<1>2. CASE VerifyPasses
  <2>1. /\ disk.status = "running" /\ disk'.status = "running" /\ SameButStatus
        /\ mem.candidate = disk.candidate
    BY <1>2 DEF VerifyPasses, Save, InStep, SameButStatus, Types, RunStates
  <2>2. UNCHANGED << goal, approving >> /\ verified' = verified \cup {disk.candidate}
    BY <1>2, <2>1 DEF VerifyPasses, OwnerVars
  <2>3. Contract!Verify
    BY <2>1, <2>2 DEF Contract!Verify, Contract!Alive, Recorded, SameButStatus
  <2> QED BY <2>3 DEF Contract!ContractNext
<1>3. CASE InvokeReviewer \/ InvokeWriter
  <2>1. /\ disk.status = "running" /\ disk'.status = "running"
        /\ disk'.candidate = disk.candidate /\ disk'.attempts = disk.attempts
        /\ disk'.calls = disk.calls + 1 /\ disk'.reviews = disk.reviews
        /\ disk'.contributors = disk.contributors
    BY <1>3 DEF InvokeReviewer, InvokeWriter, Save, InStep, Types, RunStates
  <2>2. UNCHANGED << goal, approving, verified >>
    BY <1>3 DEF InvokeReviewer, InvokeWriter, OwnerVars
  <2>3. disk.calls <= MaxAgentCalls
    BY <2>1, GoalAssumption DEF LimitsHold, Types, RunStates
  <2>4. Contract!Call
    BY <2>1, <2>2, <2>3 DEF Contract!Call, Contract!Alive, Recorded
  <2> QED BY <2>4 DEF Contract!ContractNext
<1>4. CASE ReviewCompletes
  <2>1. PICK blocking \in BOOLEAN :
          Save([mem EXCEPT !.reviews = @ \cup
                  {[sha |-> mem.candidate, by |-> agent.by, blocking |-> blocking]}])
    BY <1>4 DEF ReviewCompletes
  <2> DEFINE r == [sha |-> disk.candidate, by |-> agent.by, blocking |-> blocking]
  <2>2. /\ disk.status = "running" /\ disk'.status = "running"
        /\ disk'.candidate = disk.candidate /\ disk'.attempts = disk.attempts
        /\ disk'.calls = disk.calls /\ disk'.contributors = disk.contributors
        /\ disk'.reviews = disk.reviews \cup {r}
    BY <1>4, <2>1 DEF ReviewCompletes, Returned, Save, InStep, Types, RunStates
  <2>3. r.sha = disk.candidate /\ r.by \notin disk.contributors
    BY <1>4 DEF ReviewCompletes, Returned, AgentsAnnounced
  <2>4. UNCHANGED << goal, approving, verified >>
    BY <1>4 DEF ReviewCompletes, OwnerVars
  <2> HIDE DEF r
  <2>5. Contract!Review
    <3>1. r \in Recorded'.reviews /\ Contract!Alive
      BY <2>2 DEF Recorded, Contract!Alive
    <3>2. r.sha = Recorded.candidate /\ r.by \notin Recorded.contributors
      BY <2>3 DEF Recorded
    <3>3. Recorded' = [Recorded EXCEPT !.reviews = @ \cup {r}]
      BY <2>2 DEF Recorded
    <3> QED BY <2>4, <3>1, <3>2, <3>3 DEF Contract!Review
  <2> QED BY <2>5 DEF Contract!ContractNext
<1>5. CASE AnnounceWriter
  <2>1. /\ disk.status = "running" /\ disk'.status = "running"
        /\ disk'.candidate = disk.candidate /\ disk'.attempts = disk.attempts + 1
        /\ disk'.calls = disk.calls /\ disk'.reviews = disk.reviews
        /\ disk'.contributors = disk.contributors
    BY <1>5 DEF AnnounceWriter, Save, InStep, Types, RunStates
  <2>2. UNCHANGED << goal, approving, verified >>
    BY <1>5 DEF AnnounceWriter, OwnerVars
  <2>3. disk.attempts < MaxAttempts
    BY <1>5 DEF AnnounceWriter, LimitsAhead
  <2>4. Contract!Attempt
    BY <2>1, <2>2, <2>3 DEF Contract!Attempt, Contract!Alive, Recorded
  <2> QED BY <2>4 DEF Contract!ContractNext
<1> QED
  BY <1>1, <1>2, <1>3, <1>4, <1>5

(* Every step of a goal run is a step of its contract or shows nothing.    *)
LEMMA StepsKeepContract ==
  ASSUME IInv, IInv', [Next]_vars
  PROVE  [Contract!ContractNext]_(Contract!contractVars)
<1>1. /\ Types /\ Types' /\ InStep /\ FilesAgree /\ AgentsAnnounced /\ TreeBound
      /\ EvidenceFits /\ LimitsAhead /\ LimitsHold' /\ AchievedOnEvidence'
  BY DEF IInv, LimitsAhead, ClaimsHold
<1>2. CASE \/ Approve \/ ApproveBaseline \/ Cancel \/ StartBaseline
           \/ AnnounceRun \/ ReplayFinish \/ Resume \/ Finalize
  BY <1>1, <1>2, StatusKeepsContract
<1>3. CASE \/ TerminateAgent \/ Agents \/ Start \/ Crash
           \/ CreateCandidate \/ AcquireNothing \/ AcquireRefuses
           \/ DiscardBytes \/ NothingPending \/ RefuseUnattributed
           \/ CommitRefused \/ BeginAdvance \/ CommitAll \/ CompleteAdvance
           \/ StillBlocked \/ AlreadyTested \/ Verify \/ VerifyFails
           \/ ViewInTheWay \/ EndReview \/ RetryReview
           \/ WriterReturns \/ CheckCancel
           \/ UNCHANGED vars
  BY <1>3, UnsavedKeepContract
<1>4. CASE Acquire \/ RunChecks \/ ReviewFails \/ RecordPass \/ CountFailure \/ Measure
  BY <1>1, <1>4, QuietSavesKeepContract
<1>5. CASE RecordDiscard \/ AttributeAttempt \/ AdoptCancelled \/ CommitNothing \/ RecordCommit
  BY <1>1, <1>5, AdoptionsKeepContract
<1>6. CASE \/ FinishCancelled \/ StopCancelled \/ StopExhausted \/ StopBlocked
           \/ Achieve \/ ReviewFatal \/ GiveUpReview
  BY <1>1, <1>6, EndsKeepContract
<1>7. CASE \/ BeginRun \/ VerifyPasses \/ InvokeReviewer \/ ReviewCompletes
           \/ AnnounceWriter \/ InvokeWriter
  BY <1>1, <1>7, StagesKeepContract
<1> QED
  BY <1>2, <1>3, <1>4, <1>5, <1>6, <1>7 DEF Next, Owner, Runner, Reconcile,
     Evaluate, Commit, Write

(* The two files tell the story of a run of the contract, for any number   *)
(* of runners that die and any overlap with the owner's commands: no save  *)
(* of a stale copy takes back an attempt, a call, a review or a            *)
(* contributor, and a run ends once, as achieved only with evidence.       *)
THEOREM GoalContractKept == Spec => KeepsGoalContract
<1>1. Init => Contract!ContractInit
  BY DEF Init, NoRun, Fresh, Contract!ContractInit, Contract!Blank, Recorded
<1>2. IInv /\ IInv' /\ [Next]_vars => [Contract!ContractNext]_(Contract!contractVars)
  BY StepsKeepContract
<1> QED
  BY <1>1, <1>2, Invariance, PTL DEF Spec, KeepsGoalContract, Contract!ContractSpec
=============================================================================
