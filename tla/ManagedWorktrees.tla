--------------------------- MODULE ManagedWorktrees ---------------------------
(***************************************************************************)
(* The lifecycle of one managed Git worktree: the owner record that names  *)
(* its generation, the directories and Git registrations it accounts for,  *)
(* the sessions that carry an operation out, and what may come in between: *)
(* the death of the session at any step, and people and tools that touch   *)
(* the public directory or its checkout.                                   *)
(*                                                                         *)
(* The owner record changes at one moment and stays: OwnerJournal shows    *)
(* it.  The lease admits one session at a time, so what a session has in   *)
(* memory of the record is the record.  A Git command takes effect as a    *)
(* whole.  An action is the code from one durable effect to the next.      *)
(*                                                                         *)
(* A commit is a number and its one parent is the number before it.  An    *)
(* inode is the nonce of the generation whose record asked for it.         *)
(***************************************************************************)
EXTENDS Integers, FiniteSets

CONSTANTS
  Nonces,
  LastCommit,    \* bound on commits
  Intrusions,    \* what others may do, see below
  MaxAbandoned,  \* bound on the staging directories that deaths leave behind
  MaxDeaths      \* bound on the deaths of a session

ASSUME WorktreeAssumption ==
  /\ Nonces \subseteq Nat \ {0} /\ IsFiniteSet(Nonces)
  /\ LastCommit \in Nat
  /\ Intrusions \subseteq
       {"squat", "displace", "replace", "branch", "move", "write"}
  /\ MaxAbandoned \in Nat
  /\ Cardinality(Nonces) > MaxAbandoned + 2
  /\ MaxDeaths \in Nat

VARIABLES
  purpose,   \* a candidate is kept and advanced, a view is disposed of
  record,    \* the owner record
  at,        \* what each name in the worktrees root leads to
  filled,    \* the inodes Git has populated
  reg,       \* Git's worktree registrations
  dirty,     \* the public checkout has uncommitted bytes
  session,   \* the holder of the lease
  probing,   \* a lookup that goes without the lease
  touched,   \* others have interfered
  refused,   \* an operation has failed closed
  deaths

vars == << purpose, record, at, filled, reg, dirty, session, probing,
           touched, refused, deaths >>

Commits == 0 .. LastCommit

Public == << "public", 0 >>
Staging == << "staging", record.nonce >>
Quarantine == << "quarantine", record.nonce >>
Leaves == {Public} \cup ({"staging", "quarantine"} \X Nonces)

Absent == 0
Foreign == -1

Unregistered == [head |-> -1, detached |-> FALSE]
Registered(sha) == [head |-> sha, detached |-> TRUE]

NoRecord == [state |-> "none", nonce |-> 0, location |-> "absent", sha |-> 0]
NoSession == [op |-> "none", step |-> "none", sha |-> 0]

Init ==
  /\ purpose \in {"candidate", "view"}
  /\ record = NoRecord
  /\ at = [leaf \in Leaves |-> Absent]
  /\ filled = {}
  /\ reg = [leaf \in Leaves |-> Unregistered]
  /\ dirty = FALSE
  /\ session = NoSession
  /\ probing = "none"
  /\ touched = FALSE /\ refused = FALSE
  /\ deaths = 0

Ghosts == << purpose, probing, touched, deaths >>

-----------------------------------------------------------------------------
(* What is proved before an effect. *)

registration_is_exact(entry, sha) == entry = Registered(sha)

registration_is_discardable(entry) == entry.detached /\ entry # Unregistered

prove_owned_at(leaf) == record.nonce # 0 /\ at[leaf] = record.nonce

prove_bound_at(leaf) ==
  prove_owned_at(leaf) /\ registration_is_exact(reg[leaf], record.sha)

prove_discardable_at(leaf) ==
  prove_owned_at(leaf) /\ registration_is_discardable(reg[leaf])

(* No checkout and no registration under the public name: asked of a       *)
(* target without a record, of a terminal one, and before a fresh claim.   *)
prove_no_public_target == at[Public] = Absent /\ reg[Public] = Unregistered

prove_one_child(old, new) == new = old + 1

(* Fault: any later commit will do. *)
prove_advanced_commit_unlinked(old, new) ==
  new # old /\ prove_owned_at(Public) /\ registration_is_exact(reg[Public], new) /\ ~dirty

prove_advanced_commit(old, new) ==
  /\ new # old
  /\ prove_owned_at(Public)
  /\ registration_is_exact(reg[Public], new)
  /\ ~dirty
  /\ prove_one_child(old, new)

-----------------------------------------------------------------------------
(* The session. *)

Step(step) == session' = [session EXCEPT !.step = step]

Close == session' = NoSession

(* A StorageError closes the session; what is durable stays. *)
Refuse ==
  /\ refused' = TRUE
  /\ Close
  /\ UNCHANGED << record, at, filled, reg, dirty >>

Transition(changed) == record' = changed

Move(from, to) == at' = [at EXCEPT ![to] = at[from], ![from] = Absent]

(* One step of a session: its proofs hold and it has its effect, or it     *)
(* refuses.  What the effect does not mention stays.                       *)
At(step) == session.step = step /\ UNCHANGED Ghosts

Unharmed == UNCHANGED << dirty, refused >>

Live == record.state \notin {"none", "removed", "abandoned"}

(* Fault: a view is given at whatever commit it has. *)
Misuse_any_commit(op, sha) ==
  op = "create_candidate" /\ record.state \in {"ready", "advancing", "removing"}

(* A call that is refused whatever the files hold. *)
Misuse(op, sha) ==
  \/ op = "create" /\ Live /\ record.sha # sha
  \/ op = "create_candidate" /\ record.state \in {"ready", "advancing", "removing"}

FirstStep(op) ==
  CASE record.state \in {"none", "removed", "abandoned"} ->
         IF op = "acquire_existing" THEN "vacant" ELSE "fresh"
    [] record.state = "preclaim" ->
         IF op = "acquire_existing" THEN "abandon" ELSE "preclaim"
    [] record.state = "claimed" ->
         IF op = "acquire_existing" THEN "reconcile" ELSE "publish"
    [] record.state = "ready" ->
         IF op = "acquire_existing" THEN "bind" ELSE "retire"
    [] record.state = "advancing" -> "recover"
    [] record.state = "removing" ->
         IF record.location = "public" THEN "quarantine" ELSE "delete"

(* The combinations of state and location that _parse_record accepts. *)
RecordParses ==
  CASE record.state \in {"preclaim", "abandoned"} -> record.location = "staging"
    [] record.state = "claimed" -> record.location \in {"staging", "public"}
    [] record.state \in {"ready", "advancing"} -> record.location = "public"
    [] record.state = "removing" -> record.location \in {"public", "quarantine"}
    [] OTHER -> record.location = "absent"

(* create, create_candidate and acquire_existing as far as _open_session   *)
(* and the choice by the record's state.                                   *)
Open(op, sha) ==
  /\ session = NoSession
  /\ op \in IF purpose = "view" THEN {"create"}
            ELSE {"create_candidate", "acquire_existing"}
  /\ IF ~RecordParses \/ (record = NoRecord /\ at[Public] # Absent)
     THEN Refuse
     ELSE /\ ~Misuse(op, sha)
          /\ session' = [op |-> op, step |-> FirstStep(op), sha |-> sha]
          /\ UNCHANGED << record, at, filled, reg, dirty, refused >>
  /\ UNCHANGED Ghosts

(* acquire_existing of a target without a live generation returns None. *)
Vacant ==
  /\ At("vacant")
  /\ \/ /\ prove_no_public_target
        /\ Close
        /\ UNCHANGED << record, at, filled, reg >> /\ Unharmed
     \/ ~prove_no_public_target /\ Refuse

-----------------------------------------------------------------------------
(* Creating a generation. *)

FreshNonces ==
  {n \in Nonces \ {record.nonce} : \A leaf \in Leaves :
     at[leaf] # n /\ (leaf[2] = n => at[leaf] = Absent /\ reg[leaf] = Unregistered)}

FreshNonce == CHOOSE n \in FreshNonces : \A m \in FreshNonces : n <= m

(* _fresh_create as far as the durable preclaim. *)
FreshCreate ==
  /\ At("fresh")
  /\ \/ /\ prove_no_public_target
        /\ Transition([state |-> "preclaim", nonce |-> FreshNonce,
                       location |-> "staging", sha |-> session.sha])
        /\ filled' = filled \ {FreshNonce}
        /\ Step("preclaim")
        /\ UNCHANGED << at, reg >> /\ Unharmed
     \/ ~prove_no_public_target /\ Refuse

PreclaimClear == prove_no_public_target /\ reg[Staging] = Unregistered

(* _finish_preclaim: make the staging directory, whose inode the record    *)
(* has yet to name, or give up a name at which there is one.               *)
FinishPreclaim ==
  /\ At("preclaim")
  /\ \/ /\ PreclaimClear /\ at[Staging] = Absent
        /\ at' = [at EXCEPT ![Staging] = record.nonce]
        /\ Step("claim")
        /\ UNCHANGED << record, filled, reg >> /\ Unharmed
     \/ /\ PreclaimClear /\ at[Staging] # Absent
        /\ Transition([record EXCEPT !.state = "abandoned"])
        /\ Step("fresh")
        /\ UNCHANGED << at, filled, reg >> /\ Unharmed
     \/ ~PreclaimClear /\ Refuse

(* _abandon_preclaim_without_create *)
AbandonPreclaim ==
  /\ At("abandon")
  /\ \/ /\ PreclaimClear
        /\ Transition([record EXCEPT !.state = "abandoned"])
        /\ Close
        /\ UNCHANGED << at, filled, reg >> /\ Unharmed
     \/ ~PreclaimClear /\ Refuse

(* The inode is entered in the record, if the name still leads to it. *)
Claim ==
  /\ At("claim")
  /\ \/ /\ prove_owned_at(Staging)
        /\ Transition([record EXCEPT !.state = "claimed"])
        /\ Step("publish")
        /\ UNCHANGED << at, filled, reg >> /\ Unharmed
     \/ ~prove_owned_at(Staging) /\ Refuse

ClaimStaged == record.location = "staging" /\ prove_owned_at(Staging) /\ at[Public] = Absent
ClaimMoved == record.location = "staging" /\ prove_owned_at(Public) /\ at[Staging] = Absent
ClaimPublic == record.location = "public" /\ prove_owned_at(Public)

Unclaimed == ~ClaimStaged /\ ~ClaimMoved /\ ~ClaimPublic

StagedClear == reg[Staging] = Unregistered /\ reg[Public] = Unregistered

(* Fault: the claim is moved over whatever has the public name. *)
PublishClaim_replaces ==
  /\ At("publish")
  /\ \/ /\ record.location = "staging" /\ prove_owned_at(Staging)
        /\ Move(Staging, Public)
        /\ Step("locate")
        /\ UNCHANGED << record, filled, reg >> /\ Unharmed
     \/ /\ ClaimMoved \/ ClaimPublic
        /\ Step("locate")
        /\ UNCHANGED << record, at, filled, reg >> /\ Unharmed

(* _publish_claim up to its record: the directory is moved unless a death  *)
(* came after the move.                                                    *)
PublishClaim ==
  /\ At("publish")
  /\ \/ /\ ClaimStaged /\ StagedClear
        /\ Move(Staging, Public)
        /\ Step("locate")
        /\ UNCHANGED << record, filled, reg >> /\ Unharmed
     \/ /\ ClaimMoved \/ ClaimPublic
        /\ Step("locate")
        /\ UNCHANGED << record, at, filled, reg >> /\ Unharmed
     \/ /\ Unclaimed \/ (ClaimStaged /\ ~StagedClear)
        /\ Refuse

LocateClaim ==
  /\ At("locate")
  /\ Transition([record EXCEPT !.location = "public"])
  /\ Step("populate")
  /\ UNCHANGED << at, filled, reg >> /\ Unharmed

(* Fault: a checkout that is registered already is populated again, or     *)
(* refused, when its death came after Git was done.                        *)
Populate_only_empty ==
  /\ At("populate")
  /\ \/ /\ prove_owned_at(Public) /\ reg[Public] = Unregistered
        /\ record.nonce \notin filled
        /\ filled' = filled \cup {record.nonce}
        /\ reg' = [reg EXCEPT ![Public] = Registered(record.sha)]
        /\ dirty' = FALSE
        /\ Step("settle")
        /\ UNCHANGED << record, at, refused >>
     \/ ~(prove_owned_at(Public) /\ reg[Public] = Unregistered
            /\ record.nonce \notin filled) /\ Refuse

Empty == prove_owned_at(Public) /\ reg[Public] = Unregistered /\ record.nonce \notin filled

(* git worktree add, bound to the inode.  A registration that is there     *)
(* already must be the one this would have made.                           *)
Populate ==
  /\ At("populate")
  /\ \/ /\ Empty
        /\ filled' = filled \cup {record.nonce}
        /\ reg' = [reg EXCEPT ![Public] = Registered(record.sha)]
        /\ dirty' = FALSE
        /\ Step("settle")
        /\ UNCHANGED << record, at, refused >>
     \/ /\ prove_bound_at(Public)
        /\ Step("settle")
        /\ UNCHANGED << record, at, filled, reg >> /\ Unharmed
     \/ ~Empty /\ ~prove_bound_at(Public) /\ Refuse

Settle ==
  /\ At("settle")
  /\ Transition([record EXCEPT !.state = "ready"])
  /\ Step("held")
  /\ UNCHANGED << at, filled, reg >> /\ Unharmed

-----------------------------------------------------------------------------
(* Acquiring what is there. *)

(* The plain case: a ready generation, proven. *)
Bind ==
  /\ At("bind")
  /\ \/ /\ prove_bound_at(Public)
        /\ Step("held")
        /\ UNCHANGED << record, at, filled, reg >> /\ Unharmed
     \/ ~prove_bound_at(Public) /\ Refuse

(* _acquire_claimed_without_create: the record follows what is visible;    *)
(* a claim that Git has not populated is left for create_candidate.        *)
Reconcile ==
  /\ At("reconcile")
  /\ \/ /\ ClaimStaged
        /\ Close
        /\ UNCHANGED << record, at, filled, reg >> /\ Unharmed
     \/ /\ ClaimMoved
        /\ Transition([record EXCEPT !.location = "public"])
        /\ UNCHANGED << session, at, filled, reg >> /\ Unharmed
     \/ /\ ClaimPublic /\ Empty
        /\ Close
        /\ UNCHANGED << record, at, filled, reg >> /\ Unharmed
     \/ /\ ClaimPublic /\ prove_bound_at(Public)
        /\ Transition([record EXCEPT !.state = "ready"])
        /\ Step("bind")
        /\ UNCHANGED << at, filled, reg >> /\ Unharmed
     \/ /\ Unclaimed \/ (ClaimPublic /\ ~Empty /\ ~prove_bound_at(Public))
        /\ Refuse

(* _recover_sha_advance: no commit became visible, or the one child did. *)
Recover ==
  /\ At("recover")
  /\ LET head == reg[Public].head
     IN \/ /\ prove_bound_at(Public)
           /\ Transition([record EXCEPT !.state = "ready"])
           /\ Step("bind")
           /\ UNCHANGED << at, filled, reg >> /\ Unharmed
        \/ /\ prove_discardable_at(Public) /\ prove_advanced_commit(record.sha, head)
           /\ Transition([record EXCEPT !.state = "ready", !.sha = head])
           /\ Step("bind")
           /\ UNCHANGED << at, filled, reg >> /\ Unharmed
        \/ /\ ~prove_bound_at(Public)
           /\ ~(prove_discardable_at(Public) /\ prove_advanced_commit(record.sha, head))
           /\ Refuse

-----------------------------------------------------------------------------
(* Removing a generation. *)

(* _finish_removal with transition_first: HEAD may have drifted. *)
Retire ==
  /\ At("retire")
  /\ \/ /\ prove_discardable_at(Public)
        /\ Transition([record EXCEPT !.state = "removing"])
        /\ Step("quarantine")
        /\ UNCHANGED << at, filled, reg >> /\ Unharmed
     \/ ~prove_discardable_at(Public) /\ Refuse

NotQuarantined ==
  /\ prove_discardable_at(Public)
  /\ at[Quarantine] = Absent /\ reg[Quarantine] = Unregistered

Quarantined == at[Public] = Absent /\ prove_discardable_at(Quarantine)

(* _quarantine up to its record: git worktree move, bound to the inode. *)
MoveAside ==
  /\ At("quarantine")
  /\ \/ /\ NotQuarantined
        /\ Move(Public, Quarantine)
        /\ reg' = [reg EXCEPT ![Quarantine] = reg[Public], ![Public] = Unregistered]
        /\ dirty' = FALSE
        /\ Step("located_aside")
        /\ UNCHANGED << record, filled, refused >>
     \/ /\ Quarantined
        /\ Step("located_aside")
        /\ UNCHANGED << record, at, filled, reg >> /\ Unharmed
     \/ ~NotQuarantined /\ ~Quarantined /\ Refuse

LocateAside ==
  /\ At("located_aside")
  /\ \/ /\ Quarantined
        /\ Transition([record EXCEPT !.location = "quarantine"])
        /\ Step("delete")
        /\ UNCHANGED << at, filled, reg >> /\ Unharmed
     \/ ~Quarantined /\ Refuse

Deleted == at[Quarantine] = Absent /\ reg[Quarantine] = Unregistered

(* Fault: a quarantine that is already gone is not accepted. *)
Delete_once ==
  /\ At("delete")
  /\ \/ /\ prove_discardable_at(Quarantine)
        /\ at' = [at EXCEPT ![Quarantine] = Absent]
        /\ reg' = [reg EXCEPT ![Quarantine] = Unregistered]
        /\ Step("bury")
        /\ UNCHANGED << record, filled >> /\ Unharmed
     \/ ~prove_discardable_at(Quarantine) /\ Refuse

(* git worktree remove, bound to the inode. *)
Delete ==
  /\ At("delete")
  /\ \/ /\ prove_discardable_at(Quarantine)
        /\ at' = [at EXCEPT ![Quarantine] = Absent]
        /\ reg' = [reg EXCEPT ![Quarantine] = Unregistered]
        /\ Step("bury")
        /\ UNCHANGED << record, filled >> /\ Unharmed
     \/ /\ Deleted
        /\ Step("bury")
        /\ UNCHANGED << record, at, filled, reg >> /\ Unharmed

(* _cas_unlink: the record stays as a tombstone. *)
Bury ==
  /\ At("bury")
  /\ Transition([record EXCEPT !.state = "removed", !.location = "absent"])
  /\ IF session.op = "create" THEN Step("fresh")
     ELSE IF session.op = "acquire_existing" THEN Step("vacant") ELSE Close
  /\ UNCHANGED << at, filled, reg >> /\ Unharmed

-----------------------------------------------------------------------------
(* The holder of a handle. *)

Held == session.step = "held"

Remove ==
  /\ Held
  /\ record.state = "ready"
  /\ session' = [session EXCEPT !.op = "remove", !.step = "retire"]
  /\ UNCHANGED << record, at, filled, reg >> /\ Unharmed
  /\ UNCHANGED Ghosts

CloseHandle ==
  /\ Held
  /\ Close
  /\ UNCHANGED << record, at, filled, reg >> /\ Unharmed
  /\ UNCHANGED Ghosts

(* prove_for_use, before and after each effect on a candidate; its failure *)
(* ends the use.                                                           *)
ProveForUse ==
  /\ Held /\ purpose = "candidate"
  /\ ~prove_bound_at(Public)
  /\ record.state = "ready"
  /\ Refuse /\ UNCHANGED Ghosts

(* begin_sha_advance *)
BeginAdvance ==
  /\ Held /\ purpose = "candidate"
  /\ record.state = "ready" /\ record.sha < LastCommit
  /\ prove_bound_at(Public) /\ dirty
  /\ Transition([record EXCEPT !.state = "advancing"])
  /\ UNCHANGED << session, at, filled, reg >> /\ Unharmed
  /\ UNCHANGED Ghosts

(* complete_sha_advance with the commit that was made. *)
CompleteAdvance ==
  /\ Held
  /\ record.state = "advancing" /\ reg[Public].head # record.sha
  /\ LET head == reg[Public].head
     IN \/ /\ prove_advanced_commit(record.sha, head)
           /\ Transition([record EXCEPT !.state = "ready", !.sha = head])
           /\ UNCHANGED << session, at, filled, reg >> /\ Unharmed
        \/ ~prove_advanced_commit(record.sha, head) /\ Refuse
  /\ UNCHANGED Ghosts

(* The engine's commit of what the writer left, between the two.  External *)
(* to the manager: git commit in the pinned checkout.                      *)
Commit ==
  /\ Held
  /\ record.state = "advancing" /\ prove_bound_at(Public) /\ dirty
  /\ reg' = [reg EXCEPT ![Public] = Registered(record.sha + 1)]
  /\ dirty' = FALSE
  /\ UNCHANGED << record, at, filled, session, refused >> /\ UNCHANGED Ghosts

(* The writer's own work. *)
Write ==
  /\ Held /\ purpose = "candidate" /\ record.state = "ready"
  /\ at[Public] = record.nonce
  /\ dirty' = TRUE
  /\ UNCHANGED << record, at, filled, reg, session, refused >> /\ UNCHANGED Ghosts

(* A command that runs in a view may commit there; nobody minds. *)
Drift ==
  /\ Held /\ purpose = "view" /\ prove_owned_at(Public)
  /\ reg[Public].detached
  /\ \E sha \in Commits : reg' = [reg EXCEPT ![Public].head = sha]
  /\ UNCHANGED << record, at, filled, dirty, session, refused >> /\ UNCHANGED Ghosts

-----------------------------------------------------------------------------
(* A lookup without the lease: acquire_existing of a target that may never *)
(* have been claimed reads the record, the directory, Git, and the record  *)
(* again.                                                                  *)

ProbeBegin ==
  /\ probing = "none" /\ purpose = "candidate" /\ record = NoRecord
  /\ probing' = "target"
  /\ UNCHANGED << purpose, record, at, filled, reg, dirty, session, touched,
                  refused, deaths >>

ProbeSeen ==
  CASE probing = "target" -> at[Public] # Absent
    [] probing = "registration" -> reg[Public] # Unregistered
    [] OTHER -> FALSE

Probe ==
  /\ probing \in {"target", "registration"}
  /\ probing' = IF ProbeSeen THEN "refused"
                ELSE IF probing = "target" THEN "registration" ELSE "again"
  /\ UNCHANGED << purpose, record, at, filled, reg, dirty, session, touched,
                  refused, deaths >>

(* A record that has appeared sends the caller to the lease; a directory   *)
(* that has appeared makes it look for the record once more.               *)
ProbeAgain ==
  /\ probing = "again"
  /\ probing' = IF record = NoRecord /\ at[Public] # Absent THEN "refused" ELSE "done"
  /\ UNCHANGED << purpose, record, at, filled, reg, dirty, session, touched,
                  refused, deaths >>

-----------------------------------------------------------------------------
(* What comes in between. *)

Die ==
  /\ session # NoSession /\ deaths < MaxDeaths
  /\ session.step = "claim" =>
       Cardinality({n \in Nonces : at[<<"staging", n>>] # Absent}) <= MaxAbandoned
  /\ Close
  /\ deaths' = deaths + 1
  /\ UNCHANGED << purpose, record, at, filled, reg, dirty, probing, touched, refused >>

Touch ==
  /\ touched' = TRUE
  /\ UNCHANGED << purpose, record, filled, session, probing, refused, deaths >>

(* Somebody else's directory under the public name. *)
Squat ==
  /\ "squat" \in Intrusions /\ ~touched
  /\ at[Public] = Absent
  /\ at' = [at EXCEPT ![Public] = Foreign]
  /\ Touch /\ UNCHANGED << reg, dirty >>

(* The worktree is deleted by hand, perhaps with another in its place. *)
Displace ==
  /\ "displace" \in Intrusions /\ ~touched
  /\ at[Public] \in Nonces
  /\ \E other \in {Absent, Foreign} : at' = [at EXCEPT ![Public] = other]
  /\ dirty' = FALSE
  /\ Touch /\ UNCHANGED reg

(* The same before the worktree has its public name. *)
Replace ==
  /\ "replace" \in Intrusions /\ ~touched
  /\ record.nonce # 0 /\ at[Staging] = record.nonce
  /\ at' = [at EXCEPT ![Staging] = Foreign]
  /\ Touch /\ UNCHANGED << reg, dirty >>

(* Somebody checks out a branch in it, or moves the candidate's HEAD. *)
MoveHead ==
  /\ ~touched
  /\ at[Public] \in filled
  /\ \/ /\ "branch" \in Intrusions
        /\ reg' = [reg EXCEPT ![Public].detached = FALSE]
     \/ /\ "move" \in Intrusions /\ purpose = "candidate"
        /\ \E sha \in Commits \ {reg[Public].head} :
             reg' = [reg EXCEPT ![Public].head = sha]
  /\ Touch /\ UNCHANGED << at, dirty >>

(* A process of the writer lives on and writes after the commit. *)
LateWrite ==
  /\ "write" \in Intrusions /\ ~touched
  /\ purpose = "candidate" /\ record.state = "advancing" /\ at[Public] \in filled
  /\ ~dirty
  /\ dirty' = TRUE
  /\ Touch /\ UNCHANGED << at, reg >>

Intrude == Squat \/ Displace \/ Replace \/ MoveHead \/ LateWrite

-----------------------------------------------------------------------------
Calls == \E op \in {"create", "create_candidate", "acquire_existing"}, sha \in {0, 1} :
           (purpose = "candidate" => sha = 0) /\ Open(op, sha)

SessionStep ==
  \/ Vacant \/ FreshCreate \/ FinishPreclaim \/ AbandonPreclaim \/ Claim
  \/ PublishClaim \/ LocateClaim \/ Populate \/ Settle
  \/ Bind \/ Reconcile \/ Recover
  \/ Retire \/ MoveAside \/ LocateAside \/ Delete \/ Bury

HolderStep ==
  \/ Remove \/ CloseHandle \/ ProveForUse
  \/ BeginAdvance \/ Commit \/ CompleteAdvance \/ Write \/ Drift

Probing == ProbeBegin \/ Probe \/ ProbeAgain

Next == Calls \/ SessionStep \/ HolderStep \/ Probing \/ Die \/ Intrude

(* A session that is alive goes on; a caller who wants a worktree keeps    *)
(* asking, the way a run is resumed until it is through.                   *)
Fairness ==
  /\ WF_vars(SessionStep)
  /\ SF_vars(\E sha \in {0, 1} : Open("create", sha))
  /\ SF_vars(Open("acquire_existing", 0))
  /\ SF_vars(Open("create_candidate", 0))

Spec == Init /\ [][Next]_vars /\ Fairness

-----------------------------------------------------------------------------
(* Properties. *)

(* Whatever step a session died at, the next one gets through: an          *)
(* operation refuses only when somebody else touched the target, never for *)
(* a record that it cannot read, and a view whose HEAD has drifted is      *)
(* removed all the same.  A lookup without the lease that a creation has   *)
(* overtaken may refuse too, but the record is there by then, so that the  *)
(* next lookup takes the lease.                                            *)
RefusalHasCause ==
  /\ refused => touched
  /\ probing = "refused" => touched \/ record # NoRecord

(* A live handle stands for a generation that is on disk, in its place and *)
(* registered at the commit the record binds, or at the one being bound;   *)
(* a view is of the commit that was asked for.                             *)
HandleBacked ==
  Held =>
    /\ purpose = "view" => record.sha = session.sha
    /\ record.state = "ready" \/ (purpose = "candidate" /\ record.state = "advancing")
    /\ touched \/ (/\ prove_discardable_at(Public)
                   /\ record.nonce \in filled
                   /\ purpose = "candidate" =>
                        \/ reg[Public].head = record.sha
                        \/ record.state = "advancing" /\ reg[Public].head = record.sha + 1)

(* The commit bound to a generation moves only to the one child that was   *)
(* announced, however the announcement was interrupted and whoever moved   *)
(* HEAD meanwhile.                                                         *)
BoundCommitAdvances ==
  [][ record'.nonce = record.nonce /\ record'.sha # record.sha =>
        record.state = "advancing" /\ record'.sha = record.sha + 1 ]_vars

(* A directory of somebody else is never moved, filled or removed, and a   *)
(* candidate's checkout goes only by an explicit removal.                  *)
NothingLost ==
  [][ /\ \A leaf \in Leaves : at[leaf] = Foreign => at'[leaf] = Foreign
      /\ purpose = "candidate" =>
           /\ at[Public] \in filled /\ at'[Public] # at[Public] =>
                record.state = "removing" \/ touched' # touched
           /\ record'.state = "removing" /\ record.state # "removing" =>
                session.op = "remove" ]_vars

(* A caller who keeps asking is given the worktree, unless somebody has    *)
(* touched the target.                                                     *)
Delivered == []<>(Held \/ touched)

=============================================================================
