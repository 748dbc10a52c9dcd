# Formal models of Dagvane

TLA+ modules for the program in `src/`, the TLC configurations that model-check
them on small instances, and TLAPS proofs of the properties that hold for every
value of the constants. Paths below are relative to `src/src/dagvane/` unless
they start with `src/`.

## 1. The system

Dagvane contains two runtimes over the same ports and adapters
(`src/docs/ARCHITECTURE.md`):

* the **Council runtime**: a spec is turned into a fixed plan (two proposers, two
  reviewers, a judge); the plan runs as concurrent asyncio coroutines under a hard
  budget; every step is an event of an append-only journal; whatever the program
  later says about a run is a fold of that journal that fails closed;
* the **Workspace Autonomous Developer**: a conversation becomes a goal contract;
  after the owner's approval a fixed loop lets external agents edit a managed
  worktree, runs checks, has a different agent review, and commits candidates,
  surviving kills and restarts.

### 1.1 Inventory

| component | code | state | operations | hard behaviour |
|---|---|---|---|---|
| Budget ledger | `application/council.py` `BudgetLedger` | seven counters behind a lock | reserve, release, commit, totals | several reservations open at once; bills above the reservation |
| Council run executor | `council.py` `RunExecutor`, `OneShotModelWorker` | outcomes, done events, envelopes, failures, decision, abort flag | execute, `_run_node`, `_execute_node`, `_fail_node` | interleaving of nodes, cancellation with a request in flight, writes that fail half way |
| Journal replay | `application/replay.py` | the fold's view and causal tables | `fold_envelopes`, `rebuild_report` | journals of unknown origin |
| Domain transitions | `domain/models.py` | run and node status | `advance_run_status`, `advance_node_status` | - |
| Council plan | `council.py` `CouncilTemplate`, `PlanValidator` | none | build, validate | graph rules (acyclic, bound, digest) |
| Run store | `adapters/storage/filesystem.py` | `events.jsonl`, artifacts, derived documents | create_run, append, put, write_document | exclusive creation, torn and repeated frames |
| Goal store and contract | `application/goals.py`, `prepare.py`, `cli_workspace.py` | `goal.json` | prepare, approve, cancel, baseline | several processes rewrite one record |
| Autonomous development loop | `application/autodev.py` | `run-state.json`, pending attempt, findings, evidence per SHA | start, resume, loop, verify, review, commit | crash at any point, cancellation from another process, stale evidence |
| Goal lease | `workspace/lease.py` | a locked file | acquire, release | two runners of one goal |
| External agent processes | `adapters/agents/subprocess_runner.py` | process record, deadline | run, terminate, reap | orphans, reused pids, timeout against exit |
| Managed worktrees | `adapters/worktrees.py` | lifecycle checkpoints in a ring of slots, two-phase SHA advance | create, acquire, advance, remove, recover | crash between any two durable steps |
| Cancellation, escalation, evidence, review contracts | `ports/cancellation.py`, `escalation.py`, `evidence.py`, `review.py` | phase of a cancellation; none | advance, finalize, decide | observations from several parties, out of order |
| Bounded output, secret scrubbing | `adapters/bounded_output.py`, `domain/secrets.py` | head, tail, carry | feed, finish | secrets and markers split over chunks |
| Conversations | `application/chat.py` | transcript and manifest | create, append | two files, two writers |
| Resource routing | `application/resources.py`, `localmodel.py` | none | route | escalation by attempt |
| Workspace files | `workspace/paths.py`, `config.py` | files | atomic replace | - |
| Model backends | `adapters/backends/` | none | call | bills known in part, calls that end late |
| Documents, profiles | `protocol/` | none | parse, serialise | - |
| Runtime ports | `ports/runtime.py`, `storage.py`, `agent.py` | none | interfaces | - |
| Command line | `cli.py`, `cli_workspace.py` | none | commands | - |
| Graphical client | `src/gui/` | none | a README only | - |

### 1.2 How they interact

`cli.py` builds a plan (template, validator), creates the run directory (run
store) and hands both to the executor. The executor starts one coroutine per node
in an `asyncio.TaskGroup`; a node waits for the `asyncio.Event` of each
dependency, reserves in the ledger, calls the backend, commits, stores artifacts
and appends to the journal. Nodes therefore share the ledger, the journal and the
abort flag. At the end the executor folds the events it kept in memory with the
same `fold_envelopes` that `runs show` and `runs replay` apply to `events.jsonl`,
and writes `run-report.json` and `decision.json` from the result.

In the second runtime `goal.json` is shared by four commands (prepare, approve,
cancel, start/resume) in different processes; only start and resume hold the
lease. The loop keeps `run-state.json`, calls managed worktrees, agent processes
and check commands, and reconciles the three after a crash.

### 1.3 What makes each component correct

* **Ledger**: admission counts what is in flight; every reservation is returned
  once; caps hold as long as bills respect reservations.
* **Executor**: the journal is at every moment a valid prefix and in the end a
  complete history; it accounts for every token committed; nodes start after their
  dependencies; the run ends whatever fails; the documents say what the journal says.
* **Replay**: what is not rejected means what the report says (each bill belongs
  to one dispatch, a completed run completed, terminal is final, a decision was
  judged).
* **Goal loop**: an achieved goal was tested and, where required, reviewed by a
  non-contributor on exactly the candidate SHA; blocking findings stand until a new
  candidate; resume converges from every crash; a cancellation is honoured.
* **Plan**: a node's inputs exist when it starts, the judge is last, proposals are
  reviewed by the other side, and labels hide and keep authorship.
* **Agents**: one writer at a time; whoever may write can be stopped, and is when
  `cancel` says so; a signal or a removal that comes late does not strike the next
  agent.
* **Files**: a name stands for a whole durable file; a report is true; a writer does
  not overwrite what it has not seen.
* **Worktrees**: a generation is claimed once, recovered to one place, and its SHA
  advances only by the commit that was announced.
* **Streams**: scrubbing and truncation do not depend on how input was split.

`PROJECT.json` lists each hazard at its line, with the properties that answer it.

## 2. Modules

| module | models | built on |
|---|---|---|
| `BudgetLedger` | the ledger as a record, each method an operator on it | |
| `EventReplay` | `fold_envelopes`: `Accepts(v, e)` are the rules for event `e` in view `v`, `Applied(v, e)` the view after it | |
| `CouncilPlan` | what `PlanValidator` accepts, and the plan `CouncilTemplate` builds | |
| `CouncilRun` | the executor as a state machine | `BudgetLedger`, an instance of `EventReplay` |
| `RunContract` | abstract specification: what a run promises to a reader of its statuses | |
| `CouncilProperties` | the properties of a run and the refinement mapping to `RunContract` | `CouncilRun` |
| `MCCouncil` | the template's plan and a smaller one, and the usages, for TLC | `CouncilProperties`, an instance of `CouncilPlan` |
| `JournalReader` | a journal of unknown origin, built frame by frame and folded as it grows | `EventReplay` |
| `MCReader` | the alphabet of such journals | `JournalReader` |
| `Routing` | `route_task` for the tasks of a goal: tiers, escalation, empty tiers | |
| `GoalRun` | one goal: its owner, runner, agents, candidate worktree, disposable views and two durable files | `Routing` |
| `GoalContract` | abstract specification: what a goal promises to a reader of its two files | |
| `GoalProperties` | the properties of a goal run and the refinement mapping to `GoalContract` | `GoalRun` |
| `MCGoal` | two catalogs of resources for TLC | `GoalProperties` |
| `DurableRegister` | abstract specification: one document that changes at one moment and is durable when reported, in a place that becomes durable once | |
| `OwnerJournal` | the owner record of a worktree as a file: ring of checkpoint slots, migration from the older form, deaths and power losses | an instance of `DurableRegister` |
| `MCJournal` | the faults of a migration | `OwnerJournal` |
| `ManagedWorktrees` | the lifecycle of one managed worktree: owner record, directories, Git registrations, sessions, and who else touches them | |
| `MCWorktrees` | the generations of one target | `ManagedWorktrees` |
| `AgentProcess` | the process of an external agent: runner, record file, deadline, and the two that stop it from outside | |
| `MCAgent` | two process ids | `AgentProcess` |
| `WorkspaceFiles` | the atomic replacement of one file, and its reading | |
| `MCFiles` | the symmetry of writers and inodes | `WorkspaceFiles` |
| `OutputCapture` | streaming redaction of secrets and bounded retention | |
| `MCCapture` | texts and secrets | `OutputCapture` |
| `CouncilProofs` | theorems about plans and runs of the Council | `CouncilProperties`, an instance of `CouncilPlan` |
| `JournalReaderProofs` | theorems about reading a journal | `JournalReader` |
| `GoalProofs` | theorems about a goal run | `GoalProperties` |
| `ManagedWorktreesProofs` | theorems about the worktree lifecycle | `ManagedWorktrees` |
| `OwnerJournalProofs` | theorems about the owner record | `OwnerJournal` |
| `AgentProcessProofs` | theorems about agent processes | `AgentProcess` |
| `WorkspaceFilesProofs` | theorems about atomic files | `WorkspaceFiles` |
| `OutputCaptureProofs` | theorems about redaction and bounded retention | `OutputCapture` |

The layers meet at contracts. `GoalRun` takes an operation of the worktree lifecycle
as one step; `ManagedWorktrees` splits it into its durable effects and takes a change
of the owner record as one step; `OwnerJournal` splits that into writes and fsyncs
and shows, by refinement, that it is one. `GoalRun` takes the start and the end of
an agent as steps, which `AgentProcess` splits. `GoalRun` saves a file in one step,
which `WorkspaceFiles` splits. `CouncilRun` takes a valid plan, which `CouncilPlan`
defines.

Operators commented `Fault:` are not part of any specification: each is a wrong
variant of the definition below it (a dropped guard, a swapped order) against
which one property is known to fail. They show that the properties can be broken.

### 2.1 State of `CouncilRun` and the code

| variable | code |
|---|---|
| `phase` | where `RunExecutor.execute` stands (1106-1181) |
| `task[n]` | the coroutine `_run_node`: waiting at the barrier, in flight in the backend, ended as completed or failed |
| `raised`, `groupAborted`, `cancelled` | the TaskGroup: coroutines that raised, whether it has cancelled the rest, `CancelledError`s still to be delivered |
| `engineAbort` | `_engine_abort` |
| `ownerCancelled` | a cancellation of the task that runs `execute` |
| `ledger` | `_ledger` |
| `journal` | `_envelopes`: what the executor believes it has written |
| `file` | the frames that really are in `events.jsonl` |
| `decided`, `documents` | `_decision`; the derived documents written |

`AnyFailure` stands for `_failures` (which grows right after a `node.failed` is
journaled); a node's outcome and done event are its `task` state, since the
`finally` of `_run_node` sets both.

### 2.2 Steps of `CouncilRun` and the code

asyncio runs one coroutine at a time and switches only at an `await`. A node
awaits its dependencies' events and the backend and nothing else, so its whole
life is a barrier, a stretch of code, a backend call and another stretch. Each
stretch is one action: it updates the ledger and writes a *segment*, the list of
artifacts and events the code writes in that order. A write may fail with a
`StorageError`; `SegmentFails` keeps the events before it, drops or keeps the
failed one, ends the coroutine with an exception, and sets the abort flag exactly
where the code's handler does.

| action | code |
|---|---|
| `Open` | run.created at the head of `execute` |
| `FailDependency` | the barrier of `_run_node` with a failed dependency |
| `Dispatch`, `RejectDispatch` | node.started, request artifact, `reserve`, model.dispatched (which returns the reservation if it cannot be written), or budget.rejected and node.failed |
| `BackendAnswers` | the worker after the backend returned: commit, output, bill, receipt, breach check, the judge's decision; over-limit output; text without an encoding |
| `BackendFails` | a dispatch error with no bill, a whole bill or a partial one, and an unexpected exception |
| `CancelWaiting`, `CancelInflight` | `CancelledError` at either await, the second committing at the reservation's ceiling |
| `AbortGroup` | the TaskGroup's done callback of a coroutine that raised |
| `OwnerCancel` | cancellation from outside |
| `Unwind`, `Finish` | leaving the TaskGroup with an exception, or with run.finished |
| `WriteReport`, `WriteDecision` | the derived documents |

### 2.3 Abstractions

* The ready queue of the event loop is first-in-first-out; the model runs ready
  coroutines in any order. One consequence of the order is kept, `AllStarted`: all
  coroutines have taken their first step before a cancellation can reach the group,
  as they are created in one iteration of the loop and start in the next.
* An artifact is named by its kind and node. The code names it by digest, so two
  nodes with equal texts share one; the rules only ask whether a name is known.
* Prompts, the report sink, clocks and ids are left out. The failure reason of a
  run is its presence: the validator asks no more.
* Writes fail at the granularity of a frame. `put` is a failing artifact, `lost` an
  append that leaves nothing, `kept` one whose frame is in the file (fsync failed)
  or still in the handle's buffer, flushed by the next append. Torn frames are left
  out: nothing appends to a run's journal after a restart, and the reader refuses one.
* `LiveBackend` distinguishes `run_council_live`, whose adapters attach a receipt to
  every result and dispatch error and whose over-limit answers are billed, from
  `run_council` with fakes, which do neither.
* `KeyboardInterrupt` and `SystemExit` inside a coroutine are not modelled. Nothing
  resumes a Council run, so a killed process is a prefix of a behaviour.

### 2.4 State and steps of `GoalRun`

| variable | code |
|---|---|
| `goal` | `goal.json`: its status and whether the baseline is completed |
| `disk`, `mem` | `run-state.json`; the `RunState` object of the runner |
| `pc`, `frame` | where the runner stands in `start`, `resume` or the loop, and the locals that are used later: the unmet checks of the iteration, `attempt_base_sha`, where a reconciliation returns to, whether the candidate advanced |
| `tree` | the candidate: whether it exists, the SHA the lifecycle binds it to, Git's HEAD, an advance that was begun, and the authors of uncommitted bytes |
| `commits` | for each commit, the authors of the bytes between the base and it |
| `agent` | the agent process: who, whether it may write, and its exit until the runner looks at it |
| `views` | the disposable checkout per purpose (verification, review) that a dead runner may have left, by the SHA it is of |
| `verified`, `cancelled` | history: SHAs that passed in a pinned checkout; the owner has cancelled |
| `approving`, `killing` | `goal approve` between its two saves; `goal cancel` between its save and the termination |

One action is the code between two durable effects, so `Crash` may come between
any two of them: between the run state and `goal.json` at start (`BeginRun`,
`AnnounceRun`) and at finish (`Finishing`, `Finalize`), between each step of a
managed commit (`BeginAdvance`, `CommitAll`, `CompleteAdvance`, `RecordCommit`),
between the announcement of a writer and its start, and while an agent works,
which then lives on as an orphan until a resume reaps it. `Approve`,
`ApproveBaseline`, `Cancel` and `TerminateAgent` are other processes; they take no
lease, so they interleave with everything. `Start` and `Resume` need `pc = "down"`:
the lease, which dies with its holder. Every load of the run state goes through
`Loads`, the refusals of `RunState.from_doc`. `Late` marks bytes that an agent wrote
after the owner had cancelled.

`GoalRun` abstracts as follows.

* A byte is its author. A check command is the author `Shell`. Whether the policy
  wants a review is a property of the SHA (`NeedsReview`).
* Starting an agent and recording its process are one step, and so is each
  operation of the managed lifecycle: their crash windows belong to `AgentProcess`
  and `ManagedWorktrees`. A pinned checkout is the outcome of what runs in it, and
  the view it leaves if the runner dies. Ignored files are invisible.
* Of the reviews the valid ones are kept; the others only count.
* The wall clock may be over at any iteration. An exception that leaves the runner
  is the end of the process, as in the command line.
* `cancel` loads and saves in one step, and so does resume's repair of `goal.json`:
  their windows lose an update like the much longer ones of `start` and `approve`,
  which are modelled.
* A new run starts with a tree of its own (the run id is part of its path), so only
  the current run's tree is kept; `prepare` and amendments are not modelled, and
  the router always finds a resource in the top tier.

### 2.5 `OwnerJournal`

`now` and `safe` are the file (slots and lease cell) as processes see it and as it
is on the medium. A cell is a first byte, the commit marker, and a body. One
transition of `_cas_transition` is `BeginTransition`, then for the slot after the
newest one the stages *erase*, *fill*, *mark*, each a `Write` and an `Fsync`, then
`Confirm`, the reading back. A record of version 4 is migrated: its newest document
first becomes the witness in the lease file, by the same three stages, and then
slot zero is written over the old bytes. `BeginFirst` and `Link` are the record's
creation: the file is filled and synced under a temporary name, `Link` gives it its
own, and `FsyncDirectory` makes that name durable (`entered`). No transition repeats
this last fsync: `Fsync` is of the record's file or of the lease cell and leaves
`entered` alone. `ProcessDies` ends the writer, perhaps within a frame; `PowerLoss`
keeps any subset of the writes not yet made durable (`Remains`), torn or whole, and
where the name is not `entered` it may take the record away (`Survivors`); an fsync of
the directory for another worktree's record could only save it. Digests, encodings and
sizes appear only as "torn". The abstract `DurableRegister` has a `value`, a `stable`
one, the one being `asked` for, and the `place` that holds them: "new" from the link to
the directory's fsync, "left" when a death comes between; a place left may be lost
until a power loss has decided. `ManagedWorktrees` is about kills only.

### 2.6 `ManagedWorktrees`

| variable | code |
|---|---|
| `record` | the owner record: state, nonce, location, SHA |
| `at`, `filled` | what the public, staging and quarantine names lead to (nothing, a generation's inode, somebody's directory); the inodes Git has populated |
| `reg` | Git's registrations: HEAD and whether it is detached |
| `dirty` | uncommitted bytes in the public checkout |
| `session` | the holder of the lease, and the step it is at |
| `probing` | a lookup that goes without the lease (`_acquire_existing` looks before it locks) |
| `touched`, `refused` | history: somebody else interfered; an operation failed closed |

`Open` and the session steps are `create`, `create_candidate`, `acquire_existing` and
their common reconciliation: `FinishPreclaim`, `AbandonPreclaim`, `Claim`,
`PublishClaim`, `LocateClaim`, `Populate`, `Settle`, `Bind`, `Recover` bring a
generation from any state a death may have left to `ready` or give it up; `Retire`,
`MoveAside`, `LocateAside`, `Delete`, `Bury` remove one. A holder can `Remove`,
`CloseHandle`, `ProveForUse`, and advance the SHA by `BeginAdvance`, `Commit`,
`CompleteAdvance`. A session may die between any two steps. Others may `Squat` on
the public name, `Displace` or `Replace` the directory, attach a branch or move HEAD
(`MoveHead`), or write after the commit (`LateWrite`). A Git command is atomic;
commits form a line and are numbered; an inode is the nonce of its generation; the
pinning of directories by descriptor is the set of names it refuses.

### 2.7 `AgentProcess`

`proc[p]` is what has process id `p` (nothing, the agent, a zombie, a stranger, a
namesake that was started with the same command) and `helper[p]` the rest of its group;
`runner` is where `SubprocessAgentRunner.run` stands and its child; `record` is
`agent-process.json`; `stopping` the two terminators, `goal cancel` and resume. Mishaps
of the runner: `Death`, and `Interrupt`, an exception out of the pump, whose `finally`
removes the record. An agent may end at any time, leave a helper behind that holds its
output open, and ignore TERM.

A terminator reads the record (`ReadRecord`), looks at the process (`Look`), sends TERM
and later KILL (`Signal`), sees it gone (`Stopped`) or not (`NotStopped`), and removes
the record by its path (`DropRecord`); between any two of these the agent may end and
its id be given to somebody else. Only a group that still has members keeps its id
(`InUse`). `pid_matches_record` compares the first word of the command line: a namesake
matches, a zombie does not. `procfs`, one of `Systems`, is what the system shows of the
run's agents: the recorded command, the interpreter of a command that is a script (then
no agent matches), or nothing at all (then everything does). What a signal does to a
stranger, beyond that it may end, is not followed.

### 2.8 `WorkspaceFiles`

`leaf` is the inode under the name, `tmp` the temporary name of each writer, `litter`
what dead writers leave, `data` the contents and whether they are whole and durable,
`shadows` the inodes a power loss may leave under the name, `op` the place of each
`atomic_write_bytes`. Each system call is an action, and each may fail:
`RefuseEarly`, `SwapBack`, `RollBackReplaced`, `RollBackCreated`, `PutBack` and
`FailLate` are the code's answers. `fooled` marks a write whose remembered inode
number was given out again.

### 2.9 `OutputCapture`

A call of `feed` takes any number of the remaining characters; `Finish` ends the
stream at the end of the source or before it; `Register` adds secrets between calls.
The scan, the split into marker segments and the head and tail windows follow the
code. A character is one byte, and the encoded renderings of a secret are members of
its set of variants.

### 2.10 `CouncilPlan`

Nodes and manifest entries are sets, since the validator reads them in no order.
`Ancestors` are defined by closure instead of the code's depth-first search, which
computes the same set.

## 3. Runs

| run | question | states |
|---|---|---|
| `council_accounting` | the template's plan under caps too tight for all of it, live providers that over-report, fail with a bill or answer with text that has no encoding, lost writes, leaked cancellations: do reservations leak, can a run complete above its caps? | 1.6 million |
| `council_faults` | two barriers, every kind of failing write, outside and leaked cancellations: does the run end, do journal, file and documents agree and account for each committed token, do admission caps hold, does it refine `RunContract`? | 380 thousand, 80 s |
| `journal_reader` | every journal up to nine frames over an alphabet of right and wrong events: does acceptance mean what the report says? | 640 thousand |
| `goal_run` | runner deaths, an owner who cancels at any moment, agents that fail or commit on their own, checks that leave bytes: is every byte attributed, does evidence stay with its SHA, is late work kept out, can the files always be reconciled, does the run end, does it refine `GoalContract`? | 1.5 million, 75 s |
| `goal_review` | escalation of the writer up to the reviewer's tier, every candidate to be reviewed, reviewers that fail: is every review independent? | several million |
| `owner_journal` | the ring through its sequence numbers and past their end, and its migration, with a death or a power loss at each step: does a reader always find one document, and keep it (once its place is durable)? | 47 thousand |
| `worktrees` | a candidate or a view, deaths at each step, one intrusion: does each later call converge, refuse only for a cause, bind only announced commits and lose nobody's bytes? | 160 thousand |
| `agent_process` | agents that fork, overrun or ignore TERM, a runner that dies or is interrupted, cancel, ids given out again at any moment: one writer, always stoppable and stopped, no agent started under a terminator's hands? | 420 thousand |
| `workspace_files` | two writers and a reader of one path, failing calls, kills, power losses: is the file always whole, is a report true, does one of two writers lose? | 310 thousand |
| `output_capture` | every short text in every division into chunks: are output, kept window and report functions of the text, and is no secret shown? | 880 thousand |
| `goal_cancel`, `goal_stale_view` | disagreements, section 4 | counterexamples |

**Bounds.** *Council.* The accounting run uses the real plan, and TLC evaluates that
the validator accepts it and none of its dependencies and manifest entries can be
left out (`NothingIsOptional`). The fault run uses four nodes with two barriers
(waking up a dependent of a dependent). Every dispatch reserves four tokens. In the
accounting run 13 tokens are fewer than five reservations and 24 microdollars fewer
than five over-reported bills, so that a node is rejected at admission, or admission
passes and the bill breaches; in the fault run cheap answers all fit, and answers
over their limit and cancellations, billed at the ceiling, use the 10 tokens up.
Prices 1 and 3 per 2 tokens make both roundings of the cost
visible. Reported usages are one below, one above the input estimate, one above the
output limit. A run's own state space is finite and no bound cuts it. *Reader.* A
complete successful history of one node takes seven frames, eight with a decision;
`MaxFrames = 9` leaves room for a second dispatch and its answer, a second decision
or an event after a terminal one. With one declared node and a stray one the
expected count can be right or wrong.

*Goals.* In `goal_run` two attempts and three calls allow a failed writer, a commit, a
review and a second candidate; check commands may leave bytes and agents may commit;
its catalog has no strong resource, so escalation passes over an empty tier. A
writer is escalated at its third attempt and what it writes is judged in the next
iteration, hence four attempts in `goal_review`, whose agents and checks behave.
Each has one crash (`MaxCrashes`); it bounds the space, since a resume that dies
repeats the same states. The number of commits is bounded by the attempts and, for
agents that commit on their own, by the refusal that follows. `goal_stale_view` has
room for a blocked review, a crash and a second candidate, and no checks.

*Owner record.* Three slots give a newest, a previous and a reused one; modulus 6 is
the least the comparison of sequence numbers allows for them, and the run goes round
it. Two documents tell the old from the new. A migration meets kills or power losses,
not a power loss on top of a kill (section 4, last list). *Worktrees.* Four nonces: a
generation, its successor, one abandoned directory and a spare one; commits 0, 1, 2,
so that an advance follows an advance and HEAD can move to a commit that is neither
end of one; two deaths, so that a recovery dies too; one intrusion. *Agents.* Three
agents (one left behind by the first mishap, one by the second, one that works) on
two ids, on a system that shows commands and on one without procfs. *Files.* Three writes by two writers, so that one of them
writes twice;
four inodes, so that the number of a removed file is given out while another writer
remembers it. *Capture.* Five characters hold two overlapping secrets, or a marker
with characters around it; windows of 1 (less than a marker), 3 and 9 (everything).

**Symmetry** permutes proposers, and reviewers, in `council_accounting` (of the plan
the executor's model sees the dependencies, roles and ceilings, which do not tell
them apart) and inodes and writers in `workspace_files`. Neither run has a liveness
property.

**Deadlock** is checked for `owner_journal`, `worktrees` and `agent_process`, which
always have something left to do. Elsewhere the system stops: a run in `returned` or
`raised` (`RunEnds` says that it stops nowhere else), the reader at a rejected frame, a
goal where it has ended or only its owner could go on, a file after the last
write, with killed writers where they were, a stream at its end.

**Fairness.** *Council* (`FairSpec`, for `RunEnds`): weak fairness of each executor step
and of each node. The event loop runs ready coroutines and callbacks; a waiting node
whose dependencies ended stays ready, and a node in flight is always able to take a
step because adapters end each call by a watchdog timer
(`adapters/backends/common.py`). Nothing obliges the owner to cancel.

*Goals*: weak fairness of the runner and of the exit of an agent somebody waits for:
`SubprocessAgentRunner` kills it at its deadline. The runner's steps include `Resume`
and `ReplayFinish`: a run left behind goes on only because somebody calls `goal
resume`, which nothing in the code does, so `RunEnds` says that resuming suffices,
not that it happens. It excepts a worktree that no resume accepts (`Wedged`): bytes
left by check commands while no writer is pending, a HEAD an agent has moved, or a
view of an earlier candidate stop the loop with a `StorageError`, and every later
resume does the same until the owner cancels.

*Worktrees*: weak fairness of a living session's steps, which only wait for Git and
the file system, and strong fairness of the calls that open one: `Delivered` is about
a caller who keeps asking, as a run is resumed until it is through, and the
lease is free again and again because sessions end. *Agents*: weak fairness
of the runner (`Running`), whose own clock ends the wait for output, the grace after
TERM and the wait for the last output; nothing is assumed of the agent.

## 4. Disagreements between code and its own words

Two are counterexamples of runs of their own:

1. `goal_cancel`: `goal approve` saves its record again after the baseline commands
   have run (`prepare.py:289`); a `goal cancel` meanwhile is overwritten and the goal
   is approved, although `autodev.py:37` says that cancel "durably records the
   intent". The same happens when `start` saves its record as running
   (`autodev.py:840`). The loop then sees no cancellation, and commits what the agent
   wrote after it, against "never commits post-cancel work" (38). A finishing loop
   overwrites a cancellation with its own terminal status (1073), which
   `CancelIsDurable` tolerates. `NoLateWork` shows, in `goal_run`, that a
   cancellation that stays in the file does keep late work out.
2. `goal_stale_view`: a blocking review is saved (`autodev.py:2054`) before the
   `finally` removes its checkout (2079). A death in between leaves a view of the
   reviewed SHA; the resumed run produces the next candidate, and `create` refuses a
   review view of the same target at another SHA (`worktrees.py:985-992`), on this
   resume and each later one, although "killing the process at any point and running
   `dagvane goal resume` continues from the last completed stage" (`autodev.py:7`).
Seen while modelling, without a run; the models follow the code in each:

* *Council.* A response with a lone surrogate is committed to the ledger and then
  cannot be encoded (`council.py:990-992`): neither model.completed nor model.failed is
  journaled, and the executor's own fold rejects run.finished. node.completed of the
  judge precedes decision.recorded (1296-1302); when the latter cannot be framed the
  generic handler fails a node that has completed, which no reader accepts. node.failed
  is written outside the `try` whose handler sets `_engine_abort` (1205 against 1076),
  so the siblings of a node that could not be failed are cancelled as if from outside
  and write to the store that has just failed. Nodes woken by a coroutine that died of
  a `StorageError` do so too, before their own cancellation arrives (comments at
  1222-1225, 1241-1242). A free dispatch error whose text has no encoding leaves
  `_run_node` by an exception (`SegmentEscapes`), although the comment at 1143-1144
  expects only storage errors there.
* *Run store.* The journal advances its sequence number after fsync
  (`filesystem.py:240-243`, docstring at 181): an append that failed in fsync leaves
  its frame, and the next one repeats the number. `TerminalFileReplays` shows the limit
  of the damage: it only happens in files of runs that were abandoned.
* *Plan.* The validator does not look at the labels of reviews: of a plan other than
  the template's nothing says whose review a judge reads.
* *Goals.* The calls may exceed their limit by one, since a review and a writer of
  one iteration share one look at it (`LimitsHold`). Check commands also run in the
  writer's worktree, and tracked bytes they change are committed with the next writer's
  work, while `autodev.py:21` says that mutations by check commands are never committed
  (true of the pinned checkout, where the checks that decide run).
* *Agents.* An exception in the pump unlinks the record of an agent that lives on
  (`subprocess_runner.py:629-635`), although the comment above it (620-626) wants an
  unfinished agent to stay recorded; such agents are in `lost`, and so are those that a
  crash leaves between their start and their record. `OneWriter` holds for the rest.
* *Agents, an agent missed.* The guard compares the recorded command with the first word
  of `/proc/<pid>/cmdline` (`subprocess_runner.py:980`). An agent that is a script (an
  interpreter line) shows its interpreter there and does not match: `goal cancel` removes
  its record, reports the goal cancelled and leaves it running until its deadline,
  although "cancellation must actually stop an in-flight writer" (`cli_workspace.py:280`),
  and a resumed run leaves an orphan of this kind beside the next writer. With
  "interpreter" among the `Systems` TLC finds `StopsWhatItRead` violated in seven steps.
* *Agents, a stranger struck.* Without `/proc` the guard returns True (973), so a stranger
  that was given the id is sent TERM and KILL, although the docstring wants it to "err
  toward *not* killing an unverifiable process" (969-970). With procfs it can happen to a
  process of the same command, and to whoever has the id when KILL comes, up to two
  seconds after TERM and without another look (1024-1032). The module claims only that
  reuse is "mitigated, not eliminated" (43-44). The model lets all of this happen, and no
  property says otherwise.
* *Worktrees.* A probe without the lease that finds no record and then something at
  the public name raises (`worktrees.py:1336-1351`), where the docstring says that the
  caller retries (1294-1366); `RefusalHasCause` shows that the next call succeeds.
* *Owner record, its name.* Only `os.fsync(owners_fd)` (`worktrees.py:1960`) makes the
  name that `os.link` (1952) gave a new record durable. A writer killed between the two
  leaves a record that the next session takes up; its transitions sync the record's file
  and not the directory (2238-2242), so a power loss after a reported transition may take
  the record away, although each worktree is "bound to a durable *owner record*"
  (`worktrees.py:3`). Some file systems write the name with the file; nothing in the code
  asks for it. `DurableRegister` has this exception in so many words (`place`).
* *Owner record.* A writer killed before the fsync of the lease cell leaves a witness
  that the next writer takes as durable (2076-2080); a power loss during that second
  migration could lose both copies.
* *Workspace files.* Where two writers overlap, a write that raised may take effect,
  and a swap back may displace the acknowledged file of a third; `ReportIsTrue` is
  therefore about a lone writer. The compare-and-swap is on an inode number, which the
  file system may give out again (`fooled`).

## 5. Proofs

TLC settles a small instance. The theorems below hold for every value of the
constants that the named assumptions of each module allow (any plan and budget, any
number of nonces, commits, inodes, writers, agents, any number of deaths); TLC
evaluates the assumptions on every run. Most of the properties are not inductive:
they say what must not happen and not why it does not. Each proof module therefore
states the missing reasons as named conjuncts of an inductive invariant, one lemma
shows for each conjunct that no step disturbs it, and the property follows. The
invariants were checked by TLC on the runs before they were proved, but for that of
output capture, which quantifies over all sequences.

### 5.1 The Council (`CouncilProofs`)

* `TypeCorrect == Spec => []TypeOK`. The invariant types every event of the journal
  and every frame of the file. The argument is by segment: `SegmentStep` shows that
  writing a typed segment, wholly or up to a failing write, keeps journal and file
  typed, so each action only has to type its own segment.
* `BudgetKept == Spec => []HardCaps`. `LedgerSteps` classifies what a step may do to
  the ledger: nothing, reserve an admitted reservation, release, or commit a usage.
  `LedgerStepKeepsCaps` shows that each keeps `CallsWithinCap`, and, under
  `HonestBackend`, that a commit replaces a reservation by no more than it.
* `CompletionKept == Spec => []CompletedWithinCaps`. `BreachShows` is the reason: while
  the run goes on no terminal event is journaled, and a breached ledger means that a
  node.failed is in the journal or that a coroutine raised. Cancellations make it
  delicate: a cancelled dispatch is committed at its ceiling, may breach, and writes
  its node.failed only while the abort flag is unset, so the invariant also relates
  the flag to `raised`.
* `ReservationsKept == Spec => []ReservationsExact`. The five steps of a node come to
  three (`NodeOutcome`): it starts, completes or fails, whatever was written on the
  way. Each changes the set of dispatched nodes and the ledger alike (`Reserved`),
  and `SumAdd` and `SumRemove` say what an element more or less does to a sum.
* `JournalTells == Spec => []Told` is the same classification seen from the journal:
  which of the three status events of a node are there, in each state of its
  coroutine, and for a node that failed in silence the reason (it raised, or it was
  torn down by a failed write or a cancellation of another).
* `ContractKept == Spec => KeepsContract`: the run implements `RunContract`, step by
  step. The abstract status of a node is read off the journal (`StatusByEvents`), so
  each of the three outcomes is a step of the contract or a stutter.
* `CausalityKept`, `ASSUME Barriers PROVE Spec => []CausalOrder`. That a node starts
  after its dependencies is in `Told`. That a node blames a dependency only for a
  failure that *has shown* is not true of every graph: let `a` raise on a failed
  write, let an independent `b` in flight be cancelled, silently since the abort flag
  is set, and let `c` depend on `b` alone; `c` then blames `b`, of whose failure the
  journal says nothing. `Barriers` excludes it: of two nodes one is above the other, or
  they wait for the same nodes and the same nodes wait for them. `BarriersFollow`
  shows that every plan the validator accepts has barriers, and the corollary
  `AcceptedPlansCausal` joins the two, so nothing is assumed of accepted plans.
* `ReplayKept`, `AccountsKept` and `TerminalFilesKept` state `JournalReplays`,
  `JournalAccountsForSpending` and `TerminalFileReplays`, which compare a state of the
  executor with the fold of its whole journal. The hypotheses are `Encodable` (every
  text has an encoding; the first entry of section 4's last list is what happens
  otherwise, and the three properties fail then, by counterexamples of TLC), `OneJudge`,
  `AbsentIsApart` (the value for "absent" is none of the present ones) and a plan with
  a node. The corollary `AcceptedPlansNarrate` needs of these only `Encodable` and
  `AbsentIsApart`, for every plan the validator accepts. The argument, from the fold
  upwards: (1) `FoldAppend`, that the view after one more frame is one more turn
  of the loop, needs the recursive function of the fold to exist, which follows from
  a least number without one (`LeastNumber`, `ViewingExists`) and not from an
  induction theorem. (2) What each event does to a view that is in order
  (`StartedAfter` to `DecidedAfter`). (3) `Standing` is where a node stands in a view,
  `Edge` which event takes it from one stage to the next, and `EdgeTaken` that the
  validator accepts each such event and leaves the other nodes alone. (4) A segment is
  a chain of edges (`Leads`), so `FollowAll` gives the view after any prefix of it, that
  is, wherever a write of it fails. (5) `NodeRecounts` classifies the steps of a node:
  each writes such a segment or fails in it, and commits to the ledger what the whole
  segment bills. (6) `Narrates` is the inductive invariant: until the terminal event
  the view says of each coroutine what it is doing, the file has no terminal event, and
  file and journal agree while nothing has raised; `FinishedFolds` shows that the
  terminal event is then accepted, for which it needs `Told` and `BreachShows`.
* `DocumentsKept`, `ASSUME AbsentIsApart PROVE Spec => []DocumentsMatchFile`, of every
  plan and of every text, encoded or not. The hard case is a judge whose decision has
  no encoding: the executor then has a decision that its journal does not record, and
  would publish it. It never gets that far: its journal fails a node that it has just
  completed (`Stuck`), which no fold accepts, so the report raises first. The invariant
  `Derived` says so: while nothing has raised, the file is the journal, and the
  executor has a decision exactly if the journal records one or is stuck. It needs
  nothing of the view but what one turn of the loop may do to it, in order or not
  (`Turn`, `TurnTaken`): a rejection lasts (`RejectionLasts`), and the decision changes
  with a `decision.recorded` only (`DecisionFolds`).

About any plan that `Valid` accepts, of any number of nodes:

* `ManifestIsReady`: a set of nodes that is closed under dependencies and holds what a
  node waits for holds every producer its manifest names. The completed nodes of a
  run are such a set when the node is dispatched (`CausalOrder`), so the assertion in
  `_resolve_manifest` that an input has a text cannot fail. The lemma
  `AncestorsClosed` carries it: ancestors contain the dependencies and are closed.
* `JudgeRunsLast`: counting leaves exactly one judge and two of each other role
  (`OneMember`, `TwoMembers`); the judge waits for the reviewers, each of them for the
  proposers, and a node that waited for the judge would make it its own ancestor.
* `ProposalsAreCrossReviewed`: two identities, the reviewers have the same two, each
  reviews the one proposal of the other; no check of the validator says that both
  proposals are reviewed.
* `LabelsArePseudonyms`: from the bijection of the sealed mapping and the rule on
  shared labels; across manifests equal labels mean equal authors and conversely.

### 5.2 Replay (`JournalReaderProofs`)

`RInv == Shaped /\ Believed` relates the state of the fold to the frames read so far:
`Ended` (a terminal status is that of the last frame, and what a completed run has),
`Tracked` (the status of a node is what its frames say), `Silent` (no frame of a node
follows its terminal one), `Dispatches` (bills and dispatches correspond, and `open`
holds exactly the dispatches without a bill), `Summed` (the totals are the sum over the
bills), `Cancelled`, `Answered` (the last output of a node is that of its last answered
call) and `Judged`. `Reading` classifies a frame as rejected or applied; the rejected
one leaves everything, and each rule of `Accepts` keeps the conjunct it is there for.
The five properties of the reader follow, for any alphabet of events, journals of
any length and any caps. `ReaderAssumption` says what decoding a line has checked: the
type is known, a usage is three integers, the output of a node is a digest.

### 5.3 Goals (`GoalProofs`)

One invariant carries seven properties (`AlwaysLoadable`, `NobodyUnnamed`,
`ReviewsIndependent`, `AchievedWithEvidence`, `AlwaysResumable`, `NothingOverspent`,
`LateWorkUnbound`). The difficulty is that a crash forgets `mem`, `pc` and `frame` at
any place, so whatever a resume relies on must be said of `disk`, `tree` and the agent
alone, for every place at once:

* `InStep`: what the runner has in memory is what a crash leaves, except the worktree
  mark and the tested SHA; `FilesAgree`: what `goal.json` and the run state say of each
  other; `Returns`: to where a shared stage returns.
* `TreeBound`: HEAD is where the manager has bound it, except in an advance and where
  an agent not yet looked at has moved it. `AgentsAnnounced`: an agent that may write is
  the pending writer. `PendingPlaced`: where an attempt is pending.
* `AttemptApart` makes `Attributed` inductive: as long as an attempt is not committed,
  the contributors cover the authors of HEAD *without* the pending writer, and the
  recorded candidate always. A recovery that finds HEAD at the attempt's base may
  therefore drop the writer, and one that finds it beyond must name it.
* `EvidenceFits` and `ClaimsHold`: the candidate only moves forward, and each claim of
  the file about a SHA (tested, passed, reviewed) has its evidence. `IndependentReview`
  is the claim about reviews: a reviewer is chosen outside the contributors, and those
  cover the candidate's authors.
* `LimitsAhead`: one look at the limits covers one attempt and two calls.
* `LateKeptOut`: late bytes get beyond the last look at `goal.json` only where the
  cancellation was overwritten before it.

`GoalContractKept == Spec => KeepsGoalContract`: the run implements `GoalContract`,
in which there is no runner, no memory, no stage and no worktree, only the status of
the goal and the record that `run-state.json` holds. There a run begins when none is
alive, an attempt or a call is counted within the limits, the candidate never goes
back, contributors and reviews are only added, a review is by no contributor, and
*achieved* takes the evidence. The mapping reads `disk` alone, so a save of a copy
that a crash or an overlap had made stale would take something back and be no step of
the contract. The lemmas follow what a step saves: nothing the record shows
(`UnsavedKeepContract`, `QuietSavesKeepContract`), the status of the goal
(`StatusKeepsContract`), the manager's binding (`AdoptionsKeepContract`, where
`EvidenceFits` keeps the candidate from going back), a stage
(`StagesKeepContract`: `AgentsAnnounced` for reviews, `LimitsAhead` for attempts and
calls, `FilesAgree` for the beginning) or the end (`EndsKeepContract`, from
`AchievedOnEvidence`). The contract leaves what the owner does open: a cancellation
may be overwritten in it as it is in the code (section 4). Its limits bound each step;
`NothingOverspent` states what they add up to, and is proved only.

### 5.4 Worktrees (`ManagedWorktreesProofs`)

`RefusalsHaveCause`, `HandlesBacked` and the two action properties `CommitsAdvance` and
`NothingIsLost` share one invariant. `RecordFits`, `StepFits` and `CallFits` say which record
belongs to which step of which call. `Placed` holds whatever others do: a name of the
manager's holds its own generation or nothing of the manager's. `Untouched` holds until
somebody interferes: the target is where record and step say, at most one durable
effect ahead (`ClaimInPlace`, `BoundInPlace`, `RemovedInPlace`), which is what a recovery
needs to tell the two sides of a death apart. `StagingBounded` is about the model's
bound: a nonce is always to be had when `Cardinality(Nonces) > MaxAbandoned + 2`, in
the code because it is random.

### 5.5 Owner record (`OwnerJournalProofs`)

`AlwaysRecoverable` and `RegisterKept`, for any number of slots from three, any modulus
of the sequence numbers that is a multiple of it and at least twice as large, and any
number of transitions, deaths and power losses.

The invariant knows three phases: no record yet, a record of the older form with or
without its witness, and a ring. A ring is *in order*: each committed slot is as far
behind the newest in number as in place (`InOrder`), which is why the comparison modulo
`SequenceModulus` finds the newest (`NewestReads`) and the slot to reuse holds the
oldest. `Lags` bounds what the medium may lack of what processes see: nothing, the last
mark, or the slot being rewritten, so whatever subset of writes a power loss keeps shows
the old document or the new one (`SurvivorsShow`, `RingSurvives`), and a transition is
reported only when both are the new one. What a power loss may do to the record's name
is said beside this (`EntryKnown`): a name on the medium is one that processes see, and
a record of the older form has its name. `RegisterKept` does not say more than the code
does: the place is durable when its first transition is reported, unless a death came
between the link and the directory's fsync, and then later reports hold only as long as
the place does (section 4).

Two facts about the code came out of the proof. With *two* slots the ring would not be
recoverable: a writer is killed between the mark and its fsync, the next erases the
other slot, and a power loss may keep the erasure and lose the mark. Hence
`Slots >= 3`; the code has eight (262144 / 32768). And a migration tolerates a kill or
a power loss but not one on top of the other (section 4, last list), hence
the hypothesis `FaultsApart` of both theorems, which restricts only records of the
older form; TLC evaluates it on the run's fault sets.

### 5.6 Agents and files

* `AgentProcessProofs`: `OneWriterKept`, `CancellableKept`, `StopsWhatItReadKept`, for
  systems that show an agent's recorded command or no commands (`Recognized`; section 4
  says what happens on others). `ChildKept`:
  every agent that no mishap has left behind is the runner's child, or the runner is
  down and the record names it. `RecordTrue`: the record names the child and nobody
  else. `TerminatorsUpToDate`: a terminator at work holds the id that the record still
  has, if it has one, nobody starts an agent before it is through, and what it is about
  to drop, or could not stop, is not an agent.
* `WorkspaceFilesProofs`: `NothingTorn`, `ReportsAreTrue`, `OneWriterWins`. `Apart` and
  `Holding`: no two names lead to one inode, and a temporary name holds what the writer
  filled, later what the exchange displaced. `Sound`: what the public name stands for,
  may stand for after a power loss, or a roll back would put there, is whole and
  durable. `Lone`: a writer that met no other knows what is under the name. For
  `OneWriterWins`: writes are told apart (`Numbered`), a writer that is not `fooled`
  remembers the inode of the file it saw (`Remembered`), and the file that an
  acknowledged write has seen is gone (`Superseded`).

### 5.7 Output capture (`OutputCaptureProofs`)

`NothingShown == Spec => []NothingRevealed` and `SplitsAgree == Spec => []SplitInvariant`,
for any set of characters that has the two of the marker, any texts, any registries
whose renderings are not empty and do not overlap the marker, and any positive limits.
Both compare what was computed piece by piece with something said of the whole text,
so the invariant says what a prefix of the work means.

* *The scan.* A text `b` up to the position `p` is resolved into `o` (`Resolved`) when
  a set of starts says so: the longest rendering at each of them, none inside another,
  and at every place between them none or one that was passed over. `ScanGoes` is what
  the rest of a scan does from position `i`; `ScanResolves` shows it for all positions
  from the last to the first, since the scan is a recursive function of the position:
  among the positions for which it fails the greatest would follow from those after it
  (`LeastNumber`, from the well-foundedness of the naturals, takes the place of
  induction). The code holds back a start that may still grow; that is what `Open`
  remembers of the carry, so that a chunk more (`FeedOpens`) resolves more of the same
  text, and the end of the stream closes it (`FinishCloses`).
* *No secret is shown*: a rendering in the output cannot contain a part of a marker,
  since it does not overlap one, and so would lie in the text between two starts, where
  it would have been a match (`Bare`). A registration that comes in between stops the
  stream, and the output before it was free of what was registered then.
* *One redaction*: starts that no other start covers are unique (`LeftmostUnique`),
  hence a closed stream has emitted `Sanitized` and dropped what is `Doubtful`
  (`ClosedWhole`).
* *The window*: the capture does not see the text but chunks of output, which it cuts
  into markers and single characters. The invariant `Capturing` says that there are
  *some* segments `W` and a pending rest `r`, whose concatenation is all the output so
  far, in which no "[" is followed by "]" unless they are one segment, and of which the
  capture keeps the first ones or the last ones that fit (`Keeping`). The cuts of the
  output that split no marker are then exactly the ends of segments (`PieceCuts`), so
  the kept segments are the window (`HeadKept`, `TailKept`).

### 5.8 Model-checked only

`RunEnds` (of Council and goals), `Delivered`, `CancelTakes`: liveness, which needs
`ENABLED`.

## 6. Plan

Modelled so far: the Council core (plan, ledger, executor, replay), the goal loop,
the worktree lifecycle and its record, agent processes, atomic files, output
capture. Proved: every safety property, action property and refinement that the runs
check.

### Not modelled

* *Contracts of cancellation, escalation, evidence and review* (`ports/`): types and
  validators that nothing in this tree calls, so there are no steps whose order could
  go wrong.
* *Conversations*: a line appended and a manifest rewritten by single commands.
  Neither code nor documents say what two commands at once may leave; the hazards are
  listed.
* *Read side of the run store, `append_jsonl`, creation of the workspace*: single file
  operations behind checks of names and symbolic links.
* *Goal lease*: taken at its contract, one holder at a time, none after death.
* HTTP and parsing of provider responses, command-line parsing, document schemas and
  profiles, canonical JSON, the graphical client: conversions or front ends without
  state or interleaving.

The models also assume: a Git command killed in the middle took effect or did not,
and none outlives the session; a checkout Git has registered is complete; a run id
does not collide with the names of views; the parent directory of a file stays in
place. `GoalRun` assumes of agents what `Recognized` says. Of output, UTF-8 decoding and
the reporting of `overlap_discarded` are not modelled.
