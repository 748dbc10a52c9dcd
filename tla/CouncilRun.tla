----------------------------- MODULE CouncilRun -----------------------------
(***************************************************************************)
(* One Council run: the executor, its one-shot workers and the journal.    *)
(*                                                                         *)
(* asyncio runs one coroutine at a time and switches only at an await.  A  *)
(* node coroutine awaits its dependencies' events and the backend, so a    *)
(* node takes few steps, each a whole stretch of code between two awaits:  *)
(* it updates the ledger and writes a segment of artifacts and journal     *)
(* events.  Any write of a segment may fail with a StorageError; the       *)
(* events before it stay written, and the exception unwinds the node.      *)
(***************************************************************************)
EXTENDS BudgetLedger, Sequences, FiniteSets

CONSTANTS
  Nodes,          \* node ids of the plan
  DependsOn,      \* node -> the nodes it depends on
  Role,           \* node -> "proposer", "reviewer" or "judge"
  Ceiling,        \* node -> estimated input and max_output_tokens of its route
  Reported,       \* usages a backend may report
  Texts,          \* subset of {"plain", "unencodable"}: response and error texts
  Verdicts,       \* subset of {"valid", "invalid", "unencodable"}: judge outputs
  BackendFaults,  \* ways a dispatch may fail, see BackendFails
  LiveBackend,    \* run_council_live (its adapters attach receipts) or run_council
  StorageFaults,  \* subset of {"put", "lost", "kept"}: how a write may fail
  Cancellations,  \* subset of {"owner", "leaked"}: where a cancel may come from
  None            \* an absent value

ASSUME PlanAssumption ==
  /\ IsFiniteSet(Nodes)
  /\ DependsOn \in [Nodes -> SUBSET Nodes]
  /\ Role \in [Nodes -> {"proposer", "reviewer", "judge"}]

ASSUME BackendAssumption ==
  /\ Ceiling \in [Nodes -> Usage]
  /\ Reported \subseteq Usage
  /\ Texts \subseteq {"plain", "unencodable"}
  /\ Verdicts \subseteq {"valid", "invalid", "unencodable"}

ASSUME FaultAssumption ==
  /\ BackendFaults \subseteq {"unbilled", "exception", "billed"}
  /\ LiveBackend \in BOOLEAN
  /\ "billed" \in BackendFaults => LiveBackend
  /\ StorageFaults \subseteq {"put", "lost", "kept"}
  /\ Cancellations \subseteq {"owner", "leaked"}

VARIABLES
  phase,          \* where RunExecutor.execute stands
  task,           \* node -> state of its coroutine
  raised,         \* nodes whose coroutine ended with an exception
  cancelled,      \* nodes with a CancelledError still to be delivered
  engineAbort,    \* RunExecutor._engine_abort
  groupAborted,   \* the TaskGroup has cancelled the other nodes
  ownerCancelled, \* the run was cancelled from outside
  ledger,         \* RunExecutor._ledger
  journal,        \* the events appended successfully, RunExecutor._envelopes
  file,           \* the frames that reached events.jsonl
  decided,        \* RunExecutor._decision is set
  documents       \* the derived documents written: report, decision

vars == << phase, task, raised, cancelled, engineAbort, groupAborted,
           ownerCancelled, ledger, journal, file, decided, documents >>

ControlVars == << phase, cancelled, groupAborted, ownerCancelled, documents >>

Replay == INSTANCE EventReplay WITH
  ExpectedNodes <- Cardinality(Nodes), CapCalls <- MaxCalls,
  CapTokens <- MaxTotalTokens, CapCost <- MaxCostMicrousd, Unset <- None

-----------------------------------------------------------------------------
(* The event payloads.  Each node dispatches once, so its own name serves  *)
(* as the operation_id, call_id of that dispatch.                          *)

Artifact(what, n) == <<what, n>>

Costed(usage) ==
  [ input |-> usage.input, output |-> usage.output, cost |-> DispatchCost(usage) ]

RunCreated == [ type |-> "run.created" ]

NodeStarted(n) == [ type |-> "node.started", node |-> n, role |-> Role[n] ]

ArtifactWritten(what, n) ==
  [ type |-> "artifact.written", node |-> n, artifact |-> Artifact(what, n) ]

BudgetRejected(n) == [ type |-> "budget.rejected", node |-> n ]

ModelDispatched(n) ==
  [ type |-> "model.dispatched", node |-> n, op |-> n,
    request |-> Artifact("request", n), reserved |-> ReservationFor(Ceiling[n]) ]

ModelCompleted(n, usage) ==
  [ type |-> "model.completed", node |-> n, op |-> n,
    output |-> Artifact("output", n), usage |-> Costed(usage) ]

ModelFailed(n, reason, usage, source) ==
  [ type |-> "model.failed", node |-> n, op |-> n, reason |-> reason,
    usage |-> Costed(usage), source |-> source ]

NodeCompleted(n) ==
  [ type |-> "node.completed", node |-> n, output |-> Artifact("output", n) ]

NodeFailed(n, reason) == [ type |-> "node.failed", node |-> n, reason |-> reason ]

DecisionRecorded(n) == [ type |-> "decision.recorded", source |-> Artifact("output", n) ]

(* _failures grows right after a node.failed event is journaled; of the    *)
(* reason taken from it only the presence matters to the validator.        *)
AnyFailure == \E i \in DOMAIN journal : journal[i].type = "node.failed"

RunFinished ==
  [ type   |-> "run.finished",
    status |-> IF AnyFailure THEN "failed" ELSE "completed",
    reason |-> IF AnyFailure THEN "node failure" ELSE None,
    totals |-> Totals(ledger) ]

-----------------------------------------------------------------------------
(* Durable writes.  A put that fails raises before its artifact.written    *)
(* event.  An append that fails has lost its frame, or has left it in the  *)
(* file (fsync failed) or in the handle's buffer, which the next append    *)
(* flushes; either way the next append reuses the same seq.                *)

Written(events) ==
  /\ journal' = journal \o events
  /\ file' = file \o Replay!Frames(Len(journal), events)

FailsAt(events, k, fault) ==
  LET done == SubSeq(events, 1, k - 1)
      left == IF fault = "kept" THEN <<events[k]>> ELSE << >>
  IN  /\ fault = "put" => events[k].type = "artifact.written"
      /\ journal' = journal \o done
      /\ file' = file \o Replay!Frames(Len(journal), done)
                      \o Replay!Frames(Len(journal) + k - 1, left)

(* The exception handlers of _run_node write node.failed outside the try   *)
(* block whose StorageError handler sets the abort flag; only a judge's    *)
(* invalid decision is failed from inside it.                              *)
InsideHandler(e) == e.type = "node.failed" /\ e.reason # "invalid_decision"

SegmentFails(n, events) ==
  \E k \in DOMAIN events, fault \in StorageFaults :
    /\ FailsAt(events, k, fault)
    /\ task' = [task EXCEPT ![n] = "failed"]
    /\ raised' = raised \cup {n}
    /\ engineAbort' = (engineAbort \/ ~InsideHandler(events[k]))

(* The node writes the segment and, if every write succeeds, goes on to    *)
(* the task state next; a StorageError ends its coroutine instead.         *)
Segment(n, events, next) ==
  \/ /\ Written(events)
     /\ task' = [task EXCEPT ![n] = next]
     /\ UNCHANGED << raised, engineAbort >>
  \/ SegmentFails(n, events)

(* The same, but the node.failed that would follow cannot be encoded: the  *)
(* UnicodeEncodeError leaves the coroutine from inside its handler.        *)
SegmentEscapes(n, events) ==
  \/ /\ Written(events)
     /\ task' = [task EXCEPT ![n] = "failed"]
     /\ raised' = raised \cup {n}
     /\ UNCHANGED engineAbort
  \/ SegmentFails(n, events)

-----------------------------------------------------------------------------
(* RunExecutor.execute: opening. *)

Init ==
  /\ phase = "created"
  /\ task = [n \in Nodes |-> "waiting"]
  /\ raised = {}
  /\ cancelled = {}
  /\ engineAbort = FALSE
  /\ groupAborted = FALSE
  /\ ownerCancelled = FALSE
  /\ ledger = EmptyLedger
  /\ journal = << >>
  /\ file = << >>
  /\ decided = FALSE
  /\ documents = {}

Open ==
  /\ phase = "created"
  /\ \/ /\ Written(<<RunCreated>>)
        /\ phase' = "running"
     \/ \E fault \in StorageFaults :
          /\ FailsAt(<<RunCreated>>, 1, fault)
          /\ phase' = "raised"
  /\ UNCHANGED << task, raised, cancelled, engineAbort, groupAborted,
                  ownerCancelled, ledger, decided, documents >>

-----------------------------------------------------------------------------
(* RunExecutor._run_node: from the barrier to the dispatch. *)

(* Fault: the node's event is not set when its coroutine raises. *)
EndedByOutcome(n) == task[n] \in {"completed", "failed"} /\ n \notin raised

Ended(n) == task[n] \in {"completed", "failed"}

PastBarrier(n) ==
  /\ phase = "running"
  /\ task[n] = "waiting"
  /\ n \notin cancelled
  /\ \A d \in DependsOn[n] : Ended(d)

(* Fault: a dependency without an outcome yet is taken for a failed one. *)
FailDependencyEarly(n) ==
  /\ phase = "running"
  /\ task[n] = "waiting"
  /\ n \notin cancelled
  /\ \E d \in DependsOn[n] : task[d] # "completed"
  /\ Segment(n, <<NodeFailed(n, "dependency_failed")>>, "failed")
  /\ UNCHANGED << ControlVars, ledger, decided >>

FailDependency(n) ==
  /\ PastBarrier(n)
  /\ \E d \in DependsOn[n] : task[d] = "failed"
  /\ Segment(n, <<NodeFailed(n, "dependency_failed")>>, "failed")
  /\ UNCHANGED << ControlVars, ledger, decided >>

Prologue(n) == << NodeStarted(n), ArtifactWritten("request", n) >>

DependenciesCompleted(n) == \A d \in DependsOn[n] : task[d] = "completed"

(* Fault: the outcomes of the dependencies are not looked at. *)
DispatchRegardless(n) ==
  /\ PastBarrier(n)
  /\ Admits(ledger, ReservationFor(Ceiling[n]))
  /\ Segment(n, Prologue(n) \o <<ModelDispatched(n)>>, "inflight")
  /\ ledger' = IF task'[n] = "inflight"
               THEN Reserve(ledger, ReservationFor(Ceiling[n])) ELSE ledger
  /\ UNCHANGED << ControlVars, decided >>

(* The reservation is dropped again if model.dispatched cannot be written. *)
Dispatch(n) ==
  /\ PastBarrier(n)
  /\ DependenciesCompleted(n)
  /\ Admits(ledger, ReservationFor(Ceiling[n]))
  /\ Segment(n, Prologue(n) \o <<ModelDispatched(n)>>, "inflight")
  /\ ledger' = IF task'[n] = "inflight"
               THEN Reserve(ledger, ReservationFor(Ceiling[n])) ELSE ledger
  /\ UNCHANGED << ControlVars, decided >>

RejectDispatch(n) ==
  /\ PastBarrier(n)
  /\ DependenciesCompleted(n)
  /\ ~Admits(ledger, ReservationFor(Ceiling[n]))
  /\ Segment(n, Prologue(n) \o
                <<BudgetRejected(n), NodeFailed(n, "budget_rejected")>>, "failed")
  /\ UNCHANGED << ControlVars, ledger, decided >>

-----------------------------------------------------------------------------
(* OneShotModelWorker.execute: the answers of the backend. *)

Inflight(n) == phase = "running" /\ task[n] = "inflight" /\ n \notin cancelled

Settled(n, usage) ==
  Commit(ledger, ReservationFor(Ceiling[n]), usage, DispatchCost(usage))

(* Fault: the reservation is dropped and the usage forgotten. *)
CommitNothing(n, usage) == ledger' = Release(ledger, ReservationFor(Ceiling[n]))

CommitUsage(n, usage) == ledger' = Settled(n, usage)

(* Fault: the breach is looked for before the commit. *)
BreachedBefore(n, usage) == Breached(ledger)

BreachedBy(n, usage) == Breached(Settled(n, usage))

(* Fault: a failed dispatch keeps its reservation. *)
ReleaseNothing(n) == UNCHANGED ledger

ReleaseReservation(n) == ledger' = Release(ledger, ReservationFor(Ceiling[n]))

(* A live backend attaches a receipt to every result and dispatch error. *)
Receipt(n) == IF LiveBackend THEN <<ArtifactWritten("receipt", n)>> ELSE << >>

Billing(n, usage) ==
  << ArtifactWritten("output", n), ModelCompleted(n, usage) >> \o Receipt(n)

(* How _execute_node closes the node once the worker has returned: only    *)
(* the judge's text is parsed, and its decision is journaled after the     *)
(* node has been completed.                                                *)
Closing(n, verdict) ==
  IF Role[n] # "judge" THEN <<NodeCompleted(n)>>
  ELSE CASE verdict = "valid" -> <<NodeCompleted(n), DecisionRecorded(n)>>
         [] verdict = "invalid" -> <<NodeFailed(n, "invalid_decision")>>
         [] verdict = "unencodable" ->
              <<NodeCompleted(n), NodeFailed(n, "unexpected_error")>>

(* A result within the route's output limit.  A breach of a hard cap is    *)
(* raised only after the usage has been journaled.                         *)
Complete(n, usage, verdict) ==
  LET closing == IF BreachedBy(n, usage) THEN <<NodeFailed(n, "budget_exceeded")>>
                 ELSE Closing(n, verdict)
      next == IF closing[Len(closing)].type = "node.failed" THEN "failed"
              ELSE "completed"
      recorded == Len(journal') - Len(journal)
  IN  /\ Inflight(n)
      /\ usage.output <= Ceiling[n].output
      /\ CommitUsage(n, usage)
      /\ Segment(n, Billing(n, usage) \o closing, next)
      /\ decided' = (decided \/ (/\ Role[n] = "judge"
                                 /\ closing[1].type = "node.completed"
                                 /\ recorded > Len(Billing(n, usage))))
      /\ UNCHANGED ControlVars

(* A response whose text has no UTF-8 encoding raises after the commit     *)
(* and before anything about the call is journaled.                        *)
CompleteUnencodable(n, usage) ==
  /\ Inflight(n)
  /\ usage.output <= Ceiling[n].output \/ LiveBackend
  /\ CommitUsage(n, usage)
  /\ Segment(n, <<NodeFailed(n, "unexpected_error")>>, "failed")
  /\ UNCHANGED << ControlVars, decided >>

(* More output than the request permitted: a live call is billed and its   *)
(* evidence kept, a fake one costs nothing.                                *)
OverLimit(n, usage, text) ==
  /\ Inflight(n)
  /\ text = "plain" \/ ~LiveBackend
  /\ usage.output > Ceiling[n].output
  /\ IF LiveBackend
     THEN /\ CommitUsage(n, usage)
          /\ Segment(n, << ArtifactWritten("output", n), ArtifactWritten("receipt", n),
                           ModelFailed(n, "protocol", usage, "provider"),
                           NodeFailed(n, "backend_error") >>, "failed")
     ELSE /\ ReleaseReservation(n)
          /\ Segment(n, <<NodeFailed(n, "backend_error")>>, "failed")
  /\ UNCHANGED << ControlVars, decided >>

(* A failure that bills nothing releases the reservation, and the node     *)
(* fails with the text of the exception.                                   *)
FailFree(n, reason, receipt, text) ==
  /\ Inflight(n)
  /\ ReleaseReservation(n)
  /\ IF text = "plain"
     THEN Segment(n, receipt \o <<NodeFailed(n, reason)>>, "failed")
     ELSE SegmentEscapes(n, receipt)
  /\ UNCHANGED << ControlVars, decided >>

(* The components a provider reported stand, an unknown one is billed at   *)
(* its part of the reservation.                                            *)
BilledUsage(n, known) ==
  [ input  |-> IF known.input = None THEN Ceiling[n].input ELSE known.input,
    output |-> IF known.output = None THEN Ceiling[n].output ELSE known.output ]

UsageSource(known) ==
  CASE known.input # None /\ known.output # None -> "provider"
    [] known.input = None /\ known.output = None -> "ceiling"
    [] OTHER -> "mixed"

PartialUsages ==
  {[input |-> i, output |-> o] : i \in {None} \cup {u.input : u \in Reported},
                                 o \in {None} \cup {u.output : u \in Reported}}

FailBilled(n, known, text) ==
  LET usage == BilledUsage(n, known)
      close == IF text = "plain"
               THEN << ModelFailed(n, "timeout", usage, UsageSource(known)),
                       NodeFailed(n, "backend_error") >>
               ELSE << NodeFailed(n, "unexpected_error") >>
  IN  /\ Inflight(n)
      /\ CommitUsage(n, usage)
      /\ Segment(n, <<ArtifactWritten("receipt", n)>> \o close, "failed")
      /\ UNCHANGED << ControlVars, decided >>

BackendFails(n) ==
  \E text \in Texts :
    \/ /\ "unbilled" \in BackendFaults
       /\ FailFree(n, "backend_error", Receipt(n), text)
    \/ /\ "exception" \in BackendFaults
       /\ FailFree(n, "unexpected_error", << >>, text)
    \/ /\ "billed" \in BackendFaults
       /\ \E known \in PartialUsages : FailBilled(n, known, text)

BackendAnswers(n) ==
  \E usage \in Reported, text \in Texts :
    \/ /\ text = "plain"
       /\ \E verdict \in Verdicts : Complete(n, usage, verdict)
    \/ text = "unencodable" /\ CompleteUnencodable(n, usage)
    \/ OverLimit(n, usage, text)

-----------------------------------------------------------------------------
(* Cancellation. *)

AllEnded == \A n \in Nodes : Ended(n)

Unfinished == {n \in Nodes : ~Ended(n)}

(* Every coroutine takes its first step in the loop iteration after the    *)
(* one that created it, before a cancellation can reach the group.         *)
AllStarted == \A n \in Nodes : DependsOn[n] = {} => task[n] # "waiting"

(* The TaskGroup's done callback of a coroutine that raised. *)
AbortGroup ==
  /\ phase = "running"
  /\ AllStarted
  /\ raised # {}
  /\ ~groupAborted /\ ~ownerCancelled
  /\ groupAborted' = TRUE
  /\ cancelled' = cancelled \cup Unfinished
  /\ UNCHANGED << phase, task, raised, engineAbort, ownerCancelled, ledger,
                  journal, file, decided, documents >>

(* The owner, or the loop, cancels the run from outside. *)
OwnerCancel ==
  /\ "owner" \in Cancellations
  /\ phase = "running"
  /\ AllStarted
  /\ ~AllEnded
  /\ ~ownerCancelled
  /\ ownerCancelled' = TRUE
  /\ cancelled' = IF groupAborted THEN cancelled ELSE cancelled \cup Unfinished
  /\ UNCHANGED << phase, task, raised, engineAbort, groupAborted, ledger,
                  journal, file, decided, documents >>

(* Fault: a reason outside the journal's vocabulary. *)
NodeCancelledInternally(n) ==
  IF engineAbort THEN << >> ELSE <<NodeFailed(n, "internal_error")>>

NodeCancelled(n) ==
  IF engineAbort THEN << >> ELSE <<NodeFailed(n, "cancelled")>>

CancelWaiting(n) ==
  /\ phase = "running"
  /\ n \in cancelled
  /\ task[n] = "waiting"
  /\ Segment(n, NodeCancelled(n), "failed")
  /\ cancelled' = cancelled \ {n}
  /\ UNCHANGED << phase, groupAborted, ownerCancelled, ledger, decided, documents >>

(* Fault: the cancelled dispatch is committed but left open. *)
CancelInflightOpen(n) ==
  /\ phase = "running"
  /\ task[n] = "inflight"
  /\ n \in cancelled \/ "leaked" \in Cancellations
  /\ CommitUsage(n, Ceiling[n])
  /\ Segment(n, NodeCancelled(n), "failed")
  /\ cancelled' = cancelled \ {n}
  /\ UNCHANGED << phase, groupAborted, ownerCancelled, decided, documents >>

(* The request may have been sent: commit it at the reservation ceiling    *)
(* and close the dispatch before the node fails.                           *)
CancelInflight(n) ==
  /\ phase = "running"
  /\ task[n] = "inflight"
  /\ n \in cancelled \/ "leaked" \in Cancellations
  /\ CommitUsage(n, Ceiling[n])
  /\ Segment(n, <<ModelFailed(n, "cancelled", Ceiling[n], "ceiling")>>
                \o NodeCancelled(n), "failed")
  /\ cancelled' = cancelled \ {n}
  /\ UNCHANGED << phase, groupAborted, ownerCancelled, decided, documents >>

-----------------------------------------------------------------------------
(* RunExecutor.execute: closing. *)

(* The TaskGroup re-raises a node's exception or the outside cancellation: *)
(* the journal is closed without a terminal event.                         *)
Unwind ==
  /\ phase = "running"
  /\ AllEnded
  /\ raised # {} \/ ownerCancelled
  /\ phase' = "raised"
  /\ UNCHANGED << task, raised, cancelled, engineAbort, groupAborted,
                  ownerCancelled, ledger, journal, file, decided, documents >>

(* Fault: the exceptions of the group are dropped. *)
FinishRegardless ==
  /\ phase = "running"
  /\ AllEnded
  /\ Written(<<RunFinished>>)
  /\ phase' = "finished"
  /\ UNCHANGED << task, raised, cancelled, engineAbort, groupAborted,
                  ownerCancelled, ledger, decided, documents >>

Finish ==
  /\ phase = "running"
  /\ AllEnded
  /\ raised = {} /\ ~ownerCancelled
  /\ \/ /\ Written(<<RunFinished>>)
        /\ phase' = "finished"
     \/ \E fault \in StorageFaults :
          /\ FailsAt(<<RunFinished>>, 1, fault)
          /\ phase' = "raised"
  /\ UNCHANGED << task, raised, cancelled, engineAbort, groupAborted,
                  ownerCancelled, ledger, decided, documents >>

(* Fault: the decision is published before the report. *)
WriteDecisionFirst ==
  /\ phase = "finished"
  /\ documents' = IF decided THEN {"decision"} ELSE {"report"}
  /\ phase' = IF decided THEN "reported" ELSE "returned"
  /\ UNCHANGED << task, raised, cancelled, engineAbort, groupAborted,
                  ownerCancelled, ledger, journal, file, decided >>

(* The report is derived by the same fold that replays a journal; a fold   *)
(* that rejects the executor's own journal raises out of the run.          *)
WriteReport ==
  /\ phase = "finished"
  /\ \/ /\ Replay!Replays(Replay!Frames(0, journal))
        /\ documents' = documents \cup {"report"}
        /\ phase' = IF decided THEN "reported" ELSE "returned"
     \/ /\ StorageFaults # {} \/ ~Replay!Replays(Replay!Frames(0, journal))
        /\ phase' = "raised"
        /\ UNCHANGED documents
  /\ UNCHANGED << task, raised, cancelled, engineAbort, groupAborted,
                  ownerCancelled, ledger, journal, file, decided >>

WriteDecision ==
  /\ phase = "reported"
  /\ \/ /\ documents' = documents \cup {"decision"}
        /\ phase' = "returned"
     \/ /\ StorageFaults # {}
        /\ phase' = "raised"
        /\ UNCHANGED documents
  /\ UNCHANGED << task, raised, cancelled, engineAbort, groupAborted,
                  ownerCancelled, ledger, journal, file, decided >>

-----------------------------------------------------------------------------
NodeStep(n) ==
  \/ FailDependency(n)
  \/ Dispatch(n)
  \/ RejectDispatch(n)
  \/ BackendAnswers(n)
  \/ BackendFails(n)
  \/ CancelWaiting(n)
  \/ CancelInflight(n)

Next ==
  \/ Open
  \/ \E n \in Nodes : NodeStep(n)
  \/ AbortGroup
  \/ OwnerCancel
  \/ Unwind
  \/ Finish
  \/ WriteReport
  \/ WriteDecision

Spec == Init /\ [][Next]_vars

(* The event loop keeps running ready coroutines and callbacks, and every  *)
(* backend call ends: adapters bound it by a watchdog timer.  Nothing      *)
(* obliges the owner to cancel.                                            *)
Fairness ==
  /\ WF_vars(Open) /\ WF_vars(AbortGroup) /\ WF_vars(Unwind)
  /\ WF_vars(Finish) /\ WF_vars(WriteReport) /\ WF_vars(WriteDecision)
  /\ \A n \in Nodes : WF_vars(NodeStep(n))

FairSpec == Spec /\ Fairness
=============================================================================
