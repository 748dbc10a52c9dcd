------------------------------ MODULE AgentProcess ------------------------------
(***************************************************************************)
(* The operating-system process of an external agent: the runner that      *)
(* starts it, waits for it against a deadline and keeps agent-process.json *)
(* beside the goal, and the two who stop it without being its parent, the  *)
(* owner's cancel and the resume of a run that died.                       *)
(*                                                                         *)
(* An agent leads a process group of its own, with at most one helper in   *)
(* it that may outlive it and may hold its output open.  A process that    *)
(* has ended stays a zombie until its parent, or init, reaps it; then its  *)
(* id may be given to a process that has nothing to do with the goal: a    *)
(* stranger, or a namesake, which shows the command of the agent.          *)
(***************************************************************************)
EXTENDS Integers, FiniteSets

CONSTANTS
  Pids,
  Systems,      \* what /proc may show of an agent: its "command"; the "interpreter"
                \* of a command that is a script; or "none", there is no procfs
  Mishaps,      \* what may happen to the runner: "death", "interrupt"
  MaxAgents,    \* bound on the agents of the run
  MaxMishaps    \* bound on its mishaps

ASSUME AgentAssumption ==
  /\ IsFiniteSet(Pids) /\ 0 \notin Pids
  /\ Systems \subseteq {"command", "interpreter", "none"}
  /\ Mishaps \subseteq {"death", "interrupt"}
  /\ MaxAgents \in Nat /\ MaxMishaps \in Nat

VARIABLES
  proc,       \* the process that has each id
  helper,     \* the rest of its group
  runner,     \* where the runner stands, and its child
  record,     \* the id in agent-process.json
  stopping,   \* the two terminators: where each stands, and the id it read
  cancelled,  \* goal.json says so
  lost,       \* agents left behind that no record has ever named, or does no more
  agents, mishaps,
  procfs      \* what /proc shows of the run's agents

vars == << proc, helper, runner, record, stopping, cancelled, lost, agents, mishaps, procfs >>

None == 0

Terminators == {"owner", "resume"}

Init ==
  /\ proc = [p \in Pids |-> "none"]
  /\ helper = [p \in Pids |-> "none"]
  /\ runner = [pc |-> "clear", pid |-> None]
  /\ record = None
  /\ stopping = [t \in Terminators |-> [step |-> "idle", pid |-> None]]
  /\ cancelled = FALSE
  /\ lost = {}
  /\ agents = 0 /\ mishaps = 0
  /\ procfs \in Systems

Counters == << lost, agents, mishaps, procfs >>

Alive(p) == proc[p] # "none"     \* _pid_alive: a zombie is

Goto(pc) == runner' = [runner EXCEPT !.pc = pc]

-----------------------------------------------------------------------------
(* Signals. *)

(* kill_process_group: a group whose leader has been reaped is not found.  *)
(* TERM may be ignored, by either.                                         *)
kill_process_group(p, sig) ==
  \E ends \in IF sig = "kill" THEN {{"leader", "helper"}} ELSE SUBSET {"leader", "helper"} :
    IF Alive(p)
    THEN /\ proc' = IF "leader" \in ends /\ proc[p] = "agent"
                    THEN [proc EXCEPT ![p] = "zombie"] ELSE proc
         /\ helper' = IF "helper" \in ends THEN [helper EXCEPT ![p] = "none"] ELSE helper
    ELSE UNCHANGED << proc, helper >>

-----------------------------------------------------------------------------
(* The runner: SubprocessAgentRunner.run, between the loop's checks. *)

(* Fault: the loop looks at the goal it has loaded when it began. *)
Check_once ==
  /\ runner.pc = "clear"
  /\ Goto(IF (cancelled /\ agents = 0) \/ agents = MaxAgents THEN "ended" ELSE "go")
  /\ UNCHANGED << proc, helper, record, stopping, cancelled >>
  /\ UNCHANGED Counters

(* The loop's check for the owner's cancel. *)
Check ==
  /\ runner.pc = "clear"
  /\ Goto(IF cancelled \/ agents = MaxAgents THEN "ended" ELSE "go")
  /\ UNCHANGED << proc, helper, record, stopping, cancelled >>
  /\ UNCHANGED Counters

Spawn ==
  /\ runner.pc = "go"
  /\ \E p \in Pids :
       /\ proc[p] = "none" /\ helper[p] = "none"
       /\ proc' = [proc EXCEPT ![p] = "agent"]
       /\ \E h \in {"none", "loud", "quiet"} : helper' = [helper EXCEPT ![p] = h]
       /\ runner' = [pc |-> "spawned", pid |-> p]
  /\ lost' = lost \ {runner'.pid}
  /\ agents' = agents + 1
  /\ UNCHANGED << record, stopping, cancelled, mishaps, procfs >>

(* Fault: the failure to write the record is passed on as it is. *)
WriteRecord_or_raise ==
  /\ runner.pc = "spawned"
  /\ \/ record' = runner.pid /\ Goto("pumping")
     \/ Goto("down") /\ UNCHANGED record
  /\ UNCHANGED << proc, helper, stopping, cancelled >>
  /\ UNCHANGED Counters

(* The record is written, or cannot be and the agent is stopped at once. *)
WriteRecord ==
  /\ runner.pc = "spawned"
  /\ \/ record' = runner.pid /\ Goto("pumping")
     \/ Goto("abandoning") /\ UNCHANGED record
  /\ UNCHANGED << proc, helper, stopping, cancelled >>
  /\ UNCHANGED Counters

(* End of the output: every process that could write to it is gone, or     *)
(* has closed it.                                                          *)
EndOfOutput ==
  /\ runner.pc = "pumping"
  /\ helper[runner.pid] # "loud"
  /\ Goto("waiting")
  /\ UNCHANGED << proc, helper, record, stopping, cancelled >>
  /\ UNCHANGED Counters

Reap(p) == proc' = [proc EXCEPT ![p] = "none"]

(* wait returns an exit code *)
Collect ==
  /\ runner.pc = "waiting"
  /\ proc[runner.pid] = "zombie"
  /\ Reap(runner.pid)
  /\ Goto("unlinking")
  /\ UNCHANGED << helper, record, stopping, cancelled >>
  /\ UNCHANGED Counters

(* The deadline, which may come when the agent has just ended. *)
Deadline ==
  /\ runner.pc \in {"pumping", "waiting"}
  /\ Goto("overdue")
  /\ UNCHANGED << proc, helper, record, stopping, cancelled >>
  /\ UNCHANGED Counters

(* terminate_and_reap: TERM, a grace period, KILL, and the wait for the    *)
(* child; what follows depends on why.                                     *)
Term ==
  /\ runner.pc \in {"overdue", "abandoning"}
  /\ kill_process_group(runner.pid, "term")
  /\ Goto(IF runner.pc = "overdue" THEN "grace" ELSE "last_grace")
  /\ UNCHANGED << record, stopping, cancelled >>
  /\ UNCHANGED Counters

GraceOver ==
  /\ runner.pc \in {"grace", "last_grace"}
  /\ proc[runner.pid] = "agent"
  /\ kill_process_group(runner.pid, "kill")
  /\ UNCHANGED << runner, record, stopping, cancelled >>
  /\ UNCHANGED Counters

Reaped ==
  /\ runner.pc \in {"grace", "last_grace"}
  /\ proc[runner.pid] = "zombie"
  /\ Reap(runner.pid)
  /\ Goto(IF runner.pc = "grace" THEN "unlinking" ELSE "down")
  /\ UNCHANGED << helper, record, stopping, cancelled >>
  /\ UNCHANGED Counters

(* The record goes by its path, whatever is in it; that failing, or the    *)
(* exit code, ends the run or lets the loop go on.                         *)
Unlink ==
  /\ runner.pc = "unlinking"
  /\ \/ record' = None /\ Goto("clear")
     \/ UNCHANGED record /\ Goto("down")
  /\ UNCHANGED << proc, helper, stopping, cancelled >>
  /\ UNCHANGED Counters

-----------------------------------------------------------------------------
(* terminate_recorded_process, from the process of the owner or of a       *)
(* resumed run.                                                            *)

Stop(t, step, p) == stopping' = [stopping EXCEPT ![t] = [step |-> step, pid |-> p]]

(* goal cancel saves the goal first. *)
Cancel ==
  /\ ~cancelled
  /\ cancelled' = TRUE
  /\ Stop("owner", "read", None)
  /\ UNCHANGED << proc, helper, runner, record >>
  /\ UNCHANGED Counters

(* A resumed run looks for what the one before it left running. *)
Resume ==
  /\ runner.pc = "down"
  /\ runner' = [pc |-> "resuming", pid |-> None]
  /\ Stop("resume", "read", None)
  /\ UNCHANGED << proc, helper, record, cancelled >>
  /\ UNCHANGED Counters

(* _pid_matches_record compares the first word of the command line, which  *)
(* a zombie does not have, with the recorded command.                      *)
pid_matches_record(p) ==
  \/ procfs = "none"
  \/ proc[p] = "namesake"
  \/ procfs = "command" /\ proc[p] = "agent"

ReadRecord(t) ==
  /\ stopping[t].step = "read"
  /\ Stop(t, IF record = None THEN "done" ELSE "check", record)
  /\ UNCHANGED << proc, helper, runner, record, cancelled >>
  /\ UNCHANGED Counters

(* The look at the process, which nothing holds still until the signal. *)
Look(t) ==
  LET p == stopping[t].pid
  IN /\ stopping[t].step = "check"
     /\ Stop(t, IF Alive(p) /\ pid_matches_record(p) THEN "matched" ELSE "drop", p)
     /\ UNCHANGED << proc, helper, runner, record, cancelled >>
     /\ UNCHANGED Counters

(* TERM after the look; KILL, two seconds later, without another one.      *)
(* Whoever has the id then is struck: a stranger may end of it.            *)
Signal(t) ==
  LET p == stopping[t].pid
  IN /\ \/ /\ stopping[t].step = "matched"
           /\ kill_process_group(p, "term")
           /\ Stop(t, "polling", p)
        \/ /\ stopping[t].step = "polling"
           /\ kill_process_group(p, "kill")
           /\ Stop(t, "last_polling", p)
     /\ UNCHANGED << runner, record, cancelled >>
     /\ UNCHANGED Counters

(* Fault: the signal is taken for the deed. *)
Stopped_at_once(t) ==
  /\ stopping[t].step \in {"polling", "last_polling"}
  /\ Stop(t, "drop", stopping[t].pid)
  /\ UNCHANGED << proc, helper, runner, record, cancelled >>
  /\ UNCHANGED Counters

(* It is seen to be gone. *)
Stopped(t) ==
  /\ stopping[t].step \in {"polling", "last_polling"}
  /\ ~Alive(stopping[t].pid)
  /\ Stop(t, "drop", stopping[t].pid)
  /\ UNCHANGED << proc, helper, runner, record, cancelled >>
  /\ UNCHANGED Counters

(* Nothing to stop, or no more: the record is removed, by its path. *)
DropRecord(t) ==
  /\ stopping[t].step = "drop"
  /\ record' = None
  /\ Stop(t, "done", None)
  /\ UNCHANGED << proc, helper, runner, cancelled >>
  /\ UNCHANGED Counters

(* It is still there after KILL, if only for its parent to reap: the       *)
(* record stays and the caller is told.                                    *)
NotStopped(t) ==
  /\ stopping[t].step = "last_polling"
  /\ Alive(stopping[t].pid)
  /\ Stop(t, IF t = "resume" THEN "failed" ELSE "done", None)
  /\ UNCHANGED << proc, helper, runner, record, cancelled >>
  /\ UNCHANGED Counters

(* The resumed run goes on, or goes down with the error. *)
Resumed ==
  /\ runner.pc = "resuming" /\ stopping["resume"].step \in {"done", "failed"}
  /\ Goto(IF stopping["resume"].step = "done" THEN "clear" ELSE "down")
  /\ Stop("resume", "idle", None)
  /\ UNCHANGED << proc, helper, record, cancelled >>
  /\ UNCHANGED Counters

-----------------------------------------------------------------------------
(* The processes. *)

AgentEnds ==
  /\ \E p \in Pids : proc[p] = "agent" /\ proc' = [proc EXCEPT ![p] = "zombie"]
  /\ UNCHANGED << helper, runner, record, stopping, cancelled >>
  /\ UNCHANGED Counters

HelperEnds ==
  /\ \E p \in Pids : helper[p] # "none" /\ helper' = [helper EXCEPT ![p] = "none"]
  /\ UNCHANGED << proc, runner, record, stopping, cancelled >>
  /\ UNCHANGED Counters

(* What has lost its parent. *)
Orphan(p) == runner.pid # p

InitReaps ==
  /\ \E p \in Pids : proc[p] = "zombie" /\ Orphan(p) /\ Reap(p)
  /\ UNCHANGED << helper, runner, record, stopping, cancelled >>
  /\ UNCHANGED Counters

(* An id is not given out as long as its group has members.  That somebody *)
(* has read it does not hold it back.                                      *)
InUse(p) == helper[p] # "none"

Others == {"stranger", "namesake"}

StrangerComes ==
  /\ \E p \in Pids, other \in Others :
       proc[p] = "none" /\ ~InUse(p) /\ proc' = [proc EXCEPT ![p] = other]
  /\ UNCHANGED << helper, runner, record, stopping, cancelled >>
  /\ UNCHANGED Counters

StrangerGoes ==
  /\ \E p \in Pids : proc[p] \in Others /\ proc' = [proc EXCEPT ![p] = "none"]
  /\ UNCHANGED << helper, runner, record, stopping, cancelled >>
  /\ UNCHANGED Counters

-----------------------------------------------------------------------------
(* Mishaps of the runner. *)

Working == runner.pc \notin {"down", "ended", "resuming"}

(* Its process is gone: between the start of an agent and its record this  *)
(* leaves an agent that nobody knows of.                                   *)
Death ==
  /\ "death" \in Mishaps /\ mishaps < MaxMishaps
  /\ Working
  /\ lost' = IF runner.pc \in {"spawned", "abandoning", "last_grace"}
             THEN lost \union {runner.pid} ELSE lost
  /\ runner' = [pc |-> "down", pid |-> None]
  /\ mishaps' = mishaps + 1
  /\ UNCHANGED << proc, helper, record, stopping, cancelled, agents, procfs >>

(* An exception in the wait for the agent, as of the owner's Ctrl-C, which *)
(* does not reach the agent's session: the record is removed on the way    *)
(* out.                                                                    *)
Interrupt ==
  /\ "interrupt" \in Mishaps /\ mishaps < MaxMishaps
  /\ runner.pc \in {"pumping", "waiting", "overdue", "grace"}
  /\ record' = None
  /\ lost' = lost \union {runner.pid}
  /\ runner' = [pc |-> "down", pid |-> None]
  /\ mishaps' = mishaps + 1
  /\ UNCHANGED << proc, helper, stopping, cancelled, agents, procfs >>

Running ==
  \/ Check \/ Spawn \/ WriteRecord \/ EndOfOutput \/ Collect \/ Deadline
  \/ Term \/ GraceOver \/ Reaped \/ Unlink \/ Resumed

Terminating(t) ==
  ReadRecord(t) \/ Look(t) \/ Signal(t) \/ Stopped(t) \/ NotStopped(t) \/ DropRecord(t)

Processes ==
  AgentEnds \/ HelperEnds \/ InitReaps \/ StrangerComes \/ StrangerGoes

Next ==
  \/ Running
  \/ Cancel \/ Resume
  \/ \E t \in Terminators : Terminating(t)
  \/ Processes
  \/ Death \/ Interrupt

(* The runner's clock goes on, whatever the agent does. *)
Spec == Init /\ [][Next]_vars /\ WF_vars(Running)

-----------------------------------------------------------------------------
(* Properties. *)

Writers == {p \in Pids : proc[p] = "agent"}

Watched(p) == record = p \/ (Working /\ runner.pid = p)

(* But for the agents that a mishap has left behind, there is one agent at *)
(* a time, and it is the child of the runner that waits for it or is named *)
(* by the record for whoever resumes or cancels.                           *)
OneWriter ==
  /\ Cardinality(Writers \ lost) <= 1
  /\ \A p \in Writers \ lost : Watched(p)

(* The agent that is waited for can be cancelled: nobody who stopped, or   *)
(* missed, an earlier one has removed the record of this one.              *)
Cancellable ==
  runner.pc \in {"pumping", "waiting"} /\ proc[runner.pid] = "agent"
    => record = runner.pid

(* Where a terminator holds an id that it has read. *)
Holding == {"check", "matched", "polling", "last_polling", "drop"}

(* Who stops a process, in goal cancel or in the look for an orphan, deals *)
(* with one agent from its look to its last effect: none is started        *)
(* meanwhile, under the same id or another, which the late KILL or the     *)
(* removal of the record by its path could strike; and when it is through, *)
(* however it ends, that agent is not running.                             *)
StopsWhatItRead ==
  [][\A t \in Terminators : stopping[t].step \in Holding =>
       /\ agents' = agents
       /\ stopping'[t].step \in {"done", "failed"} => proc[stopping[t].pid] # "agent"]_vars

(* A cancel leaves no agent running for longer than the deadline, as long  *)
(* as the runner lives.                                                    *)
CancelTakes == cancelled ~> (Writers \ lost = {} \/ ~Working)
=============================================================================
