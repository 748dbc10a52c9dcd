--------------------------- MODULE AgentProcessProofs ---------------------------
(***************************************************************************)
(* Theorems about the process of an external agent, for any process ids    *)
(* and any number of agents and mishaps.                                   *)
(***************************************************************************)
EXTENDS AgentProcess, FiniteSetTheorems, TLAPS

(* The system shows of an agent what is recorded of it, or nothing of any  *)
(* process: what a terminator is told of is not taken for a stranger.      *)
Recognized == "interpreter" \notin Systems

(* Where the runner has a child that it has not reaped. *)
Unrecorded == {"spawned", "abandoning", "last_grace"}
Recorded   == {"pumping", "waiting", "overdue", "grace"}
Parent     == Unrecorded \cup Recorded

Childless == {"clear", "go", "unlinking", "ended"}
Between   == {"down", "resuming"}

Commands == {"none", "agent", "zombie"} \cup Others

Types ==
  /\ proc \in [Pids -> Commands]
  /\ helper \in [Pids -> {"none", "loud", "quiet"}]
  /\ runner \in [pc : Parent \cup Childless \cup Between, pid : Pids \cup {None}]
  /\ record \in Pids \cup {None}
  /\ stopping \in [Terminators -> [step : {"idle", "read", "done", "failed"} \cup Holding,
                                   pid : Pids \cup {None}]]
  /\ cancelled \in BOOLEAN
  /\ lost \subseteq Pids
  /\ procfs \in Systems

(* The child of the runner is alive or waits to be reaped, and no agent is *)
(* left where the runner has none.                                         *)
ChildKept ==
  /\ runner.pc \in Parent => runner.pid \in Pids /\ proc[runner.pid] \in {"agent", "zombie"}
  /\ \A p \in Writers \ lost :
       \/ runner.pc \in Parent /\ p = runner.pid
       \/ runner.pc \in Between /\ p = record

(* The record names the child and nobody else, and stands as long as the   *)
(* child may write.                                                        *)
RecordTrue ==
  /\ runner.pc \in {"clear", "go", "ended"} \cup Unrecorded => record = None
  /\ runner.pc \in Recorded \cup {"unlinking"} => record \in {None, runner.pid}
  /\ runner.pc \in Recorded /\ proc[runner.pid] = "agent" => record = runner.pid

(* A terminator at work has read the record that still stands, if one      *)
(* does, and the runner will not write another before it is through.       *)
TerminatorsUpToDate ==
  /\ stopping["owner"].step \in {"read"} \cup Holding => cancelled = TRUE
  /\ stopping["resume"].step # "idle" <=> runner.pc = "resuming"
  /\ stopping["resume"].step = "done" => record = None
  /\ \A t \in Terminators : stopping[t].step \in Holding =>
       /\ stopping[t].pid \in Pids
       /\ record \in {None, stopping[t].pid}
       /\ runner.pc \notin {"go"} \cup Unrecorded
       /\ stopping[t].step \in {"last_polling", "drop"} => proc[stopping[t].pid] # "agent"

IInv == Types /\ ChildKept /\ RecordTrue /\ TerminatorsUpToDate

-----------------------------------------------------------------------------

(* A signal changes nothing but a living agent into a zombie, and helpers. *)
LEMMA SignalEffect ==
  ASSUME Types, NEW p \in Pids, NEW sig, kill_process_group(p, sig)
  PROVE  /\ proc' \in [Pids -> Commands]
         /\ helper' \in [Pids -> {"none", "loud", "quiet"}]
         /\ \A q \in Pids :
              \/ proc'[q] = proc[q]
              \/ q = p /\ proc[q] = "agent" /\ proc'[q] = "zombie"
         /\ sig = "kill" => proc'[p] # "agent"
<1>1. PICK ends \in SUBSET {"leader", "helper"} :
        /\ sig = "kill" => ends = {"leader", "helper"}
        /\ IF Alive(p)
           THEN /\ proc' = IF "leader" \in ends /\ proc[p] = "agent"
                           THEN [proc EXCEPT ![p] = "zombie"] ELSE proc
                /\ helper' = IF "helper" \in ends THEN [helper EXCEPT ![p] = "none"] ELSE helper
           ELSE UNCHANGED << proc, helper >>
  BY DEF kill_process_group
<1> QED BY <1>1 DEF Types, Commands, Others, Alive

(* A step of the runner keeps the invariant. *)
LEMMA RunningKeeps ==
  ASSUME IInv, Running
  PROVE  IInv'
<1> USE AgentAssumption DEF IInv, Types, ChildKept, RecordTrue, TerminatorsUpToDate,
        Unrecorded, Recorded, Parent, Childless, Between, Holding, Commands, Others, Terminators,
        Writers, None, Goto, Counters
<1>1. CASE Check
  BY <1>1 DEF Check
<1>2. CASE Spawn
  <2>1. PICK p \in Pids :
          /\ proc[p] = "none" /\ proc' = [proc EXCEPT ![p] = "agent"]
          /\ \E h \in {"none", "loud", "quiet"} : helper' = [helper EXCEPT ![p] = h]
          /\ runner' = [pc |-> "spawned", pid |-> p]
    BY <1>2 DEF Spawn
  <2>2. /\ runner.pc = "go" /\ lost' = lost \ {p}
        /\ UNCHANGED << record, stopping, cancelled, procfs >>
    BY <1>2, <2>1 DEF Spawn
  <2>3. Types'
    <3>1. helper' \in [Pids -> {"none", "loud", "quiet"}]
      BY <2>1
    <3>2. proc' \in [Pids -> Commands]
      BY <2>1
    <3>3. runner' \in [pc : Parent \cup Childless \cup Between, pid : Pids \cup {None}]
      BY <2>1
    <3> QED BY <2>2, <3>1, <3>2, <3>3
  <2>4. ChildKept'
    BY <2>1, <2>2
  <2>5. RecordTrue' /\ TerminatorsUpToDate'
    BY <2>1, <2>2
  <2> QED BY <2>2, <2>3, <2>4, <2>5
<1>3. CASE WriteRecord
  BY <1>3 DEF WriteRecord
<1>4. CASE EndOfOutput \/ Deadline
  <2>1. /\ runner.pc \in {"pumping", "waiting"}
        /\ runner'.pc \in {"waiting", "overdue"} /\ runner'.pid = runner.pid
        /\ UNCHANGED << proc, helper, record, stopping, cancelled, lost, procfs >>
    BY <1>4 DEF EndOfOutput, Deadline
  <2>2. Types'
    BY <1>4 DEF EndOfOutput, Deadline
  <2>3. ChildKept' /\ RecordTrue'
    BY <2>1
  <2>4. TerminatorsUpToDate'
    BY <2>1
  <2> QED BY <2>1, <2>2, <2>3, <2>4
<1>5. CASE Collect
  BY <1>5 DEF Collect, Reap
<1>6. CASE Term
  <2>1. runner.pid \in Pids
    BY <1>6 DEF Term
  <2> QED BY <1>6, <2>1, SignalEffect DEF Term
<1>7. CASE GraceOver
  <2>1. runner.pid \in Pids
    BY <1>7 DEF GraceOver
  <2>2. UNCHANGED << runner, record, stopping, cancelled, lost, procfs >>
    BY <1>7 DEF GraceOver
  <2>3. /\ proc' \in [Pids -> Commands]
        /\ helper' \in [Pids -> {"none", "loud", "quiet"}]
        /\ \A q \in Pids :
             \/ proc'[q] = proc[q]
             \/ q = runner.pid /\ proc[q] = "agent" /\ proc'[q] = "zombie"
    BY <1>7, <2>1, SignalEffect DEF GraceOver
  <2>4. runner.pc \in {"grace", "last_grace"}
    BY <1>7 DEF GraceOver
  <2>5. Types'
    BY <2>2, <2>3
  <2>6. ChildKept' /\ RecordTrue'
    BY <2>1, <2>2, <2>3, <2>4
  <2>7. TerminatorsUpToDate'
    BY <2>2, <2>3
  <2> QED BY <2>2, <2>5, <2>6, <2>7
<1>8. CASE Reaped
  BY <1>8 DEF Reaped, Reap
<1>9. CASE Unlink
  BY <1>9 DEF Unlink
<1>10. CASE Resumed
  <2>1. /\ runner.pc = "resuming" /\ runner'.pid = runner.pid
        /\ \/ stopping["resume"].step = "done" /\ runner'.pc = "clear"
           \/ stopping["resume"].step = "failed" /\ runner'.pc = "down"
        /\ stopping' = [stopping EXCEPT !["resume"] = [step |-> "idle", pid |-> None]]
        /\ UNCHANGED << proc, helper, record, cancelled, lost, procfs >>
    BY <1>10 DEF Resumed, Stop
  <2>2. Types'
    BY <1>10, <2>1 DEF Resumed
  <2>3. ChildKept' /\ RecordTrue'
    BY <2>1
  <2>4. TerminatorsUpToDate'
    BY <2>1
  <2> QED BY <2>1, <2>2, <2>3, <2>4
<1> QED BY <1>1, <1>2, <1>3, <1>4, <1>5, <1>6, <1>7, <1>8, <1>9, <1>10 DEF Running

(* A step of a terminator keeps it. *)
LEMMA TerminatingKeeps ==
  ASSUME Recognized, IInv, NEW t \in Terminators, Terminating(t)
  PROVE  IInv'
<1> USE AgentAssumption DEF IInv, ChildKept, RecordTrue, TerminatorsUpToDate,
        Unrecorded, Recorded, Parent, Childless, Between, Holding, Commands, Others, Terminators,
        Writers, None, Alive, Counters
<1>1. CASE ReadRecord(t)
  <2>1. /\ stopping[t].step = "read"
        /\ stopping' = [stopping EXCEPT ![t] =
             [step |-> IF record = None THEN "done" ELSE "check", pid |-> record]]
        /\ UNCHANGED << proc, helper, runner, record, cancelled, lost, procfs >>
    BY <1>1 DEF ReadRecord, Stop
  <2>2. /\ stopping'[t].pid = record
        /\ stopping'[t].step = IF record = None THEN "done" ELSE "check"
        /\ \A u \in Terminators \ {t} : stopping'[u] = stopping[u]
    BY <2>1 DEF Types
  <2>5. Types'
    BY <2>1 DEF Types
  <2>3. ChildKept' /\ RecordTrue'
    BY <2>1 DEF Types
  <2>4. TerminatorsUpToDate'
    BY <2>1, <2>2 DEF Types
  <2> QED BY <2>1, <2>3, <2>4, <2>5
<1>2. CASE Look(t)
  <2> DEFINE p == stopping[t].pid
             step == IF Alive(p) /\ pid_matches_record(p) THEN "matched" ELSE "drop"
  <2>1. /\ stopping[t].step = "check" /\ p \in Pids
        /\ stopping' = [stopping EXCEPT ![t] = [step |-> step, pid |-> p]]
        /\ UNCHANGED << proc, helper, runner, record, cancelled, lost, procfs >>
    BY <1>2 DEF Look, Stop
  <2>2. step \in {"matched", "drop"} /\ (step = "drop" => proc[p] # "agent")
    BY DEF pid_matches_record, Recognized, Types
  <2> HIDE DEF step
  <2>3. Types' /\ stopping'[t].step = step /\ stopping'[t].pid = p
        /\ \A u \in Terminators \ {t} : stopping'[u] = stopping[u]
    BY <2>1, <2>2 DEF Types
  <2>4. ChildKept' /\ RecordTrue'
    BY <2>1 DEF Types
  <2>5. TerminatorsUpToDate'
    BY <2>1, <2>2, <2>3 DEF Types
  <2> QED BY <2>3, <2>4, <2>5
<1>3. CASE Signal(t)
  <2> DEFINE p == stopping[t].pid
  <2>1. p \in Pids /\ stopping[t].step \in Holding
    BY <1>3 DEF Signal
  <2>2. /\ \/ /\ stopping[t].step = "matched" /\ kill_process_group(p, "term")
              /\ stopping' = [stopping EXCEPT ![t] = [step |-> "polling", pid |-> p]]
           \/ /\ stopping[t].step = "polling" /\ kill_process_group(p, "kill")
              /\ stopping' = [stopping EXCEPT ![t] = [step |-> "last_polling", pid |-> p]]
        /\ UNCHANGED << runner, record, cancelled, lost, procfs >>
    BY <1>3 DEF Stop, Signal
  <2>3. /\ proc' \in [Pids -> Commands]
        /\ helper' \in [Pids -> {"none", "loud", "quiet"}]
        /\ \A q \in Pids :
             \/ proc'[q] = proc[q]
             \/ q = p /\ proc[q] = "agent" /\ proc'[q] = "zombie"
        /\ stopping[t].step = "polling" => proc'[p] # "agent"
    BY <2>1, <2>2, SignalEffect
  <2> DEFINE step == IF stopping[t].step = "polling" THEN "last_polling" ELSE "polling"
  <2>7. stopping' = [stopping EXCEPT ![t] = [step |-> step, pid |-> p]] /\ step \in Holding
    BY <2>2
  <2>4. Types' /\ stopping'[t].pid = p /\ stopping'[t].step = step
        /\ \A u \in Terminators \ {t} : stopping'[u] = stopping[u]
    BY <2>1, <2>2, <2>3, <2>7 DEF Types
  <2>5. ChildKept' /\ RecordTrue'
    BY <2>2, <2>3 DEF Types
  <2>6. TerminatorsUpToDate'
    <3>1. \A u \in Terminators : stopping'[u].step \in Holding =>
            stopping[u].step \in Holding /\ stopping'[u].pid = stopping[u].pid
      BY <2>1, <2>4
    <3>2. stopping[t].step \notin {"idle", "done"} /\ stopping'[t].step \notin {"idle", "done"}
      BY <2>2, <2>4
    <3>3. ASSUME NEW u \in Terminators, stopping'[u].step \in {"last_polling", "drop"}
          PROVE  proc'[stopping'[u].pid] # "agent"
      <4>1. CASE u = t
        BY <2>2, <2>3, <2>4, <3>3, <4>1
      <4>2. CASE u # t
        BY <2>1, <2>3, <2>4, <3>3, <4>2
      <4> QED BY <4>1, <4>2
    <3>4. /\ stopping'["owner"].step \in {"read"} \cup Holding => cancelled' = TRUE
          /\ stopping'["resume"].step # "idle" <=> runner'.pc = "resuming"
          /\ stopping'["resume"].step = "done" => record' = None
      BY <2>1, <2>2, <2>4, <3>2
    <3> QED BY <2>2, <3>1, <3>3, <3>4
  <2> QED BY <2>4, <2>5, <2>6
<1>4. CASE Stopped(t)
  <2>1. /\ stopping[t].step \in {"polling", "last_polling"} /\ proc[stopping[t].pid] = "none"
        /\ stopping' = [stopping EXCEPT ![t] = [step |-> "drop", pid |-> stopping[t].pid]]
        /\ UNCHANGED << proc, helper, runner, record, cancelled, lost, procfs >>
    BY <1>4 DEF Stopped, Stop
  <2>2. Types' /\ stopping'[t].step = "drop" /\ stopping'[t].pid = stopping[t].pid
        /\ \A u \in Terminators \ {t} : stopping'[u] = stopping[u]
    BY <2>1 DEF Types
  <2>3. ChildKept' /\ RecordTrue'
    BY <2>1 DEF Types
  <2>4. TerminatorsUpToDate'
    BY <2>1, <2>2 DEF Types
  <2> QED BY <2>2, <2>3, <2>4
<1>6. CASE DropRecord(t)
  <2>1. /\ stopping[t].step = "drop" /\ proc[stopping[t].pid] # "agent"
        /\ record' = None
        /\ stopping' = [stopping EXCEPT ![t] = [step |-> "done", pid |-> None]]
        /\ UNCHANGED << proc, helper, runner, cancelled, lost, procfs >>
    BY <1>6 DEF Stop, DropRecord
  <2>2. Types' /\ stopping'[t].step = "done"
        /\ \A u \in Terminators \ {t} : stopping'[u] = stopping[u]
    BY <2>1 DEF Types
  <2>3. ChildKept' /\ RecordTrue'
    BY <2>1 DEF Types
  <2>4. TerminatorsUpToDate'
    BY <2>1, <2>2 DEF Types
  <2> QED BY <2>1, <2>2, <2>3, <2>4
<1>5. CASE NotStopped(t)
  <2>1. /\ stopping[t].step = "last_polling"
        /\ stopping' = [stopping EXCEPT ![t] =
             [step |-> IF t = "resume" THEN "failed" ELSE "done", pid |-> None]]
        /\ UNCHANGED << proc, helper, runner, record, cancelled, lost, procfs >>
    BY <1>5 DEF NotStopped, Stop
  <2>2. /\ stopping'[t].step = IF t = "resume" THEN "failed" ELSE "done"
        /\ \A u \in Terminators \ {t} : stopping'[u] = stopping[u]
    BY <2>1 DEF Types
  <2>3. Types'
    <3>1. CASE t = "resume"
      BY <2>1, <3>1 DEF Types
    <3>2. CASE t = "owner"
      BY <2>1, <3>2 DEF Types
    <3> QED BY <3>1, <3>2
  <2>4. ChildKept' /\ RecordTrue'
    BY <2>1 DEF Types
  <2>5. TerminatorsUpToDate'
    <3>1. CASE t = "resume"
      BY <2>1, <2>2, <3>1 DEF Types
    <3>2. CASE t = "owner"
      BY <2>1, <2>2, <3>2 DEF Types
    <3> QED BY <3>1, <3>2
  <2> QED BY <2>1, <2>3, <2>4, <2>5
<1> QED BY <1>1, <1>2, <1>3, <1>4, <1>5, <1>6 DEF Terminating

(* So do the others: the commands, the system and the mishaps. *)
LEMMA OthersKeep ==
  ASSUME IInv, Cancel \/ Resume \/ Processes \/ Death \/ Interrupt \/ UNCHANGED vars
  PROVE  IInv'
<1> USE AgentAssumption DEF IInv, Types, ChildKept, RecordTrue, TerminatorsUpToDate,
        Unrecorded, Recorded, Parent, Childless, Between, Holding, Commands, Others, Terminators,
        Writers, None, Stop, Alive, Counters
<1>1. CASE Cancel
  BY <1>1 DEF Cancel
<1>2. CASE Resume
  BY <1>2 DEF Resume
<1>3. CASE AgentEnds
  <2>1. PICK p \in Pids : proc[p] = "agent" /\ proc' = [proc EXCEPT ![p] = "zombie"]
    BY <1>3 DEF AgentEnds
  <2>2. UNCHANGED << helper, runner, record, stopping, cancelled, lost, procfs >>
    BY <1>3 DEF AgentEnds
  <2>3. Types' /\ \A q \in Pids : proc'[q] = IF q = p THEN "zombie" ELSE proc[q]
    BY <2>1, <2>2
  <2>4. ChildKept' /\ RecordTrue'
    BY <2>1, <2>2, <2>3
  <2>5. TerminatorsUpToDate'
    BY <2>1, <2>2, <2>3
  <2> QED BY <2>2, <2>3, <2>4, <2>5
<1>4. CASE HelperEnds
  BY <1>4 DEF HelperEnds
<1>5. CASE InitReaps
  <2>1. PICK p \in Pids : proc[p] = "zombie" /\ runner.pid # p /\ proc' = [proc EXCEPT ![p] = "none"]
    BY <1>5 DEF InitReaps, Reap, Orphan
  <2>2. UNCHANGED << helper, runner, record, stopping, cancelled, lost, procfs >>
    BY <1>5 DEF InitReaps
  <2>3. Types' /\ \A q \in Pids : proc'[q] = IF q = p THEN "none" ELSE proc[q]
    BY <2>1, <2>2
  <2>4. ChildKept' /\ RecordTrue'
    BY <2>1, <2>2, <2>3
  <2>5. TerminatorsUpToDate'
    BY <2>1, <2>2, <2>3
  <2> QED BY <2>2, <2>3, <2>4, <2>5
<1>6. CASE StrangerComes
  <2>1. PICK p \in Pids, other \in Others :
          proc[p] = "none" /\ proc' = [proc EXCEPT ![p] = other]
    BY <1>6 DEF StrangerComes
  <2>2. UNCHANGED << helper, runner, record, stopping, cancelled, lost, procfs >>
    BY <1>6 DEF StrangerComes
  <2>3. Types' /\ \A q \in Pids : proc'[q] = IF q = p THEN other ELSE proc[q]
    BY <2>1, <2>2
  <2>4. ChildKept' /\ RecordTrue'
    BY <2>1, <2>2, <2>3
  <2>5. TerminatorsUpToDate'
    BY <2>1, <2>2, <2>3
  <2> QED BY <2>2, <2>3, <2>4, <2>5
<1>7. CASE StrangerGoes
  <2>1. PICK p \in Pids : proc[p] \in Others /\ proc' = [proc EXCEPT ![p] = "none"]
    BY <1>7 DEF StrangerGoes
  <2>2. UNCHANGED << helper, runner, record, stopping, cancelled, lost, procfs >>
    BY <1>7 DEF StrangerGoes
  <2>3. Types' /\ \A q \in Pids : proc'[q] = IF q = p THEN "none" ELSE proc[q]
    BY <2>1, <2>2
  <2>4. ChildKept' /\ RecordTrue'
    BY <2>1, <2>2, <2>3
  <2>5. TerminatorsUpToDate'
    BY <2>1, <2>2, <2>3
  <2> QED BY <2>2, <2>3, <2>4, <2>5
<1>8. CASE Death
  BY <1>8 DEF Death, Working
<1>9. CASE Interrupt
  BY <1>9 DEF Interrupt
<1>10. CASE UNCHANGED vars
  BY <1>10 DEF vars
<1> QED BY <1>1, <1>2, <1>3, <1>4, <1>5, <1>6, <1>7, <1>8, <1>9, <1>10 DEF Processes

-----------------------------------------------------------------------------

(* The child of the runner, the record of it in the file and what the      *)
(* terminators have read stay in step, whoever dies and whenever.          *)
THEOREM Invariance ==
  ASSUME Recognized
  PROVE  Spec => []IInv
<1>1. Init => IInv
  <2> SUFFICES ASSUME Init PROVE IInv
    OBVIOUS
  <2> USE DEF Init, Unrecorded, Recorded, Parent, Childless, Between, Holding, Commands, Others,
              Terminators, Writers, None
  <2>1. Types
    BY DEF Types
  <2>2. ChildKept /\ RecordTrue
    BY DEF ChildKept, RecordTrue
  <2>3. TerminatorsUpToDate
    BY DEF TerminatorsUpToDate
  <2> QED BY <2>1, <2>2, <2>3 DEF IInv
<1>2. IInv /\ [Next]_vars => IInv'
  BY RunningKeeps, TerminatingKeeps, OthersKeep DEF Next
<1> QED BY <1>1, <1>2, PTL DEF Spec

(* The agents that no mishap has left behind are at most one, the child of *)
(* the runner or the one the record names (SubprocessAgentRunner.run).     *)
THEOREM OneWriterKept ==
  ASSUME Recognized
  PROVE  Spec => []OneWriter
<1>1. IInv => OneWriter
  <2> SUFFICES ASSUME IInv PROVE OneWriter
    OBVIOUS
  <2> DEFINE x == IF runner.pc \in Parent THEN runner.pid ELSE record
  <2>1. Writers \ lost \subseteq {x}
    BY DEF IInv, ChildKept, Parent, Between, Unrecorded, Recorded
  <2>2. Writers \ lost = {} \/ Writers \ lost = {x}
    BY <2>1
  <2>3. Cardinality({}) = 0 /\ Cardinality({x}) = 1
    BY FS_EmptySet, FS_Singleton
  <2>4. ASSUME NEW p \in Writers \ lost
        PROVE  Watched(p)
    BY <2>4 DEF IInv, ChildKept, Parent, Between, Unrecorded, Recorded, Watched, Working
  <2> QED BY <2>2, <2>3, <2>4 DEF OneWriter
<1> QED BY <1>1, Invariance, PTL

(* An agent that is waited for stands in the record, for whoever wants to  *)
(* stop it (terminate_recorded_process removes the record of no other).    *)
THEOREM CancellableKept ==
  ASSUME Recognized
  PROVE  Spec => []Cancellable
<1>1. IInv => Cancellable
  BY DEF IInv, RecordTrue, Recorded, Cancellable
<1> QED BY <1>1, Invariance, PTL

(* A terminator deals with one agent from its look to its last effect, and *)
(* has left it not running when it is through                              *)
(* (terminate_recorded_process, whether it returns or raises).             *)
THEOREM StopsWhatItReadKept ==
  ASSUME Recognized
  PROVE  Spec => StopsWhatItRead
<1> DEFINE OneAgent == \A t \in Terminators : stopping[t].step \in Holding =>
             /\ agents' = agents
             /\ stopping'[t].step \in {"done", "failed"} => proc[stopping[t].pid] # "agent"
<1>1. IInv /\ [Next]_vars => [OneAgent]_vars
  <2> SUFFICES ASSUME IInv, Next, NEW t \in Terminators, stopping[t].step \in Holding
               PROVE  /\ agents' = agents
                      /\ stopping'[t].step \in {"done", "failed"} => proc[stopping[t].pid] # "agent"
    OBVIOUS
  <2>1. agents' = agents
    <3>1. ~Spawn
      BY DEF Spawn, IInv, TerminatorsUpToDate
    <3> QED
      BY <3>1 DEF Next, Running, Terminating, Processes, Check, WriteRecord, EndOfOutput, Collect,
             Deadline, Term, GraceOver, Reaped, Unlink, Resumed, Cancel, Resume, ReadRecord, Look,
             Signal, Stopped, NotStopped, DropRecord, AgentEnds, HelperEnds, InitReaps,
             StrangerComes, StrangerGoes, Death, Interrupt, Counters
  <2>2. ASSUME stopping'[t].step \in {"done", "failed"}
        PROVE  stopping[t].step \in {"last_polling", "drop"}
    <3>1. CASE \E u \in Terminators : Terminating(u)
      BY <2>2, <3>1 DEF Terminating, ReadRecord, Look, Signal, Stopped, NotStopped, DropRecord,
                        Stop, IInv, Types, Holding
    <3>2. CASE ~\E u \in Terminators : Terminating(u)
      BY <2>2, <3>2 DEF Next, Running, Processes, Check, Spawn, WriteRecord, EndOfOutput, Collect,
                  Deadline, Term, GraceOver, Reaped, Unlink, Resumed, Cancel, Resume, AgentEnds,
                  HelperEnds, InitReaps, StrangerComes, StrangerGoes, Death, Interrupt, Stop,
                  IInv, Types, Holding, Terminators
    <3> QED BY <3>1, <3>2
  <2> QED BY <2>1, <2>2 DEF IInv, TerminatorsUpToDate
<1> QED BY <1>1, Invariance, PTL DEF Spec, StopsWhatItRead
=============================================================================
