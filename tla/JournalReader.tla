---------------------------- MODULE JournalReader ----------------------------
(***************************************************************************)
(* Reading a journal of unknown origin.                                    *)
(*                                                                         *)
(* runs show and runs replay fold whatever events.jsonl holds, written by  *)
(* the executor or not.  Here the file is built frame by frame from an     *)
(* alphabet of events and folded as it grows; the properties say what a    *)
(* reader may conclude from the fact that the fold did not reject it, each *)
(* by looking at the frames alone and not at the state of the fold.        *)
(***************************************************************************)
EXTENDS EventReplay, FiniteSetsExt

CONSTANTS
  Alphabet,   \* the events the file is built from, run.finished apart
  MaxFrames   \* bound on the length of the file

EventTypes ==
  {"run.created", "node.started", "artifact.written", "budget.rejected", "model.dispatched",
   "model.completed", "model.failed", "node.completed", "node.failed", "decision.recorded"}

(* What decoding a line has checked: the usage of a bill is three integers *)
(* and the output of a node is a digest.                                   *)
ASSUME ReaderAssumption ==
  \A e \in Alphabet :
    /\ e.type \in EventTypes
    /\ e.type \in {"model.completed", "model.failed"} =>
         e.usage.input \in Int /\ e.usage.output \in Int /\ e.usage.cost \in Int
    /\ e.type = "node.completed" => e.output # Unset

VARIABLES
  frames,     \* the frames folded so far
  view        \* the state of the fold

readerVars == << frames, view >>

(* run.finished as any writer may have put it: right totals or wrong ones. *)
Finishes ==
  [ type : {"run.finished"}, status : {"completed", "failed", "running"},
    reason : {Unset, "node failure"},
    totals : {view.totals, [view.totals EXCEPT !.calls = @ + 1]} ]

ReaderInit == frames = << >> /\ view = EmptyView

(* A ReplayError ends the fold before the offending frame counts.          *)
Read(frame) ==
  /\ ~view.rejected
  /\ Len(frames) < MaxFrames
  /\ view' = FoldFrame(view, frame)
  /\ frames' = IF view'.rejected THEN frames ELSE Append(frames, frame)

(* A frame out of sequence is rejected whatever it says.                   *)
ReadOutOfSequence ==
  \E gap \in {0, 2} :
    Read([seq |-> view.seq + gap, event |-> [type |-> "run.created"]])

ReadNext ==
  \E event \in Alphabet \cup Finishes : Read([seq |-> view.seq + 1, event |-> event])

ReaderNext == ReadNext \/ ReadOutOfSequence

ReaderSpec == ReaderInit /\ [][ReaderNext]_readerVars

-----------------------------------------------------------------------------
(* Reading the frames without the fold. *)

Event(i) == frames[i].event

Of(type) == {i \in DOMAIN frames : Event(i).type = type}

Closings == Of("model.completed") \cup Of("model.failed")

(* The dispatch that a closing event closes. *)
Opens(i, c) ==
  /\ i \in Of("model.dispatched") /\ i < c
  /\ Event(i).node = Event(c).node /\ Event(i).op = Event(c).op

TerminalOf(n) ==
  {i \in Of("node.completed") \cup Of("node.failed") : Event(i).node = n}

AcceptedCompleted == ~view.rejected /\ view.status = "completed"

-----------------------------------------------------------------------------
(* No spending is counted twice or without a dispatch: every billed event  *)
(* of an accepted journal closes exactly one dispatch, no two close the    *)
(* same one, and the totals of the report are the sum over them.           *)
SpendingIsDispatched ==
  ~view.rejected =>
    /\ \A c \in Closings : \E i \in DOMAIN frames :
         /\ Opens(i, c)
         /\ \A j \in DOMAIN frames : Opens(j, c) => j = i
         /\ \A b \in Closings : Opens(i, b) => b = c
    /\ view.totals =
         [ calls  |-> Cardinality(Closings),
           input  |-> MapThenSumSet(LAMBDA c : Event(c).usage.input, Closings),
           output |-> MapThenSumSet(LAMBDA c : Event(c).usage.output, Closings),
           cost   |-> MapThenSumSet(LAMBDA c : Event(c).usage.cost, Closings) ]

(* A cancelled dispatch was billed at exactly what it had reserved, and a  *)
(* node that failed as cancelled has no dispatch left unbilled.            *)
CancellationIsBilled ==
  ~view.rejected =>
    /\ \A c \in Of("model.failed") : Event(c).reason = "cancelled" =>
         \E i \in DOMAIN frames :
           /\ Opens(i, c)
           /\ Event(c).usage.input + Event(c).usage.output = Event(i).reserved.tokens
           /\ Event(c).usage.cost = Event(i).reserved.cost
    /\ \A f \in Of("node.failed") : Event(f).reason = "cancelled" =>
         \A i \in Of("model.dispatched") :
           Event(i).node = Event(f).node => \E c \in Closings : Opens(i, c) /\ c < f

(* A journal accepted as completed tells of a run that did complete: every *)
(* declared node started and completed once with the output of its last    *)
(* call, none failed, every dispatch was answered, the caps were kept.     *)
CompletedRunCompleted ==
  AcceptedCompleted =>
    /\ Of("node.failed") = {}
    /\ Cardinality(Of("node.completed")) = ExpectedNodes
    /\ Cardinality({Event(i).node : i \in Of("node.started")}) = ExpectedNodes
    /\ \A i \in Of("node.completed") : \E c \in Of("model.completed") :
         /\ c < i /\ Event(c).node = Event(i).node /\ Event(c).output = Event(i).output
         /\ \A b \in Of("model.completed") :
              Event(b).node = Event(i).node => b <= c
    /\ \A i \in Of("model.dispatched") : \E c \in Closings : Opens(i, c)
    /\ view.totals.calls <= CapCalls
    /\ view.totals.input + view.totals.output <= CapTokens
    /\ view.totals.cost <= CapCost

(* Nothing is heard of a node after its terminal event, nor of the run     *)
(* after its own, and a run ends only once every node it heard of has.     *)
TerminalIsFinal ==
  ~view.rejected =>
    /\ \A n \in DOMAIN view.nodes : \A t \in TerminalOf(n) :
         \A i \in DOMAIN frames :
           i > t /\ Event(i).type \notin {"run.finished", "decision.recorded"} =>
             Event(i).node # n
    /\ \A t \in Of("run.finished") :
         /\ t = Len(frames)
         /\ \A s \in Of("node.started") : TerminalOf(Event(s).node) # {}

(* The decision in the report was made once, and by a judge that completed *)
(* with the very output the decision is drawn from.                        *)
DecisionIsJudged ==
  ~view.rejected =>
    /\ Cardinality(Of("decision.recorded")) <= 1
    /\ \A d \in Of("decision.recorded") : \E i \in Of("node.completed") :
         /\ i < d /\ Event(i).output = Event(d).source
         /\ \E s \in Of("node.started") :
              Event(s).node = Event(i).node /\ Event(s).role = "judge"
=============================================================================
