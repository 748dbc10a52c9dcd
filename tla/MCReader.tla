------------------------------- MODULE MCReader -------------------------------
(***************************************************************************)
(* The alphabet of the journals that TLC writes: one declared node that    *)
(* may be the judge, a stray second one, two dispatch ids, two artifacts.  *)
(***************************************************************************)
EXTENDS JournalReader

Declared == "declared"
Stray    == "stray"

Reserved == [tokens |-> 2, cost |-> 1]
Spent    == [input |-> 1, output |-> 1, cost |-> 1]
Nothing  == [input |-> 0, output |-> 0, cost |-> 0]

SmallAlphabet ==
  [type : {"run.created"}]
    \cup [type : {"node.started"}, node : {Declared}, role : {"judge", "proposer"}]
    \cup [type : {"node.started"}, node : {Stray}, role : {"judge"}]
    \cup [type : {"artifact.written"}, node : {Declared}, artifact : {"a", "b"}]
    \cup [type : {"model.dispatched"}, node : {Declared}, op : {"o", "p"},
          request : {"a"}, reserved : {Reserved}]
    \cup [type : {"model.completed"}, node : {Declared}, op : {"o", "p"},
          output : {"a", "b"}, usage : {Spent, Nothing}]
    \cup [type : {"model.failed"}, node : {Declared}, op : {"o"},
          reason : {"timeout", "cancelled"}, usage : {Spent, Nothing},
          source : {"provider", "ceiling"}]
    \cup [type : {"node.completed"}, node : {Declared}, output : {"a", "b"}]
    \cup [type : {"node.failed"}, node : {Declared}, reason : {"cancelled", "backend_error"}]
    \cup [type : {"budget.rejected"}, node : {Declared}]
    \cup [type : {"decision.recorded"}, source : {"a", "b"}]
=============================================================================
