-------------------------------- MODULE MCGoal --------------------------------
(***************************************************************************)
(* A small catalog for TLC: a configured implementer, a strong resource    *)
(* that serves both escalated tasks and reviews, and a critical one.       *)
(***************************************************************************)
EXTENDS GoalProperties

CONSTANTS Coder, Strong, Critical, Check

SmallResources == {Coder, Strong, Critical}
SmallChecks    == {Check}

SmallCatalog ==
  [t \in Tiers |-> CASE t = 4 -> Coder
                     [] t = 5 -> Strong
                     [] t = 6 -> Critical
                     [] OTHER -> NoResource]

(* The same without a strong resource: its tasks are passed on. *)
GapCatalog == [SmallCatalog EXCEPT ![5] = NoResource]

NoneConfigured == [k \in TaskKinds |-> NoResource]

(* Whether a check leaves bytes behind. *)
CleanChecks   == {{}}
LitteryChecks == {{}, {Shell}}
===============================================================================
