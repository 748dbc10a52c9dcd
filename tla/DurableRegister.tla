---------------------------- MODULE DurableRegister ----------------------------
(***************************************************************************)
(* What an owner record promises to the lifecycle that transitions it: one *)
(* document that a transition replaces at one moment, that a death of the  *)
(* process never damages, and that is durable by the time the transition   *)
(* is reported done.                                                       *)
(*                                                                         *)
(* The place that holds it is made durable by the first transition.  When  *)
(* a death comes between, the place may be lost with whatever later        *)
(* transitions have put there, until a power loss has decided.             *)
(***************************************************************************)
CONSTANTS
  Documents,
  Nothing    \* no document: before the first one, and no transition asked for

VARIABLES
  value,     \* the document a reader is given
  stable,    \* the document a power loss leaves in the place, if it leaves that
  asked,     \* the document of the transition under way
  place      \* "none", "new", "durable", or "left" behind by a death while new

vars == << value, stable, asked, place >>

Init ==
  /\ value \in Documents \cup {Nothing}
  /\ stable = value
  /\ asked = Nothing
  /\ place = IF value = Nothing THEN "none" ELSE "durable"

Ask ==
  /\ asked = Nothing
  /\ asked' \in Documents
  /\ UNCHANGED << value, stable, place >>

Take ==
  /\ asked # Nothing
  /\ value' = asked
  /\ stable' \in {stable, asked}
  /\ place' = IF place = "none" THEN "new" ELSE place
  /\ UNCHANGED asked

Sync ==
  /\ stable' = value
  /\ UNCHANGED << value, asked, place >>

Settle ==
  /\ place = "new"
  /\ place' = "durable"
  /\ UNCHANGED << value, stable, asked >>

Report ==
  /\ asked # Nothing
  /\ value = asked /\ stable = asked
  /\ place \in {"durable", "left"}
  /\ asked' = Nothing
  /\ UNCHANGED << value, stable, place >>

ProcessDies ==
  /\ asked' = Nothing
  /\ place' = IF place = "new" THEN "left" ELSE place
  /\ UNCHANGED << value, stable >>

PowerLoss ==
  /\ asked' = Nothing
  /\ \/ value' \in {value, stable}
     \/ place # "durable" /\ value' = Nothing
  /\ stable' = value'
  /\ place' = IF value' = Nothing THEN "none" ELSE "durable"

Next == Ask \/ Take \/ Sync \/ Settle \/ Report \/ ProcessDies \/ PowerLoss

Spec == Init /\ [][Next]_vars
=============================================================================
