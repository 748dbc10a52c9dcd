------------------------------- MODULE MCJournal -------------------------------
(* Small rings for TLC. *)
EXTENDS OwnerJournal

(* Deaths and power losses, not a power loss on top of a death. *)
OneKindOfFault == {{"kill"}, {"power"}}

ASSUME MigrationsMeetOneKind == FaultsApart
=============================================================================
