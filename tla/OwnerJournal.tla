------------------------------ MODULE OwnerJournal ------------------------------
(***************************************************************************)
(* The owner record of one managed worktree as it lies on disk: a ring of  *)
(* checkpoint slots inside one file of fixed size, or the version 4        *)
(* journal (a document and appended frames) that it is migrated from in    *)
(* place, with the lifecycle lease file as the cell that keeps the old     *)
(* document while slot zero is written over it.                            *)
(*                                                                         *)
(* The lease makes the writer unique.  What is hard is a death between two *)
(* writes and the writes that a power loss takes back, so an image of the  *)
(* files is kept twice: as processes see it and as it is on the medium.    *)
(* The name of the record is an entry of its directory, which has an fsync *)
(* of its own and is kept apart.                                           *)
(*                                                                         *)
(* A frame is written whole or torn; its length, digest and encoding are   *)
(* abstracted to that.                                                     *)
(***************************************************************************)
EXTENDS Integers

CONSTANTS
  Documents,
  Slots,            \* _CHECKPOINT_SLOT_COUNT
  SequenceModulus,  \* _CHECKPOINT_SEQUENCE_MASK + 1
  MigrationFaults,  \* the sets of faults that may meet a version 4 record
  Nothing

(* Two slots would not do: after a death between the last write and its    *)
(* fsync the next transition erases the slot before the latest, and a      *)
(* power loss may keep that erasure and take the latest back.              *)
ASSUME JournalAssumption ==
  /\ Slots \in Nat /\ Slots >= 3
  /\ SequenceModulus \in Nat
  /\ SequenceModulus >= 2 * Slots /\ SequenceModulus % Slots = 0
  /\ MigrationFaults \subseteq SUBSET {"kill", "power"}
  /\ Nothing \notin Documents

VARIABLES
  now,      \* the files as processes see them
  safe,     \* their contents on the medium
  entered,  \* the record's name is in its directory on the medium
  legacy,   \* the version 4 record: its newest document, and whether a frame holds it
  op,       \* the transition under way
  faults    \* what may happen to it

vars == << now, safe, entered, legacy, op, faults >>

Ring == 0 .. Slots - 1

(* A cell is a slot or the lease file: its first byte, and the rest.       *)
(* "text" is what is left of a version 4 record.                           *)
Cell(lead, body) == [lead |-> lead, body |-> body]

Frame(sequence, doc) == [sequence |-> sequence, doc |-> doc]
Frames == [sequence : 0 .. SequenceModulus - 1, doc : Documents]
Torn == Frame(-1, Nothing)
Text == Frame(-2, Nothing)
Blank == Frame(-3, Nothing)

Idle == [stage |-> "idle", cell |-> "none", written |-> FALSE,
         doc |-> Nothing, slot |-> 0, sequence |-> 0]

Image(present, first, lease) ==
  [ present |-> present, lease |-> lease,
    slots |-> [i \in Ring |-> IF i = 0 THEN first ELSE Cell("nul", Blank)] ]

NoLegacy == [doc |-> Nothing, framed |-> FALSE]

Init ==
  /\ \/ /\ legacy = NoLegacy
        /\ now = Image(FALSE, Cell("nul", Blank), Cell("nul", Blank))
        /\ faults = {"kill", "power"}
     \/ /\ legacy \in [doc : Documents, framed : BOOLEAN]
        /\ now = Image(TRUE, Cell("text", Text), Cell("nul", Blank))
        /\ faults \in MigrationFaults
  /\ safe = now /\ entered = now.present
  /\ op = Idle

-----------------------------------------------------------------------------
(* Reading. *)

(* Fault: sequence numbers are compared as numbers. *)
sequence_after_plain(candidate, prior) == candidate > prior

sequence_after(candidate, prior) ==
  LET distance == (candidate - prior) % SequenceModulus
  IN 0 < distance /\ distance < SequenceModulus \div 2

Corrupt == [kind |-> "corrupt", doc |-> Nothing, slot |-> 0, sequence |-> 0]
Absent == [Corrupt EXCEPT !.kind = "absent"]
NoCheckpoint == [Corrupt EXCEPT !.kind = "none"]

Checkpoint(slots, i) ==
  [kind |-> "checkpoint", doc |-> slots[i].body.doc, slot |-> i,
   sequence |-> slots[i].body.sequence]

(* A slot without its commit marker is not looked at; a committed slot     *)
(* whose frame is damaged is never passed over.  The newest slot must come *)
(* after each of the others.                                               *)
latest_checkpoint(slots) ==
  LET committed == {i \in Ring : slots[i].lead = "magic"}
      newest == {i \in committed : \A j \in committed \ {i} :
                   sequence_after(slots[i].body.sequence, slots[j].body.sequence)}
      whole == \A i \in committed : slots[i].body \notin {Torn, Text, Blank}
  IN CASE committed = {} -> NoCheckpoint
       [] whole /\ newest # {} -> Checkpoint(slots, CHOOSE i \in newest : TRUE)
       [] OTHER -> Corrupt

(* A document in an appended frame survives the loss of the first byte.    *)
(* The bytes of a checkpoint over it may themselves look like a frame      *)
(* marker, so beyond that nothing is promised.                             *)
latest_legacy_document(first) ==
  IF first.body = Text /\ (first.lead = "text" \/ legacy.framed) /\ legacy # NoLegacy
  THEN [kind |-> "legacy", doc |-> legacy.doc, slot |-> 0, sequence |-> 0]
  ELSE Corrupt

witness(lease) ==
  IF lease.lead = "magic" /\ lease.body.doc # Nothing
  THEN [kind |-> "legacy", doc |-> lease.body.doc, slot |-> 0, sequence |-> 0]
  ELSE NoCheckpoint

(* Without a checkpoint the witness, if there is one, outweighs whatever   *)
(* can still be parsed of the old record.                                  *)
read_record(image) ==
  LET checkpoint == latest_checkpoint(image.slots)
  IN IF ~image.present THEN Absent
     ELSE IF checkpoint # NoCheckpoint THEN checkpoint
     ELSE IF witness(image.lease) # NoCheckpoint THEN witness(image.lease)
     ELSE latest_legacy_document(image.slots[0])

-----------------------------------------------------------------------------
(* One transition: three writes to a cell, each made durable before the    *)
(* next; for a version 4 record first to the lease file, then to slot zero.*)

At(stage, cell) == [op EXCEPT !.stage = stage, !.cell = cell, !.written = FALSE]

(* Fault: the slot of the latest checkpoint is written. *)
Follows_in_place(checkpoint, doc) ==
  [ Idle EXCEPT !.doc = doc, !.stage = "erase", !.cell = "slot",
                !.slot = checkpoint.slot,
                !.sequence = (checkpoint.sequence + 1) % SequenceModulus ]

Follows(checkpoint, doc) ==
  [ Idle EXCEPT !.doc = doc, !.stage = "erase", !.cell = "slot",
                !.slot = (checkpoint.slot + 1) % Slots,
                !.sequence = (checkpoint.sequence + 1) % SequenceModulus ]

(* A witness that is already there is used as it is. *)
Migrates(doc) ==
  [ Idle EXCEPT !.doc = doc, !.stage = "erase",
                !.cell = IF witness(now.lease) = NoCheckpoint THEN "lease" ELSE "slot" ]

(* _write_preclaim without a prior generation: a complete file under a     *)
(* private name, made durable there, then a hard link, and the fsync of    *)
(* the directory.                                                          *)
BeginFirst ==
  /\ op = Idle
  /\ read_record(now) = Absent
  /\ \E doc \in Documents : op' = [Idle EXCEPT !.stage = "link", !.doc = doc]
  /\ UNCHANGED << now, safe, entered, legacy, faults >>

Link ==
  /\ op.stage = "link" /\ ~op.written
  /\ now' = Image(TRUE, Cell("magic", Frame(0, op.doc)), now.lease)
  /\ safe' = [now' EXCEPT !.lease = safe.lease]
  /\ op' = [op EXCEPT !.written = TRUE]
  /\ UNCHANGED << entered, legacy, faults >>

BeginTransition ==
  /\ op = Idle
  /\ \E doc \in Documents :
       LET record == read_record(now)
       IN \/ record.kind = "checkpoint" /\ op' = Follows(record, doc)
          \/ record.kind = "legacy" /\ op' = Migrates(doc)
  /\ UNCHANGED << now, safe, entered, legacy, faults >>

Contents ==
  IF op.cell = "lease" THEN Frame(0, read_record(now).doc) ELSE Frame(op.sequence, op.doc)

Written(cell) ==
  CASE op.stage = "erase" -> [cell EXCEPT !.lead = "nul"]
    [] op.stage = "fill"  -> [cell EXCEPT !.body = Contents]
    [] op.stage = "mark"  -> [cell EXCEPT !.lead = "magic"]

Current == IF op.cell = "lease" THEN now.lease ELSE now.slots[op.slot]

Put(cell) ==
  IF op.cell = "lease" THEN [now EXCEPT !.lease = cell]
  ELSE [now EXCEPT !.slots[op.slot] = cell]

(* _pwrite_all *)
Write ==
  /\ op.stage \in {"erase", "fill", "mark"} /\ ~op.written
  /\ now' = Put(Written(Current))
  /\ op' = [op EXCEPT !.written = TRUE]
  /\ UNCHANGED << safe, entered, legacy, faults >>

After ==
  CASE op.stage = "erase" -> At("fill", op.cell)
    [] op.stage = "fill"  -> At("mark", op.cell)
    [] op.stage = "mark" /\ op.cell = "lease" -> At("erase", "slot")
    [] OTHER -> At("check", "none")

(* fsync of the file that was written: the other one stays as it is, and   *)
(* so does the directory.                                                  *)
Fsync ==
  /\ op.written /\ op.cell # "none"
  /\ safe' = IF op.cell = "lease" THEN [safe EXCEPT !.lease = now.lease]
             ELSE [safe EXCEPT !.slots = now.slots]
  /\ op' = After
  /\ UNCHANGED << now, entered, legacy, faults >>

(* Fault: the link is taken to be durable. *)
FsyncDirectory_omitted ==
  /\ op.stage = "link" /\ op.written
  /\ op' = After
  /\ UNCHANGED << now, safe, entered, legacy, faults >>

(* Only the writer of the first document does it: when it dies before it,  *)
(* the entry is made durable by no later transition.                       *)
FsyncDirectory ==
  /\ op.stage = "link" /\ op.written
  /\ entered' = TRUE
  /\ op' = After
  /\ UNCHANGED << now, safe, legacy, faults >>

(* The record is read back before the transition counts. *)
Confirm ==
  /\ op.stage = "check"
  /\ read_record(now).doc = op.doc
  /\ op' = Idle
  /\ UNCHANGED << now, safe, entered, legacy, faults >>

-----------------------------------------------------------------------------
(* Faults. *)

Tear(cell) == [cell EXCEPT !.body = Torn]

(* The writer dies, perhaps in the middle of a frame. *)
ProcessDies ==
  /\ "kill" \in faults
  /\ op # Idle
  /\ now' \in {now} \cup (IF op.stage = "fill" THEN {Put(Tear(Current))} ELSE {})
  /\ op' = Idle
  /\ UNCHANGED << safe, entered, legacy, faults >>

(* Of the writes that were not made durable any may be lost. *)
Changed == {i \in Ring : now.slots[i] # safe.slots[i]}

Mixture(l, kept, torn) ==
  [present |-> now.present, lease |-> l,
   slots |-> [i \in Ring |-> IF i \in torn THEN Tear(now.slots[i])
                            ELSE IF i \in kept THEN now.slots[i] ELSE safe.slots[i]]]

Remains ==
  LET Halves == IF safe.lease.body = now.lease.body THEN {safe.lease, now.lease}
                ELSE {safe.lease, now.lease, Tear(now.lease)}
  IN {Mixture(l, kept, torn) :
        l \in Halves, kept \in SUBSET Changed,
        torn \in SUBSET {i \in Changed : now.slots[i].body # safe.slots[i].body}}

(* The name itself may be lost as long as its directory was not made       *)
(* durable, and the file with it.                                          *)
Survivors ==
  Remains \cup (IF entered THEN {} ELSE {Image(FALSE, Cell("nul", Blank), safe.lease)})

PowerLoss ==
  /\ "power" \in faults
  /\ now # safe \/ entered # now.present \/ op # Idle
  /\ now' \in Survivors
  /\ safe' = now' /\ entered' = now'.present
  /\ op' = Idle
  /\ UNCHANGED << legacy, faults >>

-----------------------------------------------------------------------------
Next ==
  \/ BeginFirst \/ Link \/ BeginTransition \/ Write \/ Fsync
  \/ FsyncDirectory \/ Confirm
  \/ ProcessDies \/ PowerLoss

Spec == Init /\ [][Next]_vars

-----------------------------------------------------------------------------
(* Properties. *)

(* A version 4 record meets deaths or power losses, not both.              *)
FaultsApart == \A F \in MigrationFaults : ~({"kill", "power"} \subseteq F)

(* Whatever a death or a power loss leaves at this moment is a record that *)
(* opens: never a damaged checkpoint, an ambiguous order of sequence       *)
(* numbers, or a version 4 record overwritten before its witness counts.   *)
(* The slot just written is the newest.                                    *)
Recoverable ==
  /\ op.stage = "check" => read_record(now) = Checkpoint(now.slots, op.slot)
  /\ \A image \in {now} \cup (IF "power" \in faults THEN Survivors ELSE {}) :
       read_record(image).kind # "corrupt"

(* How far the name of the record has come: onto the medium, or left as a  *)
(* death between the link and the fsync of the directory leaves it.        *)
Place ==
  CASE ~now.present -> "none"
    [] now.present /\ entered -> "durable"
    [] OTHER -> IF op.stage = "link" THEN "new" ELSE "left"

(* The slots, the markers, the migration and their faults amount to one    *)
(* document that changes at one moment and is durable when reported, in a  *)
(* place that is durable too unless its first writer died over it.         *)
(* Where there is no power loss the medium is not looked at.               *)
Register ==
  INSTANCE DurableRegister WITH
    value <- read_record(now).doc,
    stable <- read_record(IF "power" \in faults THEN safe ELSE now).doc,
    asked <- op.doc,
    place <- Place

ActsAsRegister == Register!Spec
=============================================================================
