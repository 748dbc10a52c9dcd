----------------------------- MODULE WorkspaceFiles -----------------------------
(***************************************************************************)
(* The atomic replacement of one file of the workspace (goal.json,         *)
(* agent-process.json, a manifest): a temporary leaf, its fsync, an        *)
(* exchange of names that serves as compare-and-swap on the identity of    *)
(* the leaf, the fsync of the directory, a rollback when something fails   *)
(* after the publication, and the removal of the replaced leaf.            *)
(*                                                                         *)
(* Writers overlap and die, calls fail, power is lost.  A power loss tears *)
(* a file that was not synced, and takes the directory back to any state   *)
(* it had since its last fsync.  An inode number is given out again once   *)
(* nothing holds the file.  The parent directory itself stays in place.    *)
(***************************************************************************)
EXTENDS Integers, FiniteSets

CONSTANTS
  Writers,
  Inodes,
  Absent,      \* no inode
  MaxWrites    \* bound on the writes of a behaviour

ASSUME FilesAssumption ==
  /\ IsFiniteSet(Writers) /\ IsFiniteSet(Inodes)
  /\ Absent \notin Inodes
  /\ MaxWrites \in Nat

VARIABLES
  leaf,      \* the inode that the name stands for
  tmp,       \* the inode under each writer's temporary name
  litter,    \* the inodes of temporary names that nobody will clean up
  data,      \* what is in each inode
  shadows,   \* the inodes that a power loss may leave under the name
  op,        \* the write under way in each writer
  reader,    \* a read_json under way
  writes,    \* writes begun so far
  acked,     \* acknowledged writes: the write whose file each had found
  verdict    \* what the last lone writer reported, until the name changes again

vars == << leaf, tmp, litter, data, shadows, op, reader, writes, acked, verdict >>

Initial == 0    \* the write that the first file comes from

Blank == [value |-> -1, whole |-> FALSE, safe |-> FALSE]

NoWrite ==
  [pc |-> "idle", value |-> Initial, found |-> Absent, saw |-> Initial, own |-> Absent,
   alone |-> FALSE, durable |-> FALSE, fooled |-> FALSE]

NoRead == [pc |-> "idle", inode |-> Absent]

NoVerdict == [said |-> "nothing", leaf |-> Absent]

Init ==
  /\ leaf \in Inodes \cup {Absent}
  /\ tmp = [w \in Writers |-> Absent]
  /\ litter = {}
  /\ data = [i \in Inodes |->
               IF i = leaf THEN [value |-> Initial, whole |-> TRUE, safe |-> TRUE] ELSE Blank]
  /\ shadows = {leaf}
  /\ op = [w \in Writers |-> NoWrite]
  /\ reader = NoRead
  /\ writes = 0
  /\ acked = {}
  /\ verdict = NoVerdict

Linked == {leaf} \cup litter \cup shadows \cup {tmp[w] : w \in Writers}
Opened == IF reader.pc = "opened" THEN {reader.inode} ELSE {}

At(w, pc) == op[w].pc = pc
Goto(w, pc) == op' = [op EXCEPT ![w].pc = pc]

(* The name stands for another inode now, and may after a power loss.      *)
Renamed(i) ==
  /\ leaf' = i
  /\ shadows' = shadows \cup {i}
  /\ verdict' = NoVerdict

SameName == UNCHANGED << leaf, shadows, verdict >>

(* Raise: `finally' removes the temporary name if it still holds what the  *)
(* writer put there, and leaves it behind otherwise.                       *)
Abandoned(w, mine) ==
  /\ tmp' = [tmp EXCEPT ![w] = Absent]
  /\ litter' = litter \cup ({tmp[w]} \ {Absent, mine})

Report(w, said) ==
  /\ op' = [op EXCEPT ![w] = NoWrite]
  /\ verdict' = IF op[w].alone THEN [said |-> said, leaf |-> leaf] ELSE verdict

Raise(w, mine) ==
  /\ Abandoned(w, mine)
  /\ op' = [op EXCEPT ![w] = NoWrite]
  /\ verdict' = IF op[w].alone /\ ~op[w].durable
                  THEN [said |-> "raised", leaf |-> op[w].found] ELSE verdict
  /\ UNCHANGED << leaf, shadows, data, reader, writes, acked >>

Quiet(w) == UNCHANGED << litter, reader, writes, acked >>

-----------------------------------------------------------------------------

Begin(w) ==
  /\ At(w, "idle") /\ writes < MaxWrites
  /\ writes' = writes + 1
  /\ LET lone == \A v \in Writers \ {w} : At(v, "idle")
     IN  op' = [v \in Writers |->
                  IF v = w
                    THEN [NoWrite EXCEPT !.pc = "found", !.value = writes + 1,
                                         !.found = leaf, !.alone = lone,
                                         !.saw = IF leaf = Absent THEN -1 ELSE data[leaf].value]
                    ELSE [op[v] EXCEPT !.alone = FALSE]]
  /\ UNCHANGED << leaf, tmp, litter, data, shadows, reader, acked, verdict >>

(* _new_temp_leaf; a number that another writer remembers may come back.   *)
NewTempLeaf(w, i) ==
  /\ At(w, "found") /\ i \notin Linked \cup Opened
  /\ tmp' = [tmp EXCEPT ![w] = i]
  /\ data' = [data EXCEPT ![i] = [Blank EXCEPT !.value = op[w].value]]
  /\ op' = [v \in Writers |->
              IF v = w THEN [op[w] EXCEPT !.pc = "open", !.own = i]
              ELSE [op[v] EXCEPT !.fooled = @ \/ (op[v].pc # "idle" /\ op[v].found = i)]]
  /\ SameName /\ UNCHANGED << litter, reader, writes, acked >>

WriteBytes(w) ==
  /\ At(w, "open")
  /\ data' = [data EXCEPT ![op[w].own].whole = TRUE]
  /\ Goto(w, "written")
  /\ SameName /\ UNCHANGED tmp /\ Quiet(w)

SyncFile_not_at_all(w) ==
  /\ At(w, "written")
  /\ Goto(w, "synced")
  /\ SameName /\ UNCHANGED << tmp, data >> /\ Quiet(w)

SyncFile(w) ==
  /\ At(w, "written")
  /\ data' = [data EXCEPT ![op[w].own].safe = TRUE]
  /\ Goto(w, "synced")
  /\ SameName /\ UNCHANGED tmp /\ Quiet(w)

ProveDestination(w) ==
  /\ At(w, "synced") /\ leaf = op[w].found
  /\ Goto(w, "proved")
  /\ SameName /\ UNCHANGED << tmp, data >> /\ Quiet(w)

PublishNew(w) ==
  /\ At(w, "proved") /\ op[w].found = Absent /\ leaf = Absent
  /\ Renamed(op[w].own)
  /\ tmp' = [tmp EXCEPT ![w] = Absent]
  /\ Goto(w, "published")
  /\ UNCHANGED data /\ Quiet(w)

Exchange(w, pc) ==
  /\ leaf # Absent /\ tmp[w] # Absent
  /\ Renamed(tmp[w])
  /\ tmp' = [tmp EXCEPT ![w] = leaf]
  /\ Goto(w, pc)
  /\ UNCHANGED data /\ Quiet(w)

PublishOver_replacing(w) ==
  /\ At(w, "proved") /\ op[w].found # Absent /\ leaf # Absent
  /\ Renamed(op[w].own)
  /\ tmp' = [tmp EXCEPT ![w] = Absent]
  /\ Goto(w, "published")
  /\ UNCHANGED data /\ Quiet(w)

PublishOver(w) == At(w, "proved") /\ op[w].found # Absent /\ Exchange(w, "exchanged")

(* The exchange did not meet the leaf it had found: undo it and refuse.    *)
SwapBack(w) ==
  /\ At(w, "exchanged") /\ tmp[w] # op[w].found
  /\ Exchange(w, "refused")

Exchanged(w) ==
  /\ At(w, "exchanged") /\ tmp[w] = op[w].found
  /\ Goto(w, "published")
  /\ SameName /\ UNCHANGED << tmp, data >> /\ Quiet(w)

ProvePublished(w) ==
  /\ At(w, "published") /\ leaf = op[w].own
  /\ Goto(w, "visible")
  /\ SameName /\ UNCHANGED << tmp, data >> /\ Quiet(w)

SyncDirectory_not_at_all(w) ==
  /\ At(w, "visible")
  /\ op' = [op EXCEPT ![w].pc = "durable", ![w].durable = TRUE]
  /\ UNCHANGED << leaf, verdict, tmp, data, shadows >> /\ Quiet(w)

SyncDirectory(w) ==
  /\ At(w, "visible")
  /\ shadows' = {leaf}
  /\ op' = [op EXCEPT ![w].pc = "durable", ![w].durable = TRUE]
  /\ UNCHANGED << leaf, verdict, tmp, data >> /\ Quiet(w)

UnlinkReplaced(w) ==
  /\ At(w, "durable") /\ tmp[w] # Absent /\ tmp[w] = op[w].found
  /\ tmp' = [tmp EXCEPT ![w] = Absent]
  /\ Goto(w, "unlinked")
  /\ SameName /\ UNCHANGED data /\ Quiet(w)

Acknowledge(w) ==
  /\ \/ At(w, "durable") /\ tmp[w] = Absent /\ shadows' = shadows
     \/ At(w, "unlinked") /\ shadows' = {leaf}
  /\ Report(w, "done")
  /\ acked' = acked \cup {[saw |-> op[w].saw, fooled |-> op[w].fooled, value |-> op[w].value]}
  /\ UNCHANGED << leaf, tmp, litter, data, reader, writes >>

-----------------------------------------------------------------------------
(* What goes wrong: an identity that changed, or a call that fails.        *)

RefuseEarly(w) ==
  /\ \/ op[w].pc \in {"found", "open", "written", "synced"}
     \/ At(w, "proved") /\ (IF op[w].found = Absent THEN leaf # Absent ELSE leaf = Absent)
     \/ At(w, "refused")
  /\ Raise(w, op[w].own)

(* The name vanished before it could be exchanged back.                    *)
SwapBackFails(w) ==
  /\ At(w, "exchanged") /\ tmp[w] # op[w].found /\ leaf = Absent
  /\ Raise(w, Absent)

(* After the publication: the name must be its own before it is given back. *)
BeginRollBack(w) ==
  /\ op[w].pc \in {"published", "visible"}
  /\ leaf = op[w].own /\ tmp[w] = op[w].found
  /\ Goto(w, "rolling")
  /\ SameName /\ UNCHANGED << tmp, data >> /\ Quiet(w)

RollBackRefused(w) ==
  /\ \/ op[w].pc \in {"published", "visible"} /\ leaf # op[w].own
     \/ At(w, "rolling") /\ leaf = Absent
  /\ Raise(w, Absent)

RollBackReplaced(w) ==
  /\ At(w, "rolling") /\ op[w].found # Absent
  /\ Exchange(w, "rolled")

RollBackCreated(w) ==
  /\ At(w, "rolling") /\ op[w].found = Absent /\ leaf # Absent
  /\ Renamed(Absent)
  /\ tmp' = [tmp EXCEPT ![w] = leaf]
  /\ Goto(w, IF leaf = op[w].own THEN "rolled" ELSE "foreign")
  /\ UNCHANGED data /\ Quiet(w)

(* It has taken another writer's file away: put it back, unless by now     *)
(* there is a new one.                                                     *)
PutBack(w) ==
  /\ At(w, "foreign")
  /\ IF leaf = Absent
       THEN Renamed(tmp[w]) /\ litter' = litter
       ELSE SameName /\ litter' = litter \cup {tmp[w]}
  /\ tmp' = [tmp EXCEPT ![w] = Absent]
  /\ op' = [op EXCEPT ![w] = NoWrite]
  /\ UNCHANGED << data, reader, writes, acked >>

RolledBack(w) ==
  /\ At(w, "rolled")
  /\ Abandoned(w, op[w].own)
  /\ op' = [op EXCEPT ![w] = NoWrite]
  /\ shadows' \in {shadows, {leaf}}     \* the directory's fsync may fail too
  /\ verdict' = IF op[w].alone THEN [said |-> "raised", leaf |-> op[w].found] ELSE verdict
  /\ UNCHANGED << leaf, data, reader, writes, acked >>

(* After the directory is durable a failure no longer takes it back.       *)
FailLate(w) ==
  /\ op[w].pc \in {"durable", "unlinked"}
  /\ tmp[w] # Absent \/ At(w, "unlinked")
  /\ Raise(w, op[w].found)

Kill(w) ==
  /\ ~At(w, "idle")
  /\ Abandoned(w, Absent)
  /\ op' = [op EXCEPT ![w] = NoWrite]
  /\ UNCHANGED << leaf, data, shadows, reader, writes, acked, verdict >>

PowerLoss ==
  /\ leaf' \in shadows
  /\ shadows' = {leaf'}
  /\ litter' = (Linked \cup litter) \ {Absent, leaf'}
  /\ tmp' = [w \in Writers |-> Absent]
  /\ data' = [i \in Inodes |-> [data[i] EXCEPT !.whole = @ /\ data[i].safe]]
  /\ op' = [w \in Writers |-> NoWrite]
  /\ reader' = NoRead
  /\ verdict' = IF verdict.said = "raised" THEN NoVerdict ELSE verdict
  /\ UNCHANGED << writes, acked >>

-----------------------------------------------------------------------------
(* read_json: what it has looked up, opened and read must be one file.     *)

Undisturbed == UNCHANGED << leaf, tmp, litter, data, shadows, op, writes, acked, verdict >>

LookUp ==
  /\ reader.pc = "idle" /\ leaf # Absent
  /\ reader' = [pc |-> "found", inode |-> leaf]
  /\ Undisturbed

OpenFound ==
  /\ reader.pc = "found" /\ leaf = reader.inode
  /\ reader' = [reader EXCEPT !.pc = "opened"]
  /\ Undisturbed

ReadRefused ==
  /\ reader.pc \in {"found", "opened"} /\ leaf # reader.inode
  /\ reader' = NoRead
  /\ Undisturbed

ReadDone ==
  /\ reader.pc = "opened" /\ leaf = reader.inode
  /\ reader' = NoRead
  /\ Undisturbed

Write(w) ==
  \/ Begin(w)
  \/ \E i \in Inodes : NewTempLeaf(w, i)
  \/ WriteBytes(w) \/ SyncFile(w)
  \/ ProveDestination(w) \/ PublishNew(w) \/ PublishOver(w)
  \/ SwapBack(w) \/ Exchanged(w) \/ ProvePublished(w)
  \/ SyncDirectory(w) \/ UnlinkReplaced(w) \/ Acknowledge(w)
  \/ RefuseEarly(w) \/ SwapBackFails(w)
  \/ BeginRollBack(w) \/ RollBackRefused(w) \/ RollBackReplaced(w)
  \/ RollBackCreated(w) \/ PutBack(w) \/ RolledBack(w) \/ FailLate(w)
  \/ Kill(w)

Next ==
  \/ \E w \in Writers : Write(w)
  \/ PowerLoss
  \/ LookUp \/ OpenFound \/ ReadRefused \/ ReadDone

Spec == Init /\ [][Next]_vars

-----------------------------------------------------------------------------

(* Whatever dies or loses power and whenever, the name stands for nothing  *)
(* or for a whole file that is safe on the medium, and so does what a      *)
(* reader has opened: the bytes are synced before the name is exchanged    *)
(* (_atomic_write_bytes_pinned, read_json).                                *)
NeverTorn ==
  \A i \in ({leaf} \cup shadows \cup Opened) \ {Absent} : data[i].whole /\ data[i].safe

(* What a writer that met no other has reported is the truth: an           *)
(* acknowledged write stands, after a power loss too, and a write that     *)
(* raised before its directory was durable has left the name as it found   *)
(* it (_rollback_publication).                                             *)
ReportIsTrue ==
  /\ verdict.said = "done" => leaf = verdict.leaf /\ shadows = {leaf}
  /\ verdict.said = "raised" => leaf = verdict.leaf

(* Two writers that found the same file under the name are never both      *)
(* acknowledged, so none overwrites what it has not seen: the exchange is  *)
(* a compare-and-swap on the inode, as long as the number that a writer    *)
(* remembers is not given out again.                                       *)
OneWins ==
  \A a, b \in acked :
    a.saw = b.saw /\ a.saw >= 0 /\ a # b => a.fooled \/ b.fooled
=============================================================================
