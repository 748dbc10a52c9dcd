-------------------------- MODULE WorkspaceFilesProofs --------------------------
(***************************************************************************)
(* Theorems about the atomic replacement of a file, for any writers,       *)
(* inodes and number of writes.                                            *)
(***************************************************************************)
EXTENDS WorkspaceFiles, TLAPS

Pcs == {"idle", "found", "open", "written", "synced", "proved", "exchanged", "refused",
        "published", "visible", "durable", "unlinked", "rolling", "rolled", "foreign"}

Filling == {"open", "written", "synced", "proved"}
Showing == {"published", "visible", "durable", "rolling"}

MaybeInodes == Inodes \cup {Absent}

Contents == [Inodes -> [value : Int, whole : BOOLEAN, safe : BOOLEAN]]
Operations ==
  [Writers -> [pc : Pcs, value : Nat, found : MaybeInodes, saw : Int, own : MaybeInodes,
               alone : BOOLEAN, durable : BOOLEAN, fooled : BOOLEAN]]
TempNames == [Writers -> MaybeInodes]
Readers == [pc : {"idle", "found", "opened"}, inode : MaybeInodes]
Acknowledgements == [saw : Int, fooled : BOOLEAN, value : Nat]
Verdicts == [said : {"nothing", "done", "raised"}, leaf : MaybeInodes]

Types ==
  /\ leaf \in MaybeInodes
  /\ tmp \in TempNames
  /\ litter \in SUBSET Inodes
  /\ data \in Contents
  /\ shadows \in SUBSET MaybeInodes
  /\ op \in Operations
  /\ reader \in Readers
  /\ writes \in Nat
  /\ acked \in SUBSET Acknowledgements
  /\ verdict \in Verdicts

(* No two names lead to one inode: the public one, the temporary ones and  *)
(* those left behind.                                                      *)
Apart ==
  /\ leaf \notin litter
  /\ \A w \in Writers : tmp[w] # Absent =>
       /\ tmp[w] # leaf /\ tmp[w] \notin litter
       /\ \A v \in Writers \ {w} : tmp[v] # tmp[w]

(* A temporary name holds what the writer filled, until it has what the    *)
(* exchange displaced.                                                     *)
Holding ==
  \A w \in Writers :
    /\ op[w].pc \in {"idle", "found", "unlinked"} => tmp[w] = Absent
    /\ op[w].pc \in Filling => tmp[w] = op[w].own
    /\ op[w].pc \in Showing => tmp[w] = op[w].found
    /\ op[w].pc \notin {"idle", "found"} => op[w].own # Absent
    /\ op[w].pc \in {"exchanged", "refused", "rolled", "foreign"} => tmp[w] # Absent
    /\ op[w].pc = "unlinked" => op[w].found # Absent
    /\ op[w].pc \in {"durable", "unlinked"} => op[w].durable = TRUE

Solid(i) == data[i].whole = TRUE /\ data[i].safe = TRUE

(* What the public name stands for, or may after a power loss, is solid,   *)
(* and so is all that an exchange may put there.                           *)
Sound ==
  /\ \A i \in ({leaf} \cup shadows \cup Opened) \ {Absent} : Solid(i)
  /\ \A w \in Writers :
       /\ op[w].pc = "written" => data[tmp[w]].whole = TRUE
       /\ op[w].pc \notin {"idle", "found", "open", "written"} /\ tmp[w] # Absent => Solid(tmp[w])

(* A writer that has met no other is alone, and knows what the name stands *)
(* for.                                                                    *)
Lone ==
  \A w \in Writers : op[w].alone = TRUE =>
    /\ \A v \in Writers \ {w} : op[v].pc = "idle"
    /\ op[w].pc \in {"found", "rolled"} \cup Filling => leaf = op[w].found
    /\ op[w].pc \in {"exchanged", "unlinked"} \cup Showing => leaf = op[w].own
    /\ op[w].pc = "exchanged" => tmp[w] = op[w].found
    /\ op[w].pc \in {"durable", "unlinked"} => shadows = {leaf}
    /\ op[w].pc \notin {"idle", "refused", "foreign"}

(* A write is in one inode, and in none before its temporary leaf is made. *)
Numbered ==
  /\ \A i \in Inodes : data[i].value <= writes
  /\ \A i, j \in Inodes : data[i].value = data[j].value /\ data[i].value >= 0 => i = j
  /\ \A a \in acked : a.saw <= writes
  /\ \A w \in Writers :
       /\ op[w].value <= writes /\ op[w].saw <= writes
       /\ op[w].pc = "found" =>
            /\ op[w].value > 0
            /\ \A i \in Inodes : data[i].value # op[w].value
            /\ \A a \in acked : a.saw # op[w].value
            /\ \A v \in Writers : op[v].saw # op[w].value
            /\ \A v \in Writers \ {w} : op[v].pc = "found" => op[v].value # op[w].value

(* As long as it is not fooled, a writer remembers the inode of the file   *)
(* that it saw, and has unlinked none but that.                            *)
Remembered ==
  \A w \in Writers : op[w].pc # "idle" =>
    /\ op[w].found = Absent => op[w].saw = -1
    /\ op[w].found # Absent /\ op[w].found = op[w].own =>
         op[w].pc \in {"open", "written", "synced"}
    /\ op[w].fooled = FALSE /\ op[w].found # Absent /\ op[w].found # op[w].own =>
         data[op[w].found].value = op[w].saw
    /\ op[w].pc = "durable" /\ tmp[w] # Absent => tmp[w] \notin shadows
    /\ op[w].pc = "unlinked" /\ op[w].fooled = FALSE =>
         /\ op[w].found \notin Linked
         /\ \A v \in Writers \ {w} :
              op[v].pc = "unlinked" /\ op[v].fooled = FALSE => op[v].found # op[w].found

(* The file that an acknowledged write has seen is gone.                   *)
Superseded ==
  \A a \in acked : a.saw >= 0 /\ a.fooled = FALSE =>
    /\ \A i \in Linked \ {Absent} : data[i].value # a.saw
    /\ \A w \in Writers :
         op[w].pc = "unlinked" /\ op[w].fooled = FALSE => op[w].saw # a.saw

OneAcknowledged ==
  \A a, b \in acked : a.saw = b.saw /\ a.saw >= 0 /\ a # b => a.fooled = TRUE \/ b.fooled = TRUE

IInv ==
  /\ Types /\ Apart /\ Holding /\ Sound /\ Lone /\ ReportIsTrue
  /\ Numbered /\ Remembered /\ Superseded /\ OneAcknowledged

(* What an assignment to one part of the state does to its type.           *)
LEMMA Typing ==
  ASSUME Types, NEW w \in Writers
  PROVE  /\ op[w] \in [pc : Pcs, value : Nat, found : MaybeInodes, saw : Int, own : MaybeInodes,
                       alone : BOOLEAN, durable : BOOLEAN, fooled : BOOLEAN]
         /\ \A p \in Pcs : [op EXCEPT ![w].pc = p] \in Operations
         /\ \A p \in Pcs : [op EXCEPT ![w].pc = p, ![w].durable = TRUE] \in Operations
         /\ [op EXCEPT ![w] = NoWrite] \in Operations
         /\ [v \in Writers |-> NoWrite] \in Operations
         /\ tmp[w] \in MaybeInodes
         /\ \A i \in MaybeInodes : [tmp EXCEPT ![w] = i] \in TempNames
         /\ \A i : {i} \ {Absent} \subseteq Inodes \/ i \notin MaybeInodes
<1>1. NoWrite \in [pc : Pcs, value : Nat, found : MaybeInodes, saw : Int, own : MaybeInodes,
                   alone : BOOLEAN, durable : BOOLEAN, fooled : BOOLEAN]
  BY DEF NoWrite, Pcs, MaybeInodes, Initial
<1>2. op \in Operations
  BY DEF Types
<1>3. tmp \in TempNames
  BY DEF Types
<1>4. ASSUME NEW p \in Pcs
      PROVE  /\ [op EXCEPT ![w].pc = p] \in Operations
             /\ [op EXCEPT ![w].pc = p, ![w].durable = TRUE] \in Operations
  BY <1>2 DEF Operations
<1>5. /\ [op EXCEPT ![w] = NoWrite] \in Operations
      /\ [v \in Writers |-> NoWrite] \in Operations
  BY <1>1, <1>2 DEF Operations
<1>6. /\ tmp[w] \in MaybeInodes
      /\ \A i \in MaybeInodes : [tmp EXCEPT ![w] = i] \in TempNames
  BY <1>3 DEF TempNames
<1>7. \A i : {i} \ {Absent} \subseteq Inodes \/ i \notin MaybeInodes
  BY DEF MaybeInodes
<1>8. op[w] \in [pc : Pcs, value : Nat, found : MaybeInodes, saw : Int, own : MaybeInodes,
                 alone : BOOLEAN, durable : BOOLEAN, fooled : BOOLEAN]
  BY <1>2 DEF Operations
<1> QED BY <1>4, <1>5, <1>6, <1>7, <1>8

(* The stages of a write.                                                  *)
LEMMA Stages ==
  /\ "idle" \in Pcs /\ "found" \in Pcs /\ "open" \in Pcs /\ "written" \in Pcs
  /\ "synced" \in Pcs /\ "proved" \in Pcs /\ "exchanged" \in Pcs /\ "refused" \in Pcs
  /\ "published" \in Pcs /\ "visible" \in Pcs /\ "durable" \in Pcs /\ "unlinked" \in Pcs
  /\ "rolling" \in Pcs /\ "rolled" \in Pcs /\ "foreign" \in Pcs
BY DEF Pcs

(* The inodes that have a name.                                            *)
LEMMA NamesAreInodes ==
  ASSUME Types
  PROVE  Linked \subseteq MaybeInodes
BY DEF Types, Linked, TempNames, MaybeInodes

(* An inode that has no own name is an inode all the same.                 *)
LEMMA OwnInode ==
  ASSUME IInv, NEW w \in Writers, op[w].pc \notin {"idle", "found"}
  PROVE  op[w].own \in Inodes
BY Typing DEF IInv, Holding

(* What an assignment to an inode does to its type.                        *)
LEMMA Filled ==
  ASSUME Types, NEW i \in Inodes
  PROVE  /\ data[i] \in [value : Int, whole : BOOLEAN, safe : BOOLEAN]
         /\ [data EXCEPT ![i].whole = TRUE] \in Contents
         /\ [data EXCEPT ![i].safe = TRUE] \in Contents
         /\ \A n \in Int : [data EXCEPT ![i] = [Blank EXCEPT !.value = n]] \in Contents
<1>1. data \in Contents
  BY DEF Types
<1>2. data[i] \in [value : Int, whole : BOOLEAN, safe : BOOLEAN]
  BY <1>1 DEF Contents
<1>3. /\ [data EXCEPT ![i].whole = TRUE] \in Contents
      /\ [data EXCEPT ![i].safe = TRUE] \in Contents
  BY <1>1 DEF Contents
<1>4. ASSUME NEW n \in Int
      PROVE  [data EXCEPT ![i] = [Blank EXCEPT !.value = n]] \in Contents
  <2>1. [Blank EXCEPT !.value = n] \in [value : Int, whole : BOOLEAN, safe : BOOLEAN]
    BY DEF Blank
  <2> QED BY <1>1, <2>1 DEF Contents
<1> QED BY <1>2, <1>3, <1>4

(* Every step keeps the types. *)
LEMMA TypesKeptWriting ==
  ASSUME IInv, NEW w \in Writers, Write(w)
  PROVE  Types'
<1>1. CASE Begin(w)
  <2> DEFINE lone == \A v \in Writers \ {w} : At(v, "idle")
             new == [NoWrite EXCEPT !.pc = "found", !.value = writes + 1, !.found = leaf,
                       !.alone = lone,
                       !.saw = IF leaf = Absent THEN -1 ELSE data[leaf].value]
             R == [pc : Pcs, value : Nat, found : MaybeInodes, saw : Int, own : MaybeInodes,
                   alone : BOOLEAN, durable : BOOLEAN, fooled : BOOLEAN]
  <2>1. writes + 1 \in Nat /\ lone \in BOOLEAN /\ leaf \in MaybeInodes
    BY DEF IInv, Types, At
  <2>2. (IF leaf = Absent THEN -1 ELSE data[leaf].value) \in Int
    <3>1. CASE leaf = Absent
      BY <3>1
    <3>2. CASE leaf # Absent
      <4>1. leaf \in Inodes
        BY <2>1, <3>2 DEF MaybeInodes
      <4>2. data[leaf] \in [value : Int, whole : BOOLEAN, safe : BOOLEAN]
        BY <4>1, Filled DEF IInv
      <4> QED BY <3>2, <4>2
    <3> QED BY <3>1, <3>2
  <2>3. new \in R
    BY <2>1, <2>2, Stages DEF NoWrite, MaybeInodes
  <2>4. op' = [v \in Writers |-> IF v = w THEN new ELSE [op[v] EXCEPT !.alone = FALSE]]
    BY <1>1 DEF Begin
  <2>5. \A v \in Writers : [op[v] EXCEPT !.alone = FALSE] \in R
    BY Typing DEF IInv
  <2>6. op' \in Operations
    BY <2>3, <2>4, <2>5 DEF Operations
  <2> QED BY <1>1, <2>1, <2>6 DEF Begin, IInv, Types
<1>2. CASE \E i \in Inodes : NewTempLeaf(w, i)
  <2>1. PICK i \in Inodes : NewTempLeaf(w, i)
    BY <1>2
  <2>2. op' = [v \in Writers |->
                IF v = w THEN [op[w] EXCEPT !.pc = "open", !.own = i]
                ELSE [op[v] EXCEPT !.fooled = @ \/ (op[v].pc # "idle" /\ op[v].found = i)]]
    BY <2>1 DEF NewTempLeaf
  <2> DEFINE R == [pc : Pcs, value : Nat, found : MaybeInodes, saw : Int, own : MaybeInodes,
                   alone : BOOLEAN, durable : BOOLEAN, fooled : BOOLEAN]
  <2>3. op' \in Operations
    <3>1. i \in MaybeInodes
      BY DEF MaybeInodes
    <3>2. [op[w] EXCEPT !.pc = "open", !.own = i] \in R
      BY <3>1, Typing, Stages DEF IInv
    <3>3. ASSUME NEW v \in Writers
          PROVE  [op[v] EXCEPT !.fooled = @ \/ (op[v].pc # "idle" /\ op[v].found = i)] \in R
      <4>1. op[v] \in R
        BY Typing DEF IInv
      <4>2. (op[v].fooled \/ (op[v].pc # "idle" /\ op[v].found = i)) \in BOOLEAN
        BY <4>1
      <4> QED BY <4>1, <4>2
    <3> QED BY <2>2, <3>2, <3>3 DEF Operations
  <2>4. tmp' \in TempNames
    BY <2>1, Typing DEF IInv, NewTempLeaf, MaybeInodes
  <2>5. data' \in Contents
    <3>1. op[w].value \in Int
      <4>1. op[w].value \in Nat
        BY Typing DEF IInv
      <4> QED BY <4>1
    <3> QED BY <2>1, <3>1, Filled DEF IInv, NewTempLeaf
  <2> QED BY <2>1, <2>3, <2>4, <2>5 DEF NewTempLeaf, SameName, IInv, Types
<1>3. CASE WriteBytes(w)
  BY <1>3, Typing, Stages, OwnInode, Filled DEF WriteBytes, At, Goto, SameName, Quiet,
    IInv, Types
<1>4. CASE SyncFile(w)
  BY <1>4, Typing, Stages, OwnInode, Filled DEF SyncFile, At, Goto, SameName, Quiet,
    IInv, Types
<1>5. CASE ProveDestination(w)
  BY <1>5, Typing, Stages DEF ProveDestination, At, Goto, SameName, Quiet, IInv, Types
<1>6. CASE PublishNew(w)
  <2>1. At(w, "proved") /\ Renamed(op[w].own) /\ tmp' = [tmp EXCEPT ![w] = Absent]
    BY <1>6 DEF PublishNew
  <2>2. op[w].own \in MaybeInodes
    BY Typing DEF IInv
  <2>3. leaf' \in MaybeInodes /\ shadows' \in SUBSET MaybeInodes
    BY <2>1, <2>2 DEF Renamed, IInv, Types
  <2>4. tmp' \in TempNames
    BY <2>1, Typing DEF IInv, MaybeInodes
  <2>5. op' \in Operations
    BY <1>6, Typing, Stages DEF PublishNew, Goto, IInv
  <2>6. verdict' \in Verdicts
    BY <2>1 DEF Renamed, Verdicts, NoVerdict, MaybeInodes
  <2> QED BY <1>6, <2>3, <2>4, <2>5, <2>6 DEF PublishNew, Quiet, IInv, Types
<1>7. CASE PublishOver(w)
  BY <1>7, Typing, Stages DEF PublishOver, Exchange, Renamed, At, Goto, Quiet, IInv,
    Types, Verdicts, MaybeInodes, NoVerdict
<1>8. CASE SwapBack(w)
  BY <1>8, Typing, Stages DEF SwapBack, Exchange, Renamed, At, Goto, Quiet, IInv, Types,
    Verdicts, MaybeInodes, NoVerdict
<1>9. CASE Exchanged(w)
  BY <1>9, Typing, Stages DEF Exchanged, At, Goto, SameName, Quiet, IInv, Types
<1>10. CASE ProvePublished(w)
  BY <1>10, Typing, Stages DEF ProvePublished, At, Goto, SameName, Quiet, IInv, Types
<1>11. CASE SyncDirectory(w)
  BY <1>11, Typing, Stages DEF SyncDirectory, At, Quiet, IInv, Types
<1>12. CASE UnlinkReplaced(w)
  BY <1>12, Typing, Stages DEF UnlinkReplaced, At, Goto, SameName, Quiet, IInv, Types,
    MaybeInodes
<1>13. CASE Acknowledge(w)
  <2>1. op' \in Operations
    BY <1>13, Typing DEF Acknowledge, Report, IInv
  <2>2. verdict' \in Verdicts
    BY <1>13 DEF Acknowledge, Report, IInv, Types, Verdicts
  <2>3. shadows' \in SUBSET MaybeInodes
    BY <1>13 DEF Acknowledge, IInv, Types
  <2>4. [saw |-> op[w].saw, fooled |-> op[w].fooled, value |-> op[w].value] \in Acknowledgements
    BY Typing DEF IInv, Acknowledgements
  <2>5. acked' \in SUBSET Acknowledgements
    BY <1>13, <2>4 DEF Acknowledge, IInv, Types
  <2> QED BY <1>13, <2>1, <2>2, <2>3, <2>5 DEF Acknowledge, IInv, Types
<1>14. CASE RefuseEarly(w)
  BY <1>14, Typing, Stages DEF RefuseEarly, Raise, Abandoned, At, IInv, Types, Verdicts,
    MaybeInodes
<1>15. CASE SwapBackFails(w)
  BY <1>15, Typing, Stages DEF SwapBackFails, Raise, Abandoned, At, IInv, Types,
    Verdicts
<1>16. CASE BeginRollBack(w)
  BY <1>16, Typing, Stages DEF BeginRollBack, Goto, SameName, Quiet, IInv, Types
<1>17. CASE RollBackRefused(w)
  BY <1>17, Typing, Stages DEF RollBackRefused, Raise, Abandoned, At, IInv, Types,
    Verdicts, MaybeInodes
<1>18. CASE RollBackReplaced(w)
  BY <1>18, Typing, Stages DEF RollBackReplaced, Exchange, Renamed, At, Goto, Quiet,
    IInv, Types, Verdicts, MaybeInodes, NoVerdict
<1>19. CASE RollBackCreated(w)
  BY <1>19, Typing, Stages DEF RollBackCreated, Renamed, At, Goto, Quiet, IInv, Types,
    Verdicts, NoVerdict
<1>20. CASE PutBack(w)
  <2>1. op' \in Operations /\ tmp' \in TempNames
    BY <1>20, Typing DEF PutBack, IInv, MaybeInodes
  <2>2. tmp[w] \in Inodes
    BY <1>20, Typing DEF PutBack, At, IInv, Holding
  <2>3. leaf' \in MaybeInodes /\ shadows' \in SUBSET MaybeInodes /\ litter' \in SUBSET Inodes
    BY <1>20, <2>2 DEF PutBack, Renamed, SameName, IInv, Types, MaybeInodes
  <2>4. verdict' \in Verdicts
    BY <1>20 DEF PutBack, Renamed, SameName, IInv, Types, Verdicts, NoVerdict
  <2> QED BY <1>20, <2>1, <2>3, <2>4 DEF PutBack, IInv, Types
<1>21. CASE RolledBack(w)
  BY <1>21, Typing, Stages DEF RolledBack, Abandoned, At, IInv, Types, Verdicts,
    MaybeInodes
<1>22. CASE FailLate(w)
  BY <1>22, Typing, Stages DEF FailLate, Raise, Abandoned, At, IInv, Types, Verdicts,
    MaybeInodes
<1>23. CASE Kill(w)
  BY <1>23, Typing, Stages DEF Kill, Abandoned, At, IInv, Types, MaybeInodes
<1> QED BY <1>1, <1>2, <1>3, <1>4, <1>5, <1>6, <1>7, <1>8, <1>9, <1>10, <1>11, <1>12,
  <1>13, <1>14, <1>15, <1>16, <1>17, <1>18, <1>19, <1>20, <1>21, <1>22, <1>23 DEF Write

(* Each part of the invariant is kept by every step: the types.            *)
LEMMA TypesKept ==
  ASSUME IInv, [Next]_vars
  PROVE  Types'
<1>1. CASE \E w \in Writers : Write(w)
  BY <1>1, TypesKeptWriting
<1>2. CASE PowerLoss
  <2>1. data' \in Contents
    BY <1>2 DEF PowerLoss, IInv, Types, Contents
  <2>2. op' \in Operations
    BY <1>2 DEF PowerLoss, Operations, NoWrite, Pcs, MaybeInodes, Initial
  <2>3. tmp' \in TempNames /\ reader' \in Readers /\ verdict' \in Verdicts
    BY <1>2 DEF PowerLoss, IInv, Types, TempNames, Readers, Verdicts, NoRead, NoVerdict,
      MaybeInodes
  <2>4. leaf' \in MaybeInodes /\ shadows' \in SUBSET MaybeInodes /\ litter' \in SUBSET Inodes
    BY <1>2, NamesAreInodes DEF PowerLoss, IInv, Types, MaybeInodes
  <2> QED BY <1>2, <2>1, <2>2, <2>3, <2>4 DEF PowerLoss, IInv, Types
<1>3. CASE LookUp
  BY <1>3 DEF LookUp, Undisturbed, IInv, Types, Readers, NoRead
<1>4. CASE OpenFound
  BY <1>4 DEF OpenFound, Undisturbed, IInv, Types, Readers, NoRead
<1>5. CASE ReadRefused
  BY <1>5 DEF ReadRefused, Undisturbed, NoRead, IInv, Types, Readers, MaybeInodes
<1>6. CASE ReadDone
  BY <1>6 DEF ReadDone, Undisturbed, NoRead, IInv, Types, Readers, MaybeInodes
<1>7. CASE UNCHANGED vars
  BY <1>7 DEF vars, IInv, Types, NoRead
<1> QED BY <1>1, <1>2, <1>3, <1>4, <1>5, <1>6, <1>7 DEF Next

(* What the beginning of a write does to each writer.                      *)
Beginning(w) ==
  /\ op[w].pc = "idle" /\ op'[w].pc = "found"
  /\ op'[w].value = writes + 1 /\ op'[w].found = leaf /\ op'[w].own = Absent
  /\ op'[w].saw = IF leaf = Absent THEN -1 ELSE data[leaf].value
  /\ op'[w].durable = FALSE /\ op'[w].fooled = FALSE
  /\ op'[w].alone = TRUE => \A v \in Writers \ {w} : op[v].pc = "idle"
  /\ \A v \in Writers \ {w} :
       /\ op'[v].pc = op[v].pc /\ op'[v].value = op[v].value
       /\ op'[v].found = op[v].found /\ op'[v].saw = op[v].saw /\ op'[v].own = op[v].own
       /\ op'[v].durable = op[v].durable /\ op'[v].fooled = op[v].fooled
       /\ op'[v].alone = FALSE
  /\ UNCHANGED << leaf, tmp, litter, data, shadows, reader, acked, verdict >>
  /\ writes' = writes + 1

(* What the first step of a write changes, field by field.                 *)
LEMMA Begun ==
  ASSUME Types, NEW w \in Writers, Begin(w)
  PROVE  Beginning(w)
<1>1. op'[w] = [NoWrite EXCEPT !.pc = "found", !.value = writes + 1, !.found = leaf,
                  !.alone = (\A v \in Writers \ {w} : At(v, "idle")),
                  !.saw = IF leaf = Absent THEN -1 ELSE data[leaf].value]
  BY DEF Begin
<1>2. /\ op'[w].pc = "found" /\ op'[w].value = writes + 1 /\ op'[w].found = leaf
      /\ op'[w].own = Absent
      /\ op'[w].saw = IF leaf = Absent THEN -1 ELSE data[leaf].value
      /\ op'[w].durable = FALSE /\ op'[w].fooled = FALSE
  BY <1>1 DEF NoWrite
<1>3. op'[w].alone = TRUE => \A v \in Writers \ {w} : op[v].pc = "idle"
  BY <1>1 DEF At
<1>4. ASSUME NEW v \in Writers \ {w}
      PROVE  /\ op'[v].pc = op[v].pc /\ op'[v].value = op[v].value
             /\ op'[v].found = op[v].found /\ op'[v].saw = op[v].saw /\ op'[v].own = op[v].own
             /\ op'[v].durable = op[v].durable /\ op'[v].fooled = op[v].fooled
             /\ op'[v].alone = FALSE
  <2>1. op'[v] = [op[v] EXCEPT !.alone = FALSE]
    BY <1>4 DEF Begin
  <2>2. op[v] \in [pc : Pcs, value : Nat, found : MaybeInodes, saw : Int, own : MaybeInodes,
                   alone : BOOLEAN, durable : BOOLEAN, fooled : BOOLEAN]
    BY <1>4, Typing
  <2> QED BY <2>1, <2>2
<1> QED BY <1>2, <1>3, <1>4 DEF Begin, At, Beginning

(* What a new temporary leaf does to each writer.                          *)
Making(w, i) ==
  /\ op[w].pc = "found" /\ op'[w].pc = "open" /\ op'[w].own = i
  /\ op'[w].value = op[w].value /\ op'[w].found = op[w].found /\ op'[w].saw = op[w].saw
  /\ op'[w].alone = op[w].alone /\ op'[w].durable = op[w].durable
  /\ op'[w].fooled = op[w].fooled
  /\ \A v \in Writers \ {w} :
       /\ op'[v].pc = op[v].pc /\ op'[v].value = op[v].value
       /\ op'[v].found = op[v].found /\ op'[v].saw = op[v].saw /\ op'[v].own = op[v].own
       /\ op'[v].durable = op[v].durable /\ op'[v].alone = op[v].alone
       /\ op'[v].fooled = FALSE =>
            op[v].fooled = FALSE /\ (op[v].pc = "idle" \/ op[v].found # i)
  /\ tmp' = [tmp EXCEPT ![w] = i]
  /\ i \notin Linked /\ i \notin Opened
  /\ data'[i].value = op[w].value
  /\ \A j \in Inodes \ {i} : data'[j] = data[j]
  /\ UNCHANGED << leaf, shadows, verdict, litter, reader, writes, acked >>

(* What creating the temporary file changes.                               *)
LEMMA LeafMade ==
  ASSUME Types, NEW w \in Writers, NEW i \in Inodes, NewTempLeaf(w, i)
  PROVE  Making(w, i)
<1>1. op'[w] = [op[w] EXCEPT !.pc = "open", !.own = i]
  BY DEF NewTempLeaf
<1>2. op[w] \in [pc : Pcs, value : Nat, found : MaybeInodes, saw : Int, own : MaybeInodes,
                 alone : BOOLEAN, durable : BOOLEAN, fooled : BOOLEAN]
  BY Typing
<1>3. /\ op'[w].pc = "open" /\ op'[w].own = i
      /\ op'[w].value = op[w].value /\ op'[w].found = op[w].found /\ op'[w].saw = op[w].saw
      /\ op'[w].alone = op[w].alone /\ op'[w].durable = op[w].durable
      /\ op'[w].fooled = op[w].fooled
  BY <1>1, <1>2
<1>4. ASSUME NEW v \in Writers \ {w}
      PROVE  /\ op'[v].pc = op[v].pc /\ op'[v].value = op[v].value
             /\ op'[v].found = op[v].found /\ op'[v].saw = op[v].saw /\ op'[v].own = op[v].own
             /\ op'[v].durable = op[v].durable /\ op'[v].alone = op[v].alone
             /\ op'[v].fooled = FALSE =>
                  op[v].fooled = FALSE /\ (op[v].pc = "idle" \/ op[v].found # i)
  <2>1. op'[v] = [op[v] EXCEPT !.fooled = @ \/ (op[v].pc # "idle" /\ op[v].found = i)]
    BY <1>4 DEF NewTempLeaf
  <2>2. op[v] \in [pc : Pcs, value : Nat, found : MaybeInodes, saw : Int, own : MaybeInodes,
                   alone : BOOLEAN, durable : BOOLEAN, fooled : BOOLEAN]
    BY <1>4, Typing
  <2> QED BY <2>1, <2>2
<1>5. data'[i].value = op[w].value /\ \A j \in Inodes \ {i} : data'[j] = data[j]
  BY DEF NewTempLeaf, Types, Contents, Blank
<1> QED BY <1>3, <1>4, <1>5 DEF NewTempLeaf, At, SameName, Making

(* Names stay apart: an exchange swaps two, and a new leaf is one that nothing names. *)
LEMMA ApartKeptWriting ==
  ASSUME IInv, NEW w \in Writers, Write(w)
  PROVE  Apart'
<1>1. CASE Begin(w)
  BY <1>1 DEF Begin, At, IInv, Types, Apart
<1>2. CASE \E i \in Inodes : NewTempLeaf(w, i)
  BY <1>2 DEF NewTempLeaf, SameName, Blank, Linked, At, IInv, Types, Apart
<1>3. CASE WriteBytes(w)
  BY <1>3 DEF WriteBytes, At, Goto, SameName, Quiet, IInv, Types, Apart
<1>4. CASE SyncFile(w)
  BY <1>4 DEF SyncFile, At, Goto, SameName, Quiet, IInv, Types, Apart
<1>5. CASE ProveDestination(w)
  BY <1>5 DEF ProveDestination, At, Goto, SameName, Quiet, IInv, Types, Apart
<1>6. CASE PublishNew(w)
  BY <1>6 DEF PublishNew, Renamed, At, Goto, Quiet, IInv, Types, TempNames, Apart,
    Holding, Filling
<1>7. CASE PublishOver(w)
  BY <1>7 DEF PublishOver, Exchange, Renamed, At, Goto, Quiet, IInv, Types, TempNames,
    Apart
<1>8. CASE SwapBack(w)
  BY <1>8 DEF SwapBack, Exchange, Renamed, At, Goto, Quiet, IInv, Types, TempNames,
    Apart
<1>9. CASE Exchanged(w)
  BY <1>9 DEF Exchanged, At, Goto, SameName, Quiet, IInv, Types, Apart
<1>10. CASE ProvePublished(w)
  BY <1>10 DEF ProvePublished, At, Goto, SameName, Quiet, IInv, Types, Apart
<1>11. CASE SyncDirectory(w)
  BY <1>11 DEF SyncDirectory, At, Quiet, IInv, Types, Apart
<1>12. CASE UnlinkReplaced(w)
  BY <1>12 DEF UnlinkReplaced, At, Goto, SameName, Quiet, IInv, Types, Apart
<1>13. CASE Acknowledge(w)
  BY <1>13 DEF Acknowledge, Report, At, IInv, Types, Apart
<1>14. CASE RefuseEarly(w)
  BY <1>14 DEF RefuseEarly, Raise, Abandoned, At, IInv, Types, TempNames, Apart
<1>15. CASE SwapBackFails(w)
  BY <1>15 DEF SwapBackFails, Raise, Abandoned, At, IInv, Types, TempNames, Apart
<1>16. CASE BeginRollBack(w)
  BY <1>16 DEF BeginRollBack, Goto, SameName, Quiet, IInv, Types, Apart
<1>17. CASE RollBackRefused(w)
  BY <1>17 DEF RollBackRefused, Raise, Abandoned, At, IInv, Types, TempNames, Apart
<1>18. CASE RollBackReplaced(w)
  BY <1>18 DEF RollBackReplaced, Exchange, Renamed, At, Goto, Quiet, IInv, Types,
    TempNames, Apart
<1>19. CASE RollBackCreated(w)
  BY <1>19, FilesAssumption DEF RollBackCreated, Renamed, At, Goto, Quiet, IInv, Types,
    Apart
<1>20. CASE PutBack(w)
  BY <1>20 DEF PutBack, Renamed, SameName, At, IInv, Types, TempNames, Apart
<1>21. CASE RolledBack(w)
  BY <1>21 DEF RolledBack, Abandoned, At, IInv, Types, TempNames, Apart
<1>22. CASE FailLate(w)
  BY <1>22 DEF FailLate, Raise, Abandoned, At, IInv, Types, TempNames, Apart
<1>23. CASE Kill(w)
  BY <1>23 DEF Kill, Abandoned, At, IInv, Types, TempNames, Apart
<1> QED BY <1>1, <1>2, <1>3, <1>4, <1>5, <1>6, <1>7, <1>8, <1>9, <1>10, <1>11, <1>12,
  <1>13, <1>14, <1>15, <1>16, <1>17, <1>18, <1>19, <1>20, <1>21, <1>22, <1>23 DEF Write

(* No two names lead to one inode.                                         *)
LEMMA ApartKept ==
  ASSUME IInv, [Next]_vars
  PROVE  Apart'
<1>1. CASE \E w \in Writers : Write(w)
  BY <1>1, ApartKeptWriting
<1>2. CASE PowerLoss
  BY <1>2 DEF PowerLoss, NoRead, IInv, Types, Apart
<1>3. CASE LookUp
  BY <1>3 DEF LookUp, Undisturbed, IInv, Types, Apart
<1>4. CASE OpenFound
  BY <1>4 DEF OpenFound, Undisturbed, IInv, Types, Apart
<1>5. CASE ReadRefused
  BY <1>5 DEF ReadRefused, Undisturbed, NoRead, IInv, Types, Apart
<1>6. CASE ReadDone
  BY <1>6 DEF ReadDone, Undisturbed, NoRead, IInv, Types, Apart
<1>7. CASE UNCHANGED vars
  BY <1>7 DEF vars, IInv, Types, Apart
<1> QED BY <1>1, <1>2, <1>3, <1>4, <1>5, <1>6, <1>7 DEF Next

(* A temporary name holds what its stage says. *)
LEMMA HoldingKeptWriting ==
  ASSUME IInv, NEW w \in Writers, Write(w)
  PROVE  Holding'
<1>1. CASE Begin(w)
  <2>1. Beginning(w) /\ Types
    BY <1>1, Begun DEF IInv
  <2> QED BY <2>1 DEF Beginning, IInv, Holding, Showing
<1>2. CASE \E i \in Inodes : NewTempLeaf(w, i)
  BY <1>2 DEF NewTempLeaf, SameName, Blank, Linked, At, IInv, Types, TempNames, Holding,
    Showing
<1>3. CASE WriteBytes(w)
  BY <1>3 DEF WriteBytes, At, Goto, SameName, Quiet, IInv, Types, Holding, Filling,
    Showing
<1>4. CASE SyncFile(w)
  BY <1>4 DEF SyncFile, At, Goto, SameName, Quiet, IInv, Types, Holding, Filling,
    Showing
<1>5. CASE ProveDestination(w)
  BY <1>5 DEF ProveDestination, At, Goto, SameName, Quiet, IInv, Types, Holding,
    Filling, Showing
<1>6. CASE PublishNew(w)
  BY <1>6 DEF PublishNew, Renamed, At, Goto, Quiet, IInv, Types, TempNames, Operations,
    Holding, Filling
<1>7. CASE PublishOver(w)
  BY <1>7 DEF PublishOver, Exchange, Renamed, At, Goto, Quiet, IInv, Types, Operations,
    Holding, Filling, Showing
<1>8. CASE SwapBack(w)
  BY <1>8 DEF SwapBack, Exchange, Renamed, At, Goto, Quiet, IInv, Types, Holding,
    Filling, Showing
<1>9. CASE Exchanged(w)
  BY <1>9 DEF Exchanged, At, Goto, SameName, Quiet, IInv, Types, Holding, Filling
<1>10. CASE ProvePublished(w)
  BY <1>10 DEF ProvePublished, At, Goto, SameName, Quiet, IInv, Types, Holding, Filling,
    Showing
<1>11. CASE SyncDirectory(w)
  BY <1>11 DEF SyncDirectory, At, Quiet, IInv, Types, Operations, Holding, Filling,
    Showing
<1>12. CASE UnlinkReplaced(w)
  BY <1>12 DEF UnlinkReplaced, At, Goto, SameName, Quiet, IInv, Types, TempNames,
    Operations, Holding, Filling, Showing
<1>13. CASE Acknowledge(w)
  BY <1>13 DEF Acknowledge, Report, NoWrite, At, IInv, Types, Holding
<1>14. CASE RefuseEarly(w)
  BY <1>14 DEF RefuseEarly, Raise, Abandoned, NoWrite, At, IInv, Types, TempNames,
    Operations, Holding
<1>15. CASE SwapBackFails(w)
  BY <1>15 DEF SwapBackFails, Raise, Abandoned, NoWrite, At, IInv, Types, TempNames,
    Operations, Holding
<1>16. CASE BeginRollBack(w)
  BY <1>16 DEF BeginRollBack, Goto, SameName, Quiet, IInv, Types, Holding, Filling
<1>17. CASE RollBackRefused(w)
  BY <1>17 DEF RollBackRefused, Raise, Abandoned, NoWrite, At, IInv, Types, TempNames,
    Operations, Holding
<1>18. CASE RollBackReplaced(w)
  BY <1>18 DEF RollBackReplaced, Exchange, Renamed, At, Goto, Quiet, IInv, Types,
    Operations, Holding, Filling, Showing
<1>19. CASE RollBackCreated(w)
  BY <1>19 DEF RollBackCreated, Renamed, At, Goto, Quiet, IInv, Types, TempNames,
    Operations, Holding, Filling, Showing
<1>20. CASE PutBack(w)
  BY <1>20 DEF PutBack, Renamed, SameName, NoWrite, At, IInv, Types, TempNames,
    Operations, Holding
<1>21. CASE RolledBack(w)
  BY <1>21 DEF RolledBack, Abandoned, NoWrite, At, IInv, Types, TempNames, Operations,
    Holding
<1>22. CASE FailLate(w)
  BY <1>22 DEF FailLate, Raise, Abandoned, NoWrite, At, IInv, Types, TempNames,
    Operations, Holding
<1>23. CASE Kill(w)
  BY <1>23 DEF Kill, Abandoned, NoWrite, At, IInv, Types, TempNames, Operations, Holding
<1> QED BY <1>1, <1>2, <1>3, <1>4, <1>5, <1>6, <1>7, <1>8, <1>9, <1>10, <1>11, <1>12,
  <1>13, <1>14, <1>15, <1>16, <1>17, <1>18, <1>19, <1>20, <1>21, <1>22, <1>23 DEF Write

(* What each stage of a write holds.                                       *)
LEMMA HoldingKept ==
  ASSUME IInv, [Next]_vars
  PROVE  Holding'
<1>1. CASE \E w \in Writers : Write(w)
  BY <1>1, HoldingKeptWriting
<1>2. CASE PowerLoss
  BY <1>2 DEF PowerLoss, NoWrite, NoRead, IInv, Types, Holding
<1>3. CASE LookUp
  BY <1>3 DEF LookUp, Undisturbed, IInv, Types, Holding
<1>4. CASE OpenFound
  BY <1>4 DEF OpenFound, Undisturbed, IInv, Types, Holding
<1>5. CASE ReadRefused
  BY <1>5 DEF ReadRefused, Undisturbed, NoRead, IInv, Types, Holding
<1>6. CASE ReadDone
  BY <1>6 DEF ReadDone, Undisturbed, NoRead, IInv, Types, Holding
<1>7. CASE UNCHANGED vars
  BY <1>7 DEF vars, IInv, Types, Holding
<1> QED BY <1>1, <1>2, <1>3, <1>4, <1>5, <1>6, <1>7 DEF Next

(* What the name may stand for is synced before it gets there. *)
LEMMA SoundKeptWriting ==
  ASSUME IInv, NEW w \in Writers, Write(w)
  PROVE  Sound'
<1>1. CASE Begin(w)
  <2>1. Beginning(w) /\ Types
    BY <1>1, Begun DEF IInv
  <2> QED BY <2>1 DEF Beginning, IInv, Sound, Solid, Opened
<1>2. CASE \E i \in Inodes : NewTempLeaf(w, i)
  BY <1>2 DEF NewTempLeaf, SameName, Blank, Linked, Opened, At, IInv, Types, Sound,
    Solid
<1>3. CASE WriteBytes(w)
  BY <1>3 DEF WriteBytes, At, Goto, SameName, Quiet, IInv, Types, TempNames,
    MaybeInodes, Holding, Filling, Sound, Solid, Opened, Contents
<1>4. CASE SyncFile(w)
  BY <1>4 DEF SyncFile, At, Goto, SameName, Quiet, IInv, Types, TempNames, MaybeInodes,
    Holding, Filling, Sound, Solid, Opened, Contents
<1>5. CASE ProveDestination(w)
  BY <1>5 DEF ProveDestination, At, Goto, SameName, Quiet, IInv, Types, Sound, Solid,
    Opened
<1>6. CASE PublishNew(w)
  BY <1>6 DEF PublishNew, Renamed, At, Goto, Quiet, IInv, Types, Holding, Filling,
    Sound, Solid, Opened
<1>7. CASE PublishOver(w)
  BY <1>7 DEF PublishOver, Exchange, Renamed, At, Goto, Quiet, IInv, Types, Sound,
    Solid, Opened
<1>8. CASE SwapBack(w)
  BY <1>8 DEF SwapBack, Exchange, Renamed, At, Goto, Quiet, IInv, Types, Sound, Solid,
    Opened
<1>9. CASE Exchanged(w)
  BY <1>9 DEF Exchanged, At, Goto, SameName, Quiet, IInv, Types, Sound, Solid, Opened
<1>10. CASE ProvePublished(w)
  BY <1>10 DEF ProvePublished, At, Goto, SameName, Quiet, IInv, Types, Sound, Solid,
    Opened
<1>11. CASE SyncDirectory(w)
  BY <1>11 DEF SyncDirectory, At, Quiet, IInv, Types, Operations, Sound, Solid, Opened
<1>12. CASE UnlinkReplaced(w)
  BY <1>12 DEF UnlinkReplaced, At, Goto, SameName, Quiet, IInv, Types, Sound, Solid,
    Opened
<1>13. CASE Acknowledge(w)
  BY <1>13 DEF Acknowledge, Report, NoWrite, At, IInv, Types, Sound, Solid, Opened
<1>14. CASE RefuseEarly(w)
  BY <1>14 DEF RefuseEarly, Raise, Abandoned, NoWrite, At, IInv, Types, Operations,
    Sound, Solid, Opened
<1>15. CASE SwapBackFails(w)
  BY <1>15 DEF SwapBackFails, Raise, Abandoned, NoWrite, At, IInv, Types, Sound, Solid,
    Opened
<1>16. CASE BeginRollBack(w)
  BY <1>16 DEF BeginRollBack, Goto, SameName, Quiet, IInv, Types, Sound, Solid, Opened
<1>17. CASE RollBackRefused(w)
  BY <1>17 DEF RollBackRefused, Raise, Abandoned, NoWrite, At, IInv, Types, Sound,
    Solid, Opened
<1>18. CASE RollBackReplaced(w)
  BY <1>18 DEF RollBackReplaced, Exchange, Renamed, At, Goto, Quiet, IInv, Types, Sound,
    Solid, Opened
<1>19. CASE RollBackCreated(w)
  BY <1>19 DEF RollBackCreated, Renamed, At, Goto, Quiet, IInv, Types, Sound, Solid,
    Opened
<1>20. CASE PutBack(w)
  BY <1>20 DEF PutBack, Renamed, SameName, NoWrite, At, IInv, Types, Sound, Solid,
    Opened
<1>21. CASE RolledBack(w)
  BY <1>21 DEF RolledBack, Abandoned, NoWrite, At, IInv, Types, Sound, Solid, Opened
<1>22. CASE FailLate(w)
  BY <1>22 DEF FailLate, Raise, Abandoned, NoWrite, At, IInv, Types, Sound, Solid,
    Opened
<1>23. CASE Kill(w)
  BY <1>23 DEF Kill, Abandoned, NoWrite, At, IInv, Types, Operations, Sound, Solid,
    Opened
<1> QED BY <1>1, <1>2, <1>3, <1>4, <1>5, <1>6, <1>7, <1>8, <1>9, <1>10, <1>11, <1>12,
  <1>13, <1>14, <1>15, <1>16, <1>17, <1>18, <1>19, <1>20, <1>21, <1>22, <1>23 DEF Write

(* What can be found under a name is whole, and durable where it must be.  *)
LEMMA SoundKept ==
  ASSUME IInv, [Next]_vars
  PROVE  Sound'
<1>1. CASE \E w \in Writers : Write(w)
  BY <1>1, SoundKeptWriting
<1>2. CASE PowerLoss
  BY <1>2 DEF PowerLoss, NoWrite, NoRead, IInv, Types, MaybeInodes, Sound, Solid,
    Opened, Contents
<1>3. CASE LookUp
  BY <1>3 DEF LookUp, Undisturbed, IInv, Types, Sound, Solid, Opened
<1>4. CASE OpenFound
  BY <1>4 DEF OpenFound, Undisturbed, IInv, Types, Sound, Solid, Opened
<1>5. CASE ReadRefused
  BY <1>5 DEF ReadRefused, Undisturbed, NoRead, IInv, Types, Sound, Solid, Opened
<1>6. CASE ReadDone
  BY <1>6 DEF ReadDone, Undisturbed, NoRead, IInv, Types, Sound, Solid, Opened
<1>7. CASE UNCHANGED vars
  BY <1>7 DEF vars, IInv, Types, Sound, Solid, Opened
<1> QED BY <1>1, <1>2, <1>3, <1>4, <1>5, <1>6, <1>7 DEF Next

(* A writer that has met no other knows the name. *)
LEMMA LoneKeptWriting ==
  ASSUME IInv, NEW w \in Writers, Write(w)
  PROVE  Lone'
<1>1. CASE Begin(w)
  <2>1. Beginning(w) /\ Types
    BY <1>1, Begun DEF IInv
  <2> QED BY <2>1 DEF Beginning, IInv, Lone, Showing
<1>2. CASE \E i \in Inodes : NewTempLeaf(w, i)
  <2>1. PICK i \in Inodes : NewTempLeaf(w, i)
    BY <1>2
  <2>2. Making(w, i) /\ tmp \in TempNames
    BY <2>1, LeafMade DEF IInv, Types
  <2> QED BY <2>2 DEF Making, IInv, Lone, Showing
<1>3. CASE WriteBytes(w)
  BY <1>3 DEF WriteBytes, At, Goto, SameName, Quiet, IInv, Types, Filling, Showing, Lone
<1>4. CASE SyncFile(w)
  BY <1>4 DEF SyncFile, At, Goto, SameName, Quiet, IInv, Types, Filling, Showing, Lone
<1>5. CASE ProveDestination(w)
  BY <1>5 DEF ProveDestination, At, Goto, SameName, Quiet, IInv, Types, Showing, Lone
<1>6. CASE PublishNew(w)
  BY <1>6 DEF PublishNew, Renamed, At, Goto, Quiet, IInv, Types, Operations, Filling,
    Lone
<1>7. CASE PublishOver(w)
  BY <1>7 DEF PublishOver, Exchange, Renamed, At, Goto, Quiet, IInv, Types, TempNames,
    Operations, Holding, Filling, Lone
<1>8. CASE SwapBack(w)
  BY <1>8 DEF SwapBack, Exchange, Renamed, At, Goto, Quiet, IInv, Types, Lone
<1>9. CASE Exchanged(w)
  BY <1>9 DEF Exchanged, At, Goto, SameName, Quiet, IInv, Types, Filling, Lone
<1>10. CASE ProvePublished(w)
  BY <1>10 DEF ProvePublished, At, Goto, SameName, Quiet, IInv, Types, Filling, Lone
<1>11. CASE SyncDirectory(w)
  BY <1>11 DEF SyncDirectory, At, Quiet, IInv, Types, Operations, Filling, Showing, Lone
<1>12. CASE UnlinkReplaced(w)
  BY <1>12 DEF UnlinkReplaced, At, Goto, SameName, Quiet, IInv, Types, Filling, Showing,
    Lone
<1>13. CASE Acknowledge(w)
  BY <1>13 DEF Acknowledge, Report, NoWrite, At, IInv, Types, Lone
<1>14. CASE RefuseEarly(w)
  BY <1>14 DEF RefuseEarly, Raise, Abandoned, NoWrite, At, IInv, Types, Lone
<1>15. CASE SwapBackFails(w)
  BY <1>15 DEF SwapBackFails, Raise, Abandoned, NoWrite, At, IInv, Types, Lone
<1>16. CASE BeginRollBack(w)
  BY <1>16 DEF BeginRollBack, Goto, SameName, Quiet, IInv, Types, Filling, Lone
<1>17. CASE RollBackRefused(w)
  BY <1>17 DEF RollBackRefused, Raise, Abandoned, NoWrite, At, IInv, Types, Lone
<1>18. CASE RollBackReplaced(w)
  BY <1>18 DEF RollBackReplaced, Exchange, Renamed, At, Goto, Quiet, IInv, Types,
    Operations, Holding, Showing, Lone
<1>19. CASE RollBackCreated(w)
  BY <1>19 DEF RollBackCreated, Renamed, At, Goto, Quiet, IInv, Types, Operations,
    Showing, Lone
<1>20. CASE PutBack(w)
  BY <1>20 DEF PutBack, Renamed, SameName, NoWrite, At, IInv, Types, Lone
<1>21. CASE RolledBack(w)
  BY <1>21 DEF RolledBack, Abandoned, NoWrite, At, IInv, Types, Lone
<1>22. CASE FailLate(w)
  BY <1>22 DEF FailLate, Raise, Abandoned, NoWrite, At, IInv, Types, Lone
<1>23. CASE Kill(w)
  BY <1>23 DEF Kill, Abandoned, NoWrite, At, IInv, Types, Operations, Lone
<1> QED BY <1>1, <1>2, <1>3, <1>4, <1>5, <1>6, <1>7, <1>8, <1>9, <1>10, <1>11, <1>12,
  <1>13, <1>14, <1>15, <1>16, <1>17, <1>18, <1>19, <1>20, <1>21, <1>22, <1>23 DEF Write

(* A writer that has met no other knows what the name stands for.          *)
LEMMA LoneKept ==
  ASSUME IInv, [Next]_vars
  PROVE  Lone'
<1>1. CASE \E w \in Writers : Write(w)
  BY <1>1, LoneKeptWriting
<1>2. CASE PowerLoss
  BY <1>2 DEF PowerLoss, NoWrite, NoRead, IInv, Types, Lone
<1>3. CASE LookUp
  BY <1>3 DEF LookUp, Undisturbed, IInv, Types, Lone
<1>4. CASE OpenFound
  BY <1>4 DEF OpenFound, Undisturbed, IInv, Types, Lone
<1>5. CASE ReadRefused
  BY <1>5 DEF ReadRefused, Undisturbed, NoRead, IInv, Types, Lone
<1>6. CASE ReadDone
  BY <1>6 DEF ReadDone, Undisturbed, NoRead, IInv, Types, Lone
<1>7. CASE UNCHANGED vars
  BY <1>7 DEF vars, IInv, Types, Lone
<1> QED BY <1>1, <1>2, <1>3, <1>4, <1>5, <1>6, <1>7 DEF Next

(* What is reported is true until the name changes. *)
LEMMA ReportKeptWriting ==
  ASSUME IInv, NEW w \in Writers, Write(w)
  PROVE  ReportIsTrue'
<1>1. CASE Begin(w)
  BY <1>1 DEF Begin, At, IInv, Types, ReportIsTrue
<1>2. CASE \E i \in Inodes : NewTempLeaf(w, i)
  BY <1>2 DEF NewTempLeaf, SameName, Blank, At, IInv, Types, ReportIsTrue
<1>3. CASE WriteBytes(w)
  BY <1>3 DEF WriteBytes, At, Goto, SameName, Quiet, IInv, Types, ReportIsTrue
<1>4. CASE SyncFile(w)
  BY <1>4 DEF SyncFile, At, Goto, SameName, Quiet, IInv, Types, ReportIsTrue
<1>5. CASE ProveDestination(w)
  BY <1>5 DEF ProveDestination, At, Goto, SameName, Quiet, IInv, Types, ReportIsTrue
<1>6. CASE PublishNew(w)
  BY <1>6 DEF PublishNew, Renamed, At, Goto, Quiet, IInv, Types, ReportIsTrue, NoVerdict
<1>7. CASE PublishOver(w)
  BY <1>7 DEF PublishOver, Exchange, Renamed, At, Goto, Quiet, IInv, Types,
    ReportIsTrue, NoVerdict
<1>8. CASE SwapBack(w)
  BY <1>8 DEF SwapBack, Exchange, Renamed, At, Goto, Quiet, IInv, Types, ReportIsTrue,
    NoVerdict
<1>9. CASE Exchanged(w)
  BY <1>9 DEF Exchanged, At, Goto, SameName, Quiet, IInv, Types, ReportIsTrue
<1>10. CASE ProvePublished(w)
  BY <1>10 DEF ProvePublished, At, Goto, SameName, Quiet, IInv, Types, ReportIsTrue
<1>11. CASE SyncDirectory(w)
  BY <1>11 DEF SyncDirectory, At, Quiet, IInv, Types, ReportIsTrue
<1>12. CASE UnlinkReplaced(w)
  BY <1>12 DEF UnlinkReplaced, At, Goto, SameName, Quiet, IInv, Types, ReportIsTrue
<1>13. CASE Acknowledge(w)
  BY <1>13 DEF Acknowledge, Report, At, IInv, Types, Lone, ReportIsTrue
<1>14. CASE RefuseEarly(w)
  BY <1>14 DEF RefuseEarly, Raise, Abandoned, At, IInv, Types, Filling, Lone,
    ReportIsTrue
<1>15. CASE SwapBackFails(w)
  BY <1>15 DEF SwapBackFails, Raise, Abandoned, At, IInv, Types, Lone, ReportIsTrue
<1>16. CASE BeginRollBack(w)
  BY <1>16 DEF BeginRollBack, Goto, SameName, Quiet, IInv, Types, ReportIsTrue
<1>17. CASE RollBackRefused(w)
  BY <1>17 DEF RollBackRefused, Raise, Abandoned, At, IInv, Types, Holding, Showing,
    Lone, ReportIsTrue
<1>18. CASE RollBackReplaced(w)
  BY <1>18 DEF RollBackReplaced, Exchange, Renamed, At, Goto, Quiet, IInv, Types,
    ReportIsTrue, NoVerdict
<1>19. CASE RollBackCreated(w)
  BY <1>19 DEF RollBackCreated, Renamed, At, Goto, Quiet, IInv, Types, ReportIsTrue,
    NoVerdict
<1>20. CASE PutBack(w)
  BY <1>20 DEF PutBack, Renamed, SameName, At, IInv, Types, ReportIsTrue, NoVerdict
<1>21. CASE RolledBack(w)
  BY <1>21 DEF RolledBack, Abandoned, At, IInv, Types, Lone, ReportIsTrue
<1>22. CASE FailLate(w)
  BY <1>22 DEF FailLate, Raise, Abandoned, At, IInv, Types, Holding, ReportIsTrue
<1>23. CASE Kill(w)
  BY <1>23 DEF Kill, Abandoned, At, IInv, Types, ReportIsTrue
<1> QED BY <1>1, <1>2, <1>3, <1>4, <1>5, <1>6, <1>7, <1>8, <1>9, <1>10, <1>11, <1>12,
  <1>13, <1>14, <1>15, <1>16, <1>17, <1>18, <1>19, <1>20, <1>21, <1>22, <1>23 DEF Write

(* A report speaks of the file it left.                                    *)
LEMMA ReportKept ==
  ASSUME IInv, [Next]_vars
  PROVE  ReportIsTrue'
<1>1. CASE \E w \in Writers : Write(w)
  BY <1>1, ReportKeptWriting
<1>2. CASE PowerLoss
  BY <1>2 DEF PowerLoss, NoRead, NoVerdict, IInv, Types, ReportIsTrue
<1>3. CASE LookUp
  BY <1>3 DEF LookUp, Undisturbed, IInv, Types, ReportIsTrue
<1>4. CASE OpenFound
  BY <1>4 DEF OpenFound, Undisturbed, IInv, Types, ReportIsTrue
<1>5. CASE ReadRefused
  BY <1>5 DEF ReadRefused, Undisturbed, NoRead, IInv, Types, ReportIsTrue
<1>6. CASE ReadDone
  BY <1>6 DEF ReadDone, Undisturbed, NoRead, IInv, Types, ReportIsTrue
<1>7. CASE UNCHANGED vars
  BY <1>7 DEF vars, IInv, Types, ReportIsTrue
<1> QED BY <1>1, <1>2, <1>3, <1>4, <1>5, <1>6, <1>7 DEF Next

(* A write is in one inode. *)
LEMMA NumberedKeptWriting ==
  ASSUME IInv, NEW w \in Writers, Write(w)
  PROVE  Numbered'
<1>1. CASE Begin(w)
  <2>1. Beginning(w) /\ Types
    BY <1>1, Begun DEF IInv
  <2> QED BY <2>1 DEF Beginning, IInv, Numbered, Types, Contents, Operations,
    Acknowledgements, MaybeInodes
<1>2. CASE \E i \in Inodes : NewTempLeaf(w, i)
  <2>1. PICK i \in Inodes : NewTempLeaf(w, i)
    BY <1>2
  <2>2. Making(w, i) /\ Types
    BY <2>1, LeafMade DEF IInv
  <2>3. /\ \A j \in Inodes : data'[j].value <= writes
        /\ \A j, k \in Inodes : data'[j].value = data'[k].value /\ data'[j].value >= 0 => j = k
    BY <2>2 DEF Making, IInv, Numbered
  <2>4. \A v \in Writers :
          /\ op'[v].value = op[v].value /\ op'[v].saw = op[v].saw
          /\ op'[v].pc = "found" => v # w /\ op[v].pc = "found"
    BY <2>2 DEF Making
  <2>5. \A v \in Writers :
          /\ op'[v].value <= writes /\ op'[v].saw <= writes
          /\ op'[v].pc = "found" =>
               /\ op'[v].value > 0
               /\ \A j \in Inodes : data'[j].value # op'[v].value
               /\ \A a \in acked : a.saw # op'[v].value
               /\ \A u \in Writers : op'[u].saw # op'[v].value
               /\ \A u \in Writers \ {v} : op'[u].pc = "found" => op'[u].value # op'[v].value
    <3> SUFFICES ASSUME NEW v \in Writers
                 PROVE  /\ op'[v].value <= writes /\ op'[v].saw <= writes
                        /\ op'[v].pc = "found" =>
                             /\ op'[v].value > 0
                             /\ \A j \in Inodes : data'[j].value # op'[v].value
                             /\ \A a \in acked : a.saw # op'[v].value
                             /\ \A u \in Writers : op'[u].saw # op'[v].value
                             /\ \A u \in Writers \ {v} :
                                  op'[u].pc = "found" => op'[u].value # op'[v].value
      OBVIOUS
    <3>1. CASE op'[v].pc # "found"
      BY <2>4, <3>1 DEF IInv, Numbered
    <3>2. CASE op'[v].pc = "found"
      <4>1. \A j \in Inodes : data'[j].value # op'[v].value
        BY <2>2, <2>4, <3>2 DEF Making, IInv, Numbered
      <4> QED BY <2>4, <3>2, <4>1 DEF IInv, Numbered
    <3> QED BY <3>1, <3>2
  <2> QED BY <2>2, <2>3, <2>5 DEF Making, IInv, Numbered
<1>3. CASE WriteBytes(w)
  BY <1>3 DEF WriteBytes, At, Goto, SameName, Quiet, IInv, Types, Numbered
<1>4. CASE SyncFile(w)
  BY <1>4 DEF SyncFile, At, Goto, SameName, Quiet, IInv, Types, Numbered
<1>5. CASE ProveDestination(w)
  BY <1>5 DEF ProveDestination, At, Goto, SameName, Quiet, IInv, Types, Numbered
<1>6. CASE PublishNew(w)
  BY <1>6 DEF PublishNew, Renamed, At, Goto, Quiet, IInv, Types, Numbered
<1>7. CASE PublishOver(w)
  BY <1>7 DEF PublishOver, Exchange, Renamed, At, Goto, Quiet, IInv, Types, Numbered
<1>8. CASE SwapBack(w)
  BY <1>8 DEF SwapBack, Exchange, Renamed, At, Goto, Quiet, IInv, Types, Numbered
<1>9. CASE Exchanged(w)
  BY <1>9 DEF Exchanged, At, Goto, SameName, Quiet, IInv, Types, Numbered
<1>10. CASE ProvePublished(w)
  BY <1>10 DEF ProvePublished, At, Goto, SameName, Quiet, IInv, Types, Numbered
<1>11. CASE SyncDirectory(w)
  BY <1>11 DEF SyncDirectory, At, Quiet, IInv, Types, Operations, Numbered
<1>12. CASE UnlinkReplaced(w)
  BY <1>12 DEF UnlinkReplaced, At, Goto, SameName, Quiet, IInv, Types, Numbered
<1>13. CASE Acknowledge(w)
  BY <1>13 DEF Acknowledge, Report, NoWrite, At, IInv, Types, Numbered, Initial
<1>14. CASE RefuseEarly(w)
  BY <1>14 DEF RefuseEarly, Raise, Abandoned, NoWrite, At, IInv, Types, Numbered,
    Initial
<1>15. CASE SwapBackFails(w)
  BY <1>15 DEF SwapBackFails, Raise, Abandoned, NoWrite, At, IInv, Types, Numbered,
    Initial
<1>16. CASE BeginRollBack(w)
  BY <1>16 DEF BeginRollBack, Goto, SameName, Quiet, IInv, Types, Numbered
<1>17. CASE RollBackRefused(w)
  BY <1>17 DEF RollBackRefused, Raise, Abandoned, NoWrite, At, IInv, Types, Numbered,
    Initial
<1>18. CASE RollBackReplaced(w)
  BY <1>18 DEF RollBackReplaced, Exchange, Renamed, At, Goto, Quiet, IInv, Types,
    Numbered
<1>19. CASE RollBackCreated(w)
  BY <1>19 DEF RollBackCreated, Renamed, At, Goto, Quiet, IInv, Types, Numbered
<1>20. CASE PutBack(w)
  BY <1>20 DEF PutBack, Renamed, SameName, NoWrite, At, IInv, Types, Numbered, Initial
<1>21. CASE RolledBack(w)
  BY <1>21 DEF RolledBack, Abandoned, NoWrite, At, IInv, Types, Numbered, Initial
<1>22. CASE FailLate(w)
  BY <1>22 DEF FailLate, Raise, Abandoned, NoWrite, At, IInv, Types, Numbered, Initial
<1>23. CASE Kill(w)
  BY <1>23 DEF Kill, Abandoned, NoWrite, At, IInv, Types, Numbered, Initial
<1> QED BY <1>1, <1>2, <1>3, <1>4, <1>5, <1>6, <1>7, <1>8, <1>9, <1>10, <1>11, <1>12,
  <1>13, <1>14, <1>15, <1>16, <1>17, <1>18, <1>19, <1>20, <1>21, <1>22, <1>23 DEF Write

(* A write is in one inode.                                                *)
LEMMA NumberedKept ==
  ASSUME IInv, [Next]_vars
  PROVE  Numbered'
<1>1. CASE \E w \in Writers : Write(w)
  BY <1>1, NumberedKeptWriting
<1>2. CASE PowerLoss
  BY <1>2 DEF PowerLoss, Linked, NoWrite, NoRead, NoVerdict, IInv, Types, TempNames,
    Operations, Showing, Numbered, Contents, Acknowledgements, Initial
<1>3. CASE LookUp
  BY <1>3 DEF LookUp, Undisturbed, IInv, Types, Numbered
<1>4. CASE OpenFound
  BY <1>4 DEF OpenFound, Undisturbed, IInv, Types, Numbered
<1>5. CASE ReadRefused
  BY <1>5 DEF ReadRefused, Undisturbed, NoRead, IInv, Types, Numbered
<1>6. CASE ReadDone
  BY <1>6 DEF ReadDone, Undisturbed, NoRead, IInv, Types, Numbered
<1>7. CASE UNCHANGED vars
  BY <1>7 DEF vars, IInv, Types, Numbered
<1> QED BY <1>1, <1>2, <1>3, <1>4, <1>5, <1>6, <1>7 DEF Next

(* A writer that is not fooled remembers the file that it saw. *)
LEMMA RememberedKeptWriting ==
  ASSUME IInv, NEW w \in Writers, Write(w)
  PROVE  Remembered'
<1>1. CASE Begin(w)
  <2>1. Beginning(w) /\ Types
    BY <1>1, Begun DEF IInv
  <2> QED BY <2>1 DEF Beginning, IInv, Remembered, Types, Linked
<1>2. CASE \E i \in Inodes : NewTempLeaf(w, i)
  <2>1. PICK i \in Inodes : NewTempLeaf(w, i)
    BY <1>2
  <2>2. Making(w, i) /\ Types
    BY <2>1, LeafMade DEF IInv
  <2>3. tmp' = [tmp EXCEPT ![w] = i] /\ tmp \in TempNames /\ i # Absent
    BY <2>2, FilesAssumption DEF Making, Types
  <2>4. /\ op'[w].pc = "open" /\ op'[w].found = op[w].found /\ op'[w].saw = op[w].saw
        /\ op'[w].fooled = op[w].fooled /\ op'[w].own = i /\ op[w].pc = "found"
    BY <2>2 DEF Making
  <2>5. ASSUME NEW v \in Writers, v # w
        PROVE  /\ op'[v].pc = op[v].pc /\ op'[v].found = op[v].found /\ op'[v].saw = op[v].saw
               /\ op'[v].own = op[v].own /\ tmp'[v] = tmp[v]
               /\ op'[v].fooled = FALSE =>
                    op[v].fooled = FALSE /\ (op[v].pc = "idle" \/ op[v].found # i)
    BY <2>2, <2>3, <2>5 DEF Making
  <2>6. Linked' \subseteq Linked \cup {i}
    BY <2>2, <2>3 DEF Making, Linked
  <2>7. \A j \in Inodes \ {i} : data'[j] = data[j]
    BY <2>2 DEF Making
  <2>8. ASSUME NEW v \in Writers
        PROVE  op[v].found \in Inodes \cup {Absent} /\ op[v].own \in Inodes \cup {Absent}
    BY <2>2, Typing
  <2>9. ASSUME NEW v \in Writers, op'[v].pc # "idle"
        PROVE  /\ op'[v].found = Absent => op'[v].saw = -1
               /\ op'[v].found # Absent /\ op'[v].found = op'[v].own =>
                    op'[v].pc \in {"open", "written", "synced"}
               /\ op'[v].fooled = FALSE /\ op'[v].found # Absent /\ op'[v].found # op'[v].own =>
                    data'[op'[v].found].value = op'[v].saw
               /\ op'[v].pc = "durable" /\ tmp'[v] # Absent => tmp'[v] \notin shadows'
    <3>1. CASE v = w
      BY <2>3, <2>4, <2>7, <2>8, <2>9, <3>1 DEF IInv, Remembered
    <3>2. CASE v # w
      BY <2>2, <2>3, <2>5, <2>7, <2>8, <2>9, <3>2 DEF Making, IInv, Remembered
    <3> QED BY <3>1, <3>2
  <2>10. ASSUME NEW v \in Writers, op'[v].pc = "unlinked", op'[v].fooled = FALSE
         PROVE  /\ op'[v].found \notin Linked'
                /\ \A u \in Writers \ {v} :
                     op'[u].pc = "unlinked" /\ op'[u].fooled = FALSE => op'[u].found # op'[v].found
    <3>1. v # w
      BY <2>4, <2>10
    <3>2. /\ op[v].pc = "unlinked" /\ op[v].fooled = FALSE /\ op[v].found # i
          /\ op'[v].found = op[v].found
      BY <2>5, <2>10, <3>1
    <3>3. ASSUME NEW u \in Writers \ {v}, op'[u].pc = "unlinked", op'[u].fooled = FALSE
          PROVE  op'[u].found # op'[v].found
      <4>1. u # w
        BY <2>4, <3>3
      <4>2. op[u].pc = "unlinked" /\ op[u].fooled = FALSE /\ op'[u].found = op[u].found
        BY <2>5, <3>3, <4>1
      <4> QED BY <3>2, <3>3, <4>2 DEF IInv, Remembered
    <3> QED BY <2>6, <3>2, <3>3 DEF IInv, Remembered
  <2> QED BY <2>9, <2>10 DEF Remembered
<1>3. CASE WriteBytes(w)
  BY <1>3 DEF WriteBytes, At, Goto, SameName, Quiet, IInv, Types, Remembered, Linked
<1>4. CASE SyncFile(w)
  BY <1>4 DEF SyncFile, At, Goto, SameName, Quiet, IInv, Types, Remembered, Linked
<1>5. CASE ProveDestination(w)
  BY <1>5 DEF ProveDestination, At, Goto, SameName, Quiet, IInv, Types, Apart, Holding,
    Filling, Remembered, Linked
<1>6. CASE PublishNew(w)
  BY <1>6 DEF PublishNew, Renamed, At, Goto, Quiet, IInv, Types, Apart, Holding,
    Filling, Remembered, Linked
<1>7. CASE PublishOver(w)
  BY <1>7 DEF PublishOver, Exchange, Renamed, At, Goto, Quiet, IInv, Types, Apart,
    Remembered, Linked
<1>8. CASE SwapBack(w)
  BY <1>8 DEF SwapBack, Exchange, Renamed, At, Goto, Quiet, IInv, Types, Apart,
    Remembered, Linked
<1>9. CASE Exchanged(w)
  BY <1>9 DEF Exchanged, At, Goto, SameName, Quiet, IInv, Types, Remembered, Linked
<1>10. CASE ProvePublished(w)
  BY <1>10 DEF ProvePublished, At, Goto, SameName, Quiet, IInv, Types, Remembered,
    Linked
<1>11. CASE SyncDirectory(w)
  BY <1>11 DEF SyncDirectory, At, Quiet, IInv, Types, Operations, Apart, Remembered,
    Linked
<1>12. CASE UnlinkReplaced(w)
  BY <1>12 DEF UnlinkReplaced, At, Goto, SameName, Quiet, IInv, Types, TempNames, Apart,
    Holding, Remembered, Linked
<1>13. CASE Acknowledge(w)
  BY <1>13 DEF Acknowledge, Report, NoWrite, At, IInv, Types, Apart, Remembered, Linked
<1>14. CASE RefuseEarly(w)
  BY <1>14 DEF RefuseEarly, Raise, Abandoned, NoWrite, At, IInv, Types, Holding,
    Remembered, Linked
<1>15. CASE SwapBackFails(w)
  BY <1>15 DEF SwapBackFails, Raise, Abandoned, NoWrite, At, IInv, Types, Remembered,
    Linked
<1>16. CASE BeginRollBack(w)
  BY <1>16 DEF BeginRollBack, Goto, SameName, Quiet, IInv, Types, Remembered, Linked
<1>17. CASE RollBackRefused(w)
  BY <1>17 DEF RollBackRefused, Raise, Abandoned, NoWrite, At, IInv, Types, Holding,
    Remembered, Linked
<1>18. CASE RollBackReplaced(w)
  BY <1>18 DEF RollBackReplaced, Exchange, Renamed, At, Goto, Quiet, IInv, Types, Apart,
    Remembered, Linked
<1>19. CASE RollBackCreated(w)
  BY <1>19 DEF RollBackCreated, Renamed, At, Goto, Quiet, IInv, Types, Holding,
    Remembered, Linked
<1>20. CASE PutBack(w)
  BY <1>20 DEF PutBack, Renamed, SameName, NoWrite, At, IInv, Types, Apart, Holding,
    Remembered, Linked
<1>21. CASE RolledBack(w)
  BY <1>21 DEF RolledBack, Abandoned, NoWrite, At, IInv, Types, Apart, Holding,
    Remembered, Linked
<1>22. CASE FailLate(w)
  BY <1>22 DEF FailLate, Raise, Abandoned, NoWrite, At, IInv, Types, Holding,
    Remembered, Linked
<1>23. CASE Kill(w)
  BY <1>23 DEF Kill, Abandoned, NoWrite, At, IInv, Types, Holding, Remembered, Linked
<1> QED BY <1>1, <1>2, <1>3, <1>4, <1>5, <1>6, <1>7, <1>8, <1>9, <1>10, <1>11, <1>12,
  <1>13, <1>14, <1>15, <1>16, <1>17, <1>18, <1>19, <1>20, <1>21, <1>22, <1>23 DEF Write

(* A writer that is not fooled remembers the file that it saw.             *)
LEMMA RememberedKept ==
  ASSUME IInv, [Next]_vars
  PROVE  Remembered'
<1>1. CASE \E w \in Writers : Write(w)
  BY <1>1, RememberedKeptWriting
<1>2. CASE PowerLoss
  BY <1>2 DEF PowerLoss, NoWrite, NoRead, IInv, Types, Remembered
<1>3. CASE LookUp
  BY <1>3 DEF LookUp, Undisturbed, IInv, Types, Remembered, Linked
<1>4. CASE OpenFound
  BY <1>4 DEF OpenFound, Undisturbed, IInv, Types, Remembered, Linked
<1>5. CASE ReadRefused
  BY <1>5 DEF ReadRefused, Undisturbed, NoRead, IInv, Types, Remembered, Linked
<1>6. CASE ReadDone
  BY <1>6 DEF ReadDone, Undisturbed, NoRead, IInv, Types, Remembered, Linked
<1>7. CASE UNCHANGED vars
  BY <1>7 DEF vars, IInv, Types, Remembered, Linked
<1> QED BY <1>1, <1>2, <1>3, <1>4, <1>5, <1>6, <1>7 DEF Next

(* The file that an acknowledged write has seen stays gone. *)
LEMMA SupersededKeptWriting ==
  ASSUME IInv, NEW w \in Writers, Write(w)
  PROVE  Superseded'
<1>1. CASE Begin(w)
  <2>1. Beginning(w) /\ Types
    BY <1>1, Begun DEF IInv
  <2> QED BY <2>1 DEF Beginning, IInv, Superseded, Linked, Types
<1>2. CASE \E i \in Inodes : NewTempLeaf(w, i)
  <2>1. PICK i \in Inodes : NewTempLeaf(w, i)
    BY <1>2
  <2>2. Making(w, i) /\ Types
    BY <2>1, LeafMade DEF IInv
  <2>3. tmp' = [tmp EXCEPT ![w] = i] /\ tmp \in TempNames /\ i # Absent /\ acked' = acked
    BY <2>2, FilesAssumption DEF Making, Types
  <2>4. Linked' \subseteq Linked \cup {i}
    BY <2>2, <2>3 DEF Making, Linked
  <2>5. \A v \in Writers : op'[v].pc = "unlinked" /\ op'[v].fooled = FALSE =>
          op[v].pc = "unlinked" /\ op[v].fooled = FALSE /\ op'[v].saw = op[v].saw
    BY <2>2 DEF Making
  <2>6. ASSUME NEW a \in acked, a.saw >= 0, a.fooled = FALSE
        PROVE  /\ \A j \in Linked' \ {Absent} : data'[j].value # a.saw
               /\ \A v \in Writers :
                    op'[v].pc = "unlinked" /\ op'[v].fooled = FALSE => op'[v].saw # a.saw
    <3>1. data'[i].value # a.saw
      BY <2>2 DEF Making, IInv, Numbered
    <3>2. ASSUME NEW j \in Linked \ {Absent, i}
          PROVE  data'[j].value # a.saw
      <4>1. j \in Inodes
        BY <2>2, <3>2, NamesAreInodes DEF MaybeInodes
      <4> QED BY <2>2, <2>6, <3>2, <4>1 DEF Making, IInv, Superseded
    <3> QED BY <2>4, <2>5, <2>6, <3>1, <3>2 DEF IInv, Superseded
  <2> QED BY <2>3, <2>6 DEF Superseded
<1>3. CASE WriteBytes(w)
  BY <1>3 DEF WriteBytes, At, Goto, SameName, Quiet, IInv, Types, Superseded, Linked
<1>4. CASE SyncFile(w)
  BY <1>4 DEF SyncFile, At, Goto, SameName, Quiet, IInv, Types, Apart, Filling,
    Superseded, Linked
<1>5. CASE ProveDestination(w)
  BY <1>5 DEF ProveDestination, At, Goto, SameName, Quiet, IInv, Types, Superseded,
    Linked
<1>6. CASE PublishNew(w)
  BY <1>6 DEF PublishNew, Renamed, At, Goto, Quiet, IInv, Types, Holding, Filling,
    Superseded, Linked
<1>7. CASE PublishOver(w)
  BY <1>7 DEF PublishOver, Exchange, Renamed, At, Goto, Quiet, IInv, Types, Superseded,
    Linked
<1>8. CASE SwapBack(w)
  BY <1>8 DEF SwapBack, Exchange, Renamed, At, Goto, Quiet, IInv, Types, Superseded,
    Linked
<1>9. CASE Exchanged(w)
  BY <1>9 DEF Exchanged, At, Goto, SameName, Quiet, IInv, Types, Superseded, Linked
<1>10. CASE ProvePublished(w)
  BY <1>10 DEF ProvePublished, At, Goto, SameName, Quiet, IInv, Types, Superseded,
    Linked
<1>11. CASE SyncDirectory(w)
  BY <1>11 DEF SyncDirectory, At, Quiet, IInv, Types, Operations, Superseded, Linked
<1>12. CASE UnlinkReplaced(w)
  BY <1>12 DEF UnlinkReplaced, At, Goto, SameName, Quiet, IInv, Types, Remembered,
    Superseded, Linked
<1>13. CASE Acknowledge(w)
  BY <1>13 DEF Acknowledge, Report, NoWrite, At, IInv, Types, TempNames, Operations,
    MaybeInodes, Holding, Showing, Numbered, Remembered, Superseded, Linked
<1>14. CASE RefuseEarly(w)
  BY <1>14 DEF RefuseEarly, Raise, Abandoned, NoWrite, At, IInv, Types, Superseded,
    Linked
<1>15. CASE SwapBackFails(w)
  BY <1>15 DEF SwapBackFails, Raise, Abandoned, NoWrite, At, IInv, Types, Superseded,
    Linked
<1>16. CASE BeginRollBack(w)
  BY <1>16 DEF BeginRollBack, Goto, SameName, Quiet, IInv, Types, Superseded, Linked
<1>17. CASE RollBackRefused(w)
  BY <1>17 DEF RollBackRefused, Raise, Abandoned, NoWrite, At, IInv, Types, Superseded,
    Linked
<1>18. CASE RollBackReplaced(w)
  BY <1>18 DEF RollBackReplaced, Exchange, Renamed, At, Goto, Quiet, IInv, Types,
    Superseded, Linked
<1>19. CASE RollBackCreated(w)
  BY <1>19 DEF RollBackCreated, Renamed, At, Goto, Quiet, IInv, Types, Superseded,
    Linked
<1>20. CASE PutBack(w)
  BY <1>20 DEF PutBack, Renamed, SameName, NoWrite, At, IInv, Types, Superseded, Linked
<1>21. CASE RolledBack(w)
  BY <1>21 DEF RolledBack, Abandoned, NoWrite, At, IInv, Types, Superseded, Linked
<1>22. CASE FailLate(w)
  BY <1>22 DEF FailLate, Raise, Abandoned, NoWrite, At, IInv, Types, Superseded, Linked
<1>23. CASE Kill(w)
  BY <1>23 DEF Kill, Abandoned, NoWrite, At, IInv, Types, Superseded, Linked
<1> QED BY <1>1, <1>2, <1>3, <1>4, <1>5, <1>6, <1>7, <1>8, <1>9, <1>10, <1>11, <1>12,
  <1>13, <1>14, <1>15, <1>16, <1>17, <1>18, <1>19, <1>20, <1>21, <1>22, <1>23 DEF Write

(* The file that an acknowledged write has seen is gone.                   *)
LEMMA SupersededKept ==
  ASSUME IInv, [Next]_vars
  PROVE  Superseded'
<1>1. CASE \E w \in Writers : Write(w)
  BY <1>1, SupersededKeptWriting
<1>2. CASE PowerLoss
  BY <1>2 DEF PowerLoss, Linked, NoWrite, NoRead, IInv, Types, TempNames, MaybeInodes,
    Apart, Acknowledgements, Superseded
<1>3. CASE LookUp
  BY <1>3 DEF LookUp, Undisturbed, IInv, Types, Superseded, Linked
<1>4. CASE OpenFound
  BY <1>4 DEF OpenFound, Undisturbed, IInv, Types, Superseded, Linked
<1>5. CASE ReadRefused
  BY <1>5 DEF ReadRefused, Undisturbed, NoRead, IInv, Types, Superseded, Linked
<1>6. CASE ReadDone
  BY <1>6 DEF ReadDone, Undisturbed, NoRead, IInv, Types, Superseded, Linked
<1>7. CASE UNCHANGED vars
  BY <1>7 DEF vars, IInv, Types, Superseded, Linked
<1> QED BY <1>1, <1>2, <1>3, <1>4, <1>5, <1>6, <1>7 DEF Next

(* No two acknowledged writes have seen one file. *)
LEMMA OneKeptWriting ==
  ASSUME IInv, NEW w \in Writers, Write(w)
  PROVE  OneAcknowledged'
<1>1. CASE Begin(w)
  BY <1>1 DEF Begin, At, IInv, Types, OneAcknowledged
<1>2. CASE \E i \in Inodes : NewTempLeaf(w, i)
  BY <1>2 DEF NewTempLeaf, SameName, Blank, At, IInv, Types, OneAcknowledged
<1>3. CASE WriteBytes(w)
  BY <1>3 DEF WriteBytes, At, Goto, SameName, Quiet, IInv, Types, OneAcknowledged
<1>4. CASE SyncFile(w)
  BY <1>4 DEF SyncFile, At, Goto, SameName, Quiet, IInv, Types, OneAcknowledged
<1>5. CASE ProveDestination(w)
  BY <1>5 DEF ProveDestination, At, Goto, SameName, Quiet, IInv, Types, OneAcknowledged
<1>6. CASE PublishNew(w)
  BY <1>6 DEF PublishNew, Renamed, At, Goto, Quiet, IInv, Types, OneAcknowledged
<1>7. CASE PublishOver(w)
  BY <1>7 DEF PublishOver, Exchange, Renamed, At, Goto, Quiet, IInv, Types,
    OneAcknowledged
<1>8. CASE SwapBack(w)
  BY <1>8 DEF SwapBack, Exchange, Renamed, At, Goto, Quiet, IInv, Types, OneAcknowledged
<1>9. CASE Exchanged(w)
  BY <1>9 DEF Exchanged, At, Goto, SameName, Quiet, IInv, Types, OneAcknowledged
<1>10. CASE ProvePublished(w)
  BY <1>10 DEF ProvePublished, At, Goto, SameName, Quiet, IInv, Types, OneAcknowledged
<1>11. CASE SyncDirectory(w)
  BY <1>11 DEF SyncDirectory, At, Quiet, IInv, Types, OneAcknowledged
<1>12. CASE UnlinkReplaced(w)
  BY <1>12 DEF UnlinkReplaced, At, Goto, SameName, Quiet, IInv, Types, OneAcknowledged
<1>13. CASE Acknowledge(w)
  <2> DEFINE new == [saw |-> op[w].saw, fooled |-> op[w].fooled, value |-> op[w].value]
  <2>1. acked' = acked \cup {new} /\ new.saw = op[w].saw /\ new.fooled = op[w].fooled
    BY <1>13 DEF Acknowledge
  <2>2. op[w].fooled \in BOOLEAN
    BY Typing DEF IInv
  <2>3. ASSUME NEW a \in acked, a.saw = new.saw, a.saw >= 0
        PROVE  a.fooled = TRUE \/ new.fooled = TRUE
    <3>1. a.fooled \in BOOLEAN
      BY DEF IInv, Types, Acknowledgements
    <3>2. CASE At(w, "durable") /\ tmp[w] = Absent
      <4>1. op[w].saw = -1
        BY <3>2 DEF At, IInv, Holding, Showing, Remembered
      <4> QED BY <4>1, <2>1, <2>3
    <3>3. CASE At(w, "unlinked")
      BY <2>1, <2>2, <2>3, <3>1, <3>3 DEF At, IInv, Superseded
    <3> QED BY <1>13, <3>2, <3>3 DEF Acknowledge
  <2>4. \A a, b \in acked : a.saw = b.saw /\ a.saw >= 0 /\ a # b => a.fooled = TRUE \/ b.fooled = TRUE
    BY DEF IInv, OneAcknowledged
  <2>5. \A a, b \in acked' : a.saw = b.saw /\ a.saw >= 0 /\ a # b => a.fooled = TRUE \/ b.fooled = TRUE
    BY <2>1, <2>3, <2>4
  <2> QED BY <2>5 DEF OneAcknowledged
<1>14. CASE RefuseEarly(w)
  BY <1>14 DEF RefuseEarly, Raise, Abandoned, At, IInv, Types, OneAcknowledged
<1>15. CASE SwapBackFails(w)
  BY <1>15 DEF SwapBackFails, Raise, Abandoned, At, IInv, Types, OneAcknowledged
<1>16. CASE BeginRollBack(w)
  BY <1>16 DEF BeginRollBack, Goto, SameName, Quiet, IInv, Types, OneAcknowledged
<1>17. CASE RollBackRefused(w)
  BY <1>17 DEF RollBackRefused, Raise, Abandoned, At, IInv, Types, OneAcknowledged
<1>18. CASE RollBackReplaced(w)
  BY <1>18 DEF RollBackReplaced, Exchange, Renamed, At, Goto, Quiet, IInv, Types,
    OneAcknowledged
<1>19. CASE RollBackCreated(w)
  BY <1>19 DEF RollBackCreated, Renamed, At, Goto, Quiet, IInv, Types, OneAcknowledged
<1>20. CASE PutBack(w)
  BY <1>20 DEF PutBack, Renamed, SameName, At, IInv, Types, OneAcknowledged
<1>21. CASE RolledBack(w)
  BY <1>21 DEF RolledBack, Abandoned, At, IInv, Types, OneAcknowledged
<1>22. CASE FailLate(w)
  BY <1>22 DEF FailLate, Raise, Abandoned, At, IInv, Types, OneAcknowledged
<1>23. CASE Kill(w)
  BY <1>23 DEF Kill, Abandoned, At, IInv, Types, OneAcknowledged
<1> QED BY <1>1, <1>2, <1>3, <1>4, <1>5, <1>6, <1>7, <1>8, <1>9, <1>10, <1>11, <1>12,
  <1>13, <1>14, <1>15, <1>16, <1>17, <1>18, <1>19, <1>20, <1>21, <1>22, <1>23 DEF Write

(* Of two writers that found the same file one is acknowledged.            *)
LEMMA OneKept ==
  ASSUME IInv, [Next]_vars
  PROVE  OneAcknowledged'
<1>1. CASE \E w \in Writers : Write(w)
  BY <1>1, OneKeptWriting
<1>2. CASE PowerLoss
  BY <1>2 DEF PowerLoss, NoRead, IInv, Types, OneAcknowledged
<1>3. CASE LookUp
  BY <1>3 DEF LookUp, Undisturbed, IInv, Types, OneAcknowledged
<1>4. CASE OpenFound
  BY <1>4 DEF OpenFound, Undisturbed, IInv, Types, OneAcknowledged
<1>5. CASE ReadRefused
  BY <1>5 DEF ReadRefused, Undisturbed, NoRead, IInv, Types, OneAcknowledged
<1>6. CASE ReadDone
  BY <1>6 DEF ReadDone, Undisturbed, NoRead, IInv, Types, OneAcknowledged
<1>7. CASE UNCHANGED vars
  BY <1>7 DEF vars, IInv, Types, OneAcknowledged
<1> QED BY <1>1, <1>2, <1>3, <1>4, <1>5, <1>6, <1>7 DEF Next

(* The invariant holds at the start.                                       *)
LEMMA Initially ==
  ASSUME Init
  PROVE  IInv
<1>1. leaf \in MaybeInodes
  BY DEF Init, MaybeInodes
<1>2. \A w \in Writers :
        /\ tmp[w] = Absent /\ op[w].pc = "idle" /\ op[w].value = Initial /\ op[w].saw = Initial
        /\ op[w].alone = FALSE
  BY DEF Init, NoWrite
<1>3. Types
  <2>1. data \in Contents
    BY DEF Init, Contents, Blank, Initial
  <2>2. op \in Operations
    BY DEF Init, Operations, NoWrite, Pcs, MaybeInodes, Initial
  <2>3. tmp \in TempNames /\ reader \in Readers /\ verdict \in Verdicts
    BY DEF Init, TempNames, Readers, Verdicts, NoRead, NoVerdict, MaybeInodes
  <2> QED BY <1>1, <2>1, <2>2, <2>3 DEF Init, Types
<1>4. \A i \in Inodes : data[i] =
        IF i = leaf THEN [value |-> Initial, whole |-> TRUE, safe |-> TRUE] ELSE Blank
  BY DEF Init
<1>5. Apart /\ Holding /\ Lone
  BY <1>2 DEF Init, Apart, Holding, Lone, Filling, Showing
<1>6. Sound
  <2>1. ({leaf} \cup shadows \cup Opened) \ {Absent} \subseteq {leaf} \ {Absent}
    BY DEF Init, Opened, NoRead
  <2>2. leaf # Absent => Solid(leaf)
    BY <1>1, <1>4 DEF Solid, MaybeInodes
  <2> QED BY <1>2, <2>1, <2>2 DEF Sound
<1>7. ReportIsTrue
  BY DEF Init, ReportIsTrue, NoVerdict
<1>8. Numbered
  <2>1. \A i \in Inodes : data[i].value = IF i = leaf THEN 0 ELSE -1
    BY <1>4 DEF Blank, Initial
  <2> QED BY <1>2, <2>1 DEF Init, Numbered, Initial
<1>9. Remembered /\ Superseded /\ OneAcknowledged
  BY <1>2 DEF Init, Remembered, Superseded, OneAcknowledged
<1> QED BY <1>3, <1>5, <1>6, <1>7, <1>8, <1>9 DEF IInv

(* Every step keeps the invariant.                                         *)
LEMMA Kept ==
  ASSUME IInv, [Next]_vars
  PROVE  IInv'
BY TypesKept, ApartKept, HoldingKept, SoundKept, LoneKept, ReportKept, NumberedKept,
  RememberedKept, SupersededKept, OneKept DEF IInv

(* Whatever the overlap of writers, the deaths and the power losses, the   *)
(* names of the directory keep apart, and stand for what their writers     *)
(* remember (the whole of _atomic_write_bytes_pinned).                     *)
THEOREM Invariance == Spec => []IInv
<1>1. Init => IInv
  BY Initially
<1>2. IInv /\ [Next]_vars => IInv'
  BY Kept
<1> QED BY <1>1, <1>2, PTL DEF Spec

(* The name, what it may be after a power loss and what a reader has       *)
(* opened are whole and safe on the medium (_atomic_write_bytes_pinned     *)
(* syncs the bytes before it exchanges the name).                          *)
THEOREM NothingTorn == Spec => []NeverTorn
<1>1. IInv => NeverTorn
  BY DEF IInv, Sound, Solid, NeverTorn
<1> QED BY <1>1, Invariance, PTL

(* What a writer that met no other reports is the truth, after a power     *)
(* loss too (_rollback_publication).                                       *)
THEOREM ReportsAreTrue == Spec => []ReportIsTrue
<1>1. IInv => ReportIsTrue
  BY DEF IInv
<1> QED BY <1>1, Invariance, PTL

(* Of the writers that found one file under the name, at most one that     *)
(* has not been fooled by a reused number is acknowledged.                 *)
THEOREM OneWriterWins == Spec => []OneWins
<1>1. IInv => OneWins
  BY DEF IInv, OneAcknowledged, OneWins
<1> QED BY <1>1, Invariance, PTL
=================================================================================
