-------------------------- MODULE OwnerJournalProofs --------------------------
(***************************************************************************)
(* Theorems about the owner record as a file, for a ring of any size and   *)
(* every range of sequence numbers: it can always be read, and with its    *)
(* faults it is a durable register.                                        *)
(***************************************************************************)
EXTENDS OwnerJournal, TLAPS

-----------------------------------------------------------------------------
(* The order of the ring. *)

Numbers == 0 .. SequenceModulus - 1

(* How far a sequence number, or a slot, is behind another. *)
Distance(a, b) == IF b <= a THEN a - b ELSE a - b + SequenceModulus
Behind(m, i) == IF i <= m THEN m - i ELSE m - i + Slots

NextSlot(m) == (m + 1) % Slots
NextNumber(q) == (q + 1) % SequenceModulus

(* The step to the next slot and number, both of which wrap around.        *)
LEMMA NextValues ==
  ASSUME NEW m \in Ring, NEW q \in Numbers
  PROVE  /\ NextSlot(m) = IF m = Slots - 1 THEN 0 ELSE m + 1
         /\ NextNumber(q) = IF q = SequenceModulus - 1 THEN 0 ELSE q + 1
         /\ NextSlot(m) \in Ring /\ NextSlot(m) # m /\ NextNumber(q) \in Numbers
<1>1. NextSlot(m) = IF m = Slots - 1 THEN 0 ELSE m + 1
  BY JournalAssumption DEF NextSlot, Ring
<1>2. NextNumber(q) = IF q = SequenceModulus - 1 THEN 0 ELSE q + 1
  BY JournalAssumption DEF NextNumber, Numbers
<1> QED BY <1>1, <1>2, JournalAssumption DEF Ring, Numbers

(* One slot further on, every other slot is one further behind.            *)
LEMMA BehindNext ==
  ASSUME NEW m \in Ring, NEW i \in Ring
  PROVE  /\ Behind(m, i) \in Ring
         /\ Behind(m, i) = 0 <=> i = m
         /\ i # NextSlot(m) => Behind(NextSlot(m), i) = Behind(m, i) + 1
<1>1. 0 \in Numbers
  BY JournalAssumption DEF Numbers
<1>2. NextSlot(m) = IF m = Slots - 1 THEN 0 ELSE m + 1
  BY <1>1, NextValues
<1> QED BY <1>2, JournalAssumption DEF Behind, Ring

(* Nor do the sequence numbers in use come round to each other.            *)
LEMMA DistanceNext ==
  ASSUME NEW q \in Numbers, NEW r \in Numbers, Distance(q, r) < Slots
  PROVE  /\ Distance(q, r) \in Ring
         /\ Distance(q, r) = 0 <=> q = r
         /\ Distance(NextNumber(q), r) = Distance(q, r) + 1
<1>1. 0 \in Ring
  BY JournalAssumption DEF Ring
<1> QED BY <1>1, NextValues, JournalAssumption DEF Distance, Numbers, Ring

(* sequence_after tells the later of two numbers that are less than half   *)
(* the range apart.                                                        *)
LEMMA AfterIsDistance ==
  ASSUME NEW q \in Numbers, NEW r \in Numbers, Distance(q, r) < Slots
  PROVE  /\ sequence_after(q, r) <=> q # r
         /\ ~sequence_after(r, q)
<1>1. /\ (q - r) % SequenceModulus = Distance(q, r)
      /\ (r - q) % SequenceModulus = Distance(r, q)
  BY JournalAssumption DEF Numbers, Distance
<1>2. /\ SequenceModulus \div 2 \in Nat /\ SequenceModulus \div 2 >= Slots
      /\ 2 * (SequenceModulus \div 2) <= SequenceModulus
  BY JournalAssumption
<1> QED BY <1>1, <1>2, JournalAssumption DEF sequence_after, Distance, Numbers

-----------------------------------------------------------------------------
(* Images. *)

Bodies == Frames \cup {Torn, Text, Blank}
Cells == [lead : {"nul", "magic", "text"}, body : Bodies]
Images == [present : BOOLEAN, lease : Cells, slots : [Ring -> Cells]]

(* The committed slots, q in slot m and each of the others as much earlier *)
(* as it lies behind.                                                      *)
InOrder(slots, m, q) ==
  \A i \in Ring : slots[i].lead = "magic" =>
     slots[i].body \in Frames /\ Distance(q, slots[i].body.sequence) = Behind(m, i)

(* A ring whose latest checkpoint is number q in slot m.                   *)
Newest(image, m, q) ==
  /\ image.present
  /\ image.slots[m].lead = "magic"
  /\ InOrder(image.slots, m, q)

(* Before the first record. *)
Vacant(image) == legacy = NoLegacy /\ ~image.present

(* The lease file holds the document of the version 4 record. *)
Witnessed(image) == image.lease.lead = "magic"

(* A version 4 record: untouched, or with its witness. *)
Old(image) ==
  /\ legacy # NoLegacy /\ image.present
  /\ \A i \in Ring : image.slots[i].lead # "magic"
  /\ image.slots[0] = Cell("text", Text) \/ Witnessed(image)

LeaseOK(image) ==
  IF legacy = NoLegacy THEN image.lease = Cell("nul", Blank)
  ELSE /\ image.lease.lead \in {"nul", "magic"}
       /\ Witnessed(image) => image.lease.body = Frame(0, legacy.doc)

(* An image in which a reader finds d, or nothing where nothing is yet.    *)
Shows(image, d) ==
  /\ LeaseOK(image)
  /\ \/ Vacant(image) /\ d = Nothing
     \/ Old(image) /\ d = legacy.doc
     \/ \E m \in Ring, q \in Numbers : Newest(image, m, q) /\ d = image.slots[m].body.doc

(* An image in which slot t is next to be written, with number s.          *)
Before(image, t, s) ==
  \/ Old(image) /\ Witnessed(image) /\ t = 0 /\ s = 0
  \/ \E m \in Ring, q \in Numbers :
       Newest(image, m, q) /\ t = NextSlot(m) /\ s = NextNumber(q)

LegacyOK == legacy = NoLegacy \/ legacy \in [doc : Documents, framed : BOOLEAN]

(* The latest checkpoint of a ring in order is what its reader is given.   *)
LEMMA NewestReads ==
  ASSUME NEW image \in Images, NEW m \in Ring, NEW q \in Numbers, Newest(image, m, q)
  PROVE  /\ read_record(image) = Checkpoint(image.slots, m)
         /\ image.slots[m].body \in Frames
         /\ image.slots[m].body.sequence = q /\ image.slots[m].body.doc \in Documents
<1> DEFINE slots == image.slots
           committed == {i \in Ring : slots[i].lead = "magic"}
           newest == {i \in committed : \A j \in committed \ {i} :
                        sequence_after(slots[i].body.sequence, slots[j].body.sequence)}
<1>1. \A i \in committed : /\ i \in Ring /\ slots[i].body \in Frames
                           /\ slots[i].body.sequence \in Numbers
                           /\ Distance(q, slots[i].body.sequence) = Behind(m, i)
                           /\ Behind(m, i) \in Ring /\ (Behind(m, i) = 0 <=> i = m)
  BY BehindNext DEF Newest, InOrder, Frames, Numbers
<1>2. m \in committed
  BY DEF Newest
<1>3. slots[m].body.sequence = q
  BY <1>1, <1>2, DistanceNext, JournalAssumption DEF Ring
<1>4. \A i \in committed \ {m} : /\ sequence_after(q, slots[i].body.sequence)
                                 /\ ~sequence_after(slots[i].body.sequence, q)
  <2> SUFFICES ASSUME NEW i \in committed \ {m}
               PROVE  /\ sequence_after(q, slots[i].body.sequence)
                      /\ ~sequence_after(slots[i].body.sequence, q)
    OBVIOUS
  <2>1. Distance(q, slots[i].body.sequence) \in Ring \ {0}
    BY <1>1
  <2>2. Distance(q, slots[i].body.sequence) < Slots
    BY <2>1, JournalAssumption DEF Ring
  <2> QED BY <1>1, <2>1, <2>2, DistanceNext, AfterIsDistance
<1>5. newest = {m}
  BY <1>2, <1>3, <1>4
<1>6. \A i \in committed : slots[i].body \notin {Torn, Text, Blank}
  BY <1>1, JournalAssumption DEF Frames, Frame, Torn, Text, Blank
<1>7. latest_checkpoint(slots) = Checkpoint(slots, m)
  <2> HIDE DEF newest
  <2>1. (CHOOSE i \in newest : TRUE) = m
    BY <1>5
  <2>2. committed # {} /\ newest # {}
    BY <1>2, <1>5
  <2> QED BY <1>6, <2>1, <2>2 DEF latest_checkpoint, newest
<1>8. read_record(image) = Checkpoint(slots, m)
  BY <1>7 DEF read_record, Checkpoint, NoCheckpoint, Corrupt, Newest
<1>9. slots[m].body.doc \in Documents
  BY <1>1, <1>2 DEF Frames
<1> QED BY <1>1, <1>2, <1>3, <1>8, <1>9

(* So is the document of a version 4 record, from itself or its witness.   *)
LEMMA OldReads ==
  ASSUME LegacyOK, NEW image \in Images, LeaseOK(image), Old(image)
  PROVE  /\ read_record(image)
              = [kind |-> "legacy", doc |-> legacy.doc, slot |-> 0, sequence |-> 0]
         /\ legacy.doc \in Documents
         /\ witness(image.lease) = NoCheckpoint <=> ~Witnessed(image)
<1>1. latest_checkpoint(image.slots) = NoCheckpoint
  BY DEF Old, latest_checkpoint
<1>2. legacy.doc \in Documents /\ legacy.doc # Nothing
  BY JournalAssumption DEF LegacyOK, Old
<1>3. CASE Witnessed(image)
  <2>1. witness(image.lease)
          = [kind |-> "legacy", doc |-> legacy.doc, slot |-> 0, sequence |-> 0]
    BY <1>2, <1>3 DEF Old, LeaseOK, Witnessed, witness, Frame
  <2> QED BY <1>1, <1>2, <1>3, <2>1 DEF Old, read_record, NoCheckpoint, Corrupt
<1>4. CASE ~Witnessed(image)
  <2>1. witness(image.lease) = NoCheckpoint
    BY <1>4 DEF Witnessed, witness
  <2>2. latest_legacy_document(image.slots[0])
          = [kind |-> "legacy", doc |-> legacy.doc, slot |-> 0, sequence |-> 0]
    BY <1>4 DEF Old, latest_legacy_document, Cell
  <2> QED BY <1>1, <1>2, <1>4, <2>1, <2>2 DEF Old, read_record
<1> QED BY <1>3, <1>4

(* What an image shows is what its reader is given.                        *)
LEMMA ShownIsRead ==
  ASSUME LegacyOK, NEW image \in Images, NEW d, Shows(image, d)
  PROVE  read_record(image).doc = d /\ read_record(image).kind # "corrupt"
<1>1. CASE Vacant(image) /\ d = Nothing
  BY <1>1 DEF Vacant, read_record, Absent, Corrupt
<1>2. CASE Old(image) /\ d = legacy.doc
  BY <1>2, OldReads DEF Shows
<1>3. CASE \E m \in Ring, q \in Numbers : Newest(image, m, q) /\ d = image.slots[m].body.doc
  BY <1>3, NewestReads DEF Checkpoint
<1> QED BY <1>1, <1>2, <1>3 DEF Shows

(* The slot that is next to be written is not the latest, and its content  *)
(* does not count while it is not committed.                               *)
LEMMA BeforeKept ==
  ASSUME LegacyOK, NEW image \in Images, NEW t \in Ring, NEW s \in Numbers,
         Before(image, t, s), NEW c \in Cells, c.lead # "magic", LeaseOK(image)
  PROVE  LET next == [image EXCEPT !.slots[t] = c]
         IN  /\ next \in Images /\ Before(next, t, s)
             /\ read_record(next).doc = read_record(image).doc
             /\ Old(image) => Old(next)
             /\ \A m \in Ring, q \in Numbers :
                  Newest(image, m, q) /\ t = NextSlot(m) => Newest(next, m, q)
<1> DEFINE next == [image EXCEPT !.slots[t] = c]
<1>1. /\ next \in Images /\ next.present = image.present /\ next.lease = image.lease
      /\ next.slots[t] = c /\ \A i \in Ring \ {t} : next.slots[i] = image.slots[i]
  BY DEF Images
<1> HIDE DEF next
<1>2. ASSUME NEW m \in Ring, NEW q \in Numbers, Newest(image, m, q), t = NextSlot(m)
      PROVE  Newest(next, m, q) /\ next.slots[m] = image.slots[m]
  BY <1>1, <1>2, NextValues DEF Newest, InOrder
<1>3. ASSUME Old(image), Witnessed(image) PROVE Old(next) /\ Witnessed(next)
  BY <1>1, <1>3 DEF Old, Witnessed
<1>4. LeaseOK(next)
  BY <1>1 DEF LeaseOK, Witnessed
<1>5. Old(image) => Old(next)
  <2> HAVE Old(image)
  <2>1. Witnessed(image)
    BY DEF Old, Newest, Before
  <2> QED BY <1>3, <2>1
<1>6. CASE Old(image) /\ Witnessed(image) /\ t = 0 /\ s = 0
  <2>1. Before(next, t, s)
    BY <1>3, <1>6 DEF Before
  <2>2. read_record(next).doc = read_record(image).doc
    BY <1>1, <1>3, <1>4, <1>6, OldReads
  <2> QED BY <1>1, <1>2, <1>5, <2>1, <2>2 DEF next
<1>7. CASE \E m \in Ring, q \in Numbers :
             Newest(image, m, q) /\ t = NextSlot(m) /\ s = NextNumber(q)
  <2>1. PICK m \in Ring, q \in Numbers :
          Newest(image, m, q) /\ t = NextSlot(m) /\ s = NextNumber(q)
    BY <1>7
  <2>2. Newest(next, m, q) /\ next.slots[m] = image.slots[m]
    BY <1>2, <2>1
  <2>3. read_record(next).doc = read_record(image).doc
    BY <1>1, <2>1, <2>2, NewestReads DEF Checkpoint
  <2> QED BY <1>1, <1>2, <1>5, <2>1, <2>2, <2>3 DEF Before, next
<1> QED BY <1>6, <1>7 DEF Before

(* The other slots are in order with the number it is about to get.        *)
LEMMA OthersInOrder ==
  ASSUME NEW image \in Images, NEW t \in Ring, NEW s \in Numbers, Before(image, t, s),
         NEW i \in Ring \ {t}, image.slots[i].lead = "magic"
  PROVE  /\ image.slots[i].body \in Frames
         /\ Distance(s, image.slots[i].body.sequence) = Behind(t, i)
<1>1. PICK m \in Ring, q \in Numbers :
        Newest(image, m, q) /\ t = NextSlot(m) /\ s = NextNumber(q)
  BY DEF Before, Old
<1>2. /\ image.slots[i].body \in Frames
      /\ Distance(q, image.slots[i].body.sequence) = Behind(m, i)
  BY <1>1 DEF Newest, InOrder
<1>3. image.slots[i].body.sequence \in Numbers
  BY <1>2 DEF Frames, Numbers
<1>4. Behind(m, i) \in Ring /\ Behind(t, i) = Behind(m, i) + 1
  BY <1>1, BehindNext
<1>5. Behind(m, i) < Slots
  BY <1>4, JournalAssumption DEF Ring
<1> QED BY <1>1, <1>2, <1>3, <1>4, <1>5, DistanceNext

(* Committed, it is the latest.                                            *)
LEMMA BecomesNewest ==
  ASSUME NEW image \in Images, NEW t \in Ring, NEW s \in Numbers, Before(image, t, s),
         NEW next \in Images, next.present = image.present,
         \A i \in Ring \ {t} : next.slots[i] = image.slots[i],
         next.slots[t].lead = "magic", next.slots[t].body \in Frames,
         next.slots[t].body.sequence = s
  PROVE  Newest(next, t, s)
<1>1. Behind(t, t) = 0 /\ Distance(s, s) = 0
  BY JournalAssumption DEF Behind, Distance, Ring, Numbers
<1>2. image.present
  BY DEF Before, Old, Newest
<1> QED BY <1>1, <1>2, OthersInOrder DEF Newest, InOrder

-----------------------------------------------------------------------------
(* What may happen to an image. *)

(* The medium lags by the mark of the latest slot and by whatever was done *)
(* to the slot after it.                                                   *)
Lags(new, old, m, q) ==
  LET n == NextSlot(m)
  IN /\ old.present /\ old.lease = new.lease
     /\ \A i \in Ring \ {m, n} : old.slots[i] = new.slots[i]
     /\ \/ old.slots[n] = new.slots[n]
        \/ /\ new.slots[n].lead = "nul"
           /\ old.slots[n].lead = "nul" \/ old.slots[n].body = new.slots[n].body
     /\ \/ old.slots[m] = new.slots[m] /\ InOrder(old.slots, m, q)
        \/ old.slots[m] = [new.slots[m] EXCEPT !.lead = "nul"] /\ Before(old, m, q)

(* An image that is durable does not lag.                                  *)
LEMMA DurableLags ==
  ASSUME NEW image \in Images, NEW m \in Ring, NEW q \in Numbers, Newest(image, m, q)
  PROVE  Lags(image, image, m, q)
BY DEF Lags, Newest

(* A power loss leaves of each cell what was there, what is there, or a    *)
(* torn mixture.                                                           *)
LEMMA RemainingParts ==
  ASSUME now \in Images, safe \in Images, NEW image \in Remains
  PROVE  /\ image \in Images
         /\ image.present = now.present
         /\ \/ image.lease \in {now.lease, safe.lease}
            \/ now.lease.body # safe.lease.body /\ image.lease = Tear(now.lease)
         /\ \A i \in Ring :
              \/ image.slots[i] \in {now.slots[i], safe.slots[i]}
              \/ now.slots[i].body # safe.slots[i].body /\ image.slots[i] = Tear(now.slots[i])
<1>1. PICK l \in IF safe.lease.body = now.lease.body THEN {safe.lease, now.lease}
                 ELSE {safe.lease, now.lease, Tear(now.lease)},
           kept \in SUBSET Changed,
           torn \in SUBSET {i \in Changed : now.slots[i].body # safe.slots[i].body} :
        image = Mixture(l, kept, torn)
  BY DEF Remains
<1>2. \A c \in Cells : Tear(c) \in Cells
  BY DEF Tear, Cells, Bodies
<1>3. /\ image.present = now.present /\ image.lease = l /\ l \in Cells
      /\ image.slots = [i \in Ring |-> IF i \in torn THEN Tear(now.slots[i])
                          ELSE IF i \in kept THEN now.slots[i] ELSE safe.slots[i]]
  BY <1>1, <1>2 DEF Images, Mixture
<1>4. \A i \in Ring :
        \/ image.slots[i] \in {now.slots[i], safe.slots[i]}
        \/ now.slots[i].body # safe.slots[i].body /\ image.slots[i] = Tear(now.slots[i])
  BY <1>3 DEF Changed
<1>5. image.slots \in [Ring -> Cells]
  BY <1>2, <1>3 DEF Images
<1>6. image \in Images
  BY <1>1, <1>3, <1>5 DEF Images, Mixture
<1> QED BY <1>1, <1>3, <1>4, <1>6

(* The torn cell keeps its first byte. *)
LEMMA TearKeeps ==
  ASSUME NEW c \in Cells
  PROVE  Tear(c) \in Cells /\ Tear(c).lead = c.lead
BY DEF Tear, Cells, Bodies

(* A ring that lags survives as itself or as it was one document ago.      *)
LEMMA RingSurvives ==
  ASSUME LegacyOK, now \in Images, safe \in Images, LeaseOK(now), LeaseOK(safe),
         NEW m \in Ring, NEW q \in Numbers, Newest(now, m, q), Lags(now, safe, m, q),
         NEW image \in Remains
  PROVE  \E d \in {read_record(now).doc, read_record(safe).doc} : Shows(image, d)
<1> DEFINE n == NextSlot(m)
<1>1. /\ image \in Images
      /\ image.present
      /\ \A i \in Ring :
           \/ image.slots[i] \in {now.slots[i], safe.slots[i]}
           \/ now.slots[i].body # safe.slots[i].body /\ image.slots[i] = Tear(now.slots[i])
  BY RemainingParts DEF Newest
<1>2. image.lease = now.lease
  BY RemainingParts DEF Lags
<1>3. LeaseOK(image)
  BY <1>2 DEF LeaseOK, Witnessed
<1>4. n \in Ring /\ n # m
  BY NextValues
<1>5. \A i \in Ring \ {m, n} : image.slots[i] = safe.slots[i] /\ image.slots[i] = now.slots[i]
  BY <1>1 DEF Lags
<1>6. image.slots[m] \in {now.slots[m], safe.slots[m]}
  <2>1. now.slots[m].body = safe.slots[m].body
    BY DEF Lags, Images, Cells
  <2> QED BY <1>1, <2>1
<1>7. \/ image.slots[n].lead # "magic"
      \/ image.slots[n] = safe.slots[n] /\ image.slots[n].body = now.slots[n].body
  BY <1>1, <1>4, TearKeeps DEF Lags, Images
<1>9. CASE image.slots[m] = now.slots[m]
  <2>1. ASSUME NEW i \in Ring, image.slots[i].lead = "magic"
        PROVE  /\ image.slots[i].body \in Frames
               /\ Distance(q, image.slots[i].body.sequence) = Behind(m, i)
    <3>1. CASE i # n
      BY <1>5, <1>9, <2>1, <3>1 DEF Newest, InOrder
    <3>2. CASE i = n
      <4>1. image.slots[n] = safe.slots[n]
        BY <1>7, <2>1, <3>2
      <4>2. InOrder(safe.slots, m, q) \/ Before(safe, m, q)
        BY DEF Lags
      <4> QED BY <1>4, <2>1, <3>2, <4>1, <4>2, OthersInOrder DEF InOrder
    <3> QED BY <3>1, <3>2
  <2>2. Newest(image, m, q)
    BY <1>1, <1>9, <2>1 DEF Newest, InOrder
  <2>3. read_record(now).doc = image.slots[m].body.doc
    BY <1>9, NewestReads DEF Checkpoint
  <2> QED BY <1>3, <2>2, <2>3 DEF Shows
<1>10. CASE /\ image.slots[m] = safe.slots[m]
            /\ safe.slots[m] = [now.slots[m] EXCEPT !.lead = "nul"] /\ Before(safe, m, q)
  <2>1. safe.slots[m].lead = "nul"
    BY <1>10 DEF Images, Cells
  <2>2. \A i \in Ring : image.slots[i].lead # "magic" \/ image.slots[i] = safe.slots[i]
    BY <1>5, <1>7, <1>10
  <2>3. CASE Old(safe) /\ Witnessed(safe)
    <3>1. image.lease = safe.lease
      BY <1>2 DEF Lags
    <3>2. Old(image)
      BY <1>1, <1>10, <2>2, <2>3, <3>1 DEF Old, Witnessed
    <3>3. read_record(safe).doc = legacy.doc
      BY <2>3, OldReads
    <3> QED BY <1>3, <3>2, <3>3 DEF Shows
  <2>4. CASE \E k \in Ring, r \in Numbers :
               Newest(safe, k, r) /\ m = NextSlot(k) /\ q = NextNumber(r)
    <3>1. PICK k \in Ring, r \in Numbers :
            Newest(safe, k, r) /\ m = NextSlot(k) /\ q = NextNumber(r)
      BY <2>4
    <3>2. k # m /\ k # n
      BY <3>1, NextValues, JournalAssumption DEF Ring
    <3>3. Newest(image, k, r) /\ image.slots[k] = safe.slots[k]
      BY <1>1, <1>5, <1>10, <2>2, <3>1, <3>2 DEF Newest, InOrder
    <3>4. read_record(safe).doc = image.slots[k].body.doc
      BY <3>1, <3>3, NewestReads DEF Checkpoint
    <3> QED BY <1>3, <3>3, <3>4 DEF Shows
  <2> QED BY <1>10, <2>3, <2>4 DEF Before
<1> QED BY <1>6, <1>9, <1>10 DEF Lags

-----------------------------------------------------------------------------
(* The phases of the record. *)

Power == "power" \in faults

(* Where a power loss may strike, the medium holds what processes see. *)
Same == Power => safe = now

Linking(d, written) ==
  [stage |-> "link", cell |-> "none", written |-> written, doc |-> d, slot |-> 0, sequence |-> 0]

(* No record yet, and perhaps the first one being written.                 *)
AbsentPhase ==
  /\ Vacant(now) /\ Same
  /\ op = Idle \/ \E d \in Documents : op = Linking(d, FALSE)

Slotting(t, s) == op.cell = "slot" /\ op.slot = t /\ op.sequence = s /\ op.doc \in Documents

(* Slot t on its way to number s, up to the mark that commits it.          *)
SlotStage(t, s) ==
  /\ Slotting(t, s)
  /\ \/ op.stage = "erase" /\ (op.written => now.slots[t].lead = "nul")
     \/ /\ op.stage = "fill" /\ ~op.written
        /\ now.slots[t].lead = "nul" /\ Same
     \/ /\ op.stage = "fill" /\ op.written
        /\ now.slots[t] = Cell("nul", Frame(s, op.doc))
        /\ Power => \E c \in Cells : c.lead = "nul" /\ safe = [now EXCEPT !.slots[t] = c]
     \/ /\ op.stage = "mark" /\ ~op.written
        /\ now.slots[t] = Cell("nul", Frame(s, op.doc)) /\ Same

(* The lease file on its way to being the witness. *)
LeaseStage ==
  /\ op.cell = "lease" /\ op.slot = 0 /\ op.sequence = 0 /\ op.doc \in Documents
  /\ now.slots[0] = Cell("text", Text)
  /\ ~op.written => Same
  /\ \/ op.stage = "erase" /\ now.lease.lead = "nul"
     \/ op.stage = "fill" /\ now.lease.lead = "nul"
                          /\ (op.written => now.lease.body = Frame(0, legacy.doc))
     \/ op.stage = "mark" /\ now.lease = Cell(IF op.written THEN "magic" ELSE "nul",
                                             Frame(0, legacy.doc))
  /\ Power => /\ safe = [now EXCEPT !.lease = safe.lease]
              /\ safe.lease.lead = "nul"
              /\ op.stage # "fill" => safe.lease.body = now.lease.body

(* A version 4 record, and perhaps its migration. *)
OldPhase ==
  /\ Old(now)
  /\ \/ op = Idle /\ Same
     \/ LeaseStage
     \/ /\ SlotStage(0, 0) /\ Witnessed(now)
        /\ Power => \E c \in Cells : c.lead # "magic" /\ safe = [now EXCEPT !.slots[0] = c]
        /\ op.stage = "erase" /\ ~op.written => Same

(* The slot of the latest checkpoint, marked but perhaps not durably. *)
Marked(m, q) ==
  /\ op.stage = "mark" /\ op.written /\ Slotting(m, q)
  /\ now.slots[m] = Cell("magic", Frame(q, op.doc))
  /\ Power => safe = [now EXCEPT !.slots[m].lead = "nul"]

Checking(m, q) ==
  /\ op.stage = "check" /\ ~op.written /\ op.slot = m
  /\ op.doc \in Documents
  /\ now.slots[m].body = Frame(q, op.doc) /\ Same

(* The first record, whole and durable, under a name that may not be. *)
Linked(m, q) ==
  /\ \E d \in Documents : op = Linking(d, TRUE)
  /\ m = 0 /\ q = 0
  /\ now.slots[0] = Cell("magic", Frame(0, op.doc))
  /\ Same

RingStage(m, q) ==
  \/ op = Idle
  \/ SlotStage(NextSlot(m), NextNumber(q))
  \/ Marked(m, q)
  \/ Checking(m, q)
  \/ Linked(m, q)

(* A ring whose latest checkpoint is number q in slot m.                   *)
RingAt(m, q) ==
  /\ Newest(now, m, q)
  /\ Power => Lags(now, safe, m, q)
  /\ RingStage(m, q)

RingPhase == \E m \in Ring, q \in Numbers : RingAt(m, q)

Ops ==
  [ stage : {"idle", "link", "erase", "fill", "mark", "check"},
    cell : {"none", "lease", "slot"}, written : BOOLEAN,
    doc : Documents \cup {Nothing}, slot : Ring, sequence : Numbers ]

(* A version 4 record meets one kind of fault.                             *)
Types ==
  /\ now \in Images /\ safe \in Images /\ op \in Ops
  /\ LegacyOK
  /\ faults \subseteq {"kill", "power"}
  /\ IF legacy = NoLegacy THEN faults = {"kill", "power"}
     ELSE ~({"kill", "power"} \subseteq faults)

IInv ==
  /\ Types /\ LeaseOK(now)
  /\ Power => LeaseOK(safe)
  /\ AbsentPhase \/ OldPhase \/ RingPhase

(* Only a record that this code has created can be without its entry.      *)
EntryKnown ==
  /\ entered \in BOOLEAN
  /\ entered => now.present
  /\ ~entered => legacy = NoLegacy

(* What a power loss leaves under its name shows the document from before  *)
(* or after.                                                               *)
LEMMA RemainsShow ==
  ASSUME IInv, Power, NEW image \in Remains
  PROVE  /\ image \in Images
         /\ \E d \in {read_record(now).doc, read_record(safe).doc} : Shows(image, d)
<1> USE DEF IInv, Types
<1>1. /\ image \in Images
      /\ image.present = now.present
      /\ \/ image.lease \in {now.lease, safe.lease}
         \/ now.lease.body # safe.lease.body /\ image.lease = Tear(now.lease)
      /\ \A i \in Ring :
           \/ image.slots[i] \in {now.slots[i], safe.slots[i]}
           \/ now.slots[i].body # safe.slots[i].body /\ image.slots[i] = Tear(now.slots[i])
  BY RemainingParts
<1>2. CASE AbsentPhase
  <2>1. /\ image.lease = now.lease /\ image.present = now.present
        /\ \A i \in Ring : image.slots[i] = now.slots[i]
    BY <1>1, <1>2 DEF AbsentPhase, Same
  <2>2. Vacant(image) /\ LeaseOK(image) /\ read_record(now).doc = Nothing
    BY <1>2, <2>1 DEF AbsentPhase, Vacant, LeaseOK, Witnessed, read_record, Absent, Corrupt
  <2> QED BY <1>1, <2>2 DEF Shows
<1>3. CASE OldPhase
  <2>1. Old(now) /\ read_record(now).doc = legacy.doc
    BY <1>3, OldReads DEF OldPhase
  <2>2. CASE op = Idle /\ Same
    <3>1. /\ image.lease = now.lease /\ image.present = now.present
          /\ \A i \in Ring : image.slots[i] = now.slots[i]
      BY <1>1, <2>2 DEF Same
    <3> QED BY <1>1, <2>1, <3>1, JournalAssumption DEF Shows, Old, LeaseOK, Witnessed, Ring
  <2>3. CASE LeaseStage
    <3>1. /\ safe = [now EXCEPT !.lease = safe.lease]
          /\ safe.lease.lead = "nul" /\ now.slots[0] = Cell("text", Text)
      BY <2>3 DEF LeaseStage
    <3>2. safe.present = now.present /\ safe.slots = now.slots
      BY <3>1 DEF Images
    <3>3. image.present = now.present /\ \A i \in Ring : image.slots[i] = now.slots[i]
      BY <1>1, <3>2
    <3>4. image.lease \in {now.lease, safe.lease} \/ image.lease.lead = "nul"
      <4>1. CASE op.stage = "fill"
        <5>1. now.lease.lead = "nul"
          BY <2>3, <4>1 DEF LeaseStage
        <5> QED BY <1>1, <5>1, TearKeeps DEF Images
      <4>2. CASE op.stage # "fill"
        BY <1>1, <2>3, <4>2 DEF LeaseStage
      <4> QED BY <4>1, <4>2
    <3>5. LeaseOK(image)
      BY <2>1, <3>1, <3>4 DEF LeaseOK, Witnessed, Old
    <3> QED BY <1>1, <2>1, <3>1, <3>3, <3>5, JournalAssumption DEF Shows, Old, Ring
  <2>4. CASE /\ Witnessed(now)
             /\ \E c \in Cells : c.lead # "magic" /\ safe = [now EXCEPT !.slots[0] = c]
    <3>1. PICK c \in Cells : c.lead # "magic" /\ safe = [now EXCEPT !.slots[0] = c]
      BY <2>4
    <3>2. /\ safe.present = now.present /\ safe.lease = now.lease
          /\ safe.slots[0] = c /\ \A i \in Ring \ {0} : safe.slots[i] = now.slots[i]
      BY <3>1, JournalAssumption DEF Images, Ring
    <3>3. image.present = now.present /\ image.lease = now.lease
      BY <1>1, <3>2
    <3>4. ASSUME NEW i \in Ring PROVE image.slots[i].lead # "magic"
      <4>1. now.slots[i].lead # "magic" /\ safe.slots[i].lead # "magic"
        BY <2>1, <3>1, <3>2 DEF Old
      <4> QED BY <1>1, <4>1, TearKeeps DEF Images
    <3> QED BY <1>1, <2>1, <2>4, <3>3, <3>4 DEF Shows, Old, LeaseOK, Witnessed
  <2> QED BY <1>3, <2>2, <2>3, <2>4 DEF OldPhase
<1>4. CASE RingPhase
  BY <1>1, <1>4, RingSurvives DEF RingPhase, RingAt
<1> QED BY <1>2, <1>3, <1>4

(* Or its name is lost, and nothing is there.                              *)
LEMMA SurvivorsShow ==
  ASSUME IInv, EntryKnown, Power, NEW image \in Survivors
  PROVE  /\ image \in Images
         /\ \/ \E d \in {read_record(now).doc, read_record(safe).doc} : Shows(image, d)
            \/ ~entered /\ ~image.present /\ Shows(image, Nothing)
<1>1. CASE image \in Remains
  BY <1>1, RemainsShow
<1>2. CASE ~entered /\ image = Image(FALSE, Cell("nul", Blank), safe.lease)
  <2>1. legacy = NoLegacy /\ safe.lease \in Cells /\ Cell("nul", Blank) \in Cells
    BY <1>2 DEF EntryKnown, IInv, Types, Images, Cell, Cells, Bodies
  <2>2. image \in Images /\ ~image.present /\ image.lease = safe.lease
    BY <1>2, <2>1 DEF Image, Images
  <2>3. Shows(image, Nothing)
    BY <2>1, <2>2 DEF Shows, Vacant, IInv, LeaseOK, Witnessed
  <2> QED BY <1>2, <2>2, <2>3
<1> QED BY <1>1, <1>2 DEF Survivors

-----------------------------------------------------------------------------
(* Steps. *)

(* An image is read in the next state as it is in this one. *)
LEMMA ReadNext ==
  ASSUME UNCHANGED legacy
  PROVE  /\ read_record(now)' = read_record(now')
         /\ read_record(safe)' = read_record(safe')
BY DEF read_record, latest_legacy_document, witness

(* So are the other predicates of an image.                                *)
LEMMA OldNext ==
  ASSUME UNCHANGED legacy
  PROVE  /\ Old(now') => Old(now)'
         /\ Vacant(now') => Vacant(now)'
         /\ \A m \in Ring, q \in Numbers :
              /\ Newest(now', m, q) => Newest(now, m, q)'
              /\ Lags(now', safe', m, q) => Lags(now, safe, m, q)'
<1>1. Old(now') => Old(now)'
  BY DEF Old, Witnessed
<1>2. Old(safe') => Old(safe)'
  BY DEF Old, Witnessed
<1>3. ASSUME NEW m \in Ring, NEW q \in Numbers, Newest(now', m, q)
      PROVE  Newest(now, m, q)'
  BY <1>3 DEF Newest, InOrder
<1>4. ASSUME NEW m \in Ring, NEW q \in Numbers, Newest(safe', m, q)
      PROVE  Newest(safe, m, q)'
  BY <1>4 DEF Newest, InOrder
<1>5. ASSUME NEW m \in Ring, NEW q \in Numbers, Before(safe', m, q)
      PROVE  Before(safe, m, q)'
  BY <1>2, <1>4, <1>5 DEF Before, Witnessed
<1>6. ASSUME NEW m \in Ring, NEW q \in Numbers, InOrder(safe'.slots, m, q)
      PROVE  InOrder(safe.slots, m, q)'
  BY <1>6 DEF InOrder
<1>7. ASSUME NEW m \in Ring, NEW q \in Numbers, Lags(now', safe', m, q)
      PROVE  Lags(now, safe, m, q)'
  BY <1>5, <1>6, <1>7 DEF Lags
<1>8. Vacant(now') => Vacant(now)'
  BY DEF Vacant
<1> QED BY <1>1, <1>3, <1>7, <1>8

(* The invariant, from its parts in the next state.                        *)
LEMMA Kept ==
  ASSUME Types, now' \in Images, safe' \in Images, op' \in Ops,
         LeaseOK(now'), Power => LeaseOK(safe'), UNCHANGED << legacy, faults >>,
         AbsentPhase' \/ OldPhase' \/ RingPhase'
  PROVE  IInv'
BY DEF IInv, Types, LegacyOK, LeaseOK, Witnessed, Power

(* The operations that are not a write.                                    *)
LEMMA IdleIsOp ==
  /\ Idle \in Ops
  /\ \A d \in Documents, written \in BOOLEAN : Linking(d, written) \in Ops
<1>1. 0 \in Ring /\ 0 \in Numbers
  BY JournalAssumption DEF Ring, Numbers
<1>2. Idle \in Ops
  BY <1>1 DEF Idle, Ops
<1>3. ASSUME NEW d \in Documents, NEW written \in BOOLEAN
      PROVE  Linking(d, written) \in Ops
  BY <1>1 DEF Linking, Ops
<1> QED BY <1>2, <1>3

(* Durable and with no transition under way, an image that shows a         *)
(* document is a phase of its own.                                         *)
LEMMA Settles ==
  ASSUME Types, now' \in Images, NEW d, Shows(now', d), safe' = now', op' = Idle,
         UNCHANGED << legacy, faults >>
  PROVE  IInv'
<1> SUFFICES AbsentPhase' \/ OldPhase' \/ RingPhase'
  BY IdleIsOp, Kept DEF Shows
<1>1. Same'
  BY DEF Same, Power
<1>2. CASE Vacant(now')
  BY <1>1, <1>2, OldNext DEF AbsentPhase
<1>3. CASE Old(now')
  BY <1>1, <1>3, OldNext DEF OldPhase
<1>4. CASE \E m \in Ring, q \in Numbers : Newest(now', m, q)
  <2>1. PICK m \in Ring, q \in Numbers : Newest(now', m, q)
    BY <1>4
  <2>2. Lags(now', safe', m, q)
    BY <2>1, DurableLags
  <2>3. RingAt(m, q)'
    BY <2>1, <2>2, OldNext DEF RingAt, RingStage
  <2> QED BY <2>3 DEF RingPhase
<1> QED BY <1>2, <1>3, <1>4 DEF Shows

(* A new record and an untouched version 4 record are phases.              *)
LEMMA Initially ==
  ASSUME FaultsApart, Init
  PROVE  IInv
<1>1. 0 \in Ring /\ Blank \in Bodies /\ Text \in Bodies
  BY JournalAssumption DEF Ring, Bodies
<1>3. Cell("nul", Blank) \in Cells /\ Cell("text", Text) \in Cells
  BY <1>1 DEF Cells, Cell
<1>2. ASSUME NEW p \in BOOLEAN, NEW first \in Cells,
             now = Image(p, first, Cell("nul", Blank))
      PROVE  /\ now \in Images /\ now.present = p /\ now.lease = Cell("nul", Blank)
             /\ now.slots[0] = first
             /\ \A i \in Ring \ {0} : now.slots[i] = Cell("nul", Blank)
  BY <1>1, <1>2, <1>3 DEF Image, Images
<1>4. CASE /\ legacy = NoLegacy
           /\ now = Image(FALSE, Cell("nul", Blank), Cell("nul", Blank))
           /\ faults = {"kill", "power"}
  <2>1. /\ now \in Images /\ ~now.present /\ now.lease = Cell("nul", Blank)
        /\ \A i \in Ring \ {0} : now.slots[i] = Cell("nul", Blank)
    BY <1>2, <1>3, <1>4
  <2>2. AbsentPhase
    BY <1>4, <2>1 DEF AbsentPhase, Vacant, Same, Init
  <2> QED BY <1>4, <2>1, <2>2, IdleIsOp DEF IInv, Types, LegacyOK, LeaseOK, Init
<1>5. CASE /\ legacy \in [doc : Documents, framed : BOOLEAN]
           /\ now = Image(TRUE, Cell("text", Text), Cell("nul", Blank))
           /\ faults \in MigrationFaults
  <2>1. /\ now \in Images /\ now.present /\ now.lease = Cell("nul", Blank)
        /\ now.slots[0] = Cell("text", Text)
        /\ \A i \in Ring \ {0} : now.slots[i] = Cell("nul", Blank)
    BY <1>2, <1>3, <1>5
  <2>2. legacy # NoLegacy
    BY <1>5, JournalAssumption DEF NoLegacy
  <2>3. OldPhase
    BY <2>1, <2>2 DEF OldPhase, Old, Same, Init, Cell
  <2>4. LeaseOK(now)
    BY <2>1, <2>2 DEF LeaseOK, Witnessed, Cell
  <2> QED BY <1>5, <2>1, <2>2, <2>3, <2>4, IdleIsOp, JournalAssumption
          DEF IInv, Types, LegacyOK, Init, FaultsApart
<1> QED BY <1>4, <1>5 DEF Init

(* What is read in each phase. *)
LEMMA PhaseReads ==
  ASSUME IInv
  PROVE  /\ AbsentPhase => read_record(now) = Absent
         /\ OldPhase => /\ read_record(now).kind = "legacy"
                        /\ read_record(now).doc = legacy.doc
                        /\ legacy.doc \in Documents
                        /\ witness(now.lease) = NoCheckpoint <=> ~Witnessed(now)
         /\ \A m \in Ring, q \in Numbers : Newest(now, m, q) =>
              /\ read_record(now) = Checkpoint(now.slots, m)
              /\ now.slots[m].body \in Frames
              /\ now.slots[m].body.sequence = q /\ now.slots[m].body.doc \in Documents
<1>1. AbsentPhase => read_record(now) = Absent
  BY DEF AbsentPhase, Vacant, read_record
<1>2. OldPhase => /\ read_record(now).kind = "legacy" /\ read_record(now).doc = legacy.doc
                  /\ legacy.doc \in Documents
                  /\ witness(now.lease) = NoCheckpoint <=> ~Witnessed(now)
  BY OldReads DEF IInv, Types, OldPhase
<1>3. \A m \in Ring, q \in Numbers : Newest(now, m, q) =>
        /\ read_record(now) = Checkpoint(now.slots, m)
        /\ now.slots[m].body \in Frames
        /\ now.slots[m].body.sequence = q /\ now.slots[m].body.doc \in Documents
  BY NewestReads DEF IInv, Types
<1> QED BY <1>1, <1>2, <1>3

(* There is a document where there is a record, and none elsewhere.        *)
LEMMA PresentReads ==
  ASSUME IInv
  PROVE  read_record(now).doc = Nothing <=> ~now.present
<1>1. CASE AbsentPhase
  BY <1>1, PhaseReads DEF AbsentPhase, Vacant, Absent, Corrupt
<1>2. CASE OldPhase
  BY <1>2, PhaseReads, JournalAssumption DEF OldPhase, Old
<1>3. CASE RingPhase
  <2>1. PICK m \in Ring, q \in Numbers : Newest(now, m, q)
    BY <1>3 DEF RingPhase, RingAt
  <2> QED BY <2>1, PhaseReads, JournalAssumption DEF Newest, Checkpoint
<1> QED BY <1>1, <1>2, <1>3 DEF IInv

(* The record is absent where it has no name.                              *)
LEMMA AbsentReads ==
  ASSUME IInv, read_record(now) = Absent
  PROVE  ~now.present
BY PresentReads DEF Absent, Corrupt

(* Which of them a stage of the transition belongs to.                     *)
LEMMA Stages ==
  /\ op = Idle => op.stage = "idle" /\ ~op.written /\ op.doc = Nothing
  /\ LeaseStage => /\ op.stage \in {"erase", "fill", "mark"} /\ op.cell = "lease"
                   /\ op.doc \in Documents
  /\ \A t, s : SlotStage(t, s) =>
       /\ op.stage \in {"erase", "fill", "mark"} /\ op.cell = "slot"
       /\ op.stage = "mark" => ~op.written
       /\ op.doc \in Documents
  /\ \A m, q :
       /\ Marked(m, q) => /\ op.stage = "mark" /\ op.written /\ op.cell = "slot"
                          /\ op.doc \in Documents
       /\ Checking(m, q) => op.stage = "check" /\ ~op.written /\ op.doc \in Documents
       /\ Linked(m, q) => /\ op.stage = "link" /\ op.written /\ op.cell = "none"
                          /\ op.doc \in Documents
  /\ \A d, b : op = Linking(d, b) =>
       op.stage = "link" /\ op.written = b /\ op.cell = "none" /\ op.doc = d
<1>1. op = Idle => op.stage = "idle" /\ ~op.written /\ op.doc = Nothing
  BY DEF Idle
<1>2. LeaseStage => /\ op.stage \in {"erase", "fill", "mark"} /\ op.cell = "lease"
                    /\ op.doc \in Documents
  BY DEF LeaseStage
<1>3. ASSUME NEW t, NEW s, SlotStage(t, s)
      PROVE  /\ op.stage \in {"erase", "fill", "mark"} /\ op.cell = "slot"
             /\ op.stage = "mark" => ~op.written
             /\ op.doc \in Documents
  BY <1>3 DEF SlotStage, Slotting
<1>4. ASSUME NEW m, NEW q, Marked(m, q)
      PROVE  op.stage = "mark" /\ op.written /\ op.cell = "slot" /\ op.doc \in Documents
  BY <1>4 DEF Marked, Slotting
<1>5. ASSUME NEW m, NEW q, Checking(m, q)
      PROVE  op.stage = "check" /\ ~op.written /\ op.doc \in Documents
  BY <1>5 DEF Checking
<1>6. ASSUME NEW d, NEW b, op = Linking(d, b)
      PROVE  op.stage = "link" /\ op.written = b /\ op.cell = "none" /\ op.doc = d
  BY <1>6 DEF Linking, Idle
<1>7. ASSUME NEW m, NEW q, Linked(m, q)
      PROVE  op.stage = "link" /\ op.written /\ op.cell = "none" /\ op.doc \in Documents
  BY <1>6, <1>7 DEF Linked
<1> QED BY <1>1, <1>2, <1>3, <1>4, <1>5, <1>6, <1>7

(* The first record is begun only where there is none. *)
LEMMA BeginFirstKept ==
  ASSUME IInv, BeginFirst
  PROVE  IInv'
<1>1. AbsentPhase /\ Vacant(now)
  <2>1. read_record(now).kind = "absent"
    BY DEF BeginFirst, Absent, Corrupt
  <2>2. ~OldPhase
    BY <2>1, PhaseReads
  <2>3. ~RingPhase
    BY <2>1, PhaseReads DEF RingPhase, RingAt, Checkpoint
  <2> QED BY <2>2, <2>3 DEF IInv, AbsentPhase
<1>2. PICK doc \in Documents : op' = Linking(doc, FALSE)
  BY DEF BeginFirst, Linking, Idle
<1>3. AbsentPhase'
  BY <1>1, <1>2, OldNext DEF AbsentPhase, BeginFirst, Same, Power
<1>4. op' \in Ops
  BY <1>2, IdleIsOp
<1> QED BY <1>3, <1>4, Kept DEF BeginFirst, IInv, Types

(* The link makes the whole file appear at once. *)
LEMMA LinkKept ==
  ASSUME IInv, Link
  PROVE  /\ IInv' /\ read_record(now').doc = op.doc
         /\ safe' = now' /\ now'.present /\ ~now.present
         /\ op.doc \in Documents /\ op'.doc = op.doc
<1>1. op.stage = "link" /\ ~op.written
  BY DEF Link
<1>2. ~OldPhase /\ ~RingPhase
  BY <1>1, Stages DEF OldPhase, RingPhase, RingAt, RingStage
<1>3. AbsentPhase /\ \E doc \in Documents : op = Linking(doc, FALSE)
  BY <1>1, <1>2, Stages DEF IInv, AbsentPhase
<1>20. PICK doc \in Documents : op = Linking(doc, FALSE)
  BY <1>3
<1>4. op.doc = doc /\ op' = Linking(doc, TRUE)
  BY <1>20 DEF Link, Linking, Idle
<1>5. Frame(0, doc) \in Frames /\ 0 \in Ring /\ 0 \in Numbers
  BY JournalAssumption DEF Frame, Frames, Ring, Numbers
<1>6. /\ safe = now /\ Vacant(now) /\ legacy = NoLegacy /\ Power
  BY <1>3 DEF AbsentPhase, Same, Vacant, IInv, Types, Power
<1>7. Cell("magic", Frame(0, doc)) \in Cells
  BY <1>5 DEF Cells, Cell, Bodies
<1>8. /\ now' \in Images /\ now'.present /\ now'.lease = now.lease /\ safe' = now'
      /\ now'.slots[0] = Cell("magic", Frame(0, doc))
      /\ \A i \in Ring \ {0} : now'.slots[i] = Cell("nul", Blank)
  <2>1. now' = Image(TRUE, Cell("magic", Frame(0, doc)), now.lease)
    BY <1>4 DEF Link
  <2>2. now.lease \in Cells /\ Cell("nul", Blank) \in Cells
    BY DEF IInv, Types, Images, Cell, Cells, Bodies
  <2>3. safe' = [now' EXCEPT !.lease = now.lease]
    BY <1>6 DEF Link
  <2>4. now' \in Images /\ now'.lease = now.lease
    BY <1>7, <2>1, <2>2 DEF Image, Images
  <2> QED BY <1>5, <2>1, <2>3, <2>4 DEF Image, Images
<1>9. Behind(0, 0) = 0 /\ Distance(0, 0) = 0
  BY DEF Behind, Distance
<1>10. Newest(now', 0, 0)
  BY <1>5, <1>8, <1>9 DEF Newest, InOrder, Cell, Frame
<1>11. Lags(now', safe', 0, 0)
  BY <1>5, <1>8, <1>10, DurableLags
<1>12. RingAt(0, 0)'
  <2>1. op'.doc = doc
    BY <1>4 DEF Linking, Idle
  <2>2. Linked(0, 0)'
    BY <1>4, <1>8, <2>1 DEF Linked, Same
  <2>3. Newest(now, 0, 0)' /\ Lags(now, safe, 0, 0)'
    BY <1>5, <1>10, <1>11, OldNext DEF Link
  <2> QED BY <2>2, <2>3 DEF RingAt, RingStage
<1>13. op' \in Ops
  BY <1>4, IdleIsOp
<1>14. LeaseOK(now') /\ LeaseOK(safe')
  BY <1>6, <1>8 DEF IInv, LeaseOK
<1>15. IInv'
  BY <1>5, <1>8, <1>12, <1>13, <1>14, Kept DEF Link, RingPhase, IInv
<1>16. read_record(now').doc = op.doc
  BY <1>4, <1>5, <1>8, <1>10, NewestReads DEF Checkpoint, Cell, Frame
<1>17. ~now.present
  BY <1>6 DEF Vacant
<1>18. op'.doc = doc
  BY <1>4 DEF Linking, Idle
<1> QED BY <1>4, <1>8, <1>15, <1>16, <1>17, <1>18

(* A transition of a ring is begun at the slot after the latest; one of a  *)
(* version 4 record at the lease file, or with a witness at slot zero.     *)
LEMMA BeginTransitionKept ==
  ASSUME IInv, BeginTransition
  PROVE  IInv' /\ op'.doc \in Documents
<1> DEFINE record == read_record(now)
<1>1. PICK doc \in Documents :
        \/ record.kind = "checkpoint" /\ op' = Follows(record, doc)
        \/ record.kind = "legacy" /\ op' = Migrates(doc)
  BY DEF BeginTransition
<1>2. op = Idle /\ UNCHANGED << now, safe, legacy, faults >>
  BY DEF BeginTransition
<1>3. CASE record.kind = "checkpoint" /\ op' = Follows(record, doc)
  <2>1. ~AbsentPhase /\ ~OldPhase
    BY <1>3, PhaseReads DEF Absent, Corrupt
  <2>2. PICK m \in Ring, q \in Numbers : RingAt(m, q)
    BY <2>1 DEF IInv, RingPhase
  <2>3. record = Checkpoint(now.slots, m) /\ now.slots[m].body.sequence = q
    BY <2>2, PhaseReads DEF RingAt
  <2>4. record.slot = m /\ record.sequence = q
    BY <2>3 DEF Checkpoint
  <2>5. op' = [ stage |-> "erase", cell |-> "slot", written |-> FALSE, doc |-> doc,
                slot |-> NextSlot(m), sequence |-> NextNumber(q) ]
    BY <1>3, <2>4 DEF Follows, Idle, NextSlot, NextNumber
  <2>6. NextSlot(m) \in Ring /\ NextNumber(q) \in Numbers
    BY NextValues
  <2>7. SlotStage(NextSlot(m), NextNumber(q))'
    BY <2>5 DEF SlotStage, Slotting
  <2>8. Newest(now', m, q) /\ (Power => Lags(now', safe', m, q))
    BY <1>2, <2>2 DEF RingAt
  <2>9. RingAt(m, q)'
    BY <1>2, <2>7, <2>8, OldNext DEF RingAt, RingStage, Power
  <2>10. op' \in Ops /\ op'.doc \in Documents
    BY <2>5, <2>6 DEF Ops
  <2> QED BY <1>2, <2>9, <2>10, Kept DEF IInv, Types, RingPhase
<1>4. CASE record.kind = "legacy" /\ op' = Migrates(doc)
  <2>1. ~AbsentPhase /\ ~RingPhase
    BY <1>4, PhaseReads DEF Absent, Corrupt, RingPhase, RingAt, Checkpoint
  <2>2. OldPhase /\ Old(now) /\ Same
    BY <1>2, <2>1, Stages DEF IInv, OldPhase
  <2>3. op' = [ stage |-> "erase", cell |-> IF Witnessed(now) THEN "slot" ELSE "lease",
                written |-> FALSE, doc |-> doc, slot |-> 0, sequence |-> 0 ]
    BY <1>4, <2>2, PhaseReads DEF Migrates, Idle
  <2>4. 0 \in Ring /\ 0 \in Numbers
    BY JournalAssumption DEF Ring, Numbers
  <2>5. op' \in Ops /\ op'.doc \in Documents
    BY <2>3, <2>4 DEF Ops
  <2>6. Same' /\ Old(now)'
    BY <1>2, <2>2, OldNext DEF Same, Power
  <2>7. CASE ~Witnessed(now)
    <3>1. now.slots[0] = Cell("text", Text) /\ now.lease.lead = "nul"
      BY <2>2, <2>7 DEF Old, IInv, LeaseOK, Witnessed
    <3>2. Power => safe = now /\ safe = [now EXCEPT !.lease = safe.lease]
      BY <2>2 DEF Same, IInv, Types, Images
    <3>3. LeaseStage'
      BY <1>2, <2>3, <2>6, <2>7, <3>1, <3>2 DEF LeaseStage, Power
    <3> QED BY <1>2, <2>5, <2>6, <3>3, Kept DEF IInv, Types, OldPhase
  <2>8. CASE Witnessed(now)
    <3>1. SlotStage(0, 0)' /\ Witnessed(now)'
      BY <1>2, <2>3, <2>8 DEF SlotStage, Slotting, Witnessed
    <3>2. now.slots[0] \in Cells /\ now.slots[0].lead # "magic"
      BY <2>2, <2>4 DEF Old, IInv, Types, Images
    <3>3. Power => safe = [now EXCEPT !.slots[0] = now.slots[0]]
      BY <2>2, <2>4 DEF Same, IInv, Types, Images
    <3>4. Power' => \E c \in Cells : c.lead # "magic" /\ safe' = [now' EXCEPT !.slots[0] = c]
      BY <1>2, <3>2, <3>3 DEF Power
    <3> QED BY <1>2, <2>5, <2>6, <3>1, <3>4, Kept DEF IInv, Types, OldPhase
  <2> QED BY <2>7, <2>8
<1> QED BY <1>1, <1>3, <1>4

(* What a write to a slot changes, short of the mark that commits it. *)
LEMMA SlotWrites ==
  ASSUME Types, NEW t \in Ring, NEW s \in Numbers, SlotStage(t, s), Write
  PROVE  /\ op.stage # "mark" =>
              /\ SlotStage(t, s)'
              /\ \E c \in Cells :
                   /\ c.lead = "nul" /\ now' = [now EXCEPT !.slots[t] = c]
                   /\ \/ op.stage = "erase" /\ c = [now.slots[t] EXCEPT !.lead = "nul"]
                      \/ Same /\ now.slots[t].lead = "nul"
         /\ op.stage = "mark" =>
              /\ safe' = safe /\ Same /\ now.slots[t].lead = "nul"
              /\ now' = [now EXCEPT !.slots[t] = Cell("magic", Frame(s, op.doc))]
         /\ op'.doc = op.doc /\ op' \in Ops /\ Frame(s, op.doc) \in Frames
<1>1. /\ op.cell = "slot" /\ op.slot = t /\ op.sequence = s /\ op.doc \in Documents
      /\ op.stage \in {"erase", "fill", "mark"} /\ ~op.written
      /\ op' = [op EXCEPT !.written = TRUE]
      /\ now' = [now EXCEPT !.slots[t] = Written(now.slots[t])]
      /\ UNCHANGED << safe, legacy, faults >>
  BY DEF Write, SlotStage, Slotting, Put, Current
<1>2. Frame(s, op.doc) \in Frames /\ Frame(s, op.doc) \in Bodies /\ now.slots[t] \in Cells
  BY <1>1 DEF Frame, Frames, Numbers, Bodies, Types, Images
<1>3. /\ op' \in Ops /\ op'.doc = op.doc /\ op'.stage = op.stage /\ op'.written
      /\ op'.cell = "slot" /\ op'.slot = t /\ op'.sequence = s
  BY <1>1 DEF Types, Ops
<1>4. \A c \in Cells : [now EXCEPT !.slots[t] = c].slots[t] = c
  BY DEF Types, Images
<1>5. CASE op.stage = "erase"
  <2>1. /\ Written(now.slots[t]) \in Cells /\ Written(now.slots[t]).lead = "nul"
        /\ Written(now.slots[t]) = [now.slots[t] EXCEPT !.lead = "nul"]
    BY <1>2, <1>5 DEF Written, Cells
  <2>2. now'.slots[t].lead = "nul"
    BY <1>1, <1>4, <2>1
  <2>3. SlotStage(t, s)'
    BY <1>1, <1>3, <1>5, <2>2 DEF SlotStage, Slotting
  <2> QED BY <1>1, <1>2, <1>3, <1>5, <2>1, <2>3
<1>6. CASE op.stage = "fill"
  <2>1. now.slots[t].lead = "nul" /\ Same
    BY <1>1, <1>6 DEF SlotStage
  <2>2. Contents = Frame(s, op.doc)
    BY <1>1 DEF Contents
  <2>3. Written(now.slots[t]) = Cell("nul", Frame(s, op.doc))
    BY <1>2, <1>6, <2>1, <2>2 DEF Written, Cell, Cells
  <2>4. Cell("nul", Frame(s, op.doc)) \in Cells
    BY <1>2 DEF Cell, Cells
  <2>5. now'.slots[t] = Cell("nul", Frame(s, op.doc))
    BY <1>1, <1>4, <2>3, <2>4
  <2>6. Power => safe' = [now' EXCEPT !.slots[t] = now.slots[t]]
    BY <1>1, <2>1 DEF Same, Types, Images
  <2>7. Power' => \E c \in Cells : c.lead = "nul" /\ safe' = [now' EXCEPT !.slots[t] = c]
    BY <1>1, <1>2, <2>1, <2>6 DEF Power
  <2>8. SlotStage(t, s)'
    BY <1>1, <1>3, <1>6, <2>5, <2>7 DEF SlotStage, Slotting
  <2> QED BY <1>1, <1>2, <1>3, <1>6, <2>1, <2>3, <2>4, <2>8 DEF Cell
<1>7. CASE op.stage = "mark"
  <2>1. now.slots[t] = Cell("nul", Frame(s, op.doc)) /\ Same
    BY <1>1, <1>7 DEF SlotStage
  <2>2. Written(now.slots[t]) = Cell("magic", Frame(s, op.doc))
    BY <1>7, <2>1 DEF Written, Cell
  <2> QED BY <1>1, <1>2, <1>3, <1>7, <2>1, <2>2 DEF Cell
<1> QED BY <1>1, <1>5, <1>6, <1>7

(* The mark makes the slot the latest. *)
LEMMA MarkKept ==
  ASSUME IInv, NEW t \in Ring, NEW s \in Numbers, Before(now, t, s),
         SlotStage(t, s), Write, op.stage = "mark"
  PROVE  IInv' /\ read_record(now').doc = op.doc
<1>1. /\ safe' = safe /\ Same /\ now.slots[t].lead = "nul"
      /\ now' = [now EXCEPT !.slots[t] = Cell("magic", Frame(s, op.doc))]
      /\ op' \in Ops /\ op'.doc = op.doc /\ Frame(s, op.doc) \in Frames
  BY SlotWrites DEF IInv
<1>2. /\ op.cell = "slot" /\ op.slot = t /\ op.sequence = s /\ op.doc \in Documents
      /\ op' = [op EXCEPT !.written = TRUE] /\ UNCHANGED << legacy, faults >>
  BY DEF Write, SlotStage, Slotting
<1>3. Cell("magic", Frame(s, op.doc)) \in Cells
  BY <1>1 DEF Cell, Cells, Bodies
<1>4. /\ now' \in Images /\ now'.present = now.present /\ now'.lease = now.lease
      /\ now'.slots[t] = Cell("magic", Frame(s, op.doc))
      /\ \A i \in Ring \ {t} : now'.slots[i] = now.slots[i]
  BY <1>1, <1>3 DEF IInv, Types, Images
<1>5. Newest(now', t, s)
  <2>1. /\ Cell("magic", Frame(s, op.doc)).lead = "magic"
        /\ Cell("magic", Frame(s, op.doc)).body = Frame(s, op.doc)
        /\ Frame(s, op.doc).sequence = s
    BY DEF Cell, Frame
  <2>2. /\ now'.slots[t].lead = "magic" /\ now'.slots[t].body \in Frames
        /\ now'.slots[t].body.sequence = s
    BY <1>1, <1>4, <2>1
  <2>3. now \in Images
    BY DEF IInv, Types
  <2> QED BY <1>4, <2>2, <2>3, BecomesNewest
<1>6. now.slots[t] = Cell("nul", Frame(s, op.doc))
  BY DEF SlotStage, Write
<1>7. Power => now = [now' EXCEPT !.slots[t].lead = "nul"]
  <2> DEFINE c == Cell("magic", Frame(s, op.doc))
  <2>1. now'.slots = [now.slots EXCEPT ![t] = c]
    BY <1>1 DEF IInv, Types, Images
  <2>2. [c EXCEPT !.lead = "nul"] = now.slots[t]
    BY <1>6 DEF Cell
  <2> HIDE DEF c
  <2>3. now.slots \in [Ring -> Cells]
    BY DEF IInv, Types, Images
  <2>4. [now'.slots EXCEPT ![t].lead = "nul"] = now.slots
    BY <2>1, <2>2, <2>3
  <2>5. [now' EXCEPT !.slots = now.slots] = now
    BY <1>1 DEF IInv, Types, Images
  <2> QED BY <2>4, <2>5
<1>8. Power => Lags(now', safe', t, s)
  <2> SUFFICES ASSUME Power PROVE Lags(now', safe', t, s)
    OBVIOUS
  <2>1. safe' = now
    BY <1>1 DEF Same
  <2>2. now.slots[t] = [now'.slots[t] EXCEPT !.lead = "nul"]
    BY <1>4, <1>6 DEF Cell
  <2>3. now.present
    BY DEF Before, Old, Newest
  <2>4. NextSlot(t) \in Ring \ {t}
    BY NextValues
  <2> QED BY <1>4, <2>1, <2>2, <2>3, <2>4 DEF Lags
<1>9. Marked(t, s)'
  <2>1. Slotting(t, s)' /\ op'.stage = "mark" /\ op'.written
    BY <1>2 DEF Slotting, IInv, Types, Ops
  <2>2. Power => safe' = [now' EXCEPT !.slots[t].lead = "nul"]
    BY <1>1, <1>7 DEF Same
  <2>3. now'.slots[t] = Cell("magic", Frame(s, op'.doc))
    BY <1>1, <1>4
  <2> QED BY <1>2, <2>1, <2>2, <2>3 DEF Marked, Power
<1>10. RingAt(t, s)'
  BY <1>2, <1>5, <1>8, <1>9, OldNext DEF RingAt, RingStage, Power
<1>11. LeaseOK(now')
  BY <1>4 DEF IInv, LeaseOK, Witnessed
<1>12. IInv'
  BY <1>1, <1>2, <1>4, <1>10, <1>11, Kept DEF IInv, Types, RingPhase
<1>13. read_record(now').doc = op.doc
  BY <1>4, <1>5, NewestReads DEF Checkpoint, Cell, Frame
<1> QED BY <1>12, <1>13

(* A write to the lease file leaves the version 4 record as it is. *)
LEMMA LeaseWriteKept ==
  ASSUME IInv, OldPhase, LeaseStage, Write
  PROVE  IInv' /\ read_record(now').doc = read_record(now).doc
<1>1. /\ op.cell = "lease" /\ op.stage \in {"erase", "fill", "mark"} /\ ~op.written /\ Same
      /\ op.slot = 0 /\ op.sequence = 0 /\ op.doc \in Documents
      /\ op' = [op EXCEPT !.written = TRUE]
      /\ now' = [now EXCEPT !.lease = Written(now.lease)]
      /\ now.slots[0] = Cell("text", Text)
      /\ UNCHANGED << safe, legacy, faults >>
  BY DEF Write, LeaseStage, Put, Current
<1>2. /\ op' \in Ops /\ op'.doc = op.doc /\ op'.stage = op.stage /\ op'.written
      /\ op'.cell = "lease" /\ op'.slot = 0 /\ op'.sequence = 0
  BY <1>1 DEF IInv, Types, Ops
<1>3. Old(now) /\ legacy.doc \in Documents /\ read_record(now).doc = legacy.doc
  BY PhaseReads DEF OldPhase
<1>4. /\ Frame(0, legacy.doc) \in Bodies
      /\ \A lead \in {"nul", "magic"} : Cell(lead, Frame(0, legacy.doc)) \in Cells
  BY <1>3, JournalAssumption DEF Frame, Frames, Bodies, Cell, Cells
<1>5. now.lease \in Cells
  BY DEF IInv, Types, Images
<1>6. /\ Written(now.lease) \in Cells
      /\ op.stage = "erase" => now.lease.lead = "nul" /\ Written(now.lease) = now.lease
      /\ op.stage = "fill" => now.lease.lead = "nul"
                              /\ Written(now.lease) = Cell("nul", Frame(0, legacy.doc))
      /\ op.stage = "mark" => /\ now.lease = Cell("nul", Frame(0, legacy.doc))
                              /\ Written(now.lease) = Cell("magic", Frame(0, legacy.doc))
  <2>1. CASE op.stage = "erase"
    <3>1. now.lease.lead = "nul"
      BY <2>1 DEF LeaseStage
    <3>2. Written(now.lease) = now.lease
      BY <1>5, <2>1, <3>1 DEF Written, Cells
    <3> QED BY <1>5, <2>1, <3>1, <3>2
  <2>2. CASE op.stage = "fill"
    <3>1. now.lease.lead = "nul"
      BY <2>2 DEF LeaseStage
    <3>2. Contents = Frame(0, legacy.doc)
      BY <1>1, <1>3 DEF Contents
    <3>3. Written(now.lease) = Cell("nul", Frame(0, legacy.doc))
      BY <1>5, <2>2, <3>1, <3>2 DEF Written, Cells, Cell
    <3> QED BY <1>4, <2>2, <3>1, <3>3
  <2>3. CASE op.stage = "mark"
    <3>1. now.lease = Cell("nul", Frame(0, legacy.doc))
      BY <1>1, <2>3 DEF LeaseStage
    <3>2. Written(now.lease) = Cell("magic", Frame(0, legacy.doc))
      BY <2>3, <3>1 DEF Written, Cell
    <3> QED BY <1>4, <2>3, <3>1, <3>2
  <2> QED BY <1>1, <2>1, <2>2, <2>3
<1>7. /\ now' \in Images /\ now'.present = now.present /\ now'.slots = now.slots
      /\ now'.lease = Written(now.lease)
  BY <1>1, <1>6 DEF IInv, Types, Images
<1>8. Old(now')
  BY <1>1, <1>3, <1>7 DEF Old
<1>9. LeaseOK(now')
  BY <1>1, <1>3, <1>6, <1>7 DEF LeaseOK, Old, Witnessed, Cell
<1>10. LeaseStage'
  <2>1. \/ op'.stage = "erase" /\ now'.lease.lead = "nul"
        \/ op'.stage = "fill" /\ now'.lease.lead = "nul" /\ now'.lease.body = Frame(0, legacy.doc)
        \/ op'.stage = "mark" /\ now'.lease = Cell("magic", Frame(0, legacy.doc))
    BY <1>1, <1>2, <1>6, <1>7 DEF Cell
  <2>2. Power => safe = now /\ safe = [now' EXCEPT !.lease = safe.lease]
    BY <1>1, <1>7 DEF Same, IInv, Types, Images
  <2>3. Power => /\ safe.lease.lead = "nul"
                 /\ op.stage # "fill" => safe.lease.body = now'.lease.body
    BY <1>1, <1>6, <1>7, <2>2 DEF Cell
  <2> QED BY <1>1, <1>2, <1>7, <2>1, <2>2, <2>3 DEF LeaseStage, Power
<1>11. IInv'
  BY <1>1, <1>2, <1>7, <1>8, <1>9, <1>10, OldNext, Kept DEF IInv, Types, OldPhase
<1>12. read_record(now').doc = legacy.doc
  BY <1>7, <1>8, <1>9, OldReads DEF IInv, Types
<1> QED BY <1>3, <1>11, <1>12

(* Until it is marked, neither does a write to the slot that is next.      *)
LEMMA OldWriteKept ==
  ASSUME IInv, OldPhase, SlotStage(0, 0), Write, op.stage # "mark"
  PROVE  IInv' /\ read_record(now').doc = read_record(now).doc
<1>1. 0 \in Ring /\ 0 \in Numbers
  BY JournalAssumption DEF Ring, Numbers
<1>2. PICK c \in Cells : c.lead = "nul" /\ now' = [now EXCEPT !.slots[0] = c]
  BY <1>1, SlotWrites DEF IInv
<1>3. SlotStage(0, 0)' /\ op' \in Ops
  BY <1>1, SlotWrites DEF IInv
<1>4. /\ Old(now) /\ Witnessed(now)
      /\ Power => \E e \in Cells : e.lead # "magic" /\ safe = [now EXCEPT !.slots[0] = e]
  BY Stages DEF OldPhase, SlotStage
<1>5. UNCHANGED << safe, legacy, faults >> /\ op' = [op EXCEPT !.written = TRUE]
  BY DEF Write
<1>6. Before(now, 0, 0)
  BY <1>4 DEF Before
<1>7. /\ now' \in Images /\ Old(now')
      /\ read_record(now').doc = read_record(now).doc
  BY <1>1, <1>2, <1>4, <1>6, BeforeKept DEF IInv, Types
<1>8. now'.lease = now.lease
  BY <1>2 DEF IInv, Types, Images
<1>9. LeaseOK(now') /\ Witnessed(now)'
  BY <1>4, <1>8 DEF LeaseOK, Witnessed, IInv
<1>10. Power' => \E e \in Cells : e.lead # "magic" /\ safe' = [now' EXCEPT !.slots[0] = e]
  <2> SUFFICES ASSUME Power
               PROVE  \E e \in Cells : e.lead # "magic" /\ safe' = [now' EXCEPT !.slots[0] = e]
    BY <1>5 DEF Power
  <2>1. PICK e \in Cells : e.lead # "magic" /\ safe = [now EXCEPT !.slots[0] = e]
    BY <1>4
  <2>2. safe' = [now' EXCEPT !.slots[0] = e]
    BY <1>2, <1>5, <2>1 DEF IInv, Types, Images
  <2> QED BY <2>1, <2>2
<1>11. op'.written
  BY <1>5 DEF IInv, Types, Ops
<1>12. OldPhase'
  BY <1>3, <1>5, <1>7, <1>9, <1>10, <1>11, OldNext DEF OldPhase
<1> QED BY <1>3, <1>5, <1>7, <1>9, <1>12, Kept DEF IInv, Types

(* The same in a ring, whose latest slot is another.                       *)
LEMMA RingWriteKept ==
  ASSUME IInv, NEW m \in Ring, NEW q \in Numbers, RingAt(m, q),
         SlotStage(NextSlot(m), NextNumber(q)), Write, op.stage # "mark"
  PROVE  IInv' /\ read_record(now').doc = read_record(now).doc
<1> DEFINE n == NextSlot(m)
           s == NextNumber(q)
<1>1. n \in Ring /\ n # m /\ s \in Numbers
  BY NextValues
<1> HIDE DEF n, s
<1>2. PICK c \in Cells :
        /\ c.lead = "nul" /\ now' = [now EXCEPT !.slots[n] = c]
        /\ \/ c = [now.slots[n] EXCEPT !.lead = "nul"]
           \/ Same /\ now.slots[n].lead = "nul"
  BY <1>1, SlotWrites DEF IInv, n, s
<1>3. SlotStage(n, s)' /\ op' \in Ops
  BY <1>1, SlotWrites DEF IInv, n, s
<1>4. UNCHANGED << safe, legacy, faults >>
  BY DEF Write
<1>5. Newest(now, m, q) /\ Before(now, n, s)
  BY DEF RingAt, Before, n, s
<1>6. /\ now' \in Images /\ Newest(now', m, q)
      /\ read_record(now').doc = read_record(now).doc
  BY <1>1, <1>2, <1>5, BeforeKept DEF IInv, Types, n
<1>7. /\ now'.present = now.present /\ now'.lease = now.lease /\ now'.slots[n] = c
      /\ \A i \in Ring \ {n} : now'.slots[i] = now.slots[i]
  BY <1>1, <1>2 DEF IInv, Types, Images
<1>8. LeaseOK(now')
  BY <1>7 DEF LeaseOK, Witnessed, IInv
<1>9. now.slots[n] \in Cells
  BY <1>1 DEF IInv, Types, Images
<1>10. Power => Lags(now', safe', m, q)
  <2> SUFFICES ASSUME Power PROVE Lags(now', safe, m, q)
    BY <1>4
  <2>1. Lags(now, safe, m, q)
    BY DEF RingAt
  <2>2. CASE Same /\ now.slots[n].lead = "nul"
    <3>1. safe = now /\ now.present
      BY <1>5, <2>2 DEF Same, Newest
    <3> QED BY <1>2, <1>5, <1>7, <2>2, <3>1 DEF Lags, Newest, n
  <2>3. CASE c = [now.slots[n] EXCEPT !.lead = "nul"]
    <3>1. c.body = now.slots[n].body
      BY <1>9, <2>3 DEF Cells
    <3>2. now'.slots[n].lead = "nul"
            /\ (safe.slots[n].lead = "nul" \/ safe.slots[n].body = now'.slots[n].body)
      BY <1>2, <1>7, <2>1, <3>1 DEF Lags, n
    <3>4. now'.slots[m] = now.slots[m]
      BY <1>1, <1>7
    <3>5. /\ safe.lease = now'.lease
          /\ \A i \in Ring \ {m, n} : safe.slots[i] = now'.slots[i]
      BY <1>7, <2>1 DEF Lags, n
    <3> QED BY <2>1, <3>2, <3>4, <3>5 DEF Lags, n
  <2> QED BY <1>2, <2>2, <2>3
<1>11. RingAt(m, q)'
  <2>1. Newest(now, m, q)' /\ (Power' => Lags(now, safe, m, q)')
    BY <1>4, <1>6, <1>10, OldNext DEF Power
  <2> QED BY <1>3, <2>1 DEF RingAt, RingStage, n, s
<1> QED BY <1>3, <1>4, <1>6, <1>8, <1>11, Kept DEF IInv, Types, RingPhase

(* So a write changes the document read only by committing it.             *)
LEMMA WriteKept ==
  ASSUME IInv, Write
  PROVE  /\ IInv' /\ op'.doc = op.doc
         /\ read_record(now').doc \in {read_record(now).doc, op.doc}
<1>1. op.stage \in {"erase", "fill", "mark"} /\ ~op.written
  BY DEF Write
<1>2. op'.doc = op.doc
  BY DEF Write, IInv, Types, Ops
<1>3. 0 \in Ring /\ 0 \in Numbers
  BY JournalAssumption DEF Ring, Numbers
<1>4. CASE OldPhase /\ LeaseStage
  BY <1>2, <1>4, LeaseWriteKept
<1>5. CASE OldPhase /\ SlotStage(0, 0)
  <2>1. Old(now) /\ Witnessed(now)
    BY <1>5, Stages DEF OldPhase
  <2>2. Before(now, 0, 0)
    BY <2>1 DEF Before
  <2> QED BY <1>2, <1>3, <1>5, <2>2, OldWriteKept, MarkKept
<1>6. CASE RingPhase
  <2>1. PICK m \in Ring, q \in Numbers : RingAt(m, q)
    BY <1>6 DEF RingPhase
  <2>2. SlotStage(NextSlot(m), NextNumber(q))
    BY <1>1, <2>1, Stages DEF RingAt, RingStage
  <2>3. Before(now, NextSlot(m), NextNumber(q))
    BY <2>1 DEF RingAt, Before
  <2> QED BY <1>2, <2>1, <2>2, <2>3, NextValues, RingWriteKept, MarkKept
<1>7. ~AbsentPhase
  BY <1>1, Stages DEF AbsentPhase
<1>8. OldPhase => LeaseStage \/ SlotStage(0, 0)
  BY <1>1, Stages DEF OldPhase
<1> QED BY <1>4, <1>5, <1>6, <1>7, <1>8 DEF IInv

(* What was written is durable, and the next write may follow.             *)
LEMMA FsyncKept ==
  ASSUME IInv, Fsync
  PROVE  /\ IInv' /\ now' = now /\ op'.doc = op.doc
         /\ Power => safe' = now
<1> USE DEF IInv, Types
<1>1. /\ op.written /\ op' = After /\ op.cell # "none" /\ UNCHANGED << now, legacy, faults >>
      /\ op.cell = "lease" => safe' = [safe EXCEPT !.lease = now.lease]
      /\ op.cell # "lease" => safe' = [safe EXCEPT !.slots = now.slots]
  BY DEF Fsync
<1>2. safe' \in Images
  BY <1>1 DEF Images
<1>3. /\ op' \in Ops /\ op'.doc = op.doc /\ ~op'.written
      /\ op'.slot = op.slot /\ op'.sequence = op.sequence
      /\ op.stage = "erase" => op'.stage = "fill" /\ op'.cell = op.cell
      /\ op.stage = "fill" => op'.stage = "mark" /\ op'.cell = op.cell
      /\ op.stage = "mark" /\ op.cell = "lease" => op'.stage = "erase" /\ op'.cell = "slot"
      /\ op.stage = "mark" /\ op.cell # "lease" => op'.stage = "check"
  BY <1>1, Stages DEF After, At, Ops
<1>4. ~AbsentPhase
  BY <1>1, Stages DEF AbsentPhase
<1>5. ASSUME Power PROVE safe' = now /\ LeaseOK(safe')
  <2>1. CASE op.cell = "lease"
    <3>1. OldPhase /\ LeaseStage
      BY <1>1, <1>4, <2>1, Stages DEF OldPhase, RingPhase, RingAt, RingStage, Checking
    <3>2. safe = [now EXCEPT !.lease = safe.lease]
      BY <1>5, <3>1 DEF LeaseStage
    <3>3. safe.present = now.present /\ safe.slots = now.slots
      BY <3>2 DEF Images
    <3>4. safe' = now
      BY <1>1, <2>1, <3>3 DEF Images
    <3> QED BY <3>4
  <2>2. CASE op.cell # "lease"
    <3>1. safe.lease = now.lease /\ safe.present = now.present
      <4>1. CASE OldPhase
        <5>1. \E c \in Cells : safe = [now EXCEPT !.slots[0] = c]
          BY <1>1, <1>5, <2>2, <4>1, Stages DEF OldPhase
        <5> QED BY <5>1 DEF Images
      <4>2. CASE RingPhase
        BY <1>5, <4>2 DEF RingPhase, RingAt, Lags, Newest
      <4> QED BY <1>4, <4>1, <4>2
    <3>2. safe' = now
      BY <1>1, <2>2, <3>1 DEF Images
    <3> QED BY <3>2
  <2> QED BY <2>1, <2>2
<1>6. Same'
  BY <1>1, <1>5 DEF Same, Power
<1>7. ASSUME NEW t \in Ring, NEW s \in Numbers, SlotStage(t, s)
      PROVE  SlotStage(t, s)' /\ op'.stage # "erase"
  <2>1. CASE op.stage = "erase"
    <3>1. now.slots[t].lead = "nul" /\ Slotting(t, s)
      BY <1>1, <1>7, <2>1 DEF SlotStage
    <3> QED BY <1>1, <1>3, <1>6, <2>1, <3>1 DEF SlotStage, Slotting
  <2>2. CASE op.stage = "fill"
    <3>1. now.slots[t] = Cell("nul", Frame(s, op.doc)) /\ Slotting(t, s)
      BY <1>1, <1>7, <2>2 DEF SlotStage
    <3> QED BY <1>1, <1>3, <1>6, <2>2, <3>1 DEF SlotStage, Slotting
  <2> QED BY <1>1, <1>7, <2>1, <2>2 DEF SlotStage
<1>8. CASE OldPhase
  <2>1. Old(now) /\ Old(now)'
    BY <1>1, <1>8, OldNext DEF OldPhase
  <2>2. CASE SlotStage(0, 0) /\ Witnessed(now)
    <3>1. 0 \in Ring /\ 0 \in Numbers
      BY JournalAssumption DEF Ring, Numbers
    <3>2. SlotStage(0, 0)' /\ op'.stage # "erase"
      BY <1>7, <2>2, <3>1
    <3>3. Witnessed(now)'
      BY <1>1, <2>2 DEF Witnessed
    <3>4. now.slots[0] \in Cells /\ now.slots[0].lead # "magic"
      BY <2>1, <3>1 DEF Old, Images
    <3>5. Power' => \E c \in Cells : c.lead # "magic" /\ safe' = [now' EXCEPT !.slots[0] = c]
      <4>1. now = [now EXCEPT !.slots[0] = now.slots[0]]
        BY <3>1 DEF Images
      <4> QED BY <1>1, <1>6, <3>4, <4>1 DEF Same
    <3>6. OldPhase'
      BY <2>1, <3>2, <3>3, <3>5 DEF OldPhase
    <3> QED BY <1>1, <1>2, <1>3, <1>5, <3>6, Kept
  <2>3. CASE LeaseStage
    <3>1. /\ op.cell = "lease" /\ op.slot = 0 /\ op.sequence = 0 /\ op.doc \in Documents
          /\ op.stage \in {"erase", "fill", "mark"} /\ now.slots[0] = Cell("text", Text)
      BY <2>3 DEF LeaseStage
    <3>2. CASE op.stage = "mark"
      <4>1. now.lease.lead = "magic"
        BY <1>1, <2>3, <3>2 DEF LeaseStage, Cell
      <4>2. SlotStage(0, 0)' /\ Witnessed(now)'
        BY <1>1, <1>3, <3>1, <3>2, <4>1 DEF SlotStage, Slotting, Witnessed
      <4>3. now.slots[0] \in Cells /\ now.slots[0].lead # "magic"
        BY <3>1, JournalAssumption DEF Ring, Images, Cell
      <4>4. Power' => \E c \in Cells : c.lead # "magic" /\ safe' = [now' EXCEPT !.slots[0] = c]
        <5>1. now = [now EXCEPT !.slots[0] = now.slots[0]]
          BY DEF Images
        <5> QED BY <1>1, <1>6, <4>3, <5>1 DEF Same
      <4>5. OldPhase'
        BY <1>6, <2>1, <4>2, <4>4 DEF OldPhase
      <4> QED BY <1>1, <1>2, <1>3, <1>5, <4>5, Kept
    <3>3. CASE op.stage # "mark"
      <4>1. now.lease.lead = "nul" /\ now.lease \in Cells
        BY <2>3, <3>1, <3>3 DEF LeaseStage, Images
      <4>2. op.stage = "fill" => now.lease = Cell("nul", Frame(0, legacy.doc))
        BY <1>1, <2>3, <4>1 DEF LeaseStage, Cells, Cell
      <4>3. Power' => /\ safe' = [now' EXCEPT !.lease = safe'.lease]
                      /\ safe'.lease = now'.lease
        BY <1>1, <1>6 DEF Same, Images
      <4>4. LeaseStage'
        BY <1>1, <1>3, <1>6, <3>1, <3>3, <4>1, <4>2, <4>3 DEF LeaseStage
      <4>5. OldPhase'
        BY <2>1, <4>4 DEF OldPhase
      <4> QED BY <1>1, <1>2, <1>3, <1>5, <4>5, Kept
    <3> QED BY <3>2, <3>3
  <2> QED BY <1>1, <1>8, <2>2, <2>3, Stages DEF OldPhase
<1>9. CASE RingPhase
  <2>1. PICK m \in Ring, q \in Numbers : RingAt(m, q)
    BY <1>9 DEF RingPhase
  <2>2. Newest(now', m, q) /\ (Power => Lags(now', safe', m, q))
    BY <1>1, <1>5, <2>1, DurableLags DEF RingAt
  <2>3. RingStage(m, q)'
    <3>1. CASE SlotStage(NextSlot(m), NextNumber(q))
      BY <1>7, <3>1, NextValues DEF RingStage
    <3>2. CASE Marked(m, q)
      <4>1. op.slot = m /\ op.doc \in Documents /\ now.slots[m].body = Frame(q, op.doc)
        BY <3>2 DEF Marked, Slotting, Cell
      <4>2. op'.stage = "check"
        BY <1>3, <3>2, Stages
      <4>3. Checking(m, q)'
        BY <1>1, <1>3, <1>6, <4>1, <4>2 DEF Checking
      <4> QED BY <4>3 DEF RingStage
    <3> QED BY <1>1, <2>1, <3>1, <3>2, Stages DEF RingAt, RingStage
  <2>4. RingAt(m, q)'
    BY <1>1, <2>2, <2>3, OldNext DEF RingAt, Power
  <2> QED BY <1>1, <1>2, <1>3, <1>5, <2>4, Kept DEF RingPhase
<1> QED BY <1>1, <1>3, <1>4, <1>5, <1>8, <1>9

(* So is the name of the first record.                                     *)
LEMMA FsyncDirectoryKept ==
  ASSUME IInv, FsyncDirectory
  PROVE  /\ IInv' /\ now' = now /\ safe' = safe /\ op'.doc = op.doc /\ op'.stage = "check"
<1>1. /\ op.stage = "link" /\ op.written /\ op' = After
      /\ UNCHANGED << now, safe, legacy, faults >>
  BY DEF FsyncDirectory
<1>2. /\ op' \in Ops /\ op'.doc = op.doc /\ ~op'.written /\ op'.slot = op.slot
      /\ op'.stage = "check"
  BY <1>1 DEF After, At, Ops, IInv, Types
<1>3. ~AbsentPhase /\ ~OldPhase
  BY <1>1, Stages DEF AbsentPhase, OldPhase
<1>4. PICK m \in Ring, q \in Numbers : RingAt(m, q)
  BY <1>3 DEF IInv, RingPhase
<1>5. Linked(m, q)
  BY <1>1, <1>4, Stages DEF RingAt, RingStage
<1>6. /\ op.slot = m /\ op.doc \in Documents
      /\ now.slots[m].body = Frame(q, op.doc) /\ Same
  BY <1>5 DEF Linked, Linking, Idle, Cell
<1>7. Checking(m, q)'
  BY <1>1, <1>2, <1>6 DEF Checking, Same, Power
<1>8. Newest(now', m, q) /\ (Power => Lags(now', safe', m, q))
  BY <1>1, <1>4 DEF RingAt
<1>9. RingAt(m, q)'
  BY <1>1, <1>7, <1>8, OldNext DEF RingAt, RingStage, Power
<1> QED BY <1>1, <1>2, <1>9, Kept DEF IInv, Types, RingPhase

(* What is read back is durable.                                           *)
LEMMA ConfirmKept ==
  ASSUME IInv, Confirm
  PROVE  /\ IInv' /\ now' = now /\ safe' = safe /\ Same
         /\ op'.doc = Nothing /\ op.doc \in Documents /\ now.present
<1>1. op.stage = "check" /\ op' = Idle /\ UNCHANGED << now, safe, legacy, faults >>
  BY DEF Confirm
<1>2. ~AbsentPhase /\ ~OldPhase
  BY <1>1, Stages DEF AbsentPhase, OldPhase
<1>3. PICK m \in Ring, q \in Numbers : RingAt(m, q)
  BY <1>2 DEF IInv, RingPhase
<1>4. Checking(m, q)
  BY <1>1, <1>3, Stages DEF RingAt, RingStage
<1>5. Newest(now', m, q) /\ (Power => Lags(now', safe', m, q))
  BY <1>1, <1>3 DEF RingAt
<1>6. RingAt(m, q)'
  BY <1>1, <1>5, OldNext DEF RingAt, RingStage, Power
<1>7. op'.doc = Nothing
  BY <1>1 DEF Idle
<1> QED BY <1>1, <1>3, <1>4, <1>6, <1>7, IdleIsOp, Kept
       DEF IInv, Types, RingPhase, RingAt, Newest, Checking

(* What a death in the middle of a frame tears was not committed. *)
LEMMA TearKept ==
  ASSUME IInv, "kill" \in faults, op.stage = "fill", now' = Put(Tear(Current)),
         op' = Idle, UNCHANGED << safe, legacy, faults >>
  PROVE  IInv' /\ read_record(now').doc = read_record(now).doc
<1> USE DEF IInv, Types
<1>1. ~AbsentPhase
  BY Stages DEF AbsentPhase
<1>2. CASE OldPhase
  <2>1. /\ Old(now) /\ ~Power /\ read_record(now).doc = legacy.doc
        /\ 0 \in Ring /\ 0 \in Numbers
    BY <1>2, PhaseReads, JournalAssumption DEF OldPhase, Old, Power, Ring, Numbers
  <2>2. CASE LeaseStage
    <3>1. /\ now' = [now EXCEPT !.lease = Tear(now.lease)] /\ now.slots[0] = Cell("text", Text)
          /\ now.lease.lead = "nul" /\ now.lease \in Cells
      BY <2>2 DEF LeaseStage, Put, Current, Images
    <3>2. /\ now' \in Images /\ now'.present = now.present /\ now'.slots = now.slots
          /\ now'.lease.lead = "nul"
      BY <3>1, TearKeeps DEF Images
    <3>3. Old(now') /\ LeaseOK(now')
      BY <2>1, <3>1, <3>2 DEF Old, LeaseOK, Witnessed
    <3>4. OldPhase'
      BY <2>1, <3>3, OldNext DEF OldPhase, Same, Power
    <3>5. read_record(now').doc = legacy.doc
      BY <3>2, <3>3, OldReads
    <3> QED BY <2>1, <3>2, <3>3, <3>4, <3>5, IdleIsOp, Kept
  <2>3. CASE SlotStage(0, 0)
    <3>1. Slotting(0, 0) /\ now.slots[0].lead = "nul" /\ now.slots[0] \in Cells
      BY <2>1, <2>3 DEF SlotStage, Cell, Images
    <3>2. now' = [now EXCEPT !.slots[0] = Tear(now.slots[0])]
      BY <3>1 DEF Slotting, Put, Current
    <3>3. Tear(now.slots[0]) \in Cells /\ Tear(now.slots[0]).lead # "magic"
      BY <3>1, TearKeeps
    <3>4. Before(now, 0, 0)
      BY <1>2, <2>1, <2>3, Stages DEF OldPhase, Before
    <3>5. /\ now' \in Images /\ Old(now')
          /\ read_record(now').doc = read_record(now).doc
      BY <2>1, <3>2, <3>3, <3>4, BeforeKept
    <3>6. now'.lease = now.lease
      BY <3>2 DEF Images
    <3>7. LeaseOK(now')
      BY <3>6 DEF LeaseOK, Witnessed
    <3>8. OldPhase'
      BY <2>1, <3>5, OldNext DEF OldPhase, Same, Power
    <3> QED BY <2>1, <3>5, <3>7, <3>8, IdleIsOp, Kept
  <2> QED BY <1>2, <2>2, <2>3, Stages DEF OldPhase
<1>3. CASE RingPhase
  <2>1. PICK m \in Ring, q \in Numbers : RingAt(m, q)
    BY <1>3 DEF RingPhase
  <2> DEFINE n == NextSlot(m)
             s == NextNumber(q)
  <2>2. n \in Ring /\ n # m /\ s \in Numbers
    BY NextValues
  <2>3. SlotStage(n, s)
    BY <2>1, Stages DEF RingAt, RingStage
  <2> HIDE DEF n, s
  <2>4. Slotting(n, s) /\ now.slots[n].lead = "nul" /\ now.slots[n] \in Cells
    BY <2>2, <2>3 DEF SlotStage, Cell, Images
  <2>5. now' = [now EXCEPT !.slots[n] = Tear(now.slots[n])]
    BY <2>4 DEF Slotting, Put, Current
  <2>6. Tear(now.slots[n]) \in Cells /\ Tear(now.slots[n]).lead = "nul"
    BY <2>4, TearKeeps
  <2>7. Newest(now, m, q) /\ Before(now, n, s)
    BY <2>1 DEF RingAt, Before, n, s
  <2>8. /\ now' \in Images /\ Newest(now', m, q)
        /\ read_record(now').doc = read_record(now).doc
    BY <2>2, <2>5, <2>6, <2>7, BeforeKept DEF n
  <2>9. /\ now'.present = now.present /\ now'.lease = now.lease /\ now'.slots[n].lead = "nul"
        /\ \A i \in Ring \ {n} : now'.slots[i] = now.slots[i]
    BY <2>2, <2>5, <2>6 DEF Images
  <2>10. LeaseOK(now')
    BY <2>9 DEF LeaseOK, Witnessed
  <2>11. Power => Lags(now', safe', m, q)
    <3> SUFFICES ASSUME Power PROVE Lags(now', safe, m, q)
      OBVIOUS
    <3>1. Lags(now, safe, m, q)
      BY <2>1 DEF RingAt
    <3>2. PICK c \in Cells : c.lead = "nul" /\ safe = [now EXCEPT !.slots[n] = c]
      <4>1. CASE op.written
        BY <2>3, <4>1 DEF SlotStage
      <4>2. CASE ~op.written
        <5>1. now = [now EXCEPT !.slots[n] = now.slots[n]]
          BY <2>2 DEF Images
        <5> QED BY <2>3, <2>4, <4>2, <5>1 DEF SlotStage, Same
      <4> QED BY <4>1, <4>2
    <3>3. safe.present /\ safe.slots[n].lead = "nul"
      BY <2>2, <2>7, <3>2 DEF Images, Newest
    <3> QED BY <2>2, <2>9, <3>1, <3>3 DEF Lags, n
  <2>12. RingAt(m, q)'
    BY <2>8, <2>11, OldNext DEF RingAt, RingStage, Power
  <2> QED BY <2>8, <2>10, <2>12, IdleIsOp, Kept DEF RingPhase
<1> QED BY <1>1, <1>2, <1>3

(* A death leaves the document that is read as it was.                     *)
LEMMA ProcessDiesKept ==
  ASSUME IInv, ProcessDies
  PROVE  /\ IInv' /\ read_record(now').doc = read_record(now).doc
         /\ safe' = safe /\ op'.doc = Nothing
<1>1. /\ "kill" \in faults /\ op' = Idle /\ UNCHANGED << safe, legacy, faults >>
      /\ now' = now \/ (op.stage = "fill" /\ now' = Put(Tear(Current)))
  BY DEF ProcessDies
<1>2. op'.doc = Nothing
  BY <1>1 DEF Idle
<1>3. CASE now' = now
  <2>1. CASE AbsentPhase
    <3>1. AbsentPhase'
      BY <1>1, <1>3, <2>1, OldNext DEF AbsentPhase, Same, Power
    <3> QED BY <1>1, <1>2, <1>3, <3>1, IdleIsOp, Kept DEF IInv, Types
  <2>2. CASE OldPhase
    <3>1. ~Power /\ Old(now)
      BY <1>1, <2>2 DEF OldPhase, Old, Power, IInv, Types
    <3>2. OldPhase'
      BY <1>1, <1>3, <3>1, OldNext DEF OldPhase, Same, Power
    <3> QED BY <1>1, <1>2, <1>3, <3>2, IdleIsOp, Kept DEF IInv, Types
  <2>3. CASE RingPhase
    <3>1. PICK m \in Ring, q \in Numbers : RingAt(m, q)
      BY <2>3 DEF RingPhase
    <3>2. Newest(now', m, q) /\ (Power => Lags(now', safe', m, q))
      BY <1>1, <1>3, <3>1 DEF RingAt
    <3>3. RingAt(m, q)'
      BY <1>1, <3>2, OldNext DEF RingAt, RingStage, Power
    <3> QED BY <1>1, <1>2, <1>3, <3>3, IdleIsOp, Kept DEF IInv, Types, RingPhase
  <2> QED BY <2>1, <2>2, <2>3 DEF IInv
<1>4. CASE op.stage = "fill" /\ now' = Put(Tear(Current))
  BY <1>1, <1>2, <1>4, TearKept
<1> QED BY <1>1, <1>3, <1>4

(* A power loss leaves the document read or the durable one, or nothing of *)
(* a record whose name was not durable.                                    *)
LEMMA PowerLossKept ==
  ASSUME IInv, EntryKnown, PowerLoss
  PROVE  /\ IInv' /\ Power /\ safe' = now' /\ op'.doc = Nothing
         /\ \/ read_record(now').doc \in {read_record(now).doc, read_record(safe).doc}
            \/ ~entered /\ read_record(now').doc = Nothing
         /\ now'.present <=> read_record(now').doc # Nothing
<1>1. /\ Power /\ now' \in Survivors /\ safe' = now' /\ op' = Idle
      /\ UNCHANGED << legacy, faults >>
  BY DEF PowerLoss, Power
<1>2. now' \in Images
  BY <1>1, SurvivorsShow
<1>3. PICK d : /\ Shows(now', d)
               /\ \/ d \in {read_record(now).doc, read_record(safe).doc}
                  \/ ~entered /\ d = Nothing
  BY <1>1, SurvivorsShow
<1>4. IInv'
  BY <1>1, <1>2, <1>3, Settles DEF IInv
<1>5. read_record(now').doc = d
  BY <1>2, <1>3, ShownIsRead DEF IInv, Types
<1>6. op'.doc = Nothing
  BY <1>1 DEF Idle
<1>7. now'.present <=> d # Nothing
  <2>1. CASE Vacant(now') /\ d = Nothing
    BY <2>1 DEF Vacant
  <2>2. CASE Old(now') /\ d = legacy.doc
    BY <2>2, JournalAssumption DEF Old, IInv, Types, LegacyOK
  <2>3. CASE \E m \in Ring, q \in Numbers : Newest(now', m, q) /\ d = now'.slots[m].body.doc
    BY <1>2, <2>3, NewestReads, JournalAssumption DEF Newest
  <2> QED BY <1>3, <2>1, <2>2, <2>3 DEF Shows
<1> QED BY <1>1, <1>3, <1>4, <1>5, <1>6, <1>7

(* An entry is known of whatever happens.                                  *)
LEMMA EntryStaysKnown ==
  ASSUME IInv, EntryKnown, [Next]_vars
  PROVE  EntryKnown'
<1>1. UNCHANGED legacy
  BY DEF Next, vars, BeginFirst, Link, BeginTransition, Write, Fsync, FsyncDirectory, Confirm,
         ProcessDies, PowerLoss
<1>2. CASE BeginFirst \/ BeginTransition \/ Fsync \/ Confirm \/ UNCHANGED vars
  <2>1. UNCHANGED << now, entered >>
    BY <1>2 DEF BeginFirst, BeginTransition, Fsync, Confirm, vars
  <2> QED BY <1>1, <2>1 DEF EntryKnown
<1>3. CASE Link
  BY <1>1, <1>3, LinkKept DEF Link, EntryKnown
<1>4. CASE Write \/ ProcessDies
  <2>1. \A c : Put(c).present = now.present
    BY DEF Put, IInv, Types, Images
  <2> QED BY <1>1, <1>4, <2>1 DEF Write, ProcessDies, EntryKnown
<1>5. CASE FsyncDirectory
  <2>1. ~AbsentPhase /\ ~OldPhase
    BY <1>5, Stages DEF FsyncDirectory, AbsentPhase, OldPhase
  <2>2. now.present
    BY <2>1 DEF IInv, RingPhase, RingAt, Newest
  <2> QED BY <1>1, <1>5, <2>2 DEF FsyncDirectory, EntryKnown
<1>6. CASE PowerLoss
  <2>1. now' \in Survivors /\ entered' = now'.present
    BY <1>6 DEF PowerLoss
  <2>2. now' \in Images
    BY <1>6, <2>1, SurvivorsShow DEF PowerLoss, Power
  <2>3. ~now'.present => legacy = NoLegacy
    BY <2>1, <1>6, SurvivorsShow DEF PowerLoss, Power, Shows, Vacant, Old, Newest
  <2> QED BY <1>1, <2>1, <2>2, <2>3 DEF EntryKnown, Images
<1> QED BY <1>2, <1>3, <1>4, <1>5, <1>6 DEF Next

-----------------------------------------------------------------------------
(* Theorems. *)

(* Nothing happens. *)
LEMMA Stutters ==
  ASSUME IInv, UNCHANGED vars
  PROVE  IInv'
<1>1. UNCHANGED << now, safe, legacy, op, faults >>
  BY DEF vars
<1>2. CASE AbsentPhase
  <2>1. AbsentPhase'
    BY <1>1, <1>2, OldNext DEF AbsentPhase, Same, Power
  <2> QED BY <1>1, <2>1, Kept DEF IInv, Types
<1>3. CASE OldPhase
  <2>1. LeaseStage => LeaseStage'
    BY <1>1 DEF LeaseStage, Same, Power
  <2>2. SlotStage(0, 0) => SlotStage(0, 0)'
    BY <1>1 DEF SlotStage, Slotting, Same, Power
  <2>3. OldPhase'
    BY <1>1, <1>3, <2>1, <2>2, OldNext DEF OldPhase, Same, Power, Witnessed
  <2> QED BY <1>1, <2>3, Kept DEF IInv, Types
<1>4. CASE RingPhase
  <2>1. PICK m \in Ring, q \in Numbers : RingAt(m, q)
    BY <1>4 DEF RingPhase
  <2>2. Newest(now', m, q) /\ (Power => Lags(now', safe', m, q))
    BY <1>1, <2>1 DEF RingAt
  <2>3. SlotStage(NextSlot(m), NextNumber(q)) => SlotStage(NextSlot(m), NextNumber(q))'
    BY <1>1 DEF SlotStage, Slotting, Same, Power
  <2>4. RingStage(m, q)'
    BY <1>1, <2>1, <2>3 DEF RingAt, RingStage, Marked, Checking, Linked, Slotting, Same, Power
  <2>5. RingAt(m, q)'
    BY <1>1, <2>2, <2>4, OldNext DEF RingAt, Power
  <2> QED BY <1>1, <2>5, Kept DEF IInv, Types, RingPhase
<1> QED BY <1>2, <1>3, <1>4 DEF IInv

(* The invariant is inductive. *)
LEMMA Invariance ==
  ASSUME FaultsApart
  PROVE  /\ Init => IInv /\ EntryKnown
         /\ IInv /\ EntryKnown /\ [Next]_vars => IInv' /\ EntryKnown'
<1>1. Init => IInv
  BY Initially
<1>2. ASSUME Init PROVE EntryKnown
  <2>1. entered = now.present /\ now \in Images
    BY <1>1, <1>2 DEF Init, IInv, Types
  <2>2. legacy # NoLegacy => now.present
    BY <1>2 DEF Init, Image
  <2> QED BY <2>1, <2>2 DEF EntryKnown, Images
<1>3. IInv /\ EntryKnown /\ [Next]_vars => IInv'
  BY BeginFirstKept, LinkKept, BeginTransitionKept, WriteKept, FsyncKept, FsyncDirectoryKept,
     ConfirmKept, ProcessDiesKept, PowerLossKept, Stutters DEF Next
<1> QED BY <1>1, <1>2, <1>3, EntryStaysKnown

(* In every phase the record opens, whatever survives.                     *)
LEMMA InvariantOpens ==
  ASSUME IInv, EntryKnown
  PROVE  Recoverable
<1>1. ASSUME op.stage = "check"
      PROVE  read_record(now) = Checkpoint(now.slots, op.slot)
  <2>1. ~AbsentPhase /\ ~OldPhase
    BY <1>1, Stages DEF AbsentPhase, OldPhase
  <2>2. PICK m \in Ring, q \in Numbers : RingAt(m, q)
    BY <2>1 DEF IInv, RingPhase
  <2>3. op.slot = m
    BY <1>1, <2>2, Stages DEF RingAt, RingStage, Checking
  <2> QED BY <2>2, <2>3, PhaseReads DEF RingAt
<1>2. read_record(now).kind # "corrupt"
  BY PhaseReads DEF IInv, Absent, Corrupt, Checkpoint, RingPhase, RingAt
<1>3. ASSUME Power, NEW image \in Survivors
      PROVE  read_record(image).kind # "corrupt"
  <2>1. PICK d : Shows(image, d)
    BY <1>3, SurvivorsShow
  <2>2. image \in Images /\ LegacyOK
    BY <1>3, SurvivorsShow DEF IInv, Types
  <2> QED BY <2>1, <2>2, ShownIsRead
<1> QED BY <1>1, <1>2, <1>3 DEF Recoverable, Power

(* Whatever a death or a power loss leaves at any moment of any number of  *)
(* transitions is a record that opens: the ring is in order and no damaged *)
(* frame is committed, a slot is erased only while another is the latest,  *)
(* and a version 4 record is written over only when its witness counts.    *)
THEOREM AlwaysRecoverable ==
  ASSUME FaultsApart
  PROVE  Spec => []Recoverable
<1>1. IInv /\ EntryKnown => Recoverable
  BY InvariantOpens
<1> QED BY <1>1, Invariance, PTL DEF Spec

(* The document of the record, the document that is durable, the one asked *)
(* for and the place of them behave as a durable register: the document    *)
(* changes at one moment, and when the transition is reported done the new *)
(* one is durable, and its place is unless the writer of the first one     *)
(* died before the fsync of the directory.                                 *)
THEOREM RegisterKept ==
  ASSUME FaultsApart
  PROVE  Spec => ActsAsRegister
<1> DEFINE value == read_record(now).doc
           stable == read_record(IF "power" \in faults THEN safe ELSE now).doc
           asked == op.doc
<1>1. Init => Register!Init
  <2> SUFFICES ASSUME Init PROVE Register!Init
    OBVIOUS
  <2>1. IInv /\ safe = now /\ op = Idle /\ entered = now.present
    BY Invariance DEF Init
  <2>2. value \in Documents \cup {Nothing}
    BY <2>1, PhaseReads DEF IInv, Absent, Corrupt, Checkpoint, RingPhase, RingAt
  <2>3. stable = value /\ asked = Nothing
    BY <2>1 DEF Idle
  <2>4. value = Nothing <=> ~now.present
    BY <2>1, PresentReads
  <2>5. Place = IF value = Nothing THEN "none" ELSE "durable"
    BY <2>1, <2>4 DEF Place
  <2> QED BY <2>2, <2>3, <2>5 DEF Register!Init
<1>2. IInv /\ EntryKnown /\ [Next]_vars => [Register!Next]_(Register!vars)
  <2> SUFFICES ASSUME IInv, EntryKnown, [Next]_vars
               PROVE  [Register!Next]_(Register!vars)
    OBVIOUS
  <2>1. UNCHANGED << legacy, faults >>
    BY DEF Next, vars, BeginFirst, Link, BeginTransition, Write, Fsync, FsyncDirectory, Confirm,
           ProcessDies, PowerLoss
  <2>2. value' = read_record(now').doc
    BY <2>1, ReadNext
  <2>3. /\ Power => stable = read_record(safe).doc /\ stable' = read_record(safe').doc
        /\ ~Power => stable = value /\ stable' = value'
    BY <2>1, <2>2, ReadNext DEF Power
  <2>20. /\ ~now.present => Place = "none"
         /\ now.present /\ entered => Place = "durable"
         /\ now.present /\ ~entered => Place = IF op.stage = "link" THEN "new" ELSE "left"
         /\ ~now'.present => Place' = "none"
         /\ now'.present /\ entered' => Place' = "durable"
         /\ now'.present /\ ~entered' => Place' = IF op'.stage = "link" THEN "new" ELSE "left"
    BY DEF Place
  <2> HIDE DEF value, stable, asked
  <2>4. CASE BeginFirst \/ BeginTransition
    <3>1. op.doc = Nothing /\ op'.doc \in Documents /\ UNCHANGED << now, safe >>
      BY <2>4, BeginTransitionKept, Stages DEF BeginFirst, BeginTransition, Idle
    <3>2. asked = Nothing /\ asked' \in Documents /\ UNCHANGED << value, stable >>
      BY <2>1, <3>1 DEF value, stable, asked, read_record, latest_legacy_document, witness
    <3>3. UNCHANGED Place
      <4>1. CASE BeginFirst
        BY <2>20, <3>1, <4>1, AbsentReads DEF BeginFirst
      <4>2. CASE BeginTransition
        <5>1. op.stage # "link" /\ op'.stage # "link" /\ UNCHANGED << now, entered >>
          BY <4>2, JournalAssumption DEF BeginTransition, Idle, Follows, Migrates
        <5> QED BY <5>1 DEF Place
      <4> QED BY <2>4, <4>1, <4>2
    <3> QED BY <3>2, <3>3 DEF Register!Next, Register!Ask, value, stable, asked
  <2>5. CASE Link
    <3>1. asked \in Documents /\ asked # Nothing /\ UNCHANGED asked
      BY <2>5, LinkKept, JournalAssumption DEF asked
    <3>2. value' = asked /\ stable' = asked
      BY <2>2, <2>3, <2>5, LinkKept DEF value, asked
    <3>3. Place = "none" /\ Place' = "new"
      <4>1. ~now.present /\ now'.present /\ ~entered' /\ op'.stage = "link"
        BY <2>5, LinkKept DEF Link, EntryKnown, IInv, Types, Ops
      <4> QED BY <2>20, <4>1
    <3> QED BY <3>1, <3>2, <3>3 DEF Register!Next, Register!Take, value, stable, asked
  <2>6. CASE Write
    <3>1. op.doc \in Documents
      BY <2>6, Stages DEF Write, IInv, AbsentPhase, OldPhase, RingPhase, RingAt, RingStage
    <3>2. UNCHANGED safe
      BY <2>6 DEF Write
    <3>3. UNCHANGED Place /\ Place # "none"
      <4>1. op.stage # "link" /\ op'.stage = op.stage /\ UNCHANGED entered
        BY <2>6 DEF Write, IInv, Types, Ops
      <4>2. now'.present = now.present
        BY <2>6 DEF Write, Put, IInv, Types, Images
      <4>3. now.present
        BY <2>6, Stages DEF Write, IInv, AbsentPhase, OldPhase, Old, RingPhase, RingAt, Newest
      <4> QED BY <2>20, <4>1, <4>2, <4>3
    <3> QED BY <2>2, <2>3, <2>6, <3>1, <3>2, <3>3, WriteKept, JournalAssumption
        DEF Register!Next, Register!Take, Register!vars, value, stable, asked
  <2>7. CASE Fsync
    <3>1. UNCHANGED Place
      <4>1. op.stage # "link" /\ op'.stage # "link" /\ UNCHANGED << now, entered >>
        BY <2>7, Stages DEF Fsync, After, At, IInv, Types, Ops, AbsentPhase, OldPhase, RingPhase,
                            RingAt, RingStage
      <4> QED BY <4>1 DEF Place
    <3> QED BY <2>2, <2>3, <2>7, <3>1, FsyncKept
        DEF Register!Next, Register!Sync, Register!vars, value, stable, asked
  <2>12. CASE FsyncDirectory
    <3>1. UNCHANGED << value, stable, asked >>
      BY <2>2, <2>3, <2>12, FsyncDirectoryKept DEF value, asked
    <3>2. Place \in {"none", "new", "durable"} /\ Place' \in {"none", "durable"}
          /\ (Place = "none" <=> Place' = "none")
      BY <2>12, <2>20, FsyncDirectoryKept DEF FsyncDirectory, EntryKnown
    <3> QED BY <3>1, <3>2 DEF Register!Next, Register!Settle, Register!vars, value, stable, asked
  <2>8. CASE Confirm
    <3>1. Place \in {"durable", "left"} /\ UNCHANGED Place
      <4>1. op.stage = "check" /\ op'.stage = "idle" /\ UNCHANGED << now, entered >>
        BY <2>8 DEF Confirm, Idle
      <4> QED BY <2>8, <2>20, <4>1, ConfirmKept
    <3> QED BY <2>2, <2>3, <2>8, <3>1, ConfirmKept, JournalAssumption
        DEF Confirm, Same, Register!Next, Register!Report, value, stable, asked
  <2>9. CASE ProcessDies
    <3>1. Place' = IF Place = "new" THEN "left" ELSE Place
      <4>1. op'.stage = "idle" /\ UNCHANGED entered
        BY <2>9 DEF ProcessDies, Idle
      <4>2. now'.present = now.present
        BY <2>9 DEF ProcessDies, Put, IInv, Types, Images
      <4> QED BY <2>20, <4>1, <4>2
    <3> QED BY <2>2, <2>3, <2>9, <3>1, ProcessDiesKept
        DEF Register!Next, Register!ProcessDies, value, stable, asked
  <2>10. CASE PowerLoss
    <3>1. Place' = IF value' = Nothing THEN "none" ELSE "durable"
      BY <2>2, <2>10, <2>20, PowerLossKept DEF PowerLoss
    <3>2. ~entered => Place # "durable"
      BY <2>20
    <3> QED BY <2>2, <2>3, <2>10, <3>1, <3>2, PowerLossKept
        DEF Register!Next, Register!PowerLoss, value, stable, asked
  <2>11. CASE UNCHANGED vars
    BY <2>2, <2>3, <2>11 DEF vars, Register!vars, value, stable, asked, Place
  <2> QED BY <2>4, <2>5, <2>6, <2>7, <2>8, <2>9, <2>10, <2>11, <2>12 DEF Next
<1> QED BY <1>1, <1>2, Invariance, PTL DEF Spec, ActsAsRegister, Register!Spec
=============================================================================
