----------------------------- MODULE OutputCapture -----------------------------
(***************************************************************************)
(* Text that arrives in chunks is redacted by a streaming scrubber over a  *)
(* snapshot of the secret registry, and what the scrubber emits is kept in *)
(* a bounded window that never cuts a redaction marker in two.             *)
(*                                                                         *)
(* Every method holds the registry's lock for its whole body, so a call is *)
(* one step.  The renderings of a secret are registered as they are: a     *)
(* character is one byte here and stands for itself, and a marker is two   *)
(* characters, of which either may stand in the text too.                  *)
(***************************************************************************)
EXTENDS Integers, Sequences, SequencesExt

CONSTANTS
  Chars,          \* what texts and secrets are made of
  Texts,          \* what may arrive
  Registries,     \* the sets of renderings registered when the stream is opened
  LateSecrets,    \* the renderings that one later registration may add
  Limits          \* CaptureLimitsV1.retained_bytes

REDACTION_MARKER == << "[", "]" >>

(* _overlaps_marker: one inside the other, or the end of one the beginning *)
(* of the other; a secret with such a rendering is refused.                *)
OverlapsMarker(v) ==
  LET Occurs(a, b) == \E i \in 1 .. Len(b) : IsPrefix(a, SubSeq(b, i, Len(b)))
      Meets(a, b) == \E k \in 1 .. Len(b) : IsSuffix(SubSeq(b, 1, k), a)
  IN  \/ Occurs(v, REDACTION_MARKER) \/ Occurs(REDACTION_MARKER, v)
      \/ Meets(v, REDACTION_MARKER) \/ Meets(REDACTION_MARKER, v)

ASSUME CaptureAssumption ==
  /\ {"[", "]"} \subseteq Chars
  /\ Texts \subseteq Seq(Chars)
  /\ \A R \in Registries \cup {LateSecrets} : \A v \in R :
       v \in Seq(Chars) /\ Len(v) > 0 /\ ~OverlapsMarker(v)
  /\ Limits \subseteq Nat \ {0}

VARIABLES
  text, at,      \* what arrives, and how much of it has been fed
  variants,      \* SecretScrubber._variants
  stream,        \* StreamingSecretScrubber: its snapshot, carry and state
  capture,       \* BoundedTextCapture
  output,        \* all that the scrubber has emitted
  since          \* how much of it before the last registration

vars == << text, at, variants, stream, capture, output, since >>

Suffix(s, i) == SubSeq(s, i, Len(s))

-----------------------------------------------------------------------------

Matches(buffer, i) == {v \in stream.snapshot : IsPrefix(v, Suffix(buffer, i))}
Growable(buffer, i) ==
  \E v \in stream.snapshot : IsStrictPrefix(Suffix(buffer, i), v)
Longest(seqs) == CHOOSE n \in {Len(v) : v \in seqs} : \A v \in seqs : Len(v) <= n

(* _scan: what is resolved, and where the unresolved rest begins.          *)
Scan(buffer, hold_growable) ==
  LET End == Len(buffer) + 1
      from[i \in 1 .. End] ==
        LET found == Matches(buffer, i)
            next == IF found = {} THEN i + 1 ELSE i + Longest(found)
            emitted == IF found = {} THEN << buffer[i] >> ELSE REDACTION_MARKER
        IN  IF i = End \/ (Growable(buffer, i) /\ (hold_growable \/ found = {}))
              THEN [out |-> << >>, cut |-> i]
              ELSE [from[next] EXCEPT !.out = emitted \o @]
  IN  from[1]

(* _split_marker_segments: markers, single characters, and what may still  *)
(* become a marker.                                                        *)
Segments(buffer) ==
  LET End == Len(buffer) + 1
      from[i \in 1 .. End] ==
        IF i = End \/ IsStrictPrefix(Suffix(buffer, i), REDACTION_MARKER)
          THEN [segments |-> << >>, pending |-> Suffix(buffer, i)]
          ELSE LET whole == IsPrefix(REDACTION_MARKER, Suffix(buffer, i))
                   segment == IF whole THEN REDACTION_MARKER ELSE << buffer[i] >>
               IN  [from[i + Len(segment)] EXCEPT !.segments = << segment >> \o @]
  IN  from[1]

Bytes(segments) == Len(FlattenSeq(segments))

AppendHead(c, segments) ==
  LET fits(k) == Bytes(c.segments \o SubSeq(segments, 1, k)) <= c.limit
      kept == CHOOSE k \in 0 .. Len(segments) :
                fits(k) /\ (k = Len(segments) \/ ~fits(k + 1))
  IN  IF kept = Len(segments)
        THEN [c EXCEPT !.segments = @ \o segments]
        ELSE [c EXCEPT !.segments = @ \o SubSeq(segments, 1, kept),
                       !.head_done = TRUE, !.cap_truncated = TRUE, !.pending = << >>]

AppendTail(c, segments) ==
  LET all == c.segments \o segments
      first == CHOOSE k \in 1 .. Len(all) + 1 :
                 /\ Bytes(Suffix(all, k)) <= c.limit
                 /\ k = 1 \/ Bytes(Suffix(all, k - 1)) > c.limit
  IN  [c EXCEPT !.segments = Suffix(all, first), !.cap_truncated = @ \/ first > 1]

AppendSegments(c, segments) ==
  IF c.retention = "head" THEN AppendHead(c, segments) ELSE AppendTail(c, segments)

Absorb(c, chars) ==
  LET seen == [c EXCEPT !.sanitized_bytes_seen = @ + Len(chars)]
      split == Segments(c.pending \o chars)
  IN  IF chars = << >> \/ c.head_done THEN seen
      ELSE AppendSegments([seen EXCEPT !.pending = split.pending], split.segments)

FinishCapture(c, source_eof) ==
  LET leftover == [i \in DOMAIN c.pending |-> << c.pending[i] >>]
      closed == [c EXCEPT !.pending = << >>, !.finished = TRUE]
  IN  IF source_eof
        THEN IF c.head_done THEN closed ELSE AppendSegments(closed, leftover)
        ELSE [closed EXCEPT !.overlap_discarded = c.pending # << >>]

-----------------------------------------------------------------------------

Init ==
  /\ text \in Texts /\ at = 0
  /\ variants \in Registries
  /\ stream = [snapshot |-> variants, carry |-> << >>, state |-> "open",
               discarded |-> FALSE]
  /\ capture \in [ retention : {"head", "tail"}, limit : Limits, pending : {<< >>},
                   segments : {<< >>}, sanitized_bytes_seen : {0}, head_done : {FALSE},
                   cap_truncated : {FALSE}, overlap_discarded : {FALSE},
                   finished : {FALSE} ]
  /\ output = << >> /\ since = 0

(* register: the generation moves on with the variants.                    *)
Register ==
  /\ ~(LateSecrets \subseteq variants)
  /\ variants' = variants \cup LateSecrets
  /\ since' = Len(output)
  /\ UNCHANGED << text, at, stream, capture, output >>

Fresh_always == TRUE

Fresh == variants = stream.snapshot

(* _check_fresh: the stream is closed for good, and its carry forgotten.   *)
Stale ==
  /\ stream.state = "open" /\ ~Fresh
  /\ stream' = [stream EXCEPT !.carry = << >>, !.state = "stale"]
  /\ UNCHANGED << text, at, variants, capture, output, since >>

Emit(chars) == output' = output \o chars

Feed_committing(n) ==
  /\ stream.state = "open" /\ Fresh
  /\ at + n <= Len(text)
  /\ at' = at + n
  /\ LET buffer == stream.carry \o SubSeq(text, at + 1, at + n)
         scanned == Scan(buffer, FALSE)
     IN  /\ stream' = [stream EXCEPT !.carry = Suffix(buffer, scanned.cut)]
         /\ Emit(scanned.out)
         /\ capture' = Absorb(capture, scanned.out)
  /\ UNCHANGED << text, variants, since >>

Feed(n) ==
  /\ stream.state = "open" /\ Fresh
  /\ at + n <= Len(text)
  /\ at' = at + n
  /\ LET buffer == stream.carry \o SubSeq(text, at + 1, at + n)
         scanned == Scan(buffer, TRUE)
     IN  /\ stream' = [stream EXCEPT !.carry = Suffix(buffer, scanned.cut)]
         /\ Emit(scanned.out)
         /\ capture' = Absorb(capture, scanned.out)
  /\ UNCHANGED << text, variants, since >>

(* finish: at the end of the source, or before it.                         *)
Finish(source_eof) ==
  /\ stream.state = "open" /\ Fresh
  /\ source_eof => at = Len(text)
  /\ LET scanned == IF source_eof THEN Scan(stream.carry, FALSE)
                                  ELSE [out |-> << >>, cut |-> 1]
     IN  /\ stream' = [stream EXCEPT !.carry = << >>,
                                     !.state = IF source_eof THEN "ended" ELSE "cut",
                                     !.discarded = scanned.cut <= Len(stream.carry)]
         /\ Emit(scanned.out)
         /\ capture' = FinishCapture(Absorb(capture, scanned.out), source_eof)
  /\ UNCHANGED << text, at, variants, since >>

(* The stream is stale: what has been captured is finished as cut off.     *)
GiveUp ==
  /\ stream.state = "stale" /\ ~capture.finished
  /\ capture' = FinishCapture(capture, FALSE)
  /\ UNCHANGED << text, at, variants, stream, output, since >>

Next ==
  \/ \E n \in 1 .. Len(text) : Feed(n)
  \/ Finish(TRUE) \/ Finish(FALSE)
  \/ Register \/ Stale \/ GiveUp

Spec == Init /\ [][Next]_vars

-----------------------------------------------------------------------------
(* What the whole text should become, said without scanning it.            *)

Arrived == SubSeq(text, 1, at)

At(i) == {v \in stream.snapshot : IsPrefix(v, Suffix(Arrived, i))}
Covered(S, i) == \E j \in S : j < i /\ i < j + Longest(At(j))

(* The leftmost matches: none begins inside another, and every other match *)
(* does.                                                                   *)
Redacted ==
  LET Starts == {i \in 1 .. at : At(i) # {}}
  IN  CHOOSE S \in SUBSET Starts : \A i \in Starts : i \in S <=> ~Covered(S, i)

(* Where a secret may have been cut off: at the end of the source, or      *)
(* where more was to come.                                                 *)
Doubtful(source_eof) ==
  {i \in 1 .. at :
     /\ Growable(Arrived, i)
     /\ IF source_eof THEN i \notin Redacted /\ ~Covered(Redacted, i)
                      ELSE ~Covered(Redacted, i)}

Sanitized(source_eof) ==
  LET D == Doubtful(source_eof)
      end == IF D = {} THEN at + 1 ELSE CHOOSE i \in D : \A j \in D : i <= j
      at_[i \in 1 .. at] ==
        IF i \in Redacted THEN REDACTION_MARKER
        ELSE IF Covered(Redacted, i) THEN << >> ELSE << text[i] >>
  IN  FlattenSeq([i \in 1 .. end - 1 |-> at_[i]])

InMarker(s, k) == k \in 1 .. Len(s) - 1 /\ SubSeq(s, k, k + 1) = REDACTION_MARKER
CutsOf(s) == {k \in 0 .. Len(s) : ~InMarker(s, k)}

Window(s) ==
  IF capture.retention = "head"
    THEN SubSeq(s, 1, CHOOSE k \in CutsOf(s) :
                        k <= capture.limit /\ \A j \in CutsOf(s) : j <= capture.limit => j <= k)
    ELSE Suffix(s, 1 + CHOOSE k \in CutsOf(s) :
                         /\ Len(s) - k <= capture.limit
                         /\ \A j \in CutsOf(s) : Len(s) - j <= capture.limit => k <= j)

(* However the text was cut into chunks, what was emitted, what was kept,  *)
(* and whether an end was dropped or the middle left out, are functions of *)
(* the text alone: the leftmost longest redaction of it cut down to the    *)
(* limit without splitting a marker (StreamingSecretScrubber.feed and      *)
(* finish, BoundedTextCapture.feed and finish).                            *)
SplitInvariant ==
  stream.state \in {"ended", "cut"} =>
    LET eof == stream.state = "ended"
        whole == Sanitized(eof)
        kept == IF ~eof /\ whole # << >> /\ Last(whole) = "[" THEN Front(whole) ELSE whole
    IN  /\ output = whole
        /\ stream.discarded <=> Doubtful(eof) # {}
        /\ capture.sanitized_bytes_seen = Len(whole)
        /\ FlattenSeq(capture.segments) = Window(kept)
        /\ capture.cap_truncated <=> Window(kept) # kept

(* No rendering that was registered when a text was emitted stands in it,  *)
(* whole, across chunks or after a registration that came in between.      *)
NothingRevealed ==
  \A v \in variants : \A i \in since + 1 .. Len(output) : ~IsPrefix(v, Suffix(output, i))
=============================================================================
