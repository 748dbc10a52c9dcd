-------------------------- MODULE OutputCaptureProofs --------------------------
(***************************************************************************)
(* Proofs about output capture: however a text is cut into chunks, what is *)
(* emitted, kept and reported is a function of the text, and no secret is  *)
(* in it.                                                                  *)
(***************************************************************************)
EXTENDS OutputCapture, SequenceTheorems, WellFoundedInduction, TLAPS

-----------------------------------------------------------------------------
(* Numbers and sequences. *)

(* Three pieces of output, joined in either order.                         *)
LEMMA ConcatChars ==
  ASSUME NEW s \in Seq(Chars), NEW t \in Seq(Chars), NEW u \in Seq(Chars)
  PROVE  (s \o t) \o u = s \o (t \o u)
BY ConcatAssociative

(* A set of natural numbers has a least one.                               *)
LEMMA LeastNumber ==
  ASSUME NEW Bad \in SUBSET Nat, Bad # {}
  PROVE  \E k \in Bad : \A j \in Bad : k <= j
<1>1. PICK k \in Bad : \A j \in Bad : ~(<< j, k >> \in OpToRel(<, Nat))
  BY NatLessThanWellFounded, WFMin, Zenon
<1>2. \A j \in Bad : ~(j < k)
  BY <1>1 DEF OpToRel
<1> QED BY <1>2

(* What holds of 0, and of each number up to N after one of which it       *)
(* holds, holds of all of them.                                            *)
LEMMA Upwards ==
  ASSUME NEW N \in Nat, NEW Good, 0 \in Good,
         \A k \in 0..N : k < N /\ k \in Good => k + 1 \in Good
  PROVE  \A k \in 0..N : k \in Good
<1> DEFINE Bad == {k \in 0..N : k \notin Good}
<1> SUFFICES ASSUME Bad # {} PROVE FALSE
  OBVIOUS
<1>1. PICK k \in Bad : \A j \in Bad : k <= j
  <2>1. Bad \in SUBSET Nat
    OBVIOUS
  <2> HIDE DEF Bad
  <2> QED BY <2>1, LeastNumber
<1>2. k # 0 /\ k \in 0..N /\ k \notin Good
  OBVIOUS
<1>3. k - 1 \in 0..N /\ k - 1 < N /\ (k - 1) + 1 = k
  BY <1>2
<1>4. k - 1 \in Good
  <2>1. ~(k <= k - 1)
    BY <1>2
  <2> QED BY <1>1, <1>3, <2>1
<1> QED BY <1>2, <1>3, <1>4

(* A set of numbers up to a bound has a greatest one.                      *)
LEMMA GreatestNumber ==
  ASSUME NEW N \in Nat, NEW S \in SUBSET (0..N), S # {}
  PROVE  \E k \in S : \A j \in S : j <= k
<1> DEFINE Bad == {k \in 0..N : N - k \in S}
<1>1. Bad \in SUBSET Nat
  OBVIOUS
<1>2. Bad # {}
  <2>1. PICK k : k \in S
    OBVIOUS
  <2>2. N - k \in 0..N /\ N - (N - k) = k
    BY <2>1
  <2> QED BY <2>1, <2>2
<1>3. PICK k \in Bad : \A j \in Bad : k <= j
  <2> HIDE DEF Bad
  <2> QED BY <1>1, <1>2, LeastNumber
<1>4. N - k \in S
  OBVIOUS
<1>5. ASSUME NEW j \in S PROVE j <= N - k
  <2>1. N - j \in 0..N /\ N - (N - j) = j
    OBVIOUS
  <2>2. N - j \in Bad
    BY <2>1
  <2>3. k <= N - j /\ k \in 0..N
    BY <1>3, <2>2
  <2> QED BY <2>3
<1> QED BY <1>4, <1>5

LEMMA SuffixIs ==
  ASSUME NEW S, NEW s \in Seq(S), NEW i \in 1..Len(s) + 1
  PROVE  /\ Suffix(s, i) \in Seq(S)
         /\ Len(Suffix(s, i)) = Len(s) - i + 1
         /\ \A k \in 1..Len(s) - i + 1 : Suffix(s, i)[k] = s[i + k - 1]
BY DEF Suffix

LEMMA FirstIs ==
  ASSUME NEW S, NEW s \in Seq(S), Len(s) > 0
  PROVE  SubSeq(s, 1, 1) = << s[1] >>
<1> DEFINE u == SubSeq(s, 1, 1)
           w == << s[1] >>
<1>1. u \in Seq(S) /\ Len(u) = 1 /\ u[1] = s[1] /\ w \in Seq(S) /\ Len(w) = 1 /\ w[1] = s[1]
  OBVIOUS
<1> HIDE DEF u, w
<1>2. \A i \in 1..Len(u) : u[i] = w[i]
  BY <1>1
<1>3. u = w
  BY <1>1, <1>2, SeqEqual
<1> QED BY <1>3 DEF u, w

LEMMA PrefixIs ==
  ASSUME NEW S, NEW s \in Seq(S), NEW t \in Seq(S)
  PROVE  IsPrefix(s, t) <=> Len(s) <= Len(t) /\ \A i \in 1..Len(s) : s[i] = t[i]
<1>1. ASSUME IsPrefix(s, t), NEW i \in 1..Len(s) PROVE s[i] = t[i]
  <2>1. SubSeq(s, 1, Len(s))[i] = s[i] /\ SubSeq(t, 1, Len(s))[i] = t[i]
    OBVIOUS
  <2> QED BY <1>1, <2>1 DEF IsPrefix
<1>2. ASSUME Len(s) <= Len(t), \A i \in 1..Len(s) : s[i] = t[i] PROVE IsPrefix(s, t)
  BY <1>2 DEF IsPrefix
<1>3. IsPrefix(s, t) => Len(s) <= Len(t)
  BY DEF IsPrefix
<1> QED BY <1>1, <1>2, <1>3

LEMMA StrictPrefixIs ==
  ASSUME NEW S, NEW s \in Seq(S), NEW t \in Seq(S)
  PROVE  IsStrictPrefix(s, t) <=> Len(s) < Len(t) /\ \A i \in 1..Len(s) : s[i] = t[i]
<1>1. Len(s) = Len(t) /\ (\A i \in 1..Len(s) : s[i] = t[i]) => s = t
  BY SeqEqual
<1> QED BY <1>1, PrefixIs DEF IsStrictPrefix

-----------------------------------------------------------------------------
(* FlattenSeq: the function that it takes its value from exists, and adds  *)
(* one element after another.                                              *)

Flattening(g, s) ==
  g = [i \in 1..Len(s) |-> IF i = 1 THEN s[i] ELSE g[i - 1] \o s[i]]

LEMMA FlatteningExists ==
  ASSUME NEW s, NEW N \in Nat, Len(s) = N
  PROVE  \E g : Flattening(g, s)
<1> DEFINE Value(g, i) == IF i = 1 THEN s[i] ELSE g[i - 1] \o s[i]
           Holds(g, k) == \A i \in 1..k : g[i] = Value(g, i)
           Good == {k \in 0..N : \E g : Holds(g, k)}
<1>1. 0 \in Good
  <2>1. Holds(<< >>, 0)
    OBVIOUS
  <2> QED BY <2>1
<1>2. ASSUME NEW k \in 0..N, k < N, k \in Good
      PROVE  k + 1 \in Good
  <2>1. PICK g : Holds(g, k)
    BY <1>2
  <2> DEFINE h == [i \in 0..k + 1 |-> IF i = k + 1 THEN Value(g, i) ELSE g[i]]
  <2>2. ASSUME NEW i \in 1..k + 1 PROVE h[i] = Value(h, i)
    <3>1. i # 1 => i - 1 \in 0..k + 1 /\ i - 1 # k + 1
      OBVIOUS
    <3>2. i # 1 => h[i - 1] = g[i - 1]
      BY <3>1
    <3>3. Value(h, i) = Value(g, i)
      BY <3>2
    <3>4. i # k + 1 => g[i] = Value(g, i)
      BY <2>1
    <3>5. i \in 0..k + 1
      OBVIOUS
    <3> HIDE DEF Value
    <3> QED BY <3>3, <3>4, <3>5
  <2>3. Holds(h, k + 1)
    BY <2>2
  <2>4. k + 1 \in 0..N
    BY <1>2
  <2> HIDE DEF h, Holds
  <2> QED BY <2>3, <2>4
<1>3. N \in Good
  <2> HIDE DEF Good
  <2>1. \A j \in 0..N : j \in Good
    BY <1>1, <1>2, Upwards, Zenon
  <2> QED BY <2>1
<1>4. PICK g : Holds(g, N)
  BY <1>3
<1> DEFINE h == [i \in 1..N |-> g[i]]
<1>5. ASSUME NEW i \in 1..N PROVE h[i] = Value(h, i)
  <2>1. i # 1 => i - 1 \in 1..N
    OBVIOUS
  <2>2. Value(h, i) = Value(g, i)
    BY <2>1
  <2> QED BY <1>4, <2>2
<1>6. h = [i \in 1..N |-> h[i]]
  OBVIOUS
<1>7. h = [i \in 1..N |-> Value(h, i)]
  <2> HIDE DEF h, Value
  <2> QED BY <1>5, <1>6
<1> QED BY <1>7 DEF Flattening

LEMMA FlattenedIs ==
  ASSUME NEW s, NEW N \in Nat, Len(s) = N, NEW g
  PROVE  Flattening(g, s) =>
           \A i \in 1..N : g[i] = IF i = 1 THEN s[i] ELSE g[i - 1] \o s[i]
BY DEF Flattening

LEMMA FlattenSeqIs ==
  ASSUME NEW s, NEW N \in Nat \ {0}, Len(s) = N
  PROVE  \E g : Flattening(g, s) /\ FlattenSeq(s) = g[N]
<1> DEFINE h == CHOOSE g : Flattening(g, s)
<1>1. Flattening(h, s)
  BY FlatteningExists
<1>2. FlattenSeq(s) = h[N]
  BY DEF FlattenSeq, Flattening
<1> QED BY <1>1, <1>2

(* Two sequences of sequences that agree up to k.                          *)
LEMMA FlatteningAgrees ==
  ASSUME NEW s, NEW t, NEW M \in Nat, NEW N \in Nat, Len(s) = M, Len(t) = N,
         NEW g, NEW h, Flattening(g, s), Flattening(h, t),
         NEW k \in 1..M, k <= N, \A i \in 1..k : s[i] = t[i]
  PROVE  g[k] = h[k]
<1> DEFINE Good == {i \in 0..k : i = 0 \/ g[i] = h[i]}
<1>1. ASSUME NEW i \in 0..k, i < k, i \in Good PROVE i + 1 \in Good
  <2>1. i + 1 \in 1..M /\ i + 1 \in 1..N /\ i + 1 \in 0..k /\ i + 1 \in 1..k
    BY <1>1
  <2>2. g[i + 1] = IF i + 1 = 1 THEN s[i + 1] ELSE g[(i + 1) - 1] \o s[i + 1]
    BY <2>1, FlattenedIs
  <2>3. h[i + 1] = IF i + 1 = 1 THEN t[i + 1] ELSE h[(i + 1) - 1] \o t[i + 1]
    BY <2>1, FlattenedIs
  <2>4. (i + 1) - 1 = i /\ s[i + 1] = t[i + 1]
    BY <2>1
  <2> QED BY <1>1, <2>1, <2>2, <2>3, <2>4
<1>2. 0 \in Good /\ k \in 0..k
  OBVIOUS
<1>3. k \in Good
  <2> HIDE DEF Good
  <2>1. \A j \in 0..k : j < k /\ j \in Good => j + 1 \in Good
    BY <1>1
  <2>2. k \in Nat
    OBVIOUS
  <2>3. \A j \in 0..k : j \in Good
    BY <1>2, <2>1, <2>2, Upwards
  <2> QED BY <1>2, <2>3
<1> QED BY <1>3

(* No element, one more element.                                           *)
LEMMA FlattenNone == FlattenSeq(<< >>) = << >>
BY DEF FlattenSeq

LEMMA FlattenMore ==
  ASSUME NEW C, NEW s \in Seq(Seq(C)), NEW t \in Seq(Seq(C)), Len(t) = Len(s) + 1,
         \A i \in 1..Len(s) : t[i] = s[i]
  PROVE  FlattenSeq(t) = FlattenSeq(s) \o t[Len(t)]
<1>1. PICK N \in Nat : N = Len(s)
  OBVIOUS
<1>2. Len(t) = N + 1 /\ N + 1 \in Nat \ {0} /\ N + 1 \in 1..N + 1
  BY <1>1
<1>3. PICK h : Flattening(h, t) /\ FlattenSeq(t) = h[N + 1]
  BY <1>2, FlattenSeqIs
<1>4. h[N + 1] = IF N + 1 = 1 THEN t[N + 1] ELSE h[(N + 1) - 1] \o t[N + 1]
  BY <1>2, <1>3, FlattenedIs
<1>5. CASE N = 0
  <2>1. s = << >> /\ t[N + 1] \in Seq(C)
    <3>1. Len(s) = 0
      BY <1>1, <1>5
    <3>2. s = << >>
      BY <3>1
    <3>3. N + 1 \in 1..Len(t)
      BY <1>1, <1>2
    <3> QED BY <3>2, <3>3, ElementOfSeq
  <2>2. FlattenSeq(s) = << >>
    BY <2>1, FlattenNone
  <2>3. << >> \o t[N + 1] = t[N + 1]
    BY <2>1
  <2> QED BY <1>2, <1>3, <1>4, <1>5, <2>2, <2>3
<1>6. CASE N # 0
  <2>1. N \in Nat \ {0} /\ N \in 1..N /\ N <= N + 1 /\ (N + 1) - 1 = N /\ N + 1 # 1
    BY <1>6
  <2>2. PICK g : Flattening(g, s) /\ FlattenSeq(s) = g[N]
    BY <1>1, <2>1, FlattenSeqIs
  <2>3. \A i \in 1..N : s[i] = t[i]
    BY <1>1
  <2>4. g[N] = h[N]
    <3>1. Len(s) = N /\ Len(t) = N + 1 /\ N + 1 \in Nat
      BY <1>1, <1>2
    <3> QED BY <1>3, <2>1, <2>2, <2>3, <3>1, FlatteningAgrees
  <2> QED BY <1>2, <1>3, <1>4, <2>1, <2>2, <2>4
<1> QED BY <1>5, <1>6

LEMMA FlattenType ==
  ASSUME NEW C, NEW s \in Seq(Seq(C))
  PROVE  FlattenSeq(s) \in Seq(C)
<1> DEFINE Good == {k \in 0..Len(s) : FlattenSeq(SubSeq(s, 1, k)) \in Seq(C)}
<1>1. 0 \in Good
  <2>1. SubSeq(s, 1, 0) = << >> /\ 0 \in 0..Len(s) /\ << >> \in Seq(C)
    OBVIOUS
  <2>2. FlattenSeq(SubSeq(s, 1, 0)) \in Seq(C)
    BY <2>1, FlattenNone
  <2> QED BY <2>1, <2>2
<1>2. ASSUME NEW k \in 0..Len(s), k < Len(s), k \in Good PROVE k + 1 \in Good
  <2> DEFINE u == SubSeq(s, 1, k)
             v == SubSeq(s, 1, k + 1)
  <2>1. /\ u \in Seq(Seq(C)) /\ v \in Seq(Seq(C)) /\ Len(u) = k /\ Len(v) = k + 1
        /\ \A i \in 1..k : v[i] = u[i]
        /\ v[k + 1] \in Seq(C)
    BY <1>2
  <2>2. FlattenSeq(v) = FlattenSeq(u) \o v[Len(v)]
    <3> HIDE DEF u, v
    <3> QED BY <2>1, FlattenMore
  <2>3. FlattenSeq(u) \in Seq(C)
    BY <1>2
  <2>4. FlattenSeq(u) \o v[Len(v)] \in Seq(C)
    <3> HIDE DEF u, v
    <3> QED BY <2>1, <2>3
  <2>5. k + 1 \in 0..Len(s)
    BY <1>2
  <2>6. FlattenSeq(v) \in Seq(C)
    <3> HIDE DEF u, v
    <3> QED BY <2>2, <2>4
  <2> QED BY <2>5, <2>6
<1>3. Len(s) \in Good
  <2> HIDE DEF Good
  <2>1. \A j \in 0..Len(s) : j < Len(s) /\ j \in Good => j + 1 \in Good
    BY <1>2
  <2>2. Len(s) \in Nat /\ Len(s) \in 0..Len(s)
    OBVIOUS
  <2>3. \A j \in 0..Len(s) : j \in Good
    BY <1>1, <2>1, <2>2, Upwards
  <2> QED BY <2>2, <2>3
<1>4. SubSeq(s, 1, Len(s)) = s
  OBVIOUS
<1> QED BY <1>3, <1>4

-----------------------------------------------------------------------------
(* Renderings in a text b: those that stand at i, whether one could still  *)
(* grow there, and how long the longest is.                                *)

Registered(R) == \A v \in R : v \in Seq(Chars) /\ Len(v) > 0 /\ ~OverlapsMarker(v)

Hits(R, b, i) ==
  {v \in R : i + Len(v) <= Len(b) + 1 /\ \A k \in 1..Len(v) : v[k] = b[i + k - 1]}

Grows(R, b, i) ==
  \E v \in R : /\ Len(b) + 1 - i < Len(v)
              /\ \A k \in 1..Len(b) + 1 - i : v[k] = b[i + k - 1]

Span(R, b, i) == Longest(Hits(R, b, i))

LEMMA HitsIs ==
  ASSUME NEW R, Registered(R), NEW b \in Seq(Chars), NEW i \in 1..Len(b) + 1
  PROVE  {v \in R : IsPrefix(v, Suffix(b, i))} = Hits(R, b, i)
<1>1. ASSUME NEW v \in R
      PROVE  IsPrefix(v, Suffix(b, i)) <=>
               i + Len(v) <= Len(b) + 1 /\ \A k \in 1..Len(v) : v[k] = b[i + k - 1]
  <2>1. v \in Seq(Chars)
    BY DEF Registered
  <2>2. /\ Suffix(b, i) \in Seq(Chars)
        /\ Len(Suffix(b, i)) = Len(b) - i + 1
        /\ \A k \in 1..Len(b) - i + 1 : Suffix(b, i)[k] = b[i + k - 1]
    BY SuffixIs
  <2>3. IsPrefix(v, Suffix(b, i)) <=>
          Len(v) <= Len(Suffix(b, i)) /\ \A k \in 1..Len(v) : v[k] = Suffix(b, i)[k]
    BY <2>1, <2>2, PrefixIs
  <2>4. Len(v) \in Nat /\ Len(b) \in Nat
    BY <2>1
  <2> QED BY <2>2, <2>3, <2>4
<1> QED BY <1>1 DEF Hits

LEMMA GrowsIs ==
  ASSUME NEW R, Registered(R), NEW b \in Seq(Chars), NEW i \in 1..Len(b) + 1
  PROVE  (\E v \in R : IsStrictPrefix(Suffix(b, i), v)) <=> Grows(R, b, i)
<1>1. ASSUME NEW v \in R
      PROVE  IsStrictPrefix(Suffix(b, i), v) <=>
               /\ Len(b) + 1 - i < Len(v)
               /\ \A k \in 1..Len(b) + 1 - i : v[k] = b[i + k - 1]
  <2>1. v \in Seq(Chars)
    BY DEF Registered
  <2>2. /\ Suffix(b, i) \in Seq(Chars)
        /\ Len(Suffix(b, i)) = Len(b) - i + 1
        /\ \A k \in 1..Len(b) - i + 1 : Suffix(b, i)[k] = b[i + k - 1]
    BY SuffixIs
  <2>3. IsStrictPrefix(Suffix(b, i), v) <=>
          /\ Len(Suffix(b, i)) < Len(v)
          /\ \A k \in 1..Len(Suffix(b, i)) : Suffix(b, i)[k] = v[k]
    BY <2>1, <2>2, StrictPrefixIs
  <2>4. Len(v) \in Nat /\ Len(b) \in Nat /\ Len(b) - i + 1 = Len(b) + 1 - i
    BY <2>1
  <2> QED BY <2>2, <2>3, <2>4
<1> QED BY <1>1 DEF Grows

(* The longest rendering that stands somewhere exists, however many are    *)
(* registered, since it ends within the text.                              *)
LEMMA SpanIs ==
  ASSUME NEW R, Registered(R), NEW b \in Seq(Chars), NEW i \in 1..Len(b) + 1,
         Hits(R, b, i) # {}
  PROVE  /\ Span(R, b, i) \in 1..Len(b) + 1 - i
         /\ \E v \in Hits(R, b, i) : Len(v) = Span(R, b, i)
         /\ \A v \in Hits(R, b, i) : Len(v) <= Span(R, b, i)
<1> DEFINE S == {Len(v) : v \in Hits(R, b, i)}
<1>1. PICK N \in Nat : N = Len(b) + 1 - i
  OBVIOUS
<1>2. \A v \in Hits(R, b, i) : Len(v) \in 1..N
  <2> TAKE v \in Hits(R, b, i)
  <2>1. Len(v) \in Nat /\ Len(v) > 0 /\ i + Len(v) <= Len(b) + 1
    BY DEF Hits, Registered
  <2> QED BY <1>1, <2>1
<1>3. S \in SUBSET (0..N) /\ S # {}
  <2>1. 1..N \subseteq 0..N
    OBVIOUS
  <2>2. PICK v : v \in Hits(R, b, i)
    OBVIOUS
  <2>3. Len(v) \in S
    BY <2>2
  <2> QED BY <1>2, <2>1, <2>3
<1>4. \E k \in S : \A j \in S : j <= k
  <2> HIDE DEF S
  <2> QED BY <1>3, GreatestNumber
<1>5. \E k \in S : \A v \in Hits(R, b, i) : Len(v) <= k
  BY <1>4
<1>6. Span(R, b, i) \in S /\ \A v \in Hits(R, b, i) : Len(v) <= Span(R, b, i)
  BY <1>5 DEF Span, Longest
<1> QED BY <1>1, <1>2, <1>6

(* A rendering shares no end with a marker.                                *)
LEMMA MarkerApart ==
  ASSUME NEW v \in Seq(Chars), Len(v) > 0, ~OverlapsMarker(v), {"[", "]"} \subseteq Chars
  PROVE  /\ v[Len(v)] # "["
         /\ v[1] # "]"
         /\ \A i \in 1..Len(v) - 1 : ~(v[i] = "[" /\ v[i + 1] = "]")
<1> DEFINE M == REDACTION_MARKER
<1>1. M \in Seq(Chars) /\ Len(M) = 2 /\ M[1] = "[" /\ M[2] = "]"
  BY DEF REDACTION_MARKER
<1>2. ASSUME v[Len(v)] = "[" PROVE FALSE
  <2>1. SubSeq(M, 1, 1) = << "[" >>
    <3> HIDE DEF M
    <3> QED BY <1>1, FirstIs
  <2>2. Reverse(<< "[" >>) = << "[" >>
    BY DEF Reverse
  <2>3. /\ Reverse(v) \in Seq(Chars)
        /\ Len(Reverse(v)) = Len(v)
        /\ Reverse(v)[1] = v[Len(v)]
    BY DEF Reverse
  <2>4. IsPrefix(<< "[" >>, Reverse(v))
    <3>1. << "[" >> \in Seq(Chars) /\ Len(<< "[" >>) = 1 /\ << "[" >>[1] = "["
      OBVIOUS
    <3>2. \A k \in 1..1 : << "[" >>[k] = Reverse(v)[k]
      BY <1>2, <2>3, <3>1
    <3>3. << "[" >> \in Seq(Chars) /\ 1 <= Len(Reverse(v))
      BY <2>3
    <3> QED BY <2>3, <3>1, <3>2, <3>3, PrefixIs
  <2>5. IsSuffix(SubSeq(M, 1, 1), v)
    BY <2>1, <2>2, <2>4 DEF IsSuffix
  <2>6. 1 \in 1..Len(M)
    BY <1>1
  <2> QED BY <2>5, <2>6 DEF OverlapsMarker
<1>3. ASSUME v[1] = "]" PROVE FALSE
  <2>1. SubSeq(v, 1, 1) = << "]" >>
    BY <1>3, FirstIs
  <2>2. Reverse(<< "]" >>) = << "]" >> /\ Reverse(M) = << "]", "[" >>
    BY DEF Reverse, REDACTION_MARKER
  <2>3. IsPrefix(<< "]" >>, << "]", "[" >>)
    BY DEF IsPrefix
  <2>4. IsSuffix(SubSeq(v, 1, 1), M)
    BY <2>1, <2>2, <2>3 DEF IsSuffix
  <2>5. 1 \in 1..Len(v)
    OBVIOUS
  <2> QED BY <2>4, <2>5 DEF OverlapsMarker
<1>4. ASSUME NEW i \in 1..Len(v) - 1, v[i] = "[", v[i + 1] = "]" PROVE FALSE
  <2>1. /\ SubSeq(v, i, Len(v)) \in Seq(Chars)
        /\ Len(SubSeq(v, i, Len(v))) >= 2
        /\ SubSeq(v, i, Len(v))[1] = v[i]
        /\ SubSeq(v, i, Len(v))[2] = v[i + 1]
    OBVIOUS
  <2>2. \A k \in 1..2 : M[k] = SubSeq(v, i, Len(v))[k]
    BY <1>1, <1>4, <2>1
  <2>3. IsPrefix(M, SubSeq(v, i, Len(v)))
    <3> HIDE DEF M
    <3> QED BY <1>1, <2>1, <2>2, PrefixIs
  <2>4. i \in 1..Len(v)
    OBVIOUS
  <2> QED BY <2>3, <2>4 DEF OverlapsMarker
<1> QED BY <1>2, <1>3, <1>4

-----------------------------------------------------------------------------
(* The leftmost matches of a text. *)

Inside(R, b, S, i) == \E j \in S : j < i /\ i < j + Span(R, b, j)

IsLeftmost(R, b, S) ==
  S = {i \in 1..Len(b) : Hits(R, b, i) # {} /\ ~Inside(R, b, S, i)}

Marked(R, b) == CHOOSE S : IsLeftmost(R, b, S)

LEMMA MarkedIs ==
  ASSUME NEW R, NEW b \in Seq(Chars)
  PROVE  IsLeftmost(R, b, Marked(R, b))
<1>1. PICK N \in Nat : N = Len(b)
  OBVIOUS
<1> DEFINE Up(S, k) == S = {i \in 1..k : Hits(R, b, i) # {} /\ ~Inside(R, b, S, i)}
           Good == {k \in 0..N : \E S : Up(S, k)}
<1>2. 0 \in Good
  <2>1. {} = {i \in 1..0 : Hits(R, b, i) # {} /\ ~Inside(R, b, {}, i)}
    OBVIOUS
  <2>2. Up({}, 0)
    BY <2>1
  <2> HIDE DEF Up
  <2> QED BY <2>2
<1>3. ASSUME NEW k \in 0..N, k < N, k \in Good PROVE k + 1 \in Good
  <2>1. PICK S : Up(S, k)
    BY <1>3
  <2> DEFINE T == S \cup {i \in {k + 1} : Hits(R, b, i) # {} /\ ~Inside(R, b, S, i)}
  <2>2. \A j \in S : j \in 1..k
    BY <2>1
  <2>3. ASSUME NEW i \in 1..k + 1 PROVE Inside(R, b, T, i) <=> Inside(R, b, S, i)
    <3>1. \A j \in T : j < i => j \in S
      OBVIOUS
    <3>2. S \subseteq T
      OBVIOUS
    <3> QED BY <3>1, <3>2 DEF Inside
  <2>4. ASSUME NEW i
        PROVE  i \in T <=> i \in 1..k + 1 /\ Hits(R, b, i) # {} /\ ~Inside(R, b, T, i)
    <3>1. CASE i = k + 1
      <4>1. i \notin S /\ i \in 1..k + 1
        BY <2>2, <3>1
      <4> QED BY <2>3, <3>1, <4>1
    <3>2. CASE i # k + 1
      <4>1. i \in T <=> i \in S
        BY <3>2
      <4>2. i \in S <=> i \in 1..k /\ Hits(R, b, i) # {} /\ ~Inside(R, b, S, i)
        BY <2>1
      <4>3. i \in 1..k <=> i \in 1..k + 1
        BY <3>2
      <4> HIDE DEF T
      <4> QED BY <2>3, <4>1, <4>2, <4>3
    <3> QED BY <3>1, <3>2
  <2>5. Up(T, k + 1)
    <3> HIDE DEF T
    <3> QED BY <2>4
  <2>6. k + 1 \in 0..N
    BY <1>3
  <2> HIDE DEF Up, T
  <2> QED BY <2>5, <2>6
<1>4. N \in Good
  <2> HIDE DEF Good
  <2>1. \A j \in 0..N : j < N /\ j \in Good => j + 1 \in Good
    BY <1>3
  <2>2. \A j \in 0..N : j \in Good
    BY <1>2, <2>1, Upwards
  <2> QED BY <2>2
<1>5. \E S : IsLeftmost(R, b, S)
  BY <1>1, <1>4 DEF IsLeftmost
<1> QED BY <1>5 DEF Marked

(* The leftmost matches of two texts agree as far as matches agree where   *)
(* none of the first is going on.                                          *)
LEMMA LeftmostAgree ==
  ASSUME NEW R, NEW b \in Seq(Chars), NEW c \in Seq(Chars), NEW S, NEW T,
         IsLeftmost(R, b, S), IsLeftmost(R, c, T),
         NEW p \in Nat, p <= Len(b), p <= Len(c),
         \A i \in 1..p : Inside(R, b, S, i) \/ Hits(R, c, i) = Hits(R, b, i)
  PROVE  /\ \A i \in 1..p : i \in S <=> i \in T
         /\ \A i \in 1..p + 1 : Inside(R, b, S, i) <=> Inside(R, c, T, i)
<1>1. /\ \A i : i \in S <=> i \in 1..Len(b) /\ Hits(R, b, i) # {} /\ ~Inside(R, b, S, i)
      /\ \A i : i \in T <=> i \in 1..Len(c) /\ Hits(R, c, i) # {} /\ ~Inside(R, c, T, i)
  BY DEF IsLeftmost
<1>2. \A i \in 1..p : i \in S => Span(R, b, i) = Span(R, c, i)
  BY <1>1 DEF Span
<1> DEFINE Good == {k \in 0..p : \A i \in 1..k : i \in S <=> i \in T}
<1>3. 0 \in Good
  OBVIOUS
<1>4. ASSUME NEW k \in 0..p, k \in Good
      PROVE  \A i \in 1..k + 1 : Inside(R, b, S, i) <=> Inside(R, c, T, i)
  <2> TAKE i \in 1..k + 1
  <2>1. \A j : j \in S /\ j < i <=> j \in T /\ j < i
    <3>1. \A j : (j \in S \/ j \in T) /\ j < i => j \in 1..k
      BY <1>1
    <3> QED BY <1>4, <3>1
  <2>2. \A j : j \in S /\ j < i => Span(R, b, j) = Span(R, c, j)
    <3>1. \A j : j \in S /\ j < i => j \in 1..p
      BY <1>1
    <3> QED BY <1>2, <3>1
  <2> QED BY <2>1, <2>2 DEF Inside
<1>5. ASSUME NEW k \in 0..p, k < p, k \in Good PROVE k + 1 \in Good
  <2>1. k + 1 \in 1..p /\ k + 1 \in 1..Len(b) /\ k + 1 \in 1..Len(c) /\ k + 1 \in 1..k + 1
    BY <1>5
  <2>2. Inside(R, b, S, k + 1) <=> Inside(R, c, T, k + 1)
    BY <1>4, <1>5, <2>1
  <2>3. k + 1 \in S <=> k + 1 \in T
    BY <1>1, <2>1, <2>2
  <2>4. \A i \in 1..k + 1 : i \in S <=> i \in T
    <3>1. \A i \in 1..k + 1 : i = k + 1 \/ i \in 1..k
      OBVIOUS
    <3> QED BY <1>5, <2>3, <3>1
  <2> QED BY <1>5, <2>4
<1>6. p \in Good
  <2> HIDE DEF Good
  <2>1. \A j \in 0..p : j < p /\ j \in Good => j + 1 \in Good
    BY <1>5
  <2>2. \A j \in 0..p : j \in Good
    BY <1>3, <2>1, Upwards
  <2> QED BY <2>2
<1> QED BY <1>4, <1>6

-----------------------------------------------------------------------------
(* Resolving a text b from left to right: o is what its first p characters *)
(* have become. *)

Shown(R, b, i) ==
  IF i \in Marked(R, b) THEN REDACTION_MARKER
  ELSE IF Inside(R, b, Marked(R, b), i) THEN << >> ELSE << b[i] >>

Clean(R, b, p) == FlattenSeq([i \in 1..p |-> Shown(R, b, i)])

(* No match that begins before p goes on after it.                         *)
Bounded(R, b, p) == \A j \in Marked(R, b) : j <= p => j + Span(R, b, j) <= p + 1

(* Where something may still grow, nothing is resolved; at the end of the  *)
(* source only what stands there already.                                  *)
Settled(R, b, p, hold) ==
  \A i \in 1..p : /\ ~Inside(R, b, Marked(R, b), i)
                  /\ hold \/ i \notin Marked(R, b)
                  => ~Grows(R, b, i)

(* No rendering stands in o.                                               *)
Bare(R, o) == \A i \in 1..Len(o) : Hits(R, o, i) = {}

(* o ends with r characters of the text where nothing stands or grows, and *)
(* before them there is nothing or a marker.                               *)
Run(R, b, p, o, r) ==
  /\ r \in 0..Len(o) /\ r <= p
  /\ \A k \in 1..r : /\ o[Len(o) - r + k] = b[p - r + k]
                     /\ Hits(R, b, p - r + k) = {} /\ ~Grows(R, b, p - r + k)
  /\ r < Len(o) => /\ Len(o) - r >= 2
                   /\ o[Len(o) - r - 1] = "[" /\ o[Len(o) - r] = "]"

Resolved(R, b, p, o, hold) ==
  /\ p \in 0..Len(b)
  /\ o \in Seq(Chars)
  /\ Bounded(R, b, p)
  /\ Settled(R, b, p, hold)
  /\ o = Clean(R, b, p)
  /\ Bare(R, o)
  /\ \E r : Run(R, b, p, o, r)

Markable == {"[", "]"} \subseteq Chars

LEMMA ShownType ==
  ASSUME NEW R, NEW b \in Seq(Chars), NEW i \in 1..Len(b), Markable
  PROVE  Shown(R, b, i) \in Seq(Chars)
BY DEF Shown, Markable, REDACTION_MARKER

(* One more position.                                                      *)
LEMMA CleanMore ==
  ASSUME NEW R, NEW b \in Seq(Chars), NEW p \in 0..Len(b), p < Len(b), Markable
  PROVE  Clean(R, b, p + 1) = Clean(R, b, p) \o Shown(R, b, p + 1)
<1> DEFINE s == [i \in 1..p |-> Shown(R, b, i)]
           t == [i \in 1..p + 1 |-> Shown(R, b, i)]
<1>1. \A i \in 1..p + 1 : Shown(R, b, i) \in Seq(Chars)
  BY ShownType
<1>2. /\ s \in Seq(Seq(Chars)) /\ t \in Seq(Seq(Chars)) /\ Len(s) = p /\ Len(t) = p + 1
      /\ \A i \in 1..p : t[i] = s[i]
      /\ t[p + 1] = Shown(R, b, p + 1)
  BY <1>1
<1>3. FlattenSeq(t) = FlattenSeq(s) \o t[Len(t)]
  <2> HIDE DEF s, t
  <2> QED BY <1>2, FlattenMore
<1>4. FlattenSeq(t) = FlattenSeq(s) \o Shown(R, b, p + 1)
  <2> HIDE DEF s, t
  <2> QED BY <1>2, <1>3
<1> QED BY <1>4 DEF Clean

LEMMA CleanType ==
  ASSUME NEW R, NEW b \in Seq(Chars), NEW p \in 0..Len(b), Markable
  PROVE  Clean(R, b, p) \in Seq(Chars)
<1> DEFINE s == [i \in 1..p |-> Shown(R, b, i)]
<1>1. \A i \in 1..p : Shown(R, b, i) \in Seq(Chars)
  BY ShownType
<1>2. s \in Seq(Seq(Chars))
  BY <1>1
<1>3. FlattenSeq(s) \in Seq(Chars)
  <2> HIDE DEF s
  <2> QED BY <1>2, FlattenType
<1> QED BY <1>3 DEF Clean

(* What a match covers adds nothing.                                       *)
LEMMA CleanCovered ==
  ASSUME NEW R, NEW b \in Seq(Chars), NEW p \in 0..Len(b), NEW q \in 0..Len(b), p <= q,
         Markable,
         \A i \in p + 1..q : i \notin Marked(R, b) /\ Inside(R, b, Marked(R, b), i)
  PROVE  Clean(R, b, q) = Clean(R, b, p)
<1>1. PICK N \in Nat : N = q - p
  OBVIOUS
<1> DEFINE Good == {k \in 0..N : Clean(R, b, p + k) = Clean(R, b, p)}
<1>2. 0 \in Good
  <2>1. p + 0 = p
    OBVIOUS
  <2> QED BY <1>1, <2>1
<1>3. ASSUME NEW k \in 0..N, k < N, k \in Good PROVE k + 1 \in Good
  <2>1. p + k \in 0..Len(b) /\ p + k < Len(b) /\ (p + k) + 1 \in p + 1..q /\ (p + k) + 1 = p + (k + 1)
    BY <1>1, <1>3
  <2>2. Clean(R, b, (p + k) + 1) = Clean(R, b, p + k) \o Shown(R, b, (p + k) + 1)
    BY <2>1, CleanMore
  <2>3. Shown(R, b, (p + k) + 1) = << >>
    BY <2>1 DEF Shown
  <2>4. Clean(R, b, p + k) \in Seq(Chars)
    BY <2>1, CleanType
  <2>5. Clean(R, b, p + (k + 1)) = Clean(R, b, p)
    BY <1>3, <2>1, <2>2, <2>3, <2>4
  <2> QED BY <1>3, <2>5
<1>4. N \in Good
  <2> HIDE DEF Good
  <2>1. \A j \in 0..N : j < N /\ j \in Good => j + 1 \in Good
    BY <1>3
  <2>2. \A j \in 0..N : j \in Good
    BY <1>2, <2>1, Upwards
  <2> QED BY <2>2
<1>5. p + N = q
  BY <1>1
<1> QED BY <1>4, <1>5

LEMMA NotInside ==
  ASSUME NEW R, Registered(R), NEW b \in Seq(Chars), NEW p \in 0..Len(b), Bounded(R, b, p)
  PROVE  ~Inside(R, b, Marked(R, b), p + 1)
<1> SUFFICES ASSUME NEW j \in Marked(R, b), j < p + 1, p + 1 < j + Span(R, b, j) PROVE FALSE
  BY DEF Inside
<1>1. j \in 1..Len(b) /\ Hits(R, b, j) # {}
  BY MarkedIs DEF IsLeftmost
<1>2. j + Span(R, b, j) <= p + 1
  BY <1>1 DEF Bounded
<1> QED BY <1>1, <1>2, SpanIs

(* A character where nothing stands or grows.                              *)
LEMMA BareCharacter ==
  ASSUME NEW R, Registered(R), NEW b \in Seq(Chars), NEW p \in 0..Len(b), p < Len(b),
         NEW o \in Seq(Chars), NEW r, Bare(R, o), Run(R, b, p, o, r), Markable,
         Hits(R, b, p + 1) = {}, ~Grows(R, b, p + 1)
  PROVE  Bare(R, o \o << b[p + 1] >>) /\ Run(R, b, p + 1, o \o << b[p + 1] >>, r + 1)
<1> DEFINE u == o \o << b[p + 1] >>
<1>1. /\ u \in Seq(Chars) /\ Len(u) = Len(o) + 1 /\ u[Len(o) + 1] = b[p + 1]
      /\ \A i \in 1..Len(o) : u[i] = o[i]
  OBVIOUS
<1> HIDE DEF u
<1>2. PICK n \in Nat : n = Len(o)
  OBVIOUS
<1>3. /\ r \in 0..n /\ r <= p
      /\ \A k \in 1..r : /\ o[n - r + k] = b[p - r + k]
                         /\ Hits(R, b, p - r + k) = {} /\ ~Grows(R, b, p - r + k)
      /\ r < n => n - r >= 2 /\ o[n - r - 1] = "[" /\ o[n - r] = "]"
  BY <1>2 DEF Run
<1>4. ASSUME NEW i \in 1..n + 1, NEW v \in Hits(R, u, i) PROVE FALSE
  <2>1. v \in R /\ v \in Seq(Chars) /\ Len(v) \in Nat /\ Len(v) > 0
    BY DEF Hits, Registered
  <2>2. PICK m \in Nat \ {0} : m = Len(v)
    BY <2>1
  <2>3. i + m <= n + 2 /\ \A k \in 1..m : v[k] = u[i + k - 1]
    BY <1>1, <1>2, <2>2 DEF Hits
  <2>4. CASE i + m <= n + 1
    <3>1. \A k \in 1..m : i + k - 1 \in 1..n
      BY <2>4
    <3>2. \A k \in 1..m : v[k] = o[i + k - 1]
      BY <1>1, <1>2, <2>3, <3>1
    <3>3. v \in Hits(R, o, i) /\ i \in 1..n
      BY <1>2, <2>1, <2>2, <2>4, <3>2 DEF Hits
    <3> QED BY <1>2, <3>3 DEF Bare
  <2>5. CASE i + m = n + 2 /\ m <= r + 1
    <3>1. ASSUME NEW k \in 1..m PROVE v[k] = b[(p + 2 - m) + k - 1]
      <4>1. CASE k = m
        <5>1. v[k] = u[i + k - 1] /\ i + k - 1 = n + 1 /\ (p + 2 - m) + k - 1 = p + 1
          BY <2>3, <2>5, <4>1
        <5> QED BY <1>1, <1>2, <5>1
      <4>2. CASE k # m
        <5>1. r + 1 - m + k \in 1..r /\ i + k - 1 = n - r + (r + 1 - m + k) /\ i + k - 1 \in 1..n
          BY <1>3, <2>5, <4>2
        <5>2. o[n - r + (r + 1 - m + k)] = b[p - r + (r + 1 - m + k)]
          BY <1>3, <5>1
        <5>3. p - r + (r + 1 - m + k) = (p + 2 - m) + k - 1
          BY <1>3
        <5> QED BY <1>1, <1>2, <2>3, <5>1, <5>2, <5>3
      <4> QED BY <4>1, <4>2
    <3>2. (p + 2 - m) + m <= Len(b) + 1
      OBVIOUS
    <3>3. v \in Hits(R, b, p + 2 - m)
      BY <2>1, <2>2, <3>1, <3>2 DEF Hits
    <3>4. CASE m = 1
      <4>1. p + 2 - m = p + 1
        BY <3>4
      <4> QED BY <3>3, <4>1
    <3>5. CASE m # 1
      <4>1. r + 2 - m \in 1..r /\ p + 2 - m = p - r + (r + 2 - m)
        BY <1>3, <2>5, <3>5
      <4> QED BY <1>3, <3>3, <4>1
    <3> QED BY <3>4, <3>5
  <2>6. CASE i + m = n + 2 /\ m > r + 1
    <3>1. m - r - 1 \in 1..m /\ i + (m - r - 1) - 1 = n - r /\ r < n /\ n - r \in 1..n
      BY <1>3, <2>6
    <3>2. v[m - r - 1] = "]"
      BY <1>1, <1>2, <1>3, <2>3, <3>1
    <3>3. /\ v[1] # "]"
          /\ \A k \in 1..m - 1 : ~(v[k] = "[" /\ v[k + 1] = "]")
      BY <2>1, <2>2, MarkerApart DEF Markable, Registered
    <3>4. m - r - 1 # 1
      BY <3>2, <3>3
    <3>5. m - r - 2 \in 1..m - 1 /\ i + (m - r - 2) - 1 = n - r - 1 /\ n - r - 1 \in 1..n
          /\ (m - r - 2) + 1 = m - r - 1 /\ m - r - 2 \in 1..m
      BY <1>3, <2>6, <3>1, <3>4
    <3>6. v[m - r - 2] = "["
      BY <1>1, <1>2, <1>3, <2>3, <3>1, <3>5
    <3> QED BY <3>2, <3>3, <3>5, <3>6
  <2>7. i + m <= n + 1 \/ (i + m = n + 2 /\ m <= r + 1) \/ (i + m = n + 2 /\ m > r + 1)
    <3>1. i \in Int /\ r \in Int /\ i + m <= n + 2
      BY <1>3, <2>3
    <3> QED BY <3>1
  <2> QED BY <2>4, <2>5, <2>6, <2>7
<1>5. Bare(R, u)
  BY <1>1, <1>2, <1>4 DEF Bare
<1>6. Run(R, b, p + 1, u, r + 1)
  <2>1. r + 1 \in 0..Len(u) /\ r + 1 <= p + 1
    BY <1>1, <1>2, <1>3
  <2>2. ASSUME NEW k \in 1..r + 1
        PROVE  /\ u[Len(u) - (r + 1) + k] = b[(p + 1) - (r + 1) + k]
               /\ Hits(R, b, (p + 1) - (r + 1) + k) = {} /\ ~Grows(R, b, (p + 1) - (r + 1) + k)
    <3>1. Len(u) - (r + 1) + k = n - r + k /\ (p + 1) - (r + 1) + k = p - r + k
      BY <1>1, <1>2, <1>3
    <3>2. CASE k = r + 1
      <4>1. n - r + k = n + 1 /\ p - r + k = p + 1
        BY <1>3, <3>2
      <4> QED BY <1>1, <1>2, <3>1, <4>1
    <3>3. CASE k # r + 1
      <4>1. k \in 1..r /\ n - r + k \in 1..n
        BY <1>3, <3>3
      <4> QED BY <1>1, <1>2, <1>3, <3>1, <4>1
    <3> QED BY <3>2, <3>3
  <2>3. r + 1 < Len(u) => /\ Len(u) - (r + 1) >= 2
                         /\ u[Len(u) - (r + 1) - 1] = "[" /\ u[Len(u) - (r + 1)] = "]"
    <3> SUFFICES ASSUME r < n
                 PROVE  n - r >= 2 /\ u[n - r - 1] = "[" /\ u[n - r] = "]"
      <4>1. Len(u) - (r + 1) = n - r /\ Len(u) - (r + 1) - 1 = n - r - 1 /\ (r + 1 < Len(u) <=> r < n)
        BY <1>1, <1>2, <1>3
      <4> QED BY <4>1
    <3>1. n - r - 1 \in 1..n /\ n - r \in 1..n
      BY <1>3
    <3> QED BY <1>1, <1>2, <1>3, <3>1
  <2> QED BY <2>1, <2>2, <2>3 DEF Run
<1> QED BY <1>5, <1>6 DEF u

(* A marker.                                                               *)
LEMMA BareMarker ==
  ASSUME NEW R, Registered(R), NEW b, NEW q \in Nat,
         NEW o \in Seq(Chars), Bare(R, o), Markable
  PROVE  /\ o \o REDACTION_MARKER \in Seq(Chars)
         /\ Bare(R, o \o REDACTION_MARKER)
         /\ Run(R, b, q, o \o REDACTION_MARKER, 0)
<1> DEFINE u == o \o REDACTION_MARKER
<1>1. /\ u \in Seq(Chars) /\ Len(u) = Len(o) + 2
      /\ u[Len(o) + 1] = "[" /\ u[Len(o) + 2] = "]"
      /\ \A i \in 1..Len(o) : u[i] = o[i]
  BY DEF REDACTION_MARKER, Markable
<1> HIDE DEF u
<1>2. PICK n \in Nat : n = Len(o)
  OBVIOUS
<1>3. ASSUME NEW i \in 1..n + 2, NEW v \in Hits(R, u, i) PROVE FALSE
  <2>1. v \in R /\ v \in Seq(Chars) /\ Len(v) \in Nat /\ Len(v) > 0
    BY DEF Hits, Registered
  <2>2. PICK m \in Nat \ {0} : m = Len(v)
    BY <2>1
  <2>3. i + m <= n + 3 /\ \A k \in 1..m : v[k] = u[i + k - 1]
    BY <1>1, <1>2, <2>2 DEF Hits
  <2>4. /\ v[m] # "["
        /\ v[1] # "]"
        /\ \A k \in 1..m - 1 : ~(v[k] = "[" /\ v[k + 1] = "]")
    BY <2>1, <2>2, MarkerApart DEF Markable, Registered
  <2>5. CASE i + m <= n + 1
    <3>1. \A k \in 1..m : i + k - 1 \in 1..n
      BY <2>5
    <3>2. \A k \in 1..m : v[k] = o[i + k - 1]
      BY <1>1, <1>2, <2>3, <3>1
    <3>3. v \in Hits(R, o, i) /\ i \in 1..n
      BY <1>2, <2>1, <2>2, <2>5, <3>2 DEF Hits
    <3> QED BY <1>2, <3>3 DEF Bare
  <2>6. CASE i + m = n + 2
    <3>1. i + m - 1 = n + 1 /\ m \in 1..m
      BY <2>6
    <3> QED BY <1>1, <1>2, <2>3, <2>4, <3>1
  <2>7. CASE i + m = n + 3
    <3>1. i + m - 1 = n + 2 /\ m \in 1..m
      BY <2>7
    <3>2. v[m] = "]"
      BY <1>1, <1>2, <2>3, <3>1
    <3>3. m # 1
      BY <2>4, <3>2
    <3>4. m - 1 \in 1..m /\ m - 1 \in 1..m - 1 /\ i + (m - 1) - 1 = n + 1 /\ (m - 1) + 1 = m
      BY <2>7, <3>3
    <3>5. v[m - 1] = "["
      BY <1>1, <1>2, <2>3, <3>4
    <3> QED BY <2>4, <3>2, <3>4, <3>5
  <2>8. i + m <= n + 1 \/ i + m = n + 2 \/ i + m = n + 3
    <3>1. i \in Int /\ i + m <= n + 3
      BY <2>3
    <3> QED BY <3>1
  <2> QED BY <2>5, <2>6, <2>7, <2>8
<1>4. Bare(R, u)
  BY <1>1, <1>2, <1>3 DEF Bare
<1>5. Run(R, b, q, u, 0)
  BY <1>1, <1>2 DEF Run
<1> QED BY <1>1, <1>4, <1>5 DEF u

(* A step of a scan: a character, or the longest of the renderings.        *)
LEMMA ResolveCharacter ==
  ASSUME NEW R, Registered(R), NEW b \in Seq(Chars), NEW p, NEW o, NEW hold \in BOOLEAN,
         Resolved(R, b, p, o, hold), p < Len(b), Markable,
         Hits(R, b, p + 1) = {}, ~Grows(R, b, p + 1)
  PROVE  Resolved(R, b, p + 1, o \o << b[p + 1] >>, hold)
<1>1. /\ p \in 0..Len(b) /\ o \in Seq(Chars) /\ Bounded(R, b, p) /\ Settled(R, b, p, hold)
      /\ o = Clean(R, b, p) /\ Bare(R, o)
  BY DEF Resolved
<1>2. PICK r : Run(R, b, p, o, r)
  BY DEF Resolved
<1>3. \A j : j \in Marked(R, b) => j \in 1..Len(b) /\ Hits(R, b, j) # {}
  BY MarkedIs DEF IsLeftmost
<1>4. p + 1 \in 1..Len(b) /\ b[p + 1] \in Chars
  BY <1>1
<1>5. ~Inside(R, b, Marked(R, b), p + 1)
  BY <1>1, NotInside
<1>6. p + 1 \notin Marked(R, b)
  BY <1>3
<1>7. Bounded(R, b, p + 1)
  <2> SUFFICES ASSUME NEW j \in Marked(R, b), j <= p + 1
               PROVE  j + Span(R, b, j) <= (p + 1) + 1
    BY DEF Bounded
  <2>1. j \in 1..Len(b) /\ j <= p
    BY <1>1, <1>3, <1>6
  <2>2. j + Span(R, b, j) <= p + 1
    BY <1>1, <2>1 DEF Bounded
  <2> QED BY <1>1, <1>3, <2>1, <2>2, SpanIs
<1>8. Settled(R, b, p + 1, hold)
  <2>1. \A i \in 1..p + 1 : i = p + 1 \/ i \in 1..p
    BY <1>1
  <2> QED BY <1>1, <2>1 DEF Settled
<1>9. o \o << b[p + 1] >> = Clean(R, b, p + 1)
  BY <1>1, <1>5, <1>6, CleanMore DEF Shown
<1>10. Bare(R, o \o << b[p + 1] >>) /\ Run(R, b, p + 1, o \o << b[p + 1] >>, r + 1)
  BY <1>1, <1>2, BareCharacter
<1>11. p + 1 \in 0..Len(b) /\ o \o << b[p + 1] >> \in Seq(Chars)
  BY <1>1, <1>4
<1> QED BY <1>7, <1>8, <1>9, <1>10, <1>11 DEF Resolved

LEMMA ResolveMatch ==
  ASSUME NEW R, Registered(R), NEW b \in Seq(Chars), NEW p, NEW o, NEW hold \in BOOLEAN,
         Resolved(R, b, p, o, hold), p < Len(b), Markable,
         Hits(R, b, p + 1) # {}, hold => ~Grows(R, b, p + 1)
  PROVE  Resolved(R, b, p + Span(R, b, p + 1), o \o REDACTION_MARKER, hold)
<1>1. /\ p \in 0..Len(b) /\ o \in Seq(Chars) /\ Bounded(R, b, p) /\ Settled(R, b, p, hold)
      /\ o = Clean(R, b, p) /\ Bare(R, o)
  BY DEF Resolved
<1>2. \A j : j \in Marked(R, b) <=>
             j \in 1..Len(b) /\ Hits(R, b, j) # {} /\ ~Inside(R, b, Marked(R, b), j)
  BY MarkedIs DEF IsLeftmost
<1>3. p + 1 \in 1..Len(b) /\ p + 1 \in 1..Len(b) + 1
  BY <1>1
<1>4. p + 1 \in Marked(R, b)
  BY <1>1, <1>2, <1>3, NotInside
<1>5. PICK q : q = p + Span(R, b, p + 1)
  OBVIOUS
<1>6. q \in p + 1..Len(b) /\ Span(R, b, p + 1) \in 1..Len(b)
  BY <1>1, <1>3, <1>5, SpanIs
<1>7. ASSUME NEW i \in (p + 1) + 1..q
      PROVE  i \notin Marked(R, b) /\ Inside(R, b, Marked(R, b), i)
  <2>1. p + 1 < i /\ i < (p + 1) + Span(R, b, p + 1)
    BY <1>1, <1>5, <1>6
  <2> QED BY <1>2, <1>4, <2>1 DEF Inside
<1>8. Bounded(R, b, q)
  <2> SUFFICES ASSUME NEW j \in Marked(R, b), j <= q
               PROVE  j + Span(R, b, j) <= q + 1
    BY DEF Bounded
  <2>1. j \in 1..Len(b)
    BY <1>2
  <2>2. CASE j <= p
    <3>1. j + Span(R, b, j) <= p + 1
      BY <1>1, <2>2 DEF Bounded
    <3>2. Span(R, b, j) \in Int
      BY <1>2, <2>1, SpanIs
    <3> QED BY <1>1, <1>6, <2>1, <3>1, <3>2
  <2>3. CASE j = p + 1
    BY <1>1, <1>5, <1>6, <2>3
  <2>4. CASE j > p + 1
    <3>1. j \in (p + 1) + 1..q
      BY <1>1, <2>1, <2>4
    <3> QED BY <1>7, <3>1
  <2>5. j <= p \/ j = p + 1 \/ j > p + 1
    BY <1>1, <2>1
  <2> QED BY <2>2, <2>3, <2>4, <2>5
<1>9. Settled(R, b, q, hold)
  <2>1. \A i \in 1..q : i \in 1..p \/ i = p + 1 \/ i \in (p + 1) + 1..q
    BY <1>1, <1>6
  <2> QED BY <1>1, <1>4, <1>7, <2>1 DEF Settled
<1>10. o \o REDACTION_MARKER = Clean(R, b, q)
  <2>1. Clean(R, b, p + 1) = o \o REDACTION_MARKER
    BY <1>1, <1>4, CleanMore DEF Shown
  <2>2. p + 1 \in 0..Len(b) /\ q \in 0..Len(b) /\ p + 1 <= q
    BY <1>1, <1>6
  <2>3. Clean(R, b, q) = Clean(R, b, p + 1)
    BY <1>7, <2>2, CleanCovered
  <2> QED BY <2>1, <2>3
<1>11. q \in Nat /\ q \in 0..Len(b)
  BY <1>1, <1>6
<1>12. /\ o \o REDACTION_MARKER \in Seq(Chars) /\ Bare(R, o \o REDACTION_MARKER)
       /\ Run(R, b, q, o \o REDACTION_MARKER, 0)
  BY <1>1, <1>11, BareMarker
<1>13. Resolved(R, b, q, o \o REDACTION_MARKER, hold)
  BY <1>8, <1>9, <1>10, <1>11, <1>12 DEF Resolved
<1> QED BY <1>5, <1>13

-----------------------------------------------------------------------------
(* More text arrives: nothing changes where nothing could still grow.      *)

Continues(b, c) == Len(b) <= Len(c) /\ \A i \in 1..Len(b) : c[i] = b[i]

LEMMA SettledHits ==
  ASSUME NEW R, Registered(R), NEW b \in Seq(Chars), NEW c \in Seq(Chars), Continues(b, c),
         NEW i \in 1..Len(b), ~Grows(R, b, i)
  PROVE  Hits(R, c, i) = Hits(R, b, i) /\ ~Grows(R, c, i)
<1>1. ASSUME NEW v \in R
      PROVE  /\ v \in Hits(R, c, i) <=> v \in Hits(R, b, i)
             /\ ~ /\ Len(c) + 1 - i < Len(v)
                  /\ \A k \in 1..Len(c) + 1 - i : v[k] = c[i + k - 1]
  <2>1. PICK m \in Nat, n \in Nat, l \in Nat : m = Len(v) /\ n = Len(b) /\ l = Len(c)
    BY DEF Registered
  <2>2. n <= l /\ \A j \in 1..n : c[j] = b[j]
    BY <2>1 DEF Continues
  <2>3. ASSUME n + 1 - i < m, \A k \in 1..n + 1 - i : v[k] = c[i + k - 1] PROVE FALSE
    <3>1. \A k \in 1..n + 1 - i : i + k - 1 \in 1..n
      BY <2>1
    <3>2. \A k \in 1..n + 1 - i : v[k] = b[i + k - 1]
      BY <2>2, <2>3, <3>1
    <3> QED BY <2>1, <2>3, <3>2 DEF Grows
  <2>4. ASSUME i + m <= n + 1
        PROVE  (\A k \in 1..m : v[k] = c[i + k - 1]) <=> (\A k \in 1..m : v[k] = b[i + k - 1])
    <3>1. \A k \in 1..m : i + k - 1 \in 1..n
      BY <2>1, <2>4
    <3> QED BY <2>2, <3>1
  <2>5. ASSUME v \in Hits(R, c, i) PROVE i + m <= n + 1
    <3>1. i + m <= l + 1 /\ \A k \in 1..m : v[k] = c[i + k - 1]
      BY <2>1, <2>5 DEF Hits
    <3> SUFFICES ASSUME n + 1 - i < m PROVE FALSE
      BY <2>1
    <3>2. \A k \in 1..n + 1 - i : k \in 1..m
      BY <2>1
    <3> QED BY <2>3, <3>1, <3>2
  <2>6. v \in Hits(R, c, i) <=> v \in Hits(R, b, i)
    <3>1. v \in Hits(R, c, i) <=> i + m <= l + 1 /\ \A k \in 1..m : v[k] = c[i + k - 1]
      BY <2>1 DEF Hits
    <3>2. v \in Hits(R, b, i) <=> i + m <= n + 1 /\ \A k \in 1..m : v[k] = b[i + k - 1]
      BY <2>1 DEF Hits
    <3>3. i + m <= n + 1 => i + m <= l + 1
      BY <2>1, <2>2
    <3> QED BY <2>4, <2>5, <3>1, <3>2, <3>3
  <2>7. ASSUME l + 1 - i < m, \A k \in 1..l + 1 - i : v[k] = c[i + k - 1] PROVE FALSE
    <3>1. n + 1 - i < m /\ \A k \in 1..n + 1 - i : k \in 1..l + 1 - i
      BY <2>1, <2>2, <2>7
    <3> QED BY <2>3, <2>7, <3>1
  <2> QED BY <2>1, <2>6, <2>7
<1>2. Hits(R, c, i) \subseteq R /\ Hits(R, b, i) \subseteq R
  BY DEF Hits
<1>3. Hits(R, c, i) = Hits(R, b, i)
  BY <1>1, <1>2
<1>4. ~Grows(R, c, i)
  BY <1>1 DEF Grows
<1> QED BY <1>3, <1>4

(* What is resolved stays resolved.                                        *)
LEMMA ResolvedStays ==
  ASSUME NEW R, Registered(R), NEW b \in Seq(Chars), NEW c \in Seq(Chars), Continues(b, c),
         NEW p, NEW o, Resolved(R, b, p, o, TRUE)
  PROVE  Resolved(R, c, p, o, TRUE)
<1> DEFINE S == Marked(R, b)
           T == Marked(R, c)
<1>1. /\ p \in 0..Len(b) /\ o \in Seq(Chars) /\ Bounded(R, b, p) /\ Settled(R, b, p, TRUE)
      /\ o = Clean(R, b, p) /\ Bare(R, o)
  BY DEF Resolved
<1>2. p \in Nat /\ p <= Len(b) /\ p <= Len(c) /\ p \in 0..Len(c) /\ \A i \in 1..p : i \in 1..Len(b)
  BY <1>1 DEF Continues
<1>3. ASSUME NEW i \in 1..p, ~Inside(R, b, S, i)
      PROVE  Hits(R, c, i) = Hits(R, b, i) /\ ~Grows(R, c, i)
  <2>1. ~Grows(R, b, i)
    BY <1>1, <1>3 DEF Settled
  <2> QED BY <1>2, <2>1, SettledHits
<1>4. IsLeftmost(R, b, S) /\ IsLeftmost(R, c, T)
  BY MarkedIs
<1>5. /\ \A i \in 1..p : i \in S <=> i \in T
      /\ \A i \in 1..p + 1 : Inside(R, b, S, i) <=> Inside(R, c, T, i)
  <2>1. \A i \in 1..p : Inside(R, b, S, i) \/ Hits(R, c, i) = Hits(R, b, i)
    BY <1>3
  <2> HIDE DEF S, T
  <2> QED BY <1>2, <1>4, <2>1, LeftmostAgree
<1>6. Bounded(R, c, p)
  <2> SUFFICES ASSUME NEW j \in T, j <= p PROVE j + Span(R, c, j) <= p + 1
    BY DEF Bounded
  <2>1. j \in 1..p
    BY <1>4 DEF IsLeftmost
  <2>2. j \in S /\ ~Inside(R, b, S, j)
    BY <1>4, <1>5, <2>1 DEF IsLeftmost
  <2>3. Span(R, c, j) = Span(R, b, j)
    BY <1>3, <2>1, <2>2 DEF Span
  <2> QED BY <1>1, <2>2, <2>3 DEF Bounded
<1>7. Settled(R, c, p, TRUE)
  <2>1. \A i \in 1..p : i \in 1..p + 1
    BY <1>2
  <2> QED BY <1>3, <1>5, <2>1 DEF Settled
<1>8. o = Clean(R, c, p)
  <2>1. ASSUME NEW i \in 1..p PROVE Shown(R, b, i) = Shown(R, c, i)
    <3>1. c[i] = b[i] /\ i \in 1..p + 1
      BY <1>2 DEF Continues
    <3> QED BY <1>5, <3>1 DEF Shown
  <2>2. [i \in 1..p |-> Shown(R, b, i)] = [i \in 1..p |-> Shown(R, c, i)]
    BY <2>1
  <2> QED BY <1>1, <2>2 DEF Clean
<1>9. PICK r : Run(R, b, p, o, r)
  BY DEF Resolved
<1>10. Run(R, c, p, o, r)
  <2>1. r \in 0..Len(o) /\ r <= p
    BY <1>9 DEF Run
  <2>2. ASSUME NEW k \in 1..r
        PROVE  /\ o[Len(o) - r + k] = c[p - r + k]
               /\ Hits(R, c, p - r + k) = {} /\ ~Grows(R, c, p - r + k)
    <3>1. p - r + k \in 1..Len(b)
      BY <1>1, <2>1
    <3>2. /\ o[Len(o) - r + k] = b[p - r + k]
          /\ Hits(R, b, p - r + k) = {} /\ ~Grows(R, b, p - r + k)
      BY <1>9 DEF Run
    <3> QED BY <3>1, <3>2, SettledHits DEF Continues
  <2> QED BY <1>9, <2>1, <2>2 DEF Run
<1> QED BY <1>1, <1>2, <1>6, <1>7, <1>8, <1>10 DEF Resolved

(* The rest of a text from p on as a text of its own.                      *)
Rest(b, p, d) == Len(d) = Len(b) - p /\ \A k \in 1..Len(d) : d[k] = b[p + k]

LEMMA RestHits ==
  ASSUME NEW R, Registered(R), NEW b \in Seq(Chars), NEW p \in 0..Len(b),
         NEW d \in Seq(Chars), Rest(b, p, d), NEW i \in 1..Len(d) + 1
  PROVE  /\ Hits(R, d, i) = Hits(R, b, p + i)
         /\ Grows(R, d, i) <=> Grows(R, b, p + i)
         /\ Span(R, d, i) = Span(R, b, p + i)
<1>1. PICK n \in Nat, l \in Nat : n = Len(d) /\ l = Len(b) /\ n = l - p
  <2>1. Len(d) \in Nat /\ Len(b) \in Nat
    OBVIOUS
  <2>2. Len(d) = Len(b) - p
    BY DEF Rest
  <2> QED BY <2>1, <2>2
<1>2. ASSUME NEW v \in R
      PROVE  /\ v \in Hits(R, d, i) <=> v \in Hits(R, b, p + i)
             /\ /\ Len(d) + 1 - i < Len(v)
                /\ \A k \in 1..Len(d) + 1 - i : v[k] = d[i + k - 1]
                <=>
                /\ Len(b) + 1 - (p + i) < Len(v)
                /\ \A k \in 1..Len(b) + 1 - (p + i) : v[k] = b[(p + i) + k - 1]
  <2>1. PICK m \in Nat : m = Len(v)
    BY DEF Registered
  <2>2. \A k \in 1..n + 1 - i : d[i + k - 1] = b[(p + i) + k - 1]
    <3> TAKE k \in 1..n + 1 - i
    <3>1. i + k - 1 \in 1..n /\ p + (i + k - 1) = (p + i) + k - 1
      BY <1>1
    <3>2. d[i + k - 1] = b[p + (i + k - 1)]
      BY <1>1, <3>1 DEF Rest
    <3> QED BY <3>1, <3>2
  <2>3. n + 1 - i = l + 1 - (p + i) /\ (i + m <= n + 1 <=> (p + i) + m <= l + 1)
    BY <1>1
  <2>4. i + m <= n + 1 => \A k \in 1..m : k \in 1..n + 1 - i
    BY <1>1
  <2>5. v \in Hits(R, d, i) <=> v \in Hits(R, b, p + i)
    <3>1. v \in Hits(R, d, i) <=> i + m <= n + 1 /\ \A k \in 1..m : v[k] = d[i + k - 1]
      BY <1>1, <2>1 DEF Hits
    <3>2. v \in Hits(R, b, p + i) <=>
            (p + i) + m <= l + 1 /\ \A k \in 1..m : v[k] = b[(p + i) + k - 1]
      BY <1>1, <2>1 DEF Hits
    <3> QED BY <2>2, <2>3, <2>4, <3>1, <3>2
  <2> QED BY <1>1, <2>1, <2>2, <2>3, <2>5
<1>3. Hits(R, d, i) \subseteq R /\ Hits(R, b, p + i) \subseteq R
  BY DEF Hits
<1>4. Hits(R, d, i) = Hits(R, b, p + i)
  BY <1>2, <1>3
<1>5. Grows(R, d, i) <=> Grows(R, b, p + i)
  BY <1>2 DEF Grows
<1> QED BY <1>4, <1>5 DEF Span

-----------------------------------------------------------------------------
(* The scan of a text. *)

Scanning(f, buffer, hold) ==
  f = [i \in 1..Len(buffer) + 1 |->
         LET found == Matches(buffer, i)
             next == IF found = {} THEN i + 1 ELSE i + Longest(found)
             emitted == IF found = {} THEN << buffer[i] >> ELSE REDACTION_MARKER
         IN  IF i = Len(buffer) + 1 \/ (Growable(buffer, i) /\ (hold \/ found = {}))
               THEN [out |-> << >>, cut |-> i]
               ELSE [f[next] EXCEPT !.out = emitted \o @]]

(* Where a scan of b has to stop.                                          *)
Stops(R, b, hold, i) ==
  i = Len(b) + 1 \/ (Grows(R, b, i) /\ (hold \/ Hits(R, b, i) = {}))

(* What the rest from i on becomes, by what the rest after its first       *)
(* character or match becomes.                                             *)
Turn(R, b, hold, f, i) ==
  IF Stops(R, b, hold, i) THEN [out |-> << >>, cut |-> i]
  ELSE IF Hits(R, b, i) = {} THEN [f[i + 1] EXCEPT !.out = << b[i] >> \o @]
  ELSE [f[i + Span(R, b, i)] EXCEPT !.out = REDACTION_MARKER \o @]

LEMMA ScanningIs ==
  ASSUME NEW R, Registered(R), stream.snapshot = R, NEW b \in Seq(Chars), NEW hold \in BOOLEAN,
         NEW f
  PROVE  Scanning(f, b, hold) <=> f = [i \in 1..Len(b) + 1 |-> Turn(R, b, hold, f, i)]
<1> DEFINE Body(i) ==
             LET found == Matches(b, i)
                 next == IF found = {} THEN i + 1 ELSE i + Longest(found)
                 emitted == IF found = {} THEN << b[i] >> ELSE REDACTION_MARKER
             IN  IF i = Len(b) + 1 \/ (Growable(b, i) /\ (hold \/ found = {}))
                   THEN [out |-> << >>, cut |-> i]
                   ELSE [f[next] EXCEPT !.out = emitted \o @]
<1>1. ASSUME NEW i \in 1..Len(b) + 1 PROVE Body(i) = Turn(R, b, hold, f, i)
  <2>1. Matches(b, i) = Hits(R, b, i)
    BY HitsIs DEF Matches
  <2>2. Growable(b, i) <=> Grows(R, b, i)
    BY GrowsIs DEF Growable
  <2> QED BY <2>1, <2>2 DEF Turn, Stops, Span
<1>2. Scanning(f, b, hold) <=> f = [i \in 1..Len(b) + 1 |-> Body(i)]
  BY DEF Scanning
<1> HIDE DEF Body
<1>3. [i \in 1..Len(b) + 1 |-> Body(i)] = [i \in 1..Len(b) + 1 |-> Turn(R, b, hold, f, i)]
  BY <1>1
<1> QED BY <1>2, <1>3

LEMMA ScanningExists ==
  ASSUME NEW R, Registered(R), stream.snapshot = R, NEW b \in Seq(Chars), NEW hold \in BOOLEAN
  PROVE  \E f : Scanning(f, b, hold)
<1>1. PICK N \in Nat : N = Len(b)
  OBVIOUS
<1> DEFINE Value(f, i) == Turn(R, b, hold, f, i)
           Holds(f, k) == \A i \in N + 1 - k..N + 1 : f[i] = Value(f, i)
           Good == {k \in 0..N : \E f : Holds(f, k)}
<1>2. ASSUME NEW f, NEW g, NEW i \in 1..N + 1, \A j \in i + 1..N + 1 : f[j] = g[j]
      PROVE  Value(f, i) = Value(g, i)
  <2>1. CASE Stops(R, b, hold, i)
    BY <2>1 DEF Turn
  <2>2. CASE ~Stops(R, b, hold, i)
    <3>1. i # N + 1
      BY <1>1, <2>2 DEF Stops
    <3>2. i + 1 \in i + 1..N + 1
      BY <3>1
    <3>3. Hits(R, b, i) # {} => i + Span(R, b, i) \in i + 1..N + 1
      BY <1>1, SpanIs
    <3> QED BY <1>2, <2>2, <3>2, <3>3 DEF Turn
  <2> QED BY <2>1, <2>2
<1>3. 0 \in Good
  <2> DEFINE f == [i \in 1..N + 1 |-> [out |-> << >>, cut |-> i]]
  <2>1. Holds(f, 0)
    <3>1. \A i \in N + 1 - 0..N + 1 : i = N + 1
      OBVIOUS
    <3>2. f[N + 1] = Value(f, N + 1)
      BY <1>1 DEF Turn, Stops
    <3> HIDE DEF f, Value
    <3> QED BY <3>1, <3>2
  <2> HIDE DEF Holds
  <2> QED BY <2>1
<1>4. ASSUME NEW k \in 0..N, k < N, k \in Good PROVE k + 1 \in Good
  <2>1. PICK f : Holds(f, k)
    BY <1>4
  <2> DEFINE n == N + 1 - (k + 1)
             g == [i \in 1..N + 1 |-> IF i = n THEN Value(f, n) ELSE f[i]]
  <2>2. n \in 1..N + 1 /\ n + 1 = N + 1 - k
    BY <1>4
  <2>3. \A i \in n + 1..N + 1 : g[i] = f[i]
    BY <2>2
  <2> HIDE DEF Value
  <2>4. g[n] = Value(f, n)
    BY <2>2
  <2> HIDE DEF g, n
  <2>5. ASSUME NEW i \in n..N + 1 PROVE g[i] = Value(g, i)
    <3>1. i \in 1..N + 1 /\ \A j \in i + 1..N + 1 : g[j] = f[j]
      BY <2>2, <2>3
    <3>2. Value(g, i) = Value(f, i)
      BY <1>2, <3>1
    <3>3. i # n => i \in n + 1..N + 1 /\ f[i] = Value(f, i)
      BY <2>1, <2>2
    <3> QED BY <2>3, <2>4, <3>2, <3>3
  <2>6. Holds(g, k + 1)
    BY <2>5 DEF n
  <2>7. k + 1 \in 0..N
    BY <1>4
  <2> HIDE DEF Holds
  <2> QED BY <2>6, <2>7
<1>5. N \in Good
  <2> HIDE DEF Good
  <2>1. \A j \in 0..N : j < N /\ j \in Good => j + 1 \in Good
    BY <1>4
  <2>2. \A j \in 0..N : j \in Good
    BY <1>3, <2>1, Upwards
  <2> QED BY <2>2
<1>6. PICK f : Holds(f, N)
  BY <1>5
<1> DEFINE h == [i \in 1..N + 1 |-> f[i]]
<1>7. ASSUME NEW i \in 1..N + 1 PROVE h[i] = Value(h, i)
  <2>1. \A j \in i + 1..N + 1 : h[j] = f[j]
    OBVIOUS
  <2>2. Value(h, i) = Value(f, i)
    <3> HIDE DEF h, Value
    <3> QED BY <1>2, <2>1
  <2>3. f[i] = Value(f, i) /\ h[i] = f[i]
    BY <1>6
  <2> QED BY <2>2, <2>3
<1>8. h = [i \in 1..N + 1 |-> h[i]]
  OBVIOUS
<1>9. h = [i \in 1..N + 1 |-> Value(h, i)]
  <2> HIDE DEF h, Value
  <2> QED BY <1>7, <1>8
<1>10. Scanning(h, b, hold)
  <2> HIDE DEF h
  <2> QED BY <1>1, <1>9, ScanningIs
<1> QED BY <1>10

(* A scan resolves the text up to where it has to stop.                    *)
ScanGoes(R, b, p, hold, d, i, s) ==
  /\ s = [out |-> s.out, cut |-> s.cut]
  /\ s.out \in Seq(Chars) /\ s.cut \in i..Len(d) + 1
  /\ Stops(R, d, hold, s.cut)
  /\ \A o : Resolved(R, b, p + i - 1, o, hold) =>
           Resolved(R, b, p + s.cut - 1, o \o s.out, hold)

LEMMA ScanResolves ==
  ASSUME NEW R, Registered(R), stream.snapshot = R, NEW b \in Seq(Chars),
         NEW p \in 0..Len(b), NEW d \in Seq(Chars), Rest(b, p, d), NEW hold \in BOOLEAN,
         Markable
  PROVE  ScanGoes(R, b, p, hold, d, 1, Scan(d, hold))
<1> DEFINE F == CHOOSE f : Scanning(f, d, hold)
<1>1. Scanning(F, d, hold)
  BY ScanningExists
<1>2. Scan(d, hold) = F[1]
  BY DEF Scan, Scanning
<1> HIDE DEF F
<1>3. PICK N \in Nat : N = Len(d)
  OBVIOUS
<1>4. \A i \in 1..N + 1 : F[i] = Turn(R, d, hold, F, i)
  BY <1>1, <1>3, ScanningIs
<1> DEFINE Goes(i) == ScanGoes(R, b, p, hold, d, i, F[i])
           Bad == {k \in 0..N : ~Goes(N + 1 - k)}
<1>5. ASSUME NEW i \in 1..N + 1, \A j \in i + 1..N + 1 : Goes(j)
      PROVE  Goes(i)
  <2>1. /\ Hits(R, d, i) = Hits(R, b, p + i)
        /\ Grows(R, d, i) <=> Grows(R, b, p + i)
        /\ Span(R, d, i) = Span(R, b, p + i)
    BY <1>3, RestHits
  <2>2. F[i] = Turn(R, d, hold, F, i)
    BY <1>4
  <2>3. CASE Stops(R, d, hold, i)
    <3>1. F[i] = [out |-> << >>, cut |-> i]
      BY <2>2, <2>3 DEF Turn
    <3>2. ASSUME NEW o, Resolved(R, b, p + i - 1, o, hold) PROVE o \o << >> = o
      BY <3>2, ConcatEmptySeq DEF Resolved
    <3> QED BY <1>3, <2>3, <3>1, <3>2 DEF ScanGoes
  <2>4. ASSUME NEW m \in i + 1..N + 1, NEW e \in Seq(Chars),
               F[i] = [F[m] EXCEPT !.out = e \o @],
               \A o : Resolved(R, b, p + i - 1, o, hold) =>
                        Resolved(R, b, p + m - 1, o \o e, hold)
        PROVE  Goes(i)
    <3>1. ScanGoes(R, b, p, hold, d, m, F[m])
      BY <1>5
    <3> DEFINE out == F[m].out
               cut == F[m].cut
    <3>2. F[m] = [out |-> out, cut |-> cut] /\ out \in Seq(Chars) /\ cut \in m..N + 1
      BY <1>3, <3>1 DEF ScanGoes
    <3> HIDE DEF out, cut
    <3>3. F[i] = [out |-> e \o out, cut |-> cut]
      <4>1. F[i] = [[out |-> out, cut |-> cut] EXCEPT !.out = e \o @]
        BY <2>4, <3>2
      <4> QED BY <4>1
    <3>4. cut \in i..N + 1 /\ e \o out \in Seq(Chars)
      BY <3>2, ConcatProperties
    <3>5. Stops(R, d, hold, cut)
      BY <3>1 DEF ScanGoes, cut
    <3>6. ASSUME NEW o, Resolved(R, b, p + i - 1, o, hold)
          PROVE  Resolved(R, b, p + cut - 1, o \o (e \o out), hold)
      <4>1. Resolved(R, b, p + m - 1, o \o e, hold)
        BY <2>4, <3>6
      <4>2. Resolved(R, b, p + cut - 1, (o \o e) \o out, hold)
        BY <3>1, <4>1 DEF ScanGoes, cut, out
      <4>3. o \in Seq(Chars)
        BY <3>6 DEF Resolved
      <4>4. (o \o e) \o out = o \o (e \o out)
        <5>1. e \in Seq(Chars) /\ out \in Seq(Chars)
          BY <2>4, <3>2
        <5> QED BY <4>3, <5>1, ConcatChars
      <4> QED BY <4>2, <4>4
    <3>7. F[i].out = e \o out /\ F[i].cut = cut
      BY <3>3
    <3> QED BY <1>3, <3>3, <3>4, <3>5, <3>6, <3>7 DEF ScanGoes
  <2>6. CASE ~Stops(R, d, hold, i) /\ Hits(R, d, i) = {}
    <3>1. i # N + 1 /\ ~Grows(R, b, p + i)
      BY <1>3, <2>1, <2>6 DEF Stops
    <3>2. F[i] = [F[i + 1] EXCEPT !.out = << d[i] >> \o @]
      BY <2>2, <2>6 DEF Turn
    <3>3. d[i] = b[p + i] /\ d[i] \in Chars
      <4>1. i \in 1..Len(d)
        BY <1>3, <3>1
      <4>2. d[i] = b[p + i]
        BY <4>1 DEF Rest
      <4> QED BY <4>1, <4>2
    <3>4. ASSUME NEW o, Resolved(R, b, p + i - 1, o, hold)
          PROVE  Resolved(R, b, p + (i + 1) - 1, o \o << d[i] >>, hold)
      <4> DEFINE q == p + i - 1
      <4>1. q + 1 = p + i /\ q + 1 = p + (i + 1) - 1 /\ q < Len(b)
        BY <1>3, <3>1 DEF Rest
      <4> HIDE DEF q
      <4>2. Resolved(R, b, q, o, hold)
        BY <3>4 DEF q
      <4>3. Hits(R, b, q + 1) = {} /\ ~Grows(R, b, q + 1) /\ d[i] = b[q + 1]
        BY <2>1, <2>6, <3>1, <3>3, <4>1
      <4>4. Resolved(R, b, q + 1, o \o << b[q + 1] >>, hold)
        BY <4>1, <4>2, <4>3, ResolveCharacter
      <4> QED BY <4>1, <4>3, <4>4
    <3>5. i + 1 \in i + 1..N + 1 /\ << d[i] >> \in Seq(Chars)
      BY <3>1, <3>3
    <3> HIDE DEF Goes
    <3> QED BY <2>4, <3>2, <3>4, <3>5
  <2>7. CASE ~Stops(R, d, hold, i) /\ Hits(R, d, i) # {}
    <3>1. i # N + 1 /\ (hold => ~Grows(R, b, p + i))
      BY <1>3, <2>1, <2>7 DEF Stops
    <3> DEFINE n == Span(R, d, i)
    <3>2. n \in 1..N + 1 - i
      BY <1>3, <2>7, SpanIs
    <3>3. F[i] = [F[i + n] EXCEPT !.out = REDACTION_MARKER \o @]
      BY <2>2, <2>7 DEF Turn
    <3>4. n = Span(R, b, p + i)
      BY <2>1
    <3> HIDE DEF n
    <3>5. ASSUME NEW o, Resolved(R, b, p + i - 1, o, hold)
          PROVE  Resolved(R, b, p + (i + n) - 1, o \o REDACTION_MARKER, hold)
      <4> DEFINE q == p + i - 1
      <4>1. q + 1 = p + i /\ q + n = p + (i + n) - 1 /\ q < Len(b)
        BY <1>3, <3>1, <3>2 DEF Rest
      <4> HIDE DEF q
      <4>2. Resolved(R, b, q, o, hold)
        BY <3>5 DEF q
      <4>3. Hits(R, b, q + 1) # {} /\ (hold => ~Grows(R, b, q + 1)) /\ n = Span(R, b, q + 1)
        BY <2>1, <2>7, <3>1, <3>4, <4>1
      <4>4. Resolved(R, b, q + n, o \o REDACTION_MARKER, hold)
        BY <4>1, <4>2, <4>3, ResolveMatch
      <4> QED BY <4>1, <4>4
    <3>6. i + n \in i + 1..N + 1 /\ REDACTION_MARKER \in Seq(Chars)
      BY <3>2 DEF Markable, REDACTION_MARKER
    <3> HIDE DEF Goes
    <3> QED BY <2>4, <3>3, <3>5, <3>6
  <2> QED BY <2>3, <2>6, <2>7
<1>6. Bad = {}
  <2> SUFFICES ASSUME Bad # {} PROVE FALSE
    OBVIOUS
  <2>1. Bad \in SUBSET Nat
    OBVIOUS
  <2>2. PICK k \in Bad : \A j \in Bad : k <= j
    BY <2>1, LeastNumber
  <2>3. k \in 0..N /\ ~Goes(N + 1 - k) /\ N + 1 - k \in 1..N + 1
    OBVIOUS
  <2>4. ASSUME NEW j \in (N + 1 - k) + 1..N + 1 PROVE Goes(j)
    <3> DEFINE m == N + 1 - j
    <3>1. m \in 0..N /\ m < k /\ N + 1 - m = j
      BY <2>3
    <3>2. m \notin Bad
      <4> SUFFICES ASSUME m \in Bad PROVE FALSE
        OBVIOUS
      <4>1. k <= m
        <5> HIDE DEF Bad, m
        <5> QED BY <2>2
      <4> HIDE DEF Bad, m
      <4> QED BY <2>3, <3>1, <4>1
    <3> HIDE DEF m, Goes
    <3> QED BY <3>1, <3>2
  <2> HIDE DEF Goes
  <2> QED BY <1>5, <2>3, <2>4
<1>7. Goes(1)
  <2>1. N \in 0..N /\ N + 1 - N = 1
    OBVIOUS
  <2> HIDE DEF Goes
  <2> QED BY <1>6, <2>1
<1> QED BY <1>2, <1>7

-----------------------------------------------------------------------------
(* A stream over the text b that has emitted o: while it is open it holds  *)
(* back the carry c, and once it has finished it may have dropped the end. *)

Open(R, b, c, o) ==
  /\ c \in Seq(Chars) /\ Len(c) <= Len(b)
  /\ Rest(b, Len(b) - Len(c), c)
  /\ Resolved(R, b, Len(b) - Len(c), o, TRUE)
  /\ Len(c) > 0 => Grows(R, b, Len(b) - Len(c) + 1)

Closed(R, b, o, source_eof, discarded) ==
  \E p : /\ Resolved(R, b, p, o, ~source_eof)
         /\ p < Len(b) => Grows(R, b, p + 1) /\ (source_eof => Hits(R, b, p + 1) = {})
         /\ discarded <=> p < Len(b)

(* A chunk x is scanned after what was held back.                          *)
LEMMA FeedOpens ==
  ASSUME NEW R, Registered(R), stream.snapshot = R, Markable,
         NEW b \in Seq(Chars), NEW c, NEW o, Open(R, b, c, o), NEW x \in Seq(Chars)
  PROVE  /\ Scan(c \o x, TRUE).out \in Seq(Chars)
         /\ Open(R, b \o x, Suffix(c \o x, Scan(c \o x, TRUE).cut), o \o Scan(c \o x, TRUE).out)
<1> DEFINE d == c \o x
           e == b \o x
           p == Len(b) - Len(c)
           s == Scan(d, TRUE)
<1>1. /\ c \in Seq(Chars) /\ Len(c) \in 0..Len(b) /\ Len(b) \in Nat /\ Len(x) \in Nat
      /\ Rest(b, p, c) /\ Resolved(R, b, p, o, TRUE)
  <2>1. c \in Seq(Chars) /\ Len(c) <= Len(b) /\ Rest(b, p, c) /\ Resolved(R, b, p, o, TRUE)
    BY DEF Open
  <2> HIDE DEF p
  <2>2. Len(c) \in 0..Len(b) /\ Len(b) \in Nat /\ Len(x) \in Nat
    BY <2>1
  <2> QED BY <2>1, <2>2, Zenon
<1>2. e \in Seq(Chars) /\ Len(e) = Len(b) + Len(x) /\ Continues(b, e)
  BY DEF Continues
<1>3. d \in Seq(Chars) /\ Len(d) = Len(c) + Len(x)
  BY <1>1
<1>4. p \in 0..Len(e) /\ p \in 0..Len(b) /\ Len(e) = p + Len(d)
  BY <1>1, <1>2, <1>3
<1>5. Rest(e, p, d)
  <2>1. Len(d) = Len(e) - p
    BY <1>1, <1>2, <1>3
  <2>2. ASSUME NEW k \in 1..Len(d) PROVE d[k] = e[p + k]
    <3>1. CASE k <= Len(c)
      <4>1. k \in 1..Len(c) /\ d[k] = c[k] /\ p + k \in 1..Len(b)
        BY <1>1, <1>3, <3>1
      <4>2. c[k] = b[p + k] /\ e[p + k] = b[p + k]
        BY <1>1, <1>2, <4>1 DEF Rest, Continues
      <4> QED BY <4>1, <4>2
    <3>2. CASE k > Len(c)
      <4>1. k - Len(c) \in 1..Len(x) /\ (p + k) - Len(b) = k - Len(c) /\ p + k > Len(b)
        BY <1>1, <1>3, <3>2
      <4>2. d[k] = x[k - Len(c)]
        BY <1>1, <1>3, <3>2
      <4>3. p + k \in 1..Len(b) + Len(x)
        BY <1>1, <1>3, <1>4, <3>2
      <4> HIDE DEF p
      <4>4. e[p + k] = x[(p + k) - Len(b)]
        BY <4>1, <4>3
      <4> QED BY <4>1, <4>2, <4>4
    <3> QED BY <1>1, <3>1, <3>2
  <2> QED BY <2>1, <2>2 DEF Rest
<1> HIDE DEF d, e, p
<1>6. Resolved(R, e, p, o, TRUE)
  BY <1>1, <1>2, ResolvedStays
<1>7. ScanGoes(R, e, p, TRUE, d, 1, s)
  BY <1>2, <1>3, <1>4, <1>5, ScanResolves
<1> HIDE DEF s
<1>8. /\ s.out \in Seq(Chars) /\ s.cut \in 1..Len(d) + 1 /\ Stops(R, d, TRUE, s.cut)
      /\ Resolved(R, e, p + s.cut - 1, o \o s.out, TRUE)
  <2>1. p + 1 - 1 = p
    BY <1>1, <1>4
  <2> QED BY <1>6, <1>7, <2>1 DEF ScanGoes
<1> DEFINE f == Suffix(d, s.cut)
<1>9. /\ f \in Seq(Chars) /\ Len(f) = Len(d) - s.cut + 1
      /\ \A k \in 1..Len(f) : f[k] = d[s.cut + k - 1]
  BY <1>3, <1>8, SuffixIs
<1> HIDE DEF f
<1>10. Len(f) <= Len(e) /\ Len(e) - Len(f) = p + s.cut - 1
  <2>1. ASSUME NEW E \in Nat, NEW D \in Nat, NEW F, NEW k \in 1..D + 1, NEW q \in 0..E,
               E = q + D, F = D - k + 1
        PROVE  F <= E /\ E - F = q + k - 1
    BY <2>1
  <2>2. Len(e) \in Nat /\ Len(d) \in Nat
    BY <1>2, <1>3
  <2> QED BY <1>4, <1>8, <1>9, <2>1, <2>2
<1>11. Rest(e, Len(e) - Len(f), f)
  <2>1. ASSUME NEW k \in 1..Len(f) PROVE f[k] = e[(Len(e) - Len(f)) + k]
    <3> DEFINE m == s.cut + k - 1
    <3>1. m \in 1..Len(d) /\ p + m = (Len(e) - Len(f)) + k
      <4>1. ASSUME NEW E \in Nat, NEW D \in Nat, NEW F \in Nat, NEW l \in 1..D + 1,
                   NEW q \in 0..E, E = q + D, F = D - l + 1, k \in 1..F
            PROVE  l + k - 1 \in 1..D /\ q + (l + k - 1) = (E - F) + k
        BY <4>1
      <4>2. Len(e) \in Nat /\ Len(d) \in Nat /\ Len(f) \in Nat
        BY <1>2, <1>3, <1>9
      <4> QED BY <1>4, <1>8, <1>9, <4>1, <4>2
    <3>2. f[k] = d[m] /\ d[m] = e[p + m]
      BY <1>5, <1>9, <3>1 DEF Rest
    <3> HIDE DEF m
    <3> QED BY <3>1, <3>2
  <2>2. Len(f) = Len(e) - (Len(e) - Len(f))
    BY <1>2, <1>9
  <2> QED BY <2>1, <2>2 DEF Rest
<1>12. Len(f) > 0 => Grows(R, e, Len(e) - Len(f) + 1)
  <2> SUFFICES ASSUME Len(f) > 0 PROVE Grows(R, e, Len(e) - Len(f) + 1)
    OBVIOUS
  <2>1. s.cut # Len(d) + 1
    BY <1>3, <1>9
  <2>2. Grows(R, d, s.cut)
    BY <1>8, <2>1 DEF Stops
  <2>3. Grows(R, e, p + s.cut)
    BY <1>2, <1>3, <1>4, <1>5, <1>8, <2>2, RestHits
  <2>4. p + s.cut = Len(e) - Len(f) + 1
    BY <1>2, <1>4, <1>8, <1>9, <1>10
  <2> QED BY <2>3, <2>4
<1>13. Resolved(R, e, Len(e) - Len(f), o \o s.out, TRUE)
  BY <1>8, <1>10
<1>14. Open(R, e, f, o \o s.out)
  BY <1>9, <1>10, <1>11, <1>12, <1>13 DEF Open
<1> QED BY <1>8, <1>14 DEF d, e, f, s

(* What is resolved before the end of the source is resolved at it too.    *)
LEMMA ResolvedWeakens ==
  ASSUME NEW R, NEW b, NEW p, NEW o, Resolved(R, b, p, o, TRUE)
  PROVE  Resolved(R, b, p, o, FALSE)
BY DEF Resolved, Settled

LEMMA FinishCloses ==
  ASSUME NEW R, Registered(R), stream.snapshot = R, Markable,
         NEW b \in Seq(Chars), NEW c, NEW o, Open(R, b, c, o),
         NEW source_eof \in BOOLEAN, NEW s,
         source_eof => s = Scan(c, FALSE),
         ~source_eof => s = [out |-> << >>, cut |-> 1]
  PROVE  /\ s.out \in Seq(Chars)
         /\ Closed(R, b, o \o s.out, source_eof, s.cut <= Len(c))
<1> DEFINE p == Len(b) - Len(c)
<1>1. /\ c \in Seq(Chars) /\ Len(c) \in 0..Len(b) /\ Len(b) \in Nat
      /\ Rest(b, p, c) /\ Resolved(R, b, p, o, TRUE) /\ o \in Seq(Chars)
      /\ Len(c) > 0 => Grows(R, b, p + 1)
  <2>1. /\ c \in Seq(Chars) /\ Len(c) <= Len(b) /\ Rest(b, p, c) /\ Resolved(R, b, p, o, TRUE)
        /\ Len(c) > 0 => Grows(R, b, p + 1)
    BY DEF Open
  <2> HIDE DEF p
  <2>2. Len(c) \in 0..Len(b) /\ Len(b) \in Nat
    BY <2>1
  <2>3. o \in Seq(Chars)
    BY <2>1 DEF Resolved
  <2> QED BY <2>1, <2>2, <2>3, Zenon
<1>2. p \in 0..Len(b) /\ Len(b) = p + Len(c)
  BY <1>1
<1> HIDE DEF p
<1>3. CASE source_eof = TRUE
  <2>1. s = Scan(c, FALSE)
    BY <1>3
  <2>2. ScanGoes(R, b, p, FALSE, c, 1, s)
    BY <1>1, <1>2, <2>1, ScanResolves
  <2>3. Resolved(R, b, p + 1 - 1, o, FALSE)
    <3>1. p + 1 - 1 = p
      BY <1>2
    <3> QED BY <1>1, <3>1, ResolvedWeakens
  <2>4. /\ s.out \in Seq(Chars) /\ s.cut \in 1..Len(c) + 1 /\ Stops(R, c, FALSE, s.cut)
        /\ Resolved(R, b, p + s.cut - 1, o \o s.out, FALSE)
    BY <2>2, <2>3 DEF ScanGoes
  <2> DEFINE q == p + s.cut - 1
  <2>5. (s.cut <= Len(c) <=> q < Len(b)) /\ q + 1 = p + s.cut
    <3>1. ASSUME NEW B \in Nat, NEW C \in Nat, NEW k \in 1..C + 1, NEW r \in 0..B, B = r + C
          PROVE  (k <= C <=> r + k - 1 < B) /\ r + k - 1 + 1 = r + k
      BY <3>1
    <3>2. Len(c) \in Nat
      BY <1>1
    <3> QED BY <1>1, <1>2, <2>4, <3>1, <3>2
  <2>6. ASSUME q < Len(b) PROVE Grows(R, b, q + 1) /\ Hits(R, b, q + 1) = {}
    <3>1. Grows(R, c, s.cut) /\ Hits(R, c, s.cut) = {}
      <4>1. s.cut # Len(c) + 1
        BY <1>1, <2>4, <2>5, <2>6
      <4> QED BY <2>4, <4>1 DEF Stops
    <3>2. Grows(R, b, p + s.cut) /\ Hits(R, b, p + s.cut) = {}
      <4>1. /\ Hits(R, c, s.cut) = Hits(R, b, p + s.cut)
            /\ Grows(R, c, s.cut) <=> Grows(R, b, p + s.cut)
        BY <1>1, <1>2, <2>4, RestHits
      <4> QED BY <3>1, <4>1
    <3> QED BY <2>5, <3>2
  <2>7. Resolved(R, b, q, o \o s.out, ~source_eof)
    BY <1>3, <2>4
  <2> HIDE DEF q
  <2>8. Closed(R, b, o \o s.out, source_eof, s.cut <= Len(c))
    BY <2>5, <2>6, <2>7 DEF Closed
  <2> QED BY <2>4, <2>8
<1>4. CASE source_eof = FALSE
  <2>1. s = [out |-> << >>, cut |-> 1] /\ o \o s.out = o
    BY <1>1, <1>4, ConcatEmptySeq
  <2>2. Resolved(R, b, p, o \o s.out, ~source_eof)
    BY <1>1, <1>4, <2>1
  <2>3. s.cut <= Len(c) <=> p < Len(b)
    <3>1. s.cut = 1
      BY <2>1
    <3>2. ASSUME NEW B \in Nat, NEW C \in Nat, NEW r \in 0..B, B = r + C
          PROVE  1 <= C <=> r < B
      BY <3>2
    <3> QED BY <1>1, <1>2, <3>1, <3>2
  <2>4. p < Len(b) => Grows(R, b, p + 1) /\ (source_eof => Hits(R, b, p + 1) = {})
    BY <1>1, <1>2, <1>4
  <2>5. Closed(R, b, o \o s.out, source_eof, s.cut <= Len(c))
    BY <2>2, <2>3, <2>4 DEF Closed
  <2>6. << >> \in Seq(Chars) /\ s.out = << >>
    BY <2>1
  <2> QED BY <2>5, <2>6
<1> QED BY <1>3, <1>4

-----------------------------------------------------------------------------
(* The stream's part of the inductive invariant: what has been emitted is  *)
(* what the snapshot makes of the text so far, and while another rendering *)
(* is registered nothing more is emitted.                                  *)

Types ==
  /\ text \in Seq(Chars) /\ at \in 0..Len(text)
  /\ Registered(variants) /\ Registered(stream.snapshot)
  /\ stream = [snapshot |-> stream.snapshot, carry |-> stream.carry, state |-> stream.state,
               discarded |-> stream.discarded]
  /\ output \in Seq(Chars)

Lateness ==
  /\ Fresh => since = 0
  /\ ~Fresh => /\ since = Len(output) /\ LateSecrets \subseteq variants

Streaming ==
  /\ stream.state \in {"open", "ended", "cut", "stale"}
  /\ stream.state = "open" => Open(stream.snapshot, Arrived, stream.carry, output)
  /\ stream.state = "ended" =>
       Closed(stream.snapshot, Arrived, output, TRUE, stream.discarded)
  /\ stream.state = "cut" =>
       Closed(stream.snapshot, Arrived, output, FALSE, stream.discarded)
  /\ stream.state = "stale" => Bare(stream.snapshot, output)

StreamInv == Types /\ Lateness /\ Streaming

LEMMA ArrivedIs ==
  ASSUME NEW s \in Seq(Chars), NEW n \in 0..Len(s), NEW m \in Nat, n + m <= Len(s)
  PROVE  /\ SubSeq(s, 1, n) \in Seq(Chars) /\ Len(SubSeq(s, 1, n)) = n
         /\ SubSeq(s, n + 1, n + m) \in Seq(Chars)
         /\ SubSeq(s, 1, n + m) = SubSeq(s, 1, n) \o SubSeq(s, n + 1, n + m)
<1> DEFINE u == SubSeq(s, 1, n)
           v == SubSeq(s, n + 1, n + m)
           w == SubSeq(s, 1, n + m)
<1>0. PICK N \in Nat : N = Len(s)
  OBVIOUS
<1>1. n \in Nat /\ n <= N /\ n + m <= N
  BY <1>0
<1>2. u \in Seq(Chars) /\ Len(u) = n /\ \A k \in 1..n : u[k] = s[k]
  BY <1>0, <1>1
<1>3. v \in Seq(Chars) /\ Len(v) = m /\ \A k \in 1..m : v[k] = s[n + k]
  BY <1>0, <1>1
<1>4. w \in Seq(Chars) /\ Len(w) = n + m /\ \A k \in 1..n + m : w[k] = s[k]
  BY <1>0, <1>1
<1> HIDE DEF u, v, w
<1>5. u \o v \in Seq(Chars) /\ Len(u \o v) = n + m
  BY <1>1, <1>2, <1>3, ConcatProperties
<1>6. ASSUME NEW k \in 1..n + m PROVE w[k] = (u \o v)[k]
  <2>1. CASE k <= n
    BY <1>1, <1>2, <1>3, <1>4, <2>1
  <2>2. CASE k > n
    <3>1. k - n \in 1..m /\ n + (k - n) = k
      BY <1>1, <2>2
    <3>2. (u \o v)[k] = v[k - n]
      BY <1>1, <1>2, <1>3, <2>2
    <3>3. v[k - n] = s[n + (k - n)]
      BY <1>3, <3>1
    <3> QED BY <1>4, <3>1, <3>2, <3>3
  <2>3. k <= n \/ k > n
    BY <1>1
  <2> QED BY <2>1, <2>2, <2>3
<1>7. w = u \o v
  BY <1>4, <1>5, <1>6, SeqEqual
<1> QED BY <1>2, <1>3, <1>7 DEF u, v, w

LEMMA OpenBare ==
  ASSUME NEW R, NEW b, NEW c, NEW o, Open(R, b, c, o)
  PROVE  Bare(R, o)
BY DEF Open, Resolved

LEMMA ClosedBare ==
  ASSUME NEW R, NEW b, NEW o, NEW e, NEW d, Closed(R, b, o, e, d)
  PROVE  Bare(R, o)
BY DEF Closed, Resolved

LEMMA OpenNothing ==
  ASSUME NEW R
  PROVE  Open(R, << >>, << >>, << >>)
<1> DEFINE e == << >>
<1>1. e \in Seq(Chars) /\ Len(e) = 0 /\ e = << >>
  OBVIOUS
<1> HIDE DEF e
<1>2. Rest(e, 0, e)
  BY <1>1 DEF Rest
<1>3. Clean(R, e, 0) = e
  <2>1. [i \in 1..0 |-> Shown(R, e, i)] = << >>
    OBVIOUS
  <2> QED BY <1>1, <2>1, FlattenNone DEF Clean
<1>4. IsLeftmost(R, e, Marked(R, e))
  BY <1>1, MarkedIs
<1>5. Marked(R, e) = {}
  BY <1>1, <1>4 DEF IsLeftmost
<1>6. Bounded(R, e, 0) /\ Settled(R, e, 0, TRUE) /\ Bare(R, e)
  BY <1>1, <1>5 DEF Bounded, Settled, Bare
<1>7. Run(R, e, 0, e, 0)
  BY <1>1 DEF Run
<1>8. Resolved(R, e, 0, e, TRUE)
  <2>1. 0 \in 0..Len(e)
    BY <1>1
  <2> QED BY <1>1, <1>3, <1>6, <1>7, <2>1 DEF Resolved
<1>9. Len(e) - Len(e) = 0 /\ ~(Len(e) > 0) /\ Len(e) <= Len(e)
  BY <1>1
<1>10. Open(R, e, e, e)
  BY <1>1, <1>2, <1>8, <1>9 DEF Open
<1> QED BY <1>1, <1>10

LEMMA StreamInit == Init => StreamInv
<1> SUFFICES ASSUME Init PROVE StreamInv
  OBVIOUS
<1>1. /\ text \in Seq(Chars) /\ at = 0 /\ output = << >> /\ since = 0
      /\ stream = [snapshot |-> variants, carry |-> << >>, state |-> "open",
                   discarded |-> FALSE]
  BY CaptureAssumption DEF Init
<1>2. Registered(variants)
  BY CaptureAssumption DEF Init, Registered
<1>3. Types
  BY <1>1, <1>2 DEF Types
<1>4. Lateness
  BY <1>1 DEF Lateness, Fresh
<1>5. Arrived = << >>
  BY <1>1 DEF Arrived
<1>6. Open(variants, << >>, << >>, << >>)
  BY OpenNothing
<1>7. Open(stream.snapshot, Arrived, stream.carry, output)
  <2>1. stream.snapshot = variants /\ stream.carry = << >>
    BY <1>1
  <2> QED BY <1>1, <1>5, <1>6, <2>1
<1>8. Streaming
  BY <1>1, <1>7 DEF Streaming
<1> QED BY <1>3, <1>4, <1>8 DEF StreamInv

LEMMA StreamFeed ==
  ASSUME StreamInv, NEW n \in 1..Len(text), Feed(n)
  PROVE  StreamInv'
<1> DEFINE R == stream.snapshot
           x == SubSeq(text, at + 1, at + n)
           d == stream.carry \o x
           s == Scan(d, TRUE)
<1>1. /\ stream.state = "open" /\ Fresh /\ at + n <= Len(text) /\ at' = at + n
      /\ stream' = [stream EXCEPT !.carry = Suffix(d, s.cut)]
      /\ output' = output \o s.out
      /\ text' = text /\ variants' = variants /\ since' = since
  BY DEF Feed, Emit
<1>2. Types /\ Lateness /\ Open(R, Arrived, stream.carry, output)
  BY <1>1 DEF StreamInv, Streaming
<1>3. Markable
  BY CaptureAssumption DEF Markable
<1>4. text \in Seq(Chars) /\ at \in 0..Len(text) /\ n \in Nat
  BY <1>2 DEF Types
<1>5. /\ Arrived \in Seq(Chars) /\ x \in Seq(Chars)
      /\ SubSeq(text, 1, at + n) = Arrived \o x
  BY <1>1, <1>4, ArrivedIs DEF Arrived
<1>6. Arrived' = Arrived \o x
  BY <1>1, <1>5 DEF Arrived
<1>7. Registered(R) /\ output \in Seq(Chars)
  BY <1>2 DEF Types
<1> HIDE DEF x
<1>8. s.out \in Seq(Chars) /\ Open(R, Arrived \o x, Suffix(d, s.cut), output \o s.out)
  BY <1>2, <1>3, <1>5, <1>7, FeedOpens
<1> HIDE DEF s, d
<1>9. /\ stream' = [stream' EXCEPT !.carry = stream'.carry]
      /\ stream'.snapshot = R /\ stream'.carry = Suffix(d, s.cut) /\ stream'.state = "open"
  BY <1>1, <1>2 DEF Types
<1>10. Types'
  <2>1. stream' = [snapshot |-> stream'.snapshot, carry |-> stream'.carry,
                   state |-> stream'.state, discarded |-> stream'.discarded]
    BY <1>1, <1>2 DEF Types
  <2>2. output' \in Seq(Chars)
    BY <1>1, <1>7, <1>8, ConcatProperties
  <2>3. text' \in Seq(Chars) /\ at' \in 0..Len(text')
    BY <1>1, <1>4
  <2>4. Registered(variants') /\ Registered(stream'.snapshot)
    BY <1>1, <1>2, <1>9 DEF Types
  <2> QED BY <2>1, <2>2, <2>3, <2>4 DEF Types
<1>11. Lateness'
  <2>1. Fresh' /\ since' = 0
    BY <1>1, <1>2, <1>9 DEF Lateness, Fresh
  <2> QED BY <2>1 DEF Lateness
<1>12. Streaming'
  <2>1. Open(stream'.snapshot, Arrived', stream'.carry, output')
    BY <1>1, <1>6, <1>8, <1>9
  <2> QED BY <1>9, <2>1 DEF Streaming
<1> QED BY <1>10, <1>11, <1>12 DEF StreamInv

LEMMA StreamFinish ==
  ASSUME StreamInv, NEW source_eof \in BOOLEAN, Finish(source_eof)
  PROVE  StreamInv'
<1> DEFINE R == stream.snapshot
<1>1. PICK s : /\ source_eof => s = Scan(stream.carry, FALSE)
               /\ ~source_eof => s = [out |-> << >>, cut |-> 1]
               /\ stream' = [stream EXCEPT !.carry = << >>,
                                           !.state = IF source_eof THEN "ended" ELSE "cut",
                                           !.discarded = s.cut <= Len(stream.carry)]
               /\ output' = output \o s.out
  BY DEF Finish, Emit
<1>2. /\ stream.state = "open" /\ Fresh
      /\ text' = text /\ at' = at /\ variants' = variants /\ since' = since
  BY DEF Finish
<1>3. Types /\ Lateness /\ Open(R, Arrived, stream.carry, output)
  BY <1>2 DEF StreamInv, Streaming
<1>4. Markable
  BY CaptureAssumption DEF Markable
<1>5. text \in Seq(Chars) /\ at \in 0..Len(text) /\ Registered(R) /\ output \in Seq(Chars)
  BY <1>3 DEF Types
<1>6. Arrived \in Seq(Chars) /\ Arrived' = Arrived
  BY <1>2, <1>5, ArrivedIs DEF Arrived
<1>7. /\ s.out \in Seq(Chars)
      /\ Closed(R, Arrived, output \o s.out, source_eof, s.cut <= Len(stream.carry))
  BY <1>1, <1>3, <1>4, <1>5, <1>6, FinishCloses
<1>8. /\ stream'.snapshot = R /\ stream'.discarded = (s.cut <= Len(stream.carry))
      /\ stream'.state = IF source_eof THEN "ended" ELSE "cut"
      /\ stream' = [snapshot |-> stream'.snapshot, carry |-> stream'.carry,
                    state |-> stream'.state, discarded |-> stream'.discarded]
  BY <1>1, <1>3 DEF Types
<1>9. Types'
  <2>1. output' \in Seq(Chars)
    BY <1>1, <1>5, <1>7, ConcatProperties
  <2>2. Registered(variants') /\ Registered(stream'.snapshot)
    BY <1>2, <1>3, <1>8 DEF Types
  <2> QED BY <1>2, <1>5, <1>8, <2>1, <2>2 DEF Types
<1>10. Lateness'
  <2>1. Fresh' /\ since' = 0
    BY <1>2, <1>3, <1>8 DEF Lateness, Fresh
  <2> QED BY <2>1 DEF Lateness
<1>11. Closed(stream'.snapshot, Arrived', output', source_eof, stream'.discarded)
  BY <1>1, <1>6, <1>7, <1>8
<1>12. Streaming'
  <2>1. CASE source_eof = TRUE
    <3>1. stream'.state = "ended"
      BY <1>8, <2>1
    <3> QED BY <1>11, <2>1, <3>1 DEF Streaming
  <2>2. CASE source_eof = FALSE
    <3>1. stream'.state = "cut"
      BY <1>8, <2>2
    <3> QED BY <1>11, <2>2, <3>1 DEF Streaming
  <2> QED BY <2>1, <2>2
<1> QED BY <1>9, <1>10, <1>12 DEF StreamInv

LEMMA StreamNext == StreamInv /\ [Next]_vars => StreamInv'
<1> SUFFICES ASSUME StreamInv, [Next]_vars PROVE StreamInv'
  OBVIOUS
<1>1. CASE \E n \in 1..Len(text) : Feed(n)
  BY <1>1, StreamFeed
<1>2. CASE Finish(TRUE)
  BY <1>2, StreamFinish
<1>3. CASE Finish(FALSE)
  BY <1>3, StreamFinish
<1>4. CASE Register
  <2>1. /\ text' = text /\ at' = at /\ stream' = stream /\ output' = output
        /\ variants' = variants \cup LateSecrets /\ since' = Len(output)
        /\ ~(LateSecrets \subseteq variants)
    BY <1>4 DEF Register
  <2>2. Types'
    <3>1. Types /\ Registered(variants')
      BY <2>1, CaptureAssumption DEF StreamInv, Types, Registered
    <3> QED BY <2>1, <3>1 DEF Types
  <2>3. Lateness'
    <3>1. variants = stream.snapshot
      BY <2>1 DEF StreamInv, Lateness, Fresh
    <3>2. ~Fresh'
      BY <2>1, <3>1 DEF Fresh
    <3> QED BY <2>1, <3>2 DEF Lateness
  <2>4. Streaming'
    BY <2>1 DEF StreamInv, Streaming, Arrived
  <2> QED BY <2>2, <2>3, <2>4 DEF StreamInv
<1>5. CASE Stale
  <2>1. /\ text' = text /\ at' = at /\ output' = output /\ variants' = variants
        /\ since' = since /\ stream.state = "open"
        /\ stream' = [stream EXCEPT !.carry = << >>, !.state = "stale"]
    BY <1>5 DEF Stale
  <2>2. Types /\ Lateness /\ Open(stream.snapshot, Arrived, stream.carry, output)
    BY <2>1 DEF StreamInv, Streaming
  <2>3. /\ stream'.snapshot = stream.snapshot /\ stream'.state = "stale"
        /\ stream' = [snapshot |-> stream'.snapshot, carry |-> stream'.carry,
                      state |-> stream'.state, discarded |-> stream'.discarded]
    BY <2>1, <2>2 DEF Types
  <2>4. Types'
    BY <2>1, <2>2, <2>3 DEF Types
  <2>5. Lateness'
    BY <2>1, <2>2, <2>3 DEF Lateness, Fresh
  <2>6. Bare(stream'.snapshot, output')
    BY <2>1, <2>2, <2>3, OpenBare
  <2>7. Streaming'
    BY <2>3, <2>6 DEF Streaming
  <2> QED BY <2>4, <2>5, <2>7 DEF StreamInv
<1>6. CASE GiveUp
  <2>1. /\ text' = text /\ at' = at /\ stream' = stream /\ output' = output
        /\ variants' = variants /\ since' = since
    BY <1>6 DEF GiveUp
  <2> QED BY <2>1 DEF StreamInv, Types, Lateness, Fresh, Streaming, Arrived
<1>7. CASE UNCHANGED vars
  <2>1. /\ text' = text /\ at' = at /\ stream' = stream /\ output' = output
        /\ variants' = variants /\ since' = since
    BY <1>7 DEF vars
  <2> QED BY <2>1 DEF StreamInv, Types, Lateness, Fresh, Streaming, Arrived
<1> QED BY <1>1, <1>2, <1>3, <1>4, <1>5, <1>6, <1>7 DEF Next

LEMMA StreamAlways == Spec => []StreamInv
<1> QED BY StreamInit, StreamNext, PTL DEF Spec

(* No rendering that was registered when a text was emitted stands in it,  *)
(* however the text was cut into chunks and whatever was registered since  *)
(* (StreamingSecretScrubber.feed, finish and _check_fresh).                *)
THEOREM NothingShown == Spec => []NothingRevealed
<1>1. ASSUME StreamInv PROVE NothingRevealed
  <2>1. Types /\ Lateness /\ Streaming
    BY <1>1 DEF StreamInv
  <2>2. output \in Seq(Chars) /\ Registered(stream.snapshot)
    BY <2>1 DEF Types
  <2>3. Bare(stream.snapshot, output)
    BY <2>1, OpenBare, ClosedBare DEF Streaming
  <2>4. CASE Fresh
    <3> SUFFICES ASSUME NEW v \in variants, NEW i \in since + 1..Len(output)
                 PROVE  ~IsPrefix(v, Suffix(output, i))
      BY DEF NothingRevealed
    <3>1. since = 0 /\ variants = stream.snapshot
      BY <2>1, <2>4 DEF Lateness, Fresh
    <3>2. i \in 1..Len(output) /\ i \in 1..Len(output) + 1
      BY <2>2, <3>1
    <3>3. Hits(stream.snapshot, output, i) = {}
      BY <2>3, <3>2 DEF Bare
    <3>4. {w \in stream.snapshot : IsPrefix(w, Suffix(output, i))} = {}
      BY <2>2, <3>2, <3>3, HitsIs
    <3> QED BY <3>1, <3>4
  <2>5. CASE ~Fresh
    <3>1. since = Len(output) /\ Len(output) \in Nat
      BY <2>1, <2>2, <2>5 DEF Lateness
    <3> QED BY <3>1 DEF NothingRevealed
  <2> QED BY <2>4, <2>5
<1> QED BY <1>1, StreamAlways, PTL

-----------------------------------------------------------------------------
(* What a finished stream has emitted is what the whole text becomes. *)

LEMMA LeftmostUnique ==
  ASSUME NEW R, NEW b \in Seq(Chars), NEW S, NEW T,
         IsLeftmost(R, b, S), IsLeftmost(R, b, T)
  PROVE  \A i \in 1..Len(b) : i \in S <=> i \in T
<1>1. PICK p \in Nat : p = Len(b)
  OBVIOUS
<1>2. p <= Len(b)
  BY <1>1
<1>3. \A i \in 1..p : Inside(R, b, S, i) \/ Hits(R, b, i) = Hits(R, b, i)
  OBVIOUS
<1>4. /\ \A i \in 1..p : i \in S <=> i \in T
      /\ \A i \in 1..p + 1 : Inside(R, b, S, i) <=> Inside(R, b, T, i)
  BY <1>2, <1>3, LeftmostAgree
<1> QED BY <1>1, <1>4

LEMMA RedactedIs ==
  ASSUME NEW R, R = stream.snapshot, Registered(R),
         text \in Seq(Chars), at \in 0..Len(text)
  PROVE  /\ Redacted = Marked(R, Arrived)
         /\ \A i \in 1..at : /\ Covered(Redacted, i) <=> Inside(R, Arrived, Marked(R, Arrived), i)
                             /\ Growable(Arrived, i) <=> Grows(R, Arrived, i)
<1> DEFINE b == Arrived
           Starts == {i \in 1..at : At(i) # {}}
           Leftmost(S) == \A i \in Starts : i \in S <=> ~Covered(S, i)
<1>1. b \in Seq(Chars) /\ Len(b) = at /\ at \in Nat
  BY DEF Arrived
<1> HIDE DEF b
<1>2. ASSUME NEW i \in 1..at
      PROVE  At(i) = Hits(R, b, i) /\ Longest(At(i)) = Span(R, b, i)
    <2>1. i \in 1..Len(b) + 1
      BY <1>1
    <2>2. At(i) = Hits(R, b, i)
      BY <1>1, <2>1, HitsIs DEF At, b
    <2> QED BY <2>2 DEF Span
<1>3. ASSUME NEW i \in 1..at PROVE Growable(b, i) <=> Grows(R, b, i)
  BY <1>1, GrowsIs DEF Growable
<1>4. ASSUME NEW S \in SUBSET (1..at), NEW i
      PROVE  Covered(S, i) <=> Inside(R, b, S, i)
  BY <1>2 DEF Covered, Inside
<1>5. Starts = {i \in 1..Len(b) : Hits(R, b, i) # {}}
  BY <1>1, <1>2
<1>6. ASSUME NEW S \in SUBSET Starts
      PROVE  Leftmost(S) <=> IsLeftmost(R, b, S)
  <2>1. S \in SUBSET (1..at)
    OBVIOUS
  <2>2. \A i \in Starts : Covered(S, i) <=> Inside(R, b, S, i)
    BY <1>4, <2>1
  <2> DEFINE T == {i \in 1..Len(b) : Hits(R, b, i) # {} /\ ~Inside(R, b, S, i)}
  <2>3. T = {i \in Starts : ~Inside(R, b, S, i)}
    BY <1>5
  <2> HIDE DEF T, Starts
  <2>4. (S = T) <=> \A i \in Starts : i \in S <=> ~Inside(R, b, S, i)
    BY <2>3
  <2>5. IsLeftmost(R, b, S) <=> S = T
    BY DEF IsLeftmost, T
  <2> QED BY <2>2, <2>4, <2>5
<1>7. IsLeftmost(R, b, Marked(R, b))
  BY <1>1, MarkedIs
<1>8. Marked(R, b) \in SUBSET Starts
  BY <1>5, <1>7 DEF IsLeftmost
<1>9. Redacted = CHOOSE S \in SUBSET Starts : Leftmost(S)
  BY DEF Redacted
<1>10. Leftmost(Marked(R, b))
  <2> HIDE DEF Leftmost, Starts
  <2> QED BY <1>6, <1>7, <1>8
<1>11. Redacted \in SUBSET Starts /\ Leftmost(Redacted)
  <2> HIDE DEF Leftmost, Starts
  <2> QED BY <1>8, <1>9, <1>10
<1>12. IsLeftmost(R, b, Redacted)
  <2> HIDE DEF Leftmost, Starts
  <2> QED BY <1>6, <1>11
<1>13. \A i \in 1..at : i \in Redacted <=> i \in Marked(R, b)
  <2> HIDE DEF Starts, Leftmost
  <2> DEFINE S == Redacted
             T == Marked(R, b)
  <2>2. IsLeftmost(R, b, S) /\ IsLeftmost(R, b, T)
    BY <1>7, <1>12
  <2> HIDE DEF S, T
  <2>4. \A i \in 1..at : i \in S <=> i \in T
    BY <1>1, <2>2, LeftmostUnique
  <2> QED BY <2>4 DEF S, T
<1>14. Redacted = Marked(R, b)
  <2>1. Redacted \subseteq 1..at /\ Marked(R, b) \subseteq 1..at
    BY <1>8, <1>11
  <2> QED BY <1>13, <2>1
<1>15. Redacted \in SUBSET (1..at)
  BY <1>11
<1> QED BY <1>3, <1>4, <1>14, <1>15 DEF b

LEMMA ClosedWhole ==
  ASSUME NEW R, R = stream.snapshot, Registered(R), Markable,
         text \in Seq(Chars), at \in 0..Len(text),
         NEW o, NEW source_eof \in BOOLEAN, NEW discarded,
         Closed(R, Arrived, o, source_eof, discarded)
  PROVE  /\ o = Sanitized(source_eof)
         /\ discarded <=> Doubtful(source_eof) # {}
<1> DEFINE b == Arrived
           D == Doubtful(source_eof)
           M == Marked(R, b)
<1>1. b \in Seq(Chars) /\ Len(b) = at /\ at \in Nat
  BY DEF Arrived
<1>2. \A i \in 1..at : b[i] = text[i]
  BY DEF Arrived
<1>3. Redacted = M
      /\ \A i \in 1..at : /\ Covered(M, i) <=> Inside(R, b, M, i)
                          /\ Growable(b, i) <=> Grows(R, b, i)
  BY RedactedIs
<1>4. D = {i \in 1..at :
             /\ Growable(b, i)
             /\ IF source_eof THEN i \notin M /\ ~Covered(M, i) ELSE ~Covered(M, i)}
  BY <1>3 DEF Doubtful
<1> HIDE DEF D
<1>5. ASSUME NEW i \in 1..at
      PROVE  i \in D <=> /\ Grows(R, b, i) /\ ~Inside(R, b, M, i)
                         /\ source_eof => i \notin M
  BY <1>3, <1>4
<1>6. D \subseteq 1..at
  BY <1>4
<1> HIDE DEF b
<1>7. PICK p : /\ Resolved(R, b, p, o, ~source_eof)
               /\ p < Len(b) => Grows(R, b, p + 1) /\ (source_eof => Hits(R, b, p + 1) = {})
               /\ discarded <=> p < Len(b)
  BY DEF Closed, b
<1>8. /\ p \in 0..at /\ Bounded(R, b, p) /\ Settled(R, b, p, ~source_eof)
      /\ o = Clean(R, b, p)
  BY <1>1, <1>7 DEF Resolved
<1>9. ASSUME NEW i \in 1..p PROVE i \notin D
  <2>1. i \in 1..at
    BY <1>1, <1>8
  <2>2. ~Inside(R, b, M, i) /\ (source_eof => i \notin M) => ~Grows(R, b, i)
    BY <1>8 DEF Settled
  <2> QED BY <1>5, <2>1, <2>2
<1>10. ASSUME p < at PROVE p + 1 \in D
  <2>1. p + 1 \in 1..at
    BY <1>8, <1>10
  <2>2. ~Inside(R, b, M, p + 1)
    BY <1>1, <1>8, NotInside
  <2>3. source_eof => p + 1 \notin M
    <3>1. IsLeftmost(R, b, M)
      BY <1>1, MarkedIs
    <3>2. source_eof => Hits(R, b, p + 1) = {}
      BY <1>1, <1>7, <1>10
    <3> QED BY <3>1, <3>2 DEF IsLeftmost
  <2>4. Grows(R, b, p + 1)
    BY <1>1, <1>7, <1>10
  <2> QED BY <1>5, <2>1, <2>2, <2>3, <2>4
<1>11. \A i \in D : i >= p + 1
  <2> SUFFICES ASSUME NEW i \in D, i < p + 1 PROVE FALSE
    BY <1>6, <1>8
  <2>1. i \in 1..p
    BY <1>6, <1>8
  <2> QED BY <1>9, <2>1
<1>12. D # {} <=> p < at
  <2>1. ASSUME NEW i \in D PROVE p < at
    BY <1>6, <1>8, <1>11
  <2> QED BY <1>10, <2>1
<1> DEFINE end == IF D = {} THEN at + 1 ELSE CHOOSE i \in D : \A j \in D : i <= j
<1>13. end = p + 1
  <2>1. CASE p = at
    BY <1>8, <1>12, <2>1
  <2>2. CASE p < at
    <3>1. p + 1 \in D /\ D # {}
      BY <1>10, <2>2
    <3>2. \A j \in D : p + 1 <= j
      BY <1>6, <1>8, <1>11
    <3>3. ASSUME NEW i \in D, \A j \in D : i <= j PROVE i = p + 1
      <4>1. i \in Int /\ i <= p + 1 /\ p + 1 <= i
        <5>1. p + 1 <= i /\ i <= p + 1
          <6> HIDE DEF end
          <6> QED BY <3>1, <3>2, <3>3
        <5>2. i \in 1..at
          BY <1>6, <3>3
        <5> QED BY <5>1, <5>2
      <4> QED BY <1>8, <4>1
    <3> QED BY <3>1, <3>2, <3>3
  <2> QED BY <1>1, <1>8, <2>1, <2>2
<1> HIDE DEF end
<1> DEFINE shown == [i \in 1..at |-> IF i \in Redacted THEN REDACTION_MARKER
                                     ELSE IF Covered(Redacted, i) THEN << >> ELSE << text[i] >>]
<1>14. Sanitized(source_eof) = FlattenSeq([i \in 1..end - 1 |-> shown[i]])
  BY DEF Sanitized, end, D
<1>15. ASSUME NEW i \in 1..p PROVE shown[i] = Shown(R, b, i)
  <2>1. i \in 1..at
    BY <1>1, <1>8
  <2> QED BY <1>2, <1>3, <2>1 DEF Shown
<1> HIDE DEF shown
<1>16. end - 1 = p
  BY <1>8, <1>13
<1>17. [i \in 1..end - 1 |-> shown[i]] = [i \in 1..p |-> Shown(R, b, i)]
  BY <1>15, <1>16
<1>18. o = Sanitized(source_eof)
  BY <1>8, <1>14, <1>17 DEF Clean
<1>19. discarded <=> D # {}
  BY <1>1, <1>7, <1>12
<1> QED BY <1>18, <1>19 DEF D

-----------------------------------------------------------------------------
(* Sequences put together and taken apart. *)

LEMMA SuffixOfConcat ==
  ASSUME NEW S, NEW s \in Seq(S), NEW t \in Seq(S), NEW i \in 1..Len(s) + 1
  PROVE  Suffix(s \o t, i) = Suffix(s, i) \o t
<1> DEFINE u == s \o t
           v == Suffix(s, i)
<1>1. PICK M \in Nat, N \in Nat : M = Len(s) /\ N = Len(t)
  OBVIOUS
<1>2. /\ u \in Seq(S) /\ Len(u) = M + N
      /\ \A k \in 1..M + N : u[k] = IF k <= M THEN s[k] ELSE t[k - M]
  BY <1>1, ConcatProperties
<1>3. /\ v \in Seq(S) /\ Len(v) = M - i + 1
      /\ \A k \in 1..M - i + 1 : v[k] = s[i + k - 1]
  BY <1>1, SuffixIs
<1> HIDE DEF u, v
<1>4. i \in 1..M + 1 /\ i \in 1..Len(u) + 1
  BY <1>1, <1>2
<1> DEFINE w == Suffix(u, i)
<1>5. /\ w \in Seq(S) /\ Len(w) = M + N - i + 1
      /\ \A k \in 1..M + N - i + 1 : w[k] = u[i + k - 1]
  <2> HIDE DEF w
  <2>1. /\ w \in Seq(S) /\ Len(w) = Len(u) - i + 1
        /\ \A k \in 1..Len(u) - i + 1 : w[k] = u[i + k - 1]
    BY <1>2, <1>4, SuffixIs DEF w
  <2>2. Len(u) - i + 1 = M + N - i + 1
    BY <1>2
  <2> QED BY <2>1, <2>2
<1> DEFINE x == v \o t
<1>6. /\ x \in Seq(S) /\ Len(x) = (M - i + 1) + N
      /\ \A k \in 1..(M - i + 1) + N :
           x[k] = IF k <= M - i + 1 THEN v[k] ELSE t[k - (M - i + 1)]
  <2> HIDE DEF x
  <2>1. /\ x \in Seq(S) /\ Len(x) = Len(v) + Len(t)
        /\ \A k \in 1..Len(v) + Len(t) : x[k] = IF k <= Len(v) THEN v[k] ELSE t[k - Len(v)]
    BY <1>3, ConcatProperties DEF x
  <2>2. Len(v) = M - i + 1 /\ Len(t) = N
    BY <1>1, <1>3
  <2> QED BY <2>1, <2>2
<1> HIDE DEF w, x
<1>7. Len(w) = Len(x)
  BY <1>4, <1>5, <1>6
<1>8. ASSUME NEW k \in 1..Len(w) PROVE w[k] = x[k]
  <2>1. k \in 1..M + N - i + 1 /\ k \in 1..(M - i + 1) + N /\ i + k - 1 \in 1..M + N
    BY <1>4, <1>5
  <2>2. CASE k <= M - i + 1
    <3>1. i + k - 1 <= M /\ k \in 1..M - i + 1
      BY <1>4, <2>1, <2>2
    <3> QED BY <1>2, <1>3, <1>5, <1>6, <2>1, <2>2, <3>1
  <2>3. CASE ~(k <= M - i + 1)
    <3>1. ~(i + k - 1 <= M) /\ (i + k - 1) - M = k - (M - i + 1)
      BY <1>4, <2>1, <2>3
    <3> QED BY <1>2, <1>5, <1>6, <2>1, <2>3, <3>1
  <2> QED BY <2>2, <2>3
<1>9. w = x
  BY <1>5, <1>6, <1>7, <1>8, SeqEqual
<1> QED BY <1>9 DEF u, v, w, x

LEMMA SuffixOfSuffix ==
  ASSUME NEW S, NEW s \in Seq(S), NEW i \in 1..Len(s) + 1, NEW j \in 1..Len(s) - i + 2
  PROVE  Suffix(Suffix(s, i), j) = Suffix(s, i + j - 1)
<1> DEFINE v == Suffix(s, i)
<1>1. PICK M \in Nat : M = Len(s)
  OBVIOUS
<1>2. /\ v \in Seq(S) /\ Len(v) = M - i + 1
      /\ \A k \in 1..M - i + 1 : v[k] = s[i + k - 1]
  BY <1>1, SuffixIs
<1> HIDE DEF v
<1>3. i \in 1..M + 1 /\ j \in 1..M - i + 2 /\ j \in 1..Len(v) + 1 /\ i + j - 1 \in 1..M + 1
  BY <1>1, <1>2
<1> DEFINE w == Suffix(v, j)
           x == Suffix(s, i + j - 1)
<1>4. /\ w \in Seq(S) /\ Len(w) = M - i + 1 - j + 1
      /\ \A k \in 1..M - i + 1 - j + 1 : w[k] = v[j + k - 1]
  <2> HIDE DEF w
  <2>1. /\ w \in Seq(S) /\ Len(w) = Len(v) - j + 1
        /\ \A k \in 1..Len(v) - j + 1 : w[k] = v[j + k - 1]
    BY <1>2, <1>3, SuffixIs DEF w
  <2>2. Len(v) - j + 1 = M - i + 1 - j + 1
    BY <1>2
  <2> QED BY <2>1, <2>2
<1>5. /\ x \in Seq(S) /\ Len(x) = M - (i + j - 1) + 1
      /\ \A k \in 1..M - (i + j - 1) + 1 : x[k] = s[(i + j - 1) + k - 1]
  BY <1>1, <1>3, SuffixIs
<1> HIDE DEF w, x
<1>6. Len(w) = Len(x)
  BY <1>3, <1>4, <1>5
<1>7. ASSUME NEW k \in 1..Len(w) PROVE w[k] = x[k]
  <2>1. /\ k \in 1..M - i + 1 - j + 1 /\ k \in 1..M - (i + j - 1) + 1
        /\ j + k - 1 \in 1..M - i + 1 /\ i + (j + k - 1) - 1 = (i + j - 1) + k - 1
    BY <1>3, <1>4
  <2> QED BY <1>2, <1>4, <1>5, <2>1
<1>8. w = x
  BY <1>4, <1>5, <1>6, <1>7, SeqEqual
<1> QED BY <1>8 DEF v, w, x

(* The first k elements and the rest.                                      *)
LEMMA TwoParts ==
  ASSUME NEW S, NEW s \in Seq(S), NEW k \in 0..Len(s)
  PROVE  /\ SubSeq(s, 1, k) \in Seq(S) /\ Len(SubSeq(s, 1, k)) = k
         /\ \A i \in 1..k : SubSeq(s, 1, k)[i] = s[i]
         /\ Suffix(s, k + 1) \in Seq(S) /\ Len(Suffix(s, k + 1)) = Len(s) - k
         /\ SubSeq(s, 1, k) \o Suffix(s, k + 1) = s
<1>1. SubSeq(s, 1, k) \in Seq(S) /\ Len(SubSeq(s, 1, k)) = k
      /\ \A i \in 1..k : SubSeq(s, 1, k)[i] = s[i]
  OBVIOUS
<1>2. Suffix(s, k + 1) \in Seq(S) /\ Len(Suffix(s, k + 1)) = Len(s) - k
  <2>1. k + 1 \in 1..Len(s) + 1 /\ Len(s) - (k + 1) + 1 = Len(s) - k
    OBVIOUS
  <2> QED BY <2>1, SuffixIs
<1>3. SubSeq(s, 1, k) \o SubSeq(s, k + 1, Len(s)) = SubSeq(s, 1, Len(s))
  <2>1. 1 \in 1..Len(s) + 1 /\ k \in 1 - 1..Len(s) /\ Len(s) \in k..Len(s)
    OBVIOUS
  <2> QED BY <2>1, ConcatAdjacentSubSeq
<1>4. SubSeq(s, 1, Len(s)) = s
  BY SubSeqFull
<1> QED BY <1>1, <1>2, <1>3, <1>4 DEF Suffix

LEMMA PrefixOfConcat ==
  ASSUME NEW S, NEW s \in Seq(S), NEW t \in Seq(S)
  PROVE  /\ \A k \in 0..Len(s) : SubSeq(s \o t, 1, k) = SubSeq(s, 1, k)
         /\ \A k \in 0..Len(t) : SubSeq(s \o t, 1, Len(s) + k) = s \o SubSeq(t, 1, k)
<1> DEFINE u == s \o t
<1>1. PICK M \in Nat, N \in Nat : M = Len(s) /\ N = Len(t)
  OBVIOUS
<1>2. /\ u \in Seq(S) /\ Len(u) = M + N
      /\ \A k \in 1..M + N : u[k] = IF k <= M THEN s[k] ELSE t[k - M]
  BY <1>1, ConcatProperties
<1> HIDE DEF u
<1>3. ASSUME NEW k \in 0..M PROVE SubSeq(u, 1, k) = SubSeq(s, 1, k)
  <2> DEFINE v == SubSeq(u, 1, k)
             w == SubSeq(s, 1, k)
  <2>1. k \in 0..Len(s) /\ k \in 0..Len(u)
    BY <1>1, <1>2
  <2>2. v \in Seq(S) /\ Len(v) = k /\ \A i \in 1..k : v[i] = u[i]
    BY <1>2, <2>1, TwoParts
  <2>3. w \in Seq(S) /\ Len(w) = k /\ \A i \in 1..k : w[i] = s[i]
    BY <2>1, TwoParts
  <2> HIDE DEF v, w
  <2>4. \A i \in 1..k : i \in 1..M + N /\ i <= M
    BY <1>1
  <2>5. \A i \in 1..Len(v) : v[i] = w[i]
    BY <1>2, <2>2, <2>3, <2>4
  <2>6. v = w
    BY <2>2, <2>3, <2>5, SeqEqual
  <2> QED BY <2>6 DEF v, w
<1>4. ASSUME NEW k \in 0..N PROVE SubSeq(u, 1, M + k) = s \o SubSeq(t, 1, k)
  <2> DEFINE v == SubSeq(u, 1, M + k)
             x == SubSeq(t, 1, k)
             w == s \o x
  <2>1. k \in 0..Len(t) /\ M + k \in 0..Len(u)
    BY <1>1, <1>2
  <2>2. v \in Seq(S) /\ Len(v) = M + k /\ \A i \in 1..M + k : v[i] = u[i]
    BY <1>2, <2>1, TwoParts
  <2>3. x \in Seq(S) /\ Len(x) = k /\ \A i \in 1..k : x[i] = t[i]
    BY <2>1, TwoParts
  <2> HIDE DEF v, x
  <2>4. /\ w \in Seq(S) /\ Len(w) = M + k
        /\ \A i \in 1..M + k : w[i] = IF i <= M THEN s[i] ELSE x[i - M]
    BY <1>1, <2>3, ConcatProperties
  <2> HIDE DEF w
  <2>5. ASSUME NEW i \in 1..M + k PROVE v[i] = w[i]
    <3>1. i \in 1..M + N /\ (~(i <= M) => i - M \in 1..k)
      OBVIOUS
    <3> QED BY <1>2, <2>2, <2>3, <2>4, <3>1
  <2>6. v = w
    BY <2>2, <2>4, <2>5, SeqEqual
  <2> QED BY <2>6 DEF v, w, x
<1> QED BY <1>1, <1>3, <1>4 DEF u

LEMMA FlattenOne ==
  ASSUME NEW C, NEW e \in Seq(C)
  PROVE  FlattenSeq(<< e >>) = e
<1> DEFINE t == << e >>
<1>1. t \in Seq(Seq(C)) /\ Len(t) = 1 /\ t[1] = e
  OBVIOUS
<1> HIDE DEF t
<1>2. << >> \in Seq(Seq(C)) /\ Len(t) = Len(<< >>) + 1 /\ \A i \in 1..Len(<< >>) : t[i] = << >>[i]
  BY <1>1
<1>3. FlattenSeq(t) = FlattenSeq(<< >>) \o t[Len(t)]
  BY <1>1, <1>2, FlattenMore
<1>4. FlattenSeq(t) = << >> \o e
  BY <1>1, <1>3, FlattenNone
<1> QED BY <1>4, ConcatEmptySeq DEF t

LEMMA FlattenConcat ==
  ASSUME NEW C, NEW s \in Seq(Seq(C)), NEW t \in Seq(Seq(C))
  PROVE  FlattenSeq(s \o t) = FlattenSeq(s) \o FlattenSeq(t)
<1>1. PICK N \in Nat : N = Len(t)
  OBVIOUS
<1> DEFINE Part(k) == SubSeq(t, 1, k)
           Good == {k \in 0..N : FlattenSeq(s \o Part(k)) = FlattenSeq(s) \o FlattenSeq(Part(k))}
<1>2. FlattenSeq(s) \in Seq(C)
  BY FlattenType
<1>3. 0 \in Good
  <2>1. Part(0) = << >> /\ 0 \in 0..N /\ s \o << >> = s
    BY <1>1
  <2>2. FlattenSeq(s) \o << >> = FlattenSeq(s)
    BY <1>2, ConcatEmptySeq
  <2> HIDE DEF Part
  <2> QED BY <2>1, <2>2, FlattenNone
<1>4. ASSUME NEW k \in 0..N, k < N, k \in Good PROVE k + 1 \in Good
  <2>1. k \in 0..Len(t) /\ k + 1 \in 0..Len(t) /\ k + 1 \in 0..N /\ k + 1 \in 1..Len(t)
    BY <1>1, <1>4
  <2>2. Part(k) \in Seq(Seq(C)) /\ Len(Part(k)) = k /\ \A i \in 1..k : Part(k)[i] = t[i]
    BY <2>1, TwoParts
  <2>3. /\ Part(k + 1) \in Seq(Seq(C)) /\ Len(Part(k + 1)) = k + 1
        /\ \A i \in 1..k + 1 : Part(k + 1)[i] = t[i]
    BY <2>1, TwoParts
  <2>4. FlattenSeq(s \o Part(k)) = FlattenSeq(s) \o FlattenSeq(Part(k))
    BY <1>4
  <2>5. t[k + 1] \in Seq(C)
    BY <2>1, ElementOfSeq
  <2> DEFINE p == Part(k)
             q == Part(k + 1)
             e == t[k + 1]
  <2>6. p \in Seq(Seq(C)) /\ Len(p) = k /\ q \in Seq(Seq(C)) /\ Len(q) = k + 1
        /\ q[k + 1] = e /\ \A i \in 1..k : q[i] = p[i]
    BY <2>1, <2>2, <2>3
  <2>7. FlattenSeq(s \o p) = FlattenSeq(s) \o FlattenSeq(p)
    BY <2>4
  <2> HIDE DEF p, q, e, Part
  <2>8. FlattenSeq(q) = FlattenSeq(p) \o e
    BY <2>6, FlattenMore
  <2>9. FlattenSeq(s \o q) = FlattenSeq(s \o p) \o e
    <3> DEFINE x == s \o p
               y == s \o q
    <3> HIDE DEF x, y
    <3>1. x \in Seq(Seq(C)) /\ Len(x) = Len(s) + k
          /\ \A i \in 1..Len(s) + k : x[i] = IF i <= Len(s) THEN s[i] ELSE p[i - Len(s)]
      <4>1. /\ x \in Seq(Seq(C)) /\ Len(x) = Len(s) + Len(p)
            /\ \A i \in 1..Len(s) + Len(p) : x[i] = IF i <= Len(s) THEN s[i] ELSE p[i - Len(s)]
        BY <2>6, ConcatProperties DEF x
      <4> QED BY <2>6, <4>1
    <3>2. y \in Seq(Seq(C)) /\ Len(y) = Len(s) + (k + 1)
          /\ \A i \in 1..Len(s) + (k + 1) : y[i] = IF i <= Len(s) THEN s[i] ELSE q[i - Len(s)]
      <4>1. /\ y \in Seq(Seq(C)) /\ Len(y) = Len(s) + Len(q)
            /\ \A i \in 1..Len(s) + Len(q) : y[i] = IF i <= Len(s) THEN s[i] ELSE q[i - Len(s)]
        BY <2>6, ConcatProperties DEF y
      <4> QED BY <2>6, <4>1
    <3>3. PICK M \in Nat : M = Len(s)
      OBVIOUS
    <3>4. Len(y) = Len(x) + 1 /\ Len(x) = M + k
      BY <3>1, <3>2, <3>3
    <3>5. y[Len(y)] = e
      <4>1. Len(y) = M + k + 1 /\ M + k + 1 \in 1..M + (k + 1) /\ ~(M + k + 1 <= M)
            /\ (M + k + 1) - M = k + 1
        BY <3>3, <3>4
      <4> QED BY <2>6, <3>2, <3>3, <4>1
    <3>6. ASSUME NEW i \in 1..Len(x) PROVE y[i] = x[i]
      <4>1. i \in 1..M + k /\ i \in 1..M + (k + 1) /\ (~(i <= M) => i - M \in 1..k)
        BY <3>4
      <4> QED BY <2>6, <3>1, <3>2, <3>3, <4>1
    <3>7. FlattenSeq(y) = FlattenSeq(x) \o y[Len(y)]
      BY <3>1, <3>2, <3>4, <3>6, FlattenMore
    <3> QED BY <3>5, <3>7 DEF x, y
  <2>10. FlattenSeq(p) \in Seq(C) /\ e \in Seq(C)
    BY <2>5, <2>6, FlattenType DEF e
  <2>11. (FlattenSeq(s) \o FlattenSeq(p)) \o e = FlattenSeq(s) \o (FlattenSeq(p) \o e)
    BY <1>2, <2>10, ConcatAssociative
  <2>12. FlattenSeq(s \o Part(k + 1)) = FlattenSeq(s) \o FlattenSeq(Part(k + 1))
    BY <2>7, <2>8, <2>9, <2>11 DEF q
  <2> QED BY <2>1, <2>12
<1>5. N \in Good
  <2> HIDE DEF Good
  <2>1. \A j \in 0..N : j < N /\ j \in Good => j + 1 \in Good
    BY <1>4
  <2>2. \A j \in 0..N : j \in Good
    BY <1>3, <2>1, Upwards
  <2> QED BY <2>2
<1>6. Part(N) = t
  BY <1>1, SubSeqFull
<1> HIDE DEF Part
<1> QED BY <1>5, <1>6

-----------------------------------------------------------------------------
(* A text in segments: markers and single characters, so that no two       *)
(* characters together are a marker. *)

Segment(e) == e = REDACTION_MARKER \/ \E c \in Chars : e = << c >>

Pieces(W) ==
  /\ W \in Seq(Seq(Chars))
  /\ \A k \in 1..Len(W) : Segment(W[k])
  /\ \A k \in 1..Len(W) : (k < Len(W) /\ W[k] = << "[" >>) => W[k + 1] # << "]" >>

(* How much the first k segments are.                                      *)
Off(W, k) == Bytes(SubSeq(W, 1, k))

LEMMA OffsetSteps ==
  ASSUME NEW W, Pieces(W), NEW k \in 0..Len(W), k < Len(W)
  PROVE  /\ Off(W, k + 1) = Off(W, k) + Len(W[k + 1])
         /\ FlattenSeq(SubSeq(W, 1, k + 1)) = FlattenSeq(SubSeq(W, 1, k)) \o W[k + 1]
         /\ Len(W[k + 1]) \in {1, 2}
<1> DEFINE p == SubSeq(W, 1, k)
           q == SubSeq(W, 1, k + 1)
<1>1. W \in Seq(Seq(Chars)) /\ k + 1 \in 0..Len(W) /\ k + 1 \in 1..Len(W)
  BY DEF Pieces
<1>2. p \in Seq(Seq(Chars)) /\ Len(p) = k /\ \A i \in 1..k : p[i] = W[i]
  BY <1>1, TwoParts
<1>3. q \in Seq(Seq(Chars)) /\ Len(q) = k + 1 /\ \A i \in 1..k + 1 : q[i] = W[i]
  BY <1>1, TwoParts
<1> HIDE DEF p, q
<1>4. Len(q) = Len(p) + 1 /\ (\A i \in 1..Len(p) : q[i] = p[i]) /\ q[Len(q)] = W[k + 1]
  <2>1. k \in Nat /\ k + 1 \in 1..k + 1
    BY <1>1
  <2>2. \A i \in 1..k : i \in 1..k + 1
    BY <2>1
  <2> QED BY <1>2, <1>3, <2>1, <2>2
<1>5. FlattenSeq(q) = FlattenSeq(p) \o W[k + 1]
  BY <1>2, <1>3, <1>4, FlattenMore
<1>6. FlattenSeq(p) \in Seq(Chars) /\ W[k + 1] \in Seq(Chars)
  BY <1>1, <1>2, FlattenType
<1>7. Len(FlattenSeq(q)) = Len(FlattenSeq(p)) + Len(W[k + 1])
  BY <1>5, <1>6
<1>8. Len(W[k + 1]) \in {1, 2}
  <2>1. Segment(W[k + 1])
    BY <1>1 DEF Pieces
  <2>2. Len(REDACTION_MARKER) = 2 /\ \A c \in Chars : Len(<< c >>) = 1
    BY DEF REDACTION_MARKER
  <2> QED BY <2>1, <2>2 DEF Segment
<1> QED BY <1>5, <1>7, <1>8 DEF p, q, Off, Bytes

LEMMA OffsetParts ==
  ASSUME NEW W, Pieces(W), NEW k \in 0..Len(W)
  PROVE  /\ FlattenSeq(W) \in Seq(Chars)
         /\ Off(W, k) \in 0..Len(FlattenSeq(W))
         /\ SubSeq(FlattenSeq(W), 1, Off(W, k)) = FlattenSeq(SubSeq(W, 1, k))
         /\ Suffix(FlattenSeq(W), Off(W, k) + 1) = FlattenSeq(Suffix(W, k + 1))
         /\ Bytes(Suffix(W, k + 1)) = Len(FlattenSeq(W)) - Off(W, k)
         /\ FlattenSeq(SubSeq(W, 1, k)) \in Seq(Chars)
         /\ FlattenSeq(Suffix(W, k + 1)) \in Seq(Chars)
         /\ FlattenSeq(W) = FlattenSeq(SubSeq(W, 1, k)) \o FlattenSeq(Suffix(W, k + 1))
<1> DEFINE p == SubSeq(W, 1, k)
           q == Suffix(W, k + 1)
           f == FlattenSeq(p)
           g == FlattenSeq(q)
<1>1. W \in Seq(Seq(Chars))
  BY DEF Pieces
<1>2. p \in Seq(Seq(Chars)) /\ q \in Seq(Seq(Chars)) /\ p \o q = W
  BY <1>1, TwoParts
<1> HIDE DEF p, q
<1>3. f \in Seq(Chars) /\ g \in Seq(Chars)
  BY <1>2, FlattenType
<1>4. FlattenSeq(W) = f \o g
  BY <1>2, FlattenConcat
<1> HIDE DEF f, g
<1> DEFINE h == f \o g
<1>5. h \in Seq(Chars) /\ Len(h) = Len(f) + Len(g) /\ Len(f) \in Nat /\ Len(g) \in Nat
  BY <1>3, ConcatProperties
<1>6. Len(f) \in 0..Len(f) /\ Len(f) \in 0..Len(h) /\ Len(h) - Len(f) = Len(g)
  BY <1>5
<1>7. SubSeq(h, 1, Len(f)) = f
  <2>1. SubSeq(f, 1, Len(f)) = f
    BY <1>3, SubSeqFull
  <2>2. SubSeq(h, 1, Len(f)) = SubSeq(f, 1, Len(f))
    BY <1>3, <1>6, PrefixOfConcat
  <2> QED BY <2>1, <2>2
<1>8. Suffix(h, Len(f) + 1) = g
  <2>1. Len(f) + 1 \in 1..Len(f) + 1
    BY <1>5
  <2>2. Suffix(h, Len(f) + 1) = Suffix(f, Len(f) + 1) \o g
    BY <1>3, <2>1, SuffixOfConcat
  <2>3. Suffix(f, Len(f) + 1) \in Seq(Chars) /\ Len(Suffix(f, Len(f) + 1)) = Len(f) - (Len(f) + 1) + 1
    BY <1>3, <2>1, SuffixIs
  <2>4. Suffix(f, Len(f) + 1) = << >>
    BY <1>5, <2>3
  <2> QED BY <1>3, <2>2, <2>4, ConcatEmptySeq
<1> HIDE DEF h
<1>9. Off(W, k) = Len(f) /\ Bytes(q) = Len(g)
  BY DEF Off, Bytes, p, f, g
<1>10. FlattenSeq(W) = h
  BY <1>4 DEF h
<1>11. Bytes(q) = Len(h) - Len(f)
  BY <1>6, <1>9
<1> QED BY <1>3, <1>4, <1>5, <1>6, <1>7, <1>8, <1>9, <1>10, <1>11 DEF p, q, f, g

LEMMA OffsetEnds ==
  ASSUME NEW W, Pieces(W)
  PROVE  Off(W, 0) = 0 /\ Off(W, Len(W)) = Len(FlattenSeq(W)) /\ Len(W) \in Nat
<1>1. W \in Seq(Seq(Chars))
  BY DEF Pieces
<1>2. SubSeq(W, 1, 0) = << >> /\ SubSeq(W, 1, Len(W)) = W /\ Len(W) \in Nat
  BY <1>1, SubSeqFull
<1>3. Len(<< >>) = 0
  OBVIOUS
<1> QED BY <1>2, <1>3, FlattenNone DEF Off, Bytes

LEMMA OffsetGrows ==
  ASSUME NEW W, Pieces(W), NEW j \in 0..Len(W), NEW k \in 0..Len(W), j < k
  PROVE  Off(W, j) < Off(W, k)
<1>1. PICK N \in Nat : N = Len(W)
  BY DEF Pieces
<1> DEFINE Good == {i \in 0..N - j : Off(W, j + i) >= Off(W, j) + i}
<1>2. \A i \in 0..N : Off(W, i) \in Nat
  BY <1>1, OffsetParts
<1>3. N - j \in Nat /\ j \in 0..N /\ k \in 0..N
  BY <1>1
<1>4. 0 \in Good
  BY <1>2, <1>3
<1>5. ASSUME NEW i \in 0..N - j, i < N - j, i \in Good PROVE i + 1 \in Good
  <2>1. j + i \in 0..N /\ j + i < N /\ j + (i + 1) = (j + i) + 1 /\ i + 1 \in 0..N - j
        /\ (j + i) + 1 \in 0..N
    BY <1>3, <1>5
  <2>2. /\ Off(W, (j + i) + 1) = Off(W, j + i) + Len(W[(j + i) + 1])
        /\ Len(W[(j + i) + 1]) \in {1, 2}
    BY <1>1, <2>1, OffsetSteps
  <2>3. Off(W, j + i) >= Off(W, j) + i
    BY <1>5
  <2>4. Off(W, (j + i) + 1) >= Off(W, j) + (i + 1)
    <3>1. ASSUME NEW a \in Nat, NEW b \in Nat, NEW c, NEW l \in {1, 2}, c = b + l, b >= a + i
          PROVE  c >= a + (i + 1)
      BY <3>1
    <3>2. Off(W, j) \in Nat /\ Off(W, j + i) \in Nat
      BY <1>2, <1>3, <2>1
    <3> QED BY <2>2, <2>3, <3>1, <3>2
  <2> QED BY <2>1, <2>4
<1>6. k - j \in Good
  <2> HIDE DEF Good
  <2>1. \A i \in 0..N - j : i < N - j /\ i \in Good => i + 1 \in Good
    BY <1>5
  <2>2. \A i \in 0..N - j : i \in Good
    BY <1>3, <1>4, <2>1, Upwards
  <2> QED BY <1>3, <2>2
<1>7. Off(W, j + (k - j)) >= Off(W, j) + (k - j) /\ j + (k - j) = k
  BY <1>3, <1>6
<1> QED BY <1>2, <1>3, <1>7

(* A segment stands in the text.                                           *)
LEMMA OffsetChars ==
  ASSUME NEW W, Pieces(W), NEW k \in 0..Len(W), k < Len(W), NEW i \in 1..Len(W[k + 1])
  PROVE  FlattenSeq(W)[Off(W, k) + i] = W[k + 1][i]
<1> DEFINE f == FlattenSeq(SubSeq(W, 1, k))
           g == FlattenSeq(SubSeq(W, 1, k + 1))
           h == FlattenSeq(Suffix(W, (k + 1) + 1))
           e == W[k + 1]
<1>1. k + 1 \in 0..Len(W) /\ k + 1 \in 1..Len(W)
  BY DEF Pieces
<1>2. e \in Seq(Chars)
  BY <1>1 DEF Pieces
<1>3. f \in Seq(Chars) /\ Off(W, k) = Len(f)
  BY OffsetParts DEF Off, Bytes
<1>4. g \in Seq(Chars) /\ h \in Seq(Chars) /\ FlattenSeq(W) = g \o h
  BY <1>1, OffsetParts
<1>5. g = f \o e
  BY OffsetSteps
<1> HIDE DEF f, g, h, e
<1>6. i \in 1..Len(e)
  BY DEF e
<1>7. Len(g) = Len(f) + Len(e) /\ Len(f) + i \in 1..Len(g) /\ ~(Len(f) + i <= Len(f))
      /\ (Len(f) + i) - Len(f) = i
  BY <1>2, <1>3, <1>5, <1>6, ConcatProperties
<1>8. g[Len(f) + i] = e[i]
  BY <1>2, <1>3, <1>5, <1>6, <1>7, ConcatProperties
<1>9. (g \o h)[Len(f) + i] = g[Len(f) + i]
  BY <1>4, <1>7, ConcatProperties
<1> QED BY <1>3, <1>4, <1>8, <1>9 DEF e

LEMMA InMarkerIs ==
  ASSUME NEW s \in Seq(Chars), NEW k
  PROVE  InMarker(s, k) <=> /\ k \in 1..Len(s) - 1
                            /\ s[k] = "[" /\ s[k + 1] = "]"
<1> SUFFICES ASSUME k \in 1..Len(s) - 1
             PROVE  SubSeq(s, k, k + 1) = REDACTION_MARKER <=> s[k] = "[" /\ s[k + 1] = "]"
  BY DEF InMarker
<1> DEFINE u == SubSeq(s, k, k + 1)
           w == << s[k], s[k + 1] >>
<1>1. /\ u \in Seq(Chars) /\ Len(u) = 2 /\ u[1] = s[k] /\ u[2] = s[k + 1]
  <2>1. k \in Int /\ k + 1 \in Int /\ \A i \in k..k + 1 : i \in 1..Len(s)
    OBVIOUS
  <2>2. \A i \in k..k + 1 : s[i] \in Chars
    BY <2>1, ElementOfSeq
  <2>3. /\ u \in Seq(Chars) /\ Len(u) = IF k <= k + 1 THEN (k + 1) - k + 1 ELSE 0
        /\ \A i \in 1..(k + 1) - k + 1 : u[i] = s[k + i - 1]
    BY <2>1, <2>2, SubSeqProperties
  <2>4. (k + 1) - k + 1 = 2 /\ k + 1 - 1 = k /\ k + 2 - 1 = k + 1 /\ 1 \in 1..2 /\ 2 \in 1..2
    BY <2>1
  <2> QED BY <2>1, <2>3, <2>4
<1>2. REDACTION_MARKER = << "[", "]" >> /\ Len(REDACTION_MARKER) = 2
      /\ REDACTION_MARKER[1] = "[" /\ REDACTION_MARKER[2] = "]"
  BY DEF REDACTION_MARKER
<1>3. w \in Seq(Chars) /\ Len(w) = 2 /\ w[1] = s[k] /\ w[2] = s[k + 1]
  OBVIOUS
<1> HIDE DEF u
<1>4. u = w
  <2> HIDE DEF w
  <2>1. \A i \in 1..Len(u) : u[i] = w[i]
    BY <1>1, <1>3
  <2> QED BY <1>1, <1>3, <2>1, SeqEqual
<1>5. w = << "[", "]" >> <=> s[k] = "[" /\ s[k + 1] = "]"
  OBVIOUS
<1> QED BY <1>2, <1>4, <1>5 DEF u

(* The cuts of a text are where one segment ends and the next begins.      *)
LEMMA PieceCuts ==
  ASSUME NEW W, Pieces(W)
  PROVE  /\ \A k \in 0..Len(W) : Off(W, k) \in CutsOf(FlattenSeq(W))
         /\ \A m \in CutsOf(FlattenSeq(W)) : \E k \in 0..Len(W) : m = Off(W, k)
<1> DEFINE f == FlattenSeq(W)
<1>1. PICK N \in Nat : N = Len(W)
  BY DEF Pieces
<1>2. f \in Seq(Chars) /\ \A k \in 0..N : Off(W, k) \in 0..Len(f)
  BY <1>1, OffsetParts, OffsetEnds
<1>3. Off(W, 0) = 0 /\ Off(W, N) = Len(f) /\ Len(f) \in Nat
  BY <1>1, <1>2, OffsetEnds
<1>4. ASSUME NEW k \in 0..N, k < N
      PROVE  /\ Off(W, k + 1) = Off(W, k) + Len(W[k + 1])
             /\ Segment(W[k + 1])
             /\ Len(W[k + 1]) \in {1, 2}
             /\ \A i \in 1..Len(W[k + 1]) : f[Off(W, k) + i] = W[k + 1][i]
  <2>1. k + 1 \in 1..Len(W) /\ k \in 0..Len(W) /\ k < Len(W)
    BY <1>1, <1>4
  <2> QED BY <2>1, OffsetSteps, OffsetChars DEF Pieces
<1> HIDE DEF f
<1>5. ASSUME NEW k \in 0..N PROVE Off(W, k) \in CutsOf(f)
  <2> SUFFICES ASSUME InMarker(f, Off(W, k)) PROVE FALSE
    BY <1>2 DEF CutsOf
  <2>1. /\ Off(W, k) \in 1..Len(f) - 1
        /\ f[Off(W, k)] = "[" /\ f[Off(W, k) + 1] = "]"
    BY <1>2, InMarkerIs
  <2>2. k # 0 /\ k # N
    BY <1>3, <2>1
  <2>3. k - 1 \in 0..N /\ k - 1 < N /\ (k - 1) + 1 = k /\ k < N /\ k \in 1..Len(W) /\ k < Len(W)
    BY <1>1, <2>2
  <2>4. /\ Off(W, k) = Off(W, k - 1) + Len(W[k]) /\ Segment(W[k]) /\ Len(W[k]) \in {1, 2}
        /\ \A i \in 1..Len(W[k]) : f[Off(W, k - 1) + i] = W[k][i]
    BY <1>4, <2>3
  <2>5. f[Off(W, k)] = W[k][Len(W[k])]
    <3>1. \A l \in {1, 2} : l \in 1..l
      OBVIOUS
    <3>2. Len(W[k]) \in 1..Len(W[k])
      BY <2>4, <3>1
    <3> QED BY <2>4, <3>2
  <2>6. /\ Segment(W[k + 1]) /\ Len(W[k + 1]) \in {1, 2}
        /\ \A i \in 1..Len(W[k + 1]) : f[Off(W, k) + i] = W[k + 1][i]
    BY <1>4, <2>3
  <2>7. f[Off(W, k) + 1] = W[k + 1][1]
    <3>1. 1 \in 1..Len(W[k + 1])
      BY <2>6
    <3> QED BY <2>6, <3>1
  <2>8. W[k] = << "[" >>
    <3>1. W[k] # REDACTION_MARKER
      <4>1. REDACTION_MARKER[Len(REDACTION_MARKER)] = "]"
        BY DEF REDACTION_MARKER
      <4> QED BY <2>1, <2>5, <4>1
    <3>2. PICK c \in Chars : W[k] = << c >>
      BY <2>4, <3>1 DEF Segment
    <3>3. W[k][Len(W[k])] = c
      BY <3>2
    <3> QED BY <2>1, <2>5, <3>2, <3>3
  <2>9. W[k + 1] = << "]" >>
    <3>1. W[k + 1] # REDACTION_MARKER
      BY <2>1, <2>7 DEF REDACTION_MARKER
    <3>2. PICK c \in Chars : W[k + 1] = << c >>
      BY <2>6, <3>1 DEF Segment
    <3> QED BY <2>1, <2>7, <3>2
  <2> QED BY <2>3, <2>8, <2>9 DEF Pieces
<1>6. ASSUME NEW m \in CutsOf(f) PROVE \E k \in 0..N : m = Off(W, k)
  <2>1. m \in 0..Len(f) /\ ~InMarker(f, m)
    BY DEF CutsOf
  <2> DEFINE S == {k \in 0..N : Off(W, k) <= m}
  <2>2. 0 \in S /\ S \in SUBSET (0..N)
    BY <1>3, <2>1
  <2>3. PICK k \in S : \A j \in S : j <= k
    <3> HIDE DEF S
    <3> QED BY <2>2, GreatestNumber
  <2>4. k \in 0..N /\ Off(W, k) <= m /\ Off(W, k) \in 0..Len(f)
    BY <1>2
  <2> SUFFICES ASSUME Off(W, k) < m PROVE FALSE
    <3>1. Off(W, k) < m \/ m = Off(W, k)
      BY <2>1, <2>4
    <3> QED BY <2>4, <3>1
  <2>5. k < N
    BY <1>3, <2>1, <2>4
  <2>6. k + 1 \in 0..N /\ ~(Off(W, k + 1) <= m)
    <3>1. k + 1 \in 0..N /\ ~(k + 1 <= k)
      BY <2>4, <2>5
    <3>2. k + 1 \notin S
      <4> HIDE DEF S
      <4> QED BY <2>3, <3>1
    <3> QED BY <3>1, <3>2
  <2>7. /\ Off(W, k + 1) = Off(W, k) + Len(W[k + 1])
        /\ Segment(W[k + 1])
        /\ Len(W[k + 1]) \in {1, 2}
        /\ \A i \in 1..Len(W[k + 1]) : f[Off(W, k) + i] = W[k + 1][i]
    BY <1>4, <2>4, <2>5
  <2> HIDE DEF S
  <2>8. Len(W[k + 1]) = 2 /\ m = Off(W, k) + 1 /\ m + 1 = Off(W, k) + 2 /\ m \in 1..Len(f) - 1
    <3>1. Off(W, k + 1) \in 0..Len(f)
      BY <1>2, <2>6
    <3>3. /\ Off(W, k) \in Nat /\ Off(W, k + 1) \in Nat /\ m \in Nat
          /\ Off(W, k + 1) <= Len(f)
      BY <1>3, <2>1, <2>4, <3>1
    <3>4. Off(W, k + 1) = Off(W, k) + Len(W[k + 1]) /\ Len(W[k + 1]) \in {1, 2}
          /\ ~(Off(W, k + 1) <= m) /\ Off(W, k) < m
      BY <2>6, <2>7
    <3> DEFINE a == Off(W, k)
               b == Off(W, k + 1)
               l == Len(W[k + 1])
               L == Len(f)
    <3>5. /\ a \in Nat /\ b \in Nat /\ m \in Nat /\ L \in Nat /\ l \in {1, 2}
          /\ b = a + l /\ ~(b <= m) /\ a < m /\ b <= L
      BY <1>3, <3>3, <3>4
    <3> HIDE DEF a, b, l, L
    <3>6. l = 2 /\ m = a + 1 /\ m + 1 = a + 2 /\ m \in 1..L - 1
      BY <3>5
    <3> QED BY <3>6 DEF a, l, L
  <2>9. W[k + 1] = REDACTION_MARKER
    <3>1. \A c \in Chars : Len(<< c >>) = 1
      OBVIOUS
    <3> QED BY <2>7, <2>8, <3>1 DEF Segment
  <2>10. f[m] = "[" /\ f[m + 1] = "]"
    <3>1. 1 \in 1..Len(W[k + 1]) /\ 2 \in 1..Len(W[k + 1])
      BY <2>8
    <3>2. f[m] = W[k + 1][1] /\ f[m + 1] = W[k + 1][2]
      BY <2>7, <2>8, <3>1
    <3> QED BY <2>9, <3>2 DEF REDACTION_MARKER
  <2>11. InMarker(f, m)
    BY <1>2, <2>8, <2>10, InMarkerIs
  <2> QED BY <2>1, <2>11
<1> QED BY <1>1, <1>5, <1>6 DEF f

-----------------------------------------------------------------------------
(* The splitting of a text into segments, up to a "[" at its end, which    *)
(* may still become a marker. *)

Splitting(f, buffer) ==
  f = [i \in 1..Len(buffer) + 1 |->
         IF i = Len(buffer) + 1 \/ IsStrictPrefix(Suffix(buffer, i), REDACTION_MARKER)
           THEN [segments |-> << >>, pending |-> Suffix(buffer, i)]
           ELSE LET whole == IsPrefix(REDACTION_MARKER, Suffix(buffer, i))
                    segment == IF whole THEN REDACTION_MARKER ELSE << buffer[i] >>
                IN  [f[i + Len(segment)] EXCEPT !.segments = << segment >> \o @]]

MarkerAt(b, i) == i < Len(b) /\ b[i] = "[" /\ b[i + 1] = "]"
PieceAt(b, i) == IF MarkerAt(b, i) THEN REDACTION_MARKER ELSE << b[i] >>

SplitEnds(b, i) == i = Len(b) + 1 \/ (i = Len(b) /\ b[i] = "[")

SplitTurn(b, f, i) ==
  IF SplitEnds(b, i) THEN [segments |-> << >>, pending |-> Suffix(b, i)]
  ELSE [f[i + Len(PieceAt(b, i))] EXCEPT !.segments = << PieceAt(b, i) >> \o @]

LEMMA MarkerIs ==
  ASSUME Markable
  PROVE  /\ REDACTION_MARKER \in Seq(Chars) /\ Len(REDACTION_MARKER) = 2
         /\ REDACTION_MARKER[1] = "[" /\ REDACTION_MARKER[2] = "]"
BY DEF REDACTION_MARKER, Markable

LEMMA PieceAtIs ==
  ASSUME Markable, NEW b \in Seq(Chars), NEW i \in 1..Len(b)
  PROVE  /\ PieceAt(b, i) \in Seq(Chars) /\ Len(PieceAt(b, i)) \in {1, 2}
         /\ Segment(PieceAt(b, i))
         /\ Len(PieceAt(b, i)) = IF MarkerAt(b, i) THEN 2 ELSE 1
         /\ i + Len(PieceAt(b, i)) \in i + 1..Len(b) + 1
         /\ \A k \in 1..Len(PieceAt(b, i)) : PieceAt(b, i)[k] = b[i + k - 1]
<1>1. b[i] \in Chars
  OBVIOUS
<1>2. CASE MarkerAt(b, i)
  <2>1. PieceAt(b, i) = REDACTION_MARKER
    BY <1>2 DEF PieceAt
  <2>2. i < Len(b) /\ b[i] = "[" /\ b[i + 1] = "]"
    BY <1>2 DEF MarkerAt
  <2>3. i + 2 \in i + 1..Len(b) + 1
    BY <2>2
  <2>4. \A k \in 1..2 : (k = 1 /\ i + k - 1 = i) \/ (k = 2 /\ i + k - 1 = i + 1)
    OBVIOUS
  <2>5. \A k \in 1..2 : REDACTION_MARKER[k] = b[i + k - 1]
    BY <2>2, <2>4, MarkerIs
  <2> QED BY <1>2, <2>1, <2>3, <2>5, MarkerIs DEF Segment
<1>3. CASE ~MarkerAt(b, i)
  <2>1. PieceAt(b, i) = << b[i] >>
    BY <1>3 DEF PieceAt
  <2>2. << b[i] >> \in Seq(Chars) /\ Len(<< b[i] >>) = 1 /\ << b[i] >>[1] = b[i]
    BY <1>1
  <2>3. i + 1 \in i + 1..Len(b) + 1 /\ \A k \in 1..1 : k = 1 /\ i + k - 1 = i
    OBVIOUS
  <2> QED BY <1>1, <1>3, <2>1, <2>2, <2>3 DEF Segment
<1> QED BY <1>2, <1>3

LEMMA SplittingIs ==
  ASSUME Markable, NEW b \in Seq(Chars), NEW f
  PROVE  Splitting(f, b) <=> f = [i \in 1..Len(b) + 1 |-> SplitTurn(b, f, i)]
<1> DEFINE Body(i) ==
             IF i = Len(b) + 1 \/ IsStrictPrefix(Suffix(b, i), REDACTION_MARKER)
               THEN [segments |-> << >>, pending |-> Suffix(b, i)]
               ELSE LET whole == IsPrefix(REDACTION_MARKER, Suffix(b, i))
                        segment == IF whole THEN REDACTION_MARKER ELSE << b[i] >>
                    IN  [f[i + Len(segment)] EXCEPT !.segments = << segment >> \o @]
<1>1. ASSUME NEW i \in 1..Len(b) + 1 PROVE Body(i) = SplitTurn(b, f, i)
  <2>1. CASE i = Len(b) + 1
    BY <2>1 DEF SplitTurn, SplitEnds
  <2>2. CASE i # Len(b) + 1
    <3> DEFINE u == Suffix(b, i)
    <3>1. i \in 1..Len(b)
      BY <2>2
    <3>2. /\ u \in Seq(Chars) /\ Len(u) = Len(b) - i + 1
          /\ \A k \in 1..Len(b) - i + 1 : u[k] = b[i + k - 1]
      BY SuffixIs
    <3> HIDE DEF u
    <3>3. u[1] = b[i] /\ (i < Len(b) => u[2] = b[i + 1])
      BY <3>1, <3>2
    <3>4. IsStrictPrefix(u, REDACTION_MARKER) <=> i = Len(b) /\ b[i] = "["
      <4>1. IsStrictPrefix(u, REDACTION_MARKER) <=>
              Len(u) < 2 /\ \A k \in 1..Len(u) : u[k] = REDACTION_MARKER[k]
        <5>1. PICK m \in Seq(Chars) : m = REDACTION_MARKER /\ Len(m) = 2
          BY MarkerIs
        <5>2. IsStrictPrefix(u, m) <=> Len(u) < Len(m) /\ \A k \in 1..Len(u) : u[k] = m[k]
          <6>1. u \in Seq(Chars) /\ m \in Seq(Chars)
            BY <3>2
          <6> QED BY <6>1, StrictPrefixIs
        <5> QED BY <5>1, <5>2
      <4>2. Len(u) < 2 <=> i = Len(b)
        BY <3>1, <3>2
      <4>3. i = Len(b) => \A k \in 1..Len(u) : k = 1
        BY <3>1, <3>2
      <4>4. i = Len(b) => 1 \in 1..Len(u)
        BY <3>1, <3>2
      <4> QED BY <3>3, <4>1, <4>2, <4>3, <4>4, MarkerIs
    <3>5. IsPrefix(REDACTION_MARKER, u) <=> MarkerAt(b, i)
      <4>1. IsPrefix(REDACTION_MARKER, u) <=>
              2 <= Len(u) /\ \A k \in 1..2 : REDACTION_MARKER[k] = u[k]
        <5>1. PICK m \in Seq(Chars) : m = REDACTION_MARKER /\ Len(m) = 2
          BY MarkerIs
        <5>2. IsPrefix(m, u) <=> Len(m) <= Len(u) /\ \A k \in 1..Len(m) : m[k] = u[k]
          <6>1. u \in Seq(Chars) /\ m \in Seq(Chars)
            BY <3>2
          <6> QED BY <6>1, PrefixIs
        <5> QED BY <5>1, <5>2
      <4>2. 2 <= Len(u) <=> i < Len(b)
        BY <3>1, <3>2
      <4>3. (\A k \in 1..2 : REDACTION_MARKER[k] = u[k]) <=> u[1] = "[" /\ u[2] = "]"
        <5>1. \A k \in 1..2 : k = 1 \/ k = 2
          OBVIOUS
        <5>2. 1 \in 1..2 /\ 2 \in 1..2
          OBVIOUS
        <5> QED BY <5>1, <5>2, MarkerIs
      <4> QED BY <3>3, <4>1, <4>2, <4>3 DEF MarkerAt
    <3> QED BY <2>2, <3>4, <3>5 DEF SplitTurn, SplitEnds, PieceAt, u
  <2> QED BY <2>1, <2>2
<1>2. Splitting(f, b) <=> f = [i \in 1..Len(b) + 1 |-> Body(i)]
  BY DEF Splitting
<1> HIDE DEF Body
<1>3. [i \in 1..Len(b) + 1 |-> Body(i)] = [i \in 1..Len(b) + 1 |-> SplitTurn(b, f, i)]
  BY <1>1
<1> QED BY <1>2, <1>3

LEMMA SplittingExists ==
  ASSUME Markable, NEW b \in Seq(Chars)
  PROVE  \E f : Splitting(f, b)
<1>1. PICK N \in Nat : N = Len(b)
  OBVIOUS
<1> DEFINE Value(f, i) == SplitTurn(b, f, i)
           Holds(f, k) == \A i \in N + 1 - k..N + 1 : f[i] = Value(f, i)
           Good == {k \in 0..N : \E f : Holds(f, k)}
<1>2. ASSUME NEW f, NEW g, NEW i \in 1..N + 1, \A j \in i + 1..N + 1 : f[j] = g[j]
      PROVE  Value(f, i) = Value(g, i)
  <2>1. CASE SplitEnds(b, i)
    BY <2>1 DEF SplitTurn
  <2>2. CASE ~SplitEnds(b, i)
    <3>1. i \in 1..Len(b)
      BY <1>1, <2>2 DEF SplitEnds
    <3>2. i + Len(PieceAt(b, i)) \in i + 1..N + 1
      BY <1>1, <3>1, PieceAtIs
    <3> QED BY <1>2, <2>2, <3>2 DEF SplitTurn
  <2> QED BY <2>1, <2>2
<1>3. 0 \in Good
  <2> DEFINE f == [i \in 1..N + 1 |-> [segments |-> << >>, pending |-> Suffix(b, i)]]
  <2>1. Holds(f, 0)
    <3>1. \A i \in N + 1 - 0..N + 1 : i = N + 1
      OBVIOUS
    <3>2. f[N + 1] = Value(f, N + 1)
      BY <1>1 DEF SplitTurn, SplitEnds
    <3> HIDE DEF f, Value
    <3> QED BY <3>1, <3>2
  <2> HIDE DEF Holds
  <2> QED BY <2>1
<1>4. ASSUME NEW k \in 0..N, k < N, k \in Good PROVE k + 1 \in Good
  <2>1. PICK f : Holds(f, k)
    BY <1>4
  <2> DEFINE n == N + 1 - (k + 1)
             g == [i \in 1..N + 1 |-> IF i = n THEN Value(f, n) ELSE f[i]]
  <2>2. n \in 1..N + 1 /\ n + 1 = N + 1 - k
    BY <1>4
  <2>3. \A i \in n + 1..N + 1 : g[i] = f[i]
    BY <2>2
  <2> HIDE DEF Value
  <2>4. g[n] = Value(f, n)
    BY <2>2
  <2> HIDE DEF g, n
  <2>5. ASSUME NEW i \in n..N + 1 PROVE g[i] = Value(g, i)
    <3>1. i \in 1..N + 1 /\ \A j \in i + 1..N + 1 : g[j] = f[j]
      BY <2>2, <2>3
    <3>2. Value(g, i) = Value(f, i)
      BY <1>2, <3>1
    <3>3. i # n => i \in n + 1..N + 1 /\ f[i] = Value(f, i)
      BY <2>1, <2>2
    <3> QED BY <2>3, <2>4, <3>2, <3>3
  <2>6. Holds(g, k + 1)
    BY <2>5 DEF n
  <2>7. k + 1 \in 0..N
    BY <1>4
  <2> HIDE DEF Holds
  <2> QED BY <2>6, <2>7
<1>5. N \in Good
  <2> HIDE DEF Good
  <2>1. \A j \in 0..N : j < N /\ j \in Good => j + 1 \in Good
    BY <1>4
  <2>2. \A j \in 0..N : j \in Good
    BY <1>3, <2>1, Upwards
  <2> QED BY <2>2
<1>6. PICK f : Holds(f, N)
  BY <1>5
<1> DEFINE h == [i \in 1..N + 1 |-> f[i]]
<1>7. ASSUME NEW i \in 1..N + 1 PROVE h[i] = Value(h, i)
  <2>1. \A j \in i + 1..N + 1 : h[j] = f[j]
    OBVIOUS
  <2>2. Value(h, i) = Value(f, i)
    <3> HIDE DEF h, Value
    <3> QED BY <1>2, <2>1
  <2>3. f[i] = Value(f, i) /\ h[i] = f[i]
    BY <1>6
  <2> QED BY <2>2, <2>3
<1>8. h = [i \in 1..N + 1 |-> h[i]]
  OBVIOUS
<1>9. h = [i \in 1..N + 1 |-> Value(h, i)]
  <2> HIDE DEF h, Value
  <2> QED BY <1>7, <1>8
<1>10. Splitting(h, b)
  <2> HIDE DEF h
  <2> QED BY <1>1, <1>9, SplittingIs
<1> QED BY <1>10

(* Segments W with r still pending: a "[" is the last of them only when    *)
(* another is pending.                                                     *)
Joined(W, r) ==
  /\ Pieces(W)
  /\ r \in {<< >>, << "[" >>}
  /\ (Len(W) > 0 /\ W[Len(W)] = << "[" >>) => r = << "[" >>

(* What the rest of b from i on is split into.                             *)
SplitGoes(b, i, s) ==
  /\ s = [segments |-> s.segments, pending |-> s.pending]
  /\ Joined(s.segments, s.pending)
  /\ FlattenSeq(s.segments) \o s.pending = Suffix(b, i)
  /\ Len(s.segments) > 0 => i <= Len(b) /\ s.segments[1] = PieceAt(b, i)

LEMMA SuffixStep ==
  ASSUME Markable, NEW b \in Seq(Chars), NEW i \in 1..Len(b)
  PROVE  Suffix(b, i) = PieceAt(b, i) \o Suffix(b, i + Len(PieceAt(b, i)))
<1> DEFINE e == PieceAt(b, i)
           j == i + Len(e)
<1>1. PICK N \in Nat : N = Len(b)
  OBVIOUS
<1>2. PICK n \in {1, 2} : n = Len(e)
  BY PieceAtIs
<1>3. e \in Seq(Chars) /\ j \in i + 1..Len(b) + 1 /\ \A k \in 1..Len(e) : e[k] = b[i + k - 1]
  BY PieceAtIs
<1> HIDE DEF e
<1> DEFINE u == Suffix(b, i)
           v == Suffix(b, i + n)
           w == e \o v
<1>4. i \in 1..N /\ i + n \in 1..N + 1 /\ i + n \in 1..Len(b) + 1 /\ i \in 1..Len(b) + 1
  BY <1>1, <1>2, <1>3
<1>5. u \in Seq(Chars) /\ Len(u) = N - i + 1 /\ \A k \in 1..N - i + 1 : u[k] = b[i + k - 1]
  BY <1>1, <1>4, SuffixIs
<1>6. /\ v \in Seq(Chars) /\ Len(v) = N - (i + n) + 1
      /\ \A k \in 1..N - (i + n) + 1 : v[k] = b[(i + n) + k - 1]
  BY <1>1, <1>4, SuffixIs
<1> HIDE DEF u, v
<1>7. /\ w \in Seq(Chars) /\ Len(w) = n + (N - (i + n) + 1)
      /\ \A k \in 1..n + (N - (i + n) + 1) : w[k] = IF k <= n THEN e[k] ELSE v[k - n]
  <2> HIDE DEF w
  <2>1. /\ w \in Seq(Chars) /\ Len(w) = Len(e) + Len(v)
        /\ \A k \in 1..Len(e) + Len(v) : w[k] = IF k <= Len(e) THEN e[k] ELSE v[k - Len(e)]
    BY <1>3, <1>6, ConcatProperties DEF w
  <2> QED BY <1>2, <1>6, <2>1
<1> HIDE DEF w
<1>8. Len(u) = Len(w)
  BY <1>2, <1>4, <1>5, <1>7
<1>9. ASSUME NEW k \in 1..Len(u) PROVE u[k] = w[k]
  <2>1. k \in 1..N - i + 1 /\ k \in 1..n + (N - (i + n) + 1)
    BY <1>2, <1>4, <1>5
  <2>2. CASE k <= n
    <3>1. k \in 1..Len(e)
      BY <1>2, <2>1, <2>2
    <3> QED BY <1>3, <1>5, <1>7, <2>1, <2>2, <3>1
  <2>3. CASE ~(k <= n)
    <3>1. k - n \in 1..N - (i + n) + 1 /\ (i + n) + (k - n) - 1 = i + k - 1
      BY <1>2, <1>4, <2>1, <2>3
    <3> QED BY <1>5, <1>6, <1>7, <2>1, <2>3, <3>1
  <2> QED BY <2>2, <2>3
<1>10. u = w
  BY <1>5, <1>7, <1>8, <1>9, SeqEqual
<1> QED BY <1>2, <1>10 DEF u, v, w, e

(* One segment before others.                                              *)
LEMMA PieceBefore ==
  ASSUME Markable, NEW e, Segment(e), NEW W, NEW r, Joined(W, r),
         e = << "[" >> => (Len(W) > 0 \/ r = << "[" >>),
         (e = << "[" >> /\ Len(W) > 0) => W[1] # << "]" >>
  PROVE  /\ Joined(<< e >> \o W, r)
         /\ FlattenSeq(<< e >> \o W) = e \o FlattenSeq(W)
         /\ Len(<< e >> \o W) > 0 /\ (<< e >> \o W)[1] = e
<1>1. e \in Seq(Chars)
  <2>1. \A c \in Chars : << c >> \in Seq(Chars)
    OBVIOUS
  <2> QED BY <2>1, MarkerIs DEF Segment
<1>2. PICK N \in Nat : N = Len(W) /\ W \in Seq(Seq(Chars))
  BY DEF Joined, Pieces
<1> DEFINE E == << e >>
           V == E \o W
<1>3. E \in Seq(Seq(Chars)) /\ Len(E) = 1 /\ E[1] = e
  BY <1>1
<1> HIDE DEF E
<1>4. /\ V \in Seq(Seq(Chars)) /\ Len(V) = 1 + N
      /\ \A k \in 1..1 + N : V[k] = IF k <= 1 THEN E[k] ELSE W[k - 1]
  <2> HIDE DEF V
  <2>1. /\ V \in Seq(Seq(Chars)) /\ Len(V) = Len(E) + Len(W)
        /\ \A k \in 1..Len(E) + Len(W) : V[k] = IF k <= Len(E) THEN E[k] ELSE W[k - Len(E)]
    BY <1>2, <1>3, ConcatProperties DEF V
  <2> QED BY <1>2, <1>3, <2>1
<1>5. V[1] = e /\ \A k \in 1..N : V[k + 1] = W[k]
  <2>1. 1 \in 1..1 + N /\ 1 <= 1 /\ \A k \in 1..N : k + 1 \in 1..1 + N /\ ~(k + 1 <= 1) /\ (k + 1) - 1 = k
    OBVIOUS
  <2> QED BY <1>3, <1>4, <2>1
<1> HIDE DEF V
<1>6. \A k \in 1..Len(V) : k = 1 \/ (k - 1 \in 1..N /\ (k - 1) + 1 = k)
  BY <1>4
<1>7. ASSUME NEW k \in 1..Len(V) PROVE Segment(V[k])
  <2>1. CASE k = 1
    BY <1>5, <2>1
  <2>2. CASE k # 1
    <3>1. k - 1 \in 1..Len(W) /\ V[k] = W[k - 1]
      BY <1>2, <1>5, <1>6, <2>2
    <3> QED BY <3>1 DEF Joined, Pieces
  <2> QED BY <2>1, <2>2
<1>8. ASSUME NEW k \in 1..Len(V), k < Len(V), V[k] = << "[" >> PROVE V[k + 1] # << "]" >>
  <2>1. k \in 1..N /\ V[k + 1] = W[k]
    BY <1>4, <1>5, <1>8
  <2>2. CASE k = 1
    <3>1. Len(W) > 0 /\ V[k] = e /\ V[k + 1] = W[1]
      BY <1>2, <1>5, <2>1, <2>2
    <3>2. W[1] # << "]" >>
      BY <1>8, <3>1
    <3> QED BY <3>1, <3>2
  <2>3. CASE k # 1
    <3>1. k - 1 \in 1..Len(W) /\ (k - 1) + 1 = k
      BY <1>2, <1>6, <2>3
    <3>2. k - 1 < Len(W)
      BY <1>2, <2>1, <3>1
    <3>3. V[k] = W[k - 1]
      BY <1>2, <1>5, <3>1
    <3> QED BY <1>8, <2>1, <3>1, <3>2, <3>3 DEF Joined, Pieces
  <2> QED BY <2>2, <2>3
<1>9. Pieces(V)
  BY <1>4, <1>7, <1>8 DEF Pieces
<1>10. ASSUME V[Len(V)] = << "[" >> PROVE r = << "[" >>
  <2>1. CASE N = 0
    BY <1>2, <1>4, <1>5, <1>10, <2>1
  <2>2. CASE N # 0
    <3>1. N \in 1..N /\ V[Len(V)] = W[N] /\ N > 0
      BY <1>4, <1>5, <2>2
    <3> QED BY <1>2, <1>10, <3>1 DEF Joined
  <2> QED BY <2>1, <2>2
<1>11. Joined(V, r)
  BY <1>9, <1>10 DEF Joined
<1>12. FlattenSeq(V) = e \o FlattenSeq(W)
  <2>1. FlattenSeq(V) = FlattenSeq(E) \o FlattenSeq(W)
    BY <1>2, <1>3, FlattenConcat DEF V
  <2>2. FlattenSeq(E) = e
    BY <1>1, FlattenOne DEF E
  <2> QED BY <2>1, <2>2
<1>13. Len(V) > 0
  BY <1>4
<1> QED BY <1>5, <1>11, <1>12, <1>13 DEF V, E

LEMMA SplitMore ==
  ASSUME Markable, NEW b \in Seq(Chars), NEW i \in 1..Len(b), ~SplitEnds(b, i), NEW s, NEW t,
         SplitGoes(b, i + Len(PieceAt(b, i)), s),
         t = [segments |-> << PieceAt(b, i) >> \o s.segments, pending |-> s.pending]
  PROVE  SplitGoes(b, i, t)
<1> DEFINE e == PieceAt(b, i)
           m == i + Len(e)
           W == s.segments
           r == s.pending
<1>1. PICK N \in Nat : N = Len(b)
  OBVIOUS
<1>2. /\ e \in Seq(Chars) /\ Segment(e) /\ m \in i + 1..N + 1 /\ Len(e) = IF MarkerAt(b, i) THEN 2 ELSE 1
  BY <1>1, PieceAtIs
<1>3. /\ s = [segments |-> W, pending |-> r] /\ Joined(W, r)
      /\ FlattenSeq(W) \o r = Suffix(b, m)
      /\ Len(W) > 0 => m <= Len(b) /\ W[1] = PieceAt(b, m)
  BY DEF SplitGoes
<1>4. W \in Seq(Seq(Chars)) /\ r \in Seq(Chars) /\ FlattenSeq(W) \in Seq(Chars)
  <2>1. W \in Seq(Seq(Chars)) /\ r \in {<< >>, << "[" >>}
    BY <1>3 DEF Joined, Pieces
  <2>2. r \in Seq(Chars)
    <3>1. "[" \in Chars
      BY DEF Markable
    <3>2. << >> \in Seq(Chars) /\ << "[" >> \in Seq(Chars)
      BY <3>1
    <3> HIDE DEF r
    <3> QED BY <2>1, <3>2
  <2> QED BY <2>1, <2>2, FlattenType
<1>5. ASSUME e = << "[" >>
      PROVE  /\ Len(W) > 0 \/ r = << "[" >>
             /\ Len(W) > 0 => W[1] # << "]" >>
  <2>1. e # REDACTION_MARKER /\ Len(e) = 1
    BY <1>5 DEF REDACTION_MARKER
  <2>2. ~MarkerAt(b, i) /\ e = << b[i] >>
    BY <2>1 DEF PieceAt
  <2>3. b[i] = "[" /\ i < Len(b) /\ b[i + 1] # "]" /\ m = i + 1
    <3>1. b[i] = "["
      BY <1>5, <2>2
    <3>2. i # Len(b)
      BY <3>1 DEF SplitEnds
    <3>3. i < Len(b)
      BY <3>2
    <3> QED BY <2>1, <2>2, <3>1, <3>3 DEF MarkerAt
  <2>4. i + 1 \in 1..Len(b) /\ i + 1 \in 1..Len(b) + 1
    BY <2>3
  <2>5. ASSUME Len(W) > 0 PROVE W[1] # << "]" >>
    <3>1. W[1] = PieceAt(b, i + 1)
      BY <1>3, <2>3, <2>5
    <3>2. PieceAt(b, i + 1) # << "]" >>
      <4>1. CASE MarkerAt(b, i + 1)
        BY <4>1 DEF PieceAt, REDACTION_MARKER
      <4>2. CASE ~MarkerAt(b, i + 1)
        <5>1. PieceAt(b, i + 1) = << b[i + 1] >>
          BY <4>2 DEF PieceAt
        <5> QED BY <2>3, <5>1
      <4> QED BY <4>1, <4>2
    <3> QED BY <3>1, <3>2
  <2>6. ASSUME ~(Len(W) > 0) PROVE r = << "[" >>
    <3>1. W = << >>
      BY <1>4, <2>6
    <3>2. r = Suffix(b, i + 1)
      BY <1>3, <1>4, <2>3, <3>1, FlattenNone, ConcatEmptySeq
    <3>3. Len(Suffix(b, i + 1)) = Len(b) - (i + 1) + 1
      BY <2>4, SuffixIs
    <3>4. Len(r) > 0
      BY <2>3, <3>2, <3>3
    <3>5. r # << >>
      BY <3>4
    <3> QED BY <1>3, <3>5 DEF Joined
  <2> QED BY <2>5, <2>6
<1>6. Suffix(b, i) = e \o Suffix(b, m)
  BY SuffixStep
<1>7. t = [segments |-> << e >> \o W, pending |-> r]
  OBVIOUS
<1> HIDE DEF e, m, W, r
<1> DEFINE V == << e >> \o W
<1>8. Joined(V, r) /\ FlattenSeq(V) = e \o FlattenSeq(W) /\ Len(V) > 0 /\ V[1] = e
  BY <1>2, <1>3, <1>5, PieceBefore
<1> HIDE DEF V
<1>9. FlattenSeq(V) \o r = Suffix(b, i)
  <2>1. (e \o FlattenSeq(W)) \o r = e \o (FlattenSeq(W) \o r)
    <3>1. e \in Seq(Chars) /\ FlattenSeq(W) \in Seq(Chars) /\ r \in Seq(Chars)
      BY <1>2, <1>4
    <3> HIDE DEF e, W, r
    <3> QED BY <3>1, ConcatChars
  <2> QED BY <1>3, <1>6, <1>8, <2>1
<1>10. t.segments = V /\ t.pending = r /\ t = [segments |-> V, pending |-> r]
  <2>1. t = [segments |-> V, pending |-> r]
    BY <1>7 DEF V
  <2>2. t.segments = V
    BY <2>1
  <2>3. t.pending = r
    BY <2>1
  <2> QED BY <2>1, <2>2, <2>3, Zenon
<1>11. i <= Len(b) /\ V[1] = PieceAt(b, i)
  BY <1>8 DEF e
<1> QED BY <1>8, <1>9, <1>10, <1>11 DEF SplitGoes

LEMMA SegmentsSplit ==
  ASSUME Markable, NEW b \in Seq(Chars)
  PROVE  SplitGoes(b, 1, Segments(b))
<1> DEFINE F == CHOOSE f : Splitting(f, b)
<1>1. Splitting(F, b)
  BY SplittingExists
<1>2. Segments(b) = F[1]
  BY DEF Segments, Splitting
<1> HIDE DEF F
<1>3. PICK N \in Nat : N = Len(b)
  OBVIOUS
<1>4. \A i \in 1..N + 1 : F[i] = SplitTurn(b, F, i)
  BY <1>1, <1>3, SplittingIs
<1> DEFINE Goes(i) == SplitGoes(b, i, F[i])
           Bad == {k \in 0..N : ~Goes(N + 1 - k)}
<1>5. ASSUME NEW i \in 1..N + 1, \A j \in i + 1..N + 1 : Goes(j)
      PROVE  Goes(i)
  <2>1. F[i] = SplitTurn(b, F, i)
    BY <1>4
  <2>2. CASE SplitEnds(b, i)
    <3>1. F[i] = [segments |-> << >>, pending |-> Suffix(b, i)]
      BY <2>1, <2>2 DEF SplitTurn
    <3>2. /\ Suffix(b, i) \in Seq(Chars) /\ Len(Suffix(b, i)) = N - i + 1
          /\ \A k \in 1..N - i + 1 : Suffix(b, i)[k] = b[i + k - 1]
      BY <1>3, SuffixIs
    <3>3. Suffix(b, i) \in {<< >>, << "[" >>}
      <4>1. CASE i = N + 1
        <5>1. Len(Suffix(b, i)) = 0
          BY <3>2, <4>1
        <5> QED BY <3>2, <5>1
      <4>2. CASE i # N + 1
        <5>1. i = N /\ b[N] = "["
          BY <1>3, <2>2, <4>2 DEF SplitEnds
        <5> DEFINE u == Suffix(b, i)
                   v == << "[" >>
        <5>2. u \in Seq(Chars) /\ Len(u) = 1 /\ u[1] = "["
          <6>1. N - i + 1 = 1 /\ 1 \in 1..1 /\ i + 1 - 1 = N
            BY <5>1
          <6> QED BY <3>2, <5>1, <6>1
        <5>3. v \in Seq(Chars) /\ Len(v) = 1 /\ v[1] = "["
          BY DEF Markable
        <5> HIDE DEF u, v
        <5>4. \A k \in 1..Len(u) : u[k] = v[k]
          BY <5>2, <5>3
        <5>5. u = v
          BY <5>2, <5>3, <5>4, SeqEqual
        <5> QED BY <5>5 DEF u, v
      <4> QED BY <4>1, <4>2
    <3>4. Joined(<< >>, Suffix(b, i))
      <4>1. << >> \in Seq(Seq(Chars)) /\ Len(<< >>) = 0
        OBVIOUS
      <4>2. Pieces(<< >>)
        BY <4>1 DEF Pieces
      <4> QED BY <3>3, <4>1, <4>2 DEF Joined
    <3>5. FlattenSeq(<< >>) \o Suffix(b, i) = Suffix(b, i)
      BY <3>2, FlattenNone, ConcatEmptySeq
    <3> DEFINE s == F[i]
               u == Suffix(b, i)
    <3>6. s = [segments |-> << >>, pending |-> u] /\ Joined(<< >>, u)
          /\ FlattenSeq(<< >>) \o u = u /\ ~(Len(<< >>) > 0)
      BY <3>1, <3>4, <3>5
    <3> HIDE DEF s, u
    <3>7. s.segments = << >> /\ s.pending = u /\ s = [segments |-> s.segments, pending |-> s.pending]
      BY <3>6
    <3> QED BY <3>6, <3>7 DEF SplitGoes, s, u
  <2>3. CASE ~SplitEnds(b, i)
    <3>1. i \in 1..Len(b)
      BY <1>3, <2>3 DEF SplitEnds
    <3> DEFINE m == i + Len(PieceAt(b, i))
    <3>2. m \in i + 1..N + 1
      BY <1>3, <3>1, PieceAtIs
    <3>3. F[i] = [F[m] EXCEPT !.segments = << PieceAt(b, i) >> \o @]
      BY <2>1, <2>3 DEF SplitTurn
    <3>4. SplitGoes(b, m, F[m])
      BY <1>5, <3>2
    <3>5. F[i] = [segments |-> << PieceAt(b, i) >> \o F[m].segments, pending |-> F[m].pending]
      <4>1. F[m] = [segments |-> F[m].segments, pending |-> F[m].pending]
        BY <3>4 DEF SplitGoes
      <4> HIDE DEF m
      <4> QED BY <3>3, <4>1
    <3> QED BY <2>3, <3>1, <3>4, <3>5, SplitMore
  <2> QED BY <2>2, <2>3
<1>6. Bad = {}
  <2> SUFFICES ASSUME Bad # {} PROVE FALSE
    OBVIOUS
  <2>1. Bad \in SUBSET Nat
    OBVIOUS
  <2>2. PICK k \in Bad : \A j \in Bad : k <= j
    BY <2>1, LeastNumber
  <2>3. k \in 0..N /\ ~Goes(N + 1 - k) /\ N + 1 - k \in 1..N + 1
    OBVIOUS
  <2>4. ASSUME NEW j \in (N + 1 - k) + 1..N + 1 PROVE Goes(j)
    <3> DEFINE m == N + 1 - j
    <3>1. m \in 0..N /\ m < k /\ N + 1 - m = j
      BY <2>3
    <3>2. m \notin Bad
      <4> SUFFICES ASSUME m \in Bad PROVE FALSE
        OBVIOUS
      <4>1. k <= m
        <5> HIDE DEF Bad, m
        <5> QED BY <2>2
      <4> HIDE DEF Bad, m
      <4> QED BY <2>3, <3>1, <4>1
    <3> HIDE DEF m, Goes
    <3> QED BY <3>1, <3>2
  <2> HIDE DEF Goes
  <2> QED BY <1>5, <2>3, <2>4
<1>7. Goes(1)
  <2>1. N \in 0..N /\ N + 1 - N = 1
    OBVIOUS
  <2> HIDE DEF Goes
  <2> QED BY <1>6, <2>1
<1> QED BY <1>2, <1>7

(* More segments after others.                                             *)
LEMMA JoinPieces ==
  ASSUME NEW W, NEW r, Joined(W, r), NEW V, NEW q, Joined(V, q),
         (r = << "[" >> /\ Len(V) > 0) => V[1] # << "]" >>,
         (r = << "[" >> /\ Len(V) = 0) => q = << "[" >>
  PROVE  Joined(W \o V, q)
<1>1. W \in Seq(Seq(Chars)) /\ V \in Seq(Seq(Chars))
  BY DEF Joined, Pieces
<1>2. PICK M \in Nat, N \in Nat : M = Len(W) /\ N = Len(V)
  <2>1. Len(W) \in Nat /\ Len(V) \in Nat
    BY <1>1
  <2> QED BY <2>1, Zenon
<1> DEFINE U == W \o V
<1>3. /\ U \in Seq(Seq(Chars)) /\ Len(U) = M + N
      /\ \A k \in 1..M + N : U[k] = IF k <= M THEN W[k] ELSE V[k - M]
  BY <1>1, <1>2, ConcatProperties
<1> HIDE DEF U
<1>4. (\A k \in 1..M : U[k] = W[k]) /\ (\A k \in 1..N : U[M + k] = V[k])
  <2>1. \A k \in 1..M : k \in 1..M + N
    OBVIOUS
  <2>2. \A k \in 1..N : M + k \in 1..M + N /\ ~(M + k <= M) /\ (M + k) - M = k
    OBVIOUS
  <2> QED BY <1>3, <2>1, <2>2
<1>5. \A k \in 1..M + N : k \in 1..M \/ (k - M \in 1..N /\ M + (k - M) = k)
  OBVIOUS
<1>6. /\ \A k \in 1..M : Segment(W[k])
      /\ \A k \in 1..M : (k < M /\ W[k] = << "[" >>) => W[k + 1] # << "]" >>
      /\ (M > 0 /\ W[M] = << "[" >>) => r = << "[" >>
  BY <1>2 DEF Joined, Pieces
<1>7. /\ \A k \in 1..N : Segment(V[k])
      /\ \A k \in 1..N : (k < N /\ V[k] = << "[" >>) => V[k + 1] # << "]" >>
      /\ (N > 0 /\ V[N] = << "[" >>) => q = << "[" >>
  BY <1>2 DEF Joined, Pieces
<1>8. ASSUME NEW k \in 1..M + N PROVE Segment(U[k])
  <2>1. CASE k \in 1..M
    BY <1>4, <1>6, <2>1
  <2>2. CASE k - M \in 1..N /\ M + (k - M) = k
    <3>1. U[k] = V[k - M]
      BY <1>4, <2>2
    <3> QED BY <1>7, <2>2, <3>1
  <2> QED BY <1>5, <2>1, <2>2
<1>9. ASSUME NEW k \in 1..M + N, k < M + N, U[k] = << "[" >> PROVE U[k + 1] # << "]" >>
  <2>1. CASE k \in 1..M /\ k < M
    <3>1. k + 1 \in 1..M
      BY <2>1
    <3> QED BY <1>4, <1>6, <1>9, <2>1, <3>1
  <2>2. CASE k = M
    <3>1. M \in 1..M /\ M > 0 /\ 1 \in 1..N /\ k + 1 = M + 1 /\ N > 0
      BY <1>9, <2>2
    <3>2. W[M] = << "[" >>
      BY <1>4, <1>9, <2>2, <3>1
    <3>3. r = << "[" >>
      BY <1>6, <3>1, <3>2
    <3>4. V[1] # << "]" >>
      BY <1>2, <3>1, <3>3
    <3>5. U[M + 1] = V[1]
      BY <1>4, <3>1
    <3> QED BY <3>1, <3>4, <3>5
  <2>3. CASE k > M
    <3>1. k - M \in 1..N /\ k - M < N /\ M + (k - M) = k /\ (k - M) + 1 \in 1..N
          /\ M + ((k - M) + 1) = k + 1
      BY <1>9, <2>3
    <3>2. U[k] = V[k - M] /\ U[k + 1] = V[(k - M) + 1]
      BY <1>4, <3>1
    <3> QED BY <1>7, <1>9, <3>1, <3>2
  <2>4. (k \in 1..M /\ k < M) \/ k = M \/ k > M
    OBVIOUS
  <2> QED BY <2>1, <2>2, <2>3, <2>4
<1>10. Pieces(U)
  BY <1>3, <1>8, <1>9 DEF Pieces
<1>11. ASSUME M + N > 0, U[M + N] = << "[" >> PROVE q = << "[" >>
  <2>1. CASE N > 0
    <3>1. N \in 1..N
      BY <2>1
    <3> QED BY <1>4, <1>7, <1>11, <2>1, <3>1
  <2>2. CASE N = 0
    <3>1. M \in 1..M /\ M > 0 /\ M + N = M
      BY <1>11, <2>2
    <3>2. W[M] = << "[" >>
      BY <1>4, <1>11, <3>1
    <3> QED BY <1>2, <1>6, <2>2, <3>1, <3>2
  <2> QED BY <2>1, <2>2
<1>12. q \in {<< >>, << "[" >>}
  BY DEF Joined
<1>13. (Len(U) > 0 /\ U[Len(U)] = << "[" >>) => q = << "[" >>
  BY <1>3, <1>11
<1> QED BY <1>10, <1>12, <1>13 DEF Joined, U

(* What x adds to a text that has been split.                              *)
LEMMA SplitAfter ==
  ASSUME Markable, NEW W, NEW r, Joined(W, r), NEW x \in Seq(Chars), Len(x) > 0,
         NEW b, b = r \o x
  PROVE  /\ Joined(W \o Segments(b).segments, Segments(b).pending)
         /\ FlattenSeq(Segments(b).segments) \o Segments(b).pending = b
         /\ Segments(b).segments \in Seq(Seq(Chars)) /\ Segments(b).pending \in Seq(Chars)
<1> DEFINE V == Segments(b).segments
           q == Segments(b).pending
<1>1. W \in Seq(Seq(Chars)) /\ r \in {<< >>, << "[" >>}
  BY DEF Joined, Pieces
<1>2. r \in Seq(Chars)
  <2>1. "[" \in Chars
    BY DEF Markable
  <2>2. << >> \in Seq(Chars) /\ << "[" >> \in Seq(Chars)
    BY <2>1
  <2> QED BY <1>1, <2>2
<1>3. /\ b \in Seq(Chars) /\ Len(b) = Len(r) + Len(x)
      /\ \A i \in 1..Len(r) + Len(x) : b[i] = IF i <= Len(r) THEN r[i] ELSE x[i - Len(r)]
  BY <1>2, ConcatProperties
<1>4. Segments(b).segments = V /\ Segments(b).pending = q
  OBVIOUS
<1> HIDE DEF V, q
<1>5. /\ Joined(V, q) /\ FlattenSeq(V) \o q = Suffix(b, 1)
      /\ Len(V) > 0 => V[1] = PieceAt(b, 1)
  BY <1>3, <1>4, SegmentsSplit DEF SplitGoes
<1>6. Suffix(b, 1) = b
  BY <1>3, SubSeqFull DEF Suffix
<1>7. V \in Seq(Seq(Chars)) /\ q \in {<< >>, << "[" >>}
  BY <1>5 DEF Joined, Pieces
<1>8. ASSUME r = << "[" >>, Len(V) > 0 PROVE V[1] # << "]" >>
  <2>1. b[1] = "["
    <3>1. Len(r) = 1 /\ r[1] = "[" /\ 1 \in 1..Len(r) + Len(x) /\ 1 <= Len(r)
      BY <1>8
    <3> QED BY <1>3, <3>1
  <2>2. V[1] = PieceAt(b, 1)
    BY <1>5, <1>8
  <2>3. CASE MarkerAt(b, 1)
    BY <2>2, <2>3 DEF PieceAt, REDACTION_MARKER
  <2>4. CASE ~MarkerAt(b, 1)
    <3>1. V[1] = << b[1] >>
      BY <2>2, <2>4 DEF PieceAt
    <3> QED BY <2>1, <3>1
  <2> QED BY <2>3, <2>4
<1>9. ASSUME Len(V) = 0 PROVE q = << "[" >>
  <2>1. V = << >>
    BY <1>7, <1>9
  <2>2. q \in Seq(Chars)
    <3>1. "[" \in Chars
      BY DEF Markable
    <3>2. << >> \in Seq(Chars) /\ << "[" >> \in Seq(Chars)
      BY <3>1
    <3> QED BY <1>7, <3>2
  <2>3. FlattenSeq(V) \o q = q
    BY <2>1, <2>2, FlattenNone, ConcatEmptySeq
  <2>4. q = b
    BY <1>5, <1>6, <2>3
  <2>5. Len(b) > 0
    BY <1>2, <1>3
  <2>6. q # << >>
    BY <2>4, <2>5
  <2> QED BY <1>7, <2>6
<1>10. Joined(W \o V, q)
  BY <1>5, <1>8, <1>9, JoinPieces
<1>11. q \in Seq(Chars)
  <2>1. "[" \in Chars
    BY DEF Markable
  <2>2. << >> \in Seq(Chars) /\ << "[" >> \in Seq(Chars)
    BY <2>1
  <2> QED BY <1>7, <2>2
<1> QED BY <1>5, <1>6, <1>7, <1>10, <1>11 DEF V, q

-----------------------------------------------------------------------------
(* What a capture keeps of the segments W that it was given: the first     *)
(* ones, or the last ones, that fit its limit. *)

Captures ==
  [ retention : {"head", "tail"}, limit : Nat, pending : Seq(Chars),
    segments : Seq(Seq(Chars)), sanitized_bytes_seen : Nat, head_done : BOOLEAN,
    cap_truncated : BOOLEAN, overlap_discarded : BOOLEAN, finished : BOOLEAN ]

KeepsHead(c, W) ==
  /\ ~c.head_done => c.segments = W /\ Bytes(W) <= c.limit /\ ~c.cap_truncated
  /\ c.head_done => c.cap_truncated
  /\ c.head_done =>
       \E k \in 0..Len(W) : /\ k < Len(W) /\ c.segments = SubSeq(W, 1, k)
                            /\ Off(W, k) <= c.limit /\ Off(W, k + 1) > c.limit

KeepsTail(c, W) ==
  /\ ~c.head_done
  /\ \E j \in 1..Len(W) + 1 : /\ c.segments = Suffix(W, j)
                              /\ Bytes(Suffix(W, j)) <= c.limit
                              /\ j > 1 => Bytes(Suffix(W, j - 1)) > c.limit
                              /\ c.cap_truncated <=> j > 1

Keeping(c, W) ==
  /\ c.retention = "head" => KeepsHead(c, W)
  /\ c.retention = "tail" => KeepsTail(c, W)

(* d is c with more segments, and nothing else of it has changed.          *)
Appended(c, d) ==
  /\ d \in Captures
  /\ d.retention = c.retention /\ d.limit = c.limit
  /\ d.sanitized_bytes_seen = c.sanitized_bytes_seen /\ d.finished = c.finished
  /\ d.overlap_discarded = c.overlap_discarded
  /\ d.head_done => d.pending = << >>
  /\ ~d.head_done => d.pending = c.pending

LEMMA BytesAdd ==
  ASSUME NEW s \in Seq(Seq(Chars)), NEW t \in Seq(Seq(Chars))
  PROVE  /\ Bytes(s) \in Nat /\ Bytes(t) \in Nat
         /\ Bytes(s \o t) = Bytes(s) + Bytes(t)
<1>1. FlattenSeq(s) \in Seq(Chars) /\ FlattenSeq(t) \in Seq(Chars)
  BY FlattenType
<1>2. FlattenSeq(s \o t) = FlattenSeq(s) \o FlattenSeq(t)
  BY FlattenConcat
<1>3. Len(FlattenSeq(s) \o FlattenSeq(t)) = Len(FlattenSeq(s)) + Len(FlattenSeq(t))
  BY <1>1, ConcatProperties
<1> QED BY <1>1, <1>2, <1>3 DEF Bytes

LEMMA HeadAppends ==
  ASSUME NEW c \in Captures, ~c.head_done, NEW W \in Seq(Seq(Chars)),
         NEW V \in Seq(Seq(Chars)), KeepsHead(c, W)
  PROVE  Appended(c, AppendHead(c, V)) /\ KeepsHead(AppendHead(c, V), W \o V)
<1> DEFINE fits(k) == Bytes(c.segments \o SubSeq(V, 1, k)) <= c.limit
           Kept(k) == fits(k) /\ (k = Len(V) \/ ~fits(k + 1))
           kept == CHOOSE k \in 0..Len(V) : Kept(k)
           d == AppendHead(c, V)
           U == W \o V
<1>1. c.segments = W /\ Bytes(W) <= c.limit /\ ~c.cap_truncated
  BY DEF KeepsHead
<1>2. PICK M \in Nat, N \in Nat : M = Len(W) /\ N = Len(V)
  OBVIOUS
<1>3. \A k \in 0..N : SubSeq(V, 1, k) \in Seq(Seq(Chars)) /\ SubSeq(U, 1, M + k) = W \o SubSeq(V, 1, k)
  <2>1. \A k \in 0..Len(V) : SubSeq(V, 1, k) \in Seq(Seq(Chars))
    BY TwoParts
  <2>2. \A k \in 0..Len(V) : SubSeq(W \o V, 1, Len(W) + k) = W \o SubSeq(V, 1, k)
    BY PrefixOfConcat
  <2> QED BY <1>2, <2>1, <2>2
<1>4. \A k \in 0..N : fits(k) <=> Off(U, M + k) <= c.limit
  BY <1>1, <1>3 DEF Off
<1>5. U \in Seq(Seq(Chars)) /\ Len(U) = M + N
  BY <1>2, ConcatProperties
<1>6. d = IF kept = Len(V) THEN [c EXCEPT !.segments = @ \o V]
          ELSE [c EXCEPT !.segments = @ \o SubSeq(V, 1, kept),
                         !.head_done = TRUE, !.cap_truncated = TRUE, !.pending = << >>]
  BY DEF AppendHead
<1> HIDE DEF fits, d
<1>7. fits(0)
  <2>1. SubSeq(V, 1, 0) = << >> /\ W \o << >> = W
    BY ConcatEmptySeq
  <2> QED BY <1>1, <2>1 DEF fits
<1>8. \E k \in 0..N : Kept(k)
  <2> DEFINE S == {k \in 0..N : fits(k)}
  <2>1. 0 \in S /\ S \in SUBSET (0..N)
    BY <1>7
  <2> HIDE DEF S
  <2>2. PICK k \in S : \A j \in S : j <= k
    BY <2>1, GreatestNumber
  <2>3. k \in 0..N /\ fits(k)
    BY <2>1 DEF S
  <2>4. ASSUME k # N PROVE ~fits(k + 1)
    <3>1. k + 1 \in 0..N /\ ~(k + 1 <= k)
      BY <2>3, <2>4
    <3>2. k + 1 \notin S
      BY <2>2, <3>1
    <3> QED BY <3>1, <3>2 DEF S
  <2> QED BY <1>2, <2>3, <2>4
<1>9. kept \in 0..N /\ Kept(kept)
  <2> HIDE DEF Kept
  <2> QED BY <1>2, <1>8
<1> HIDE DEF kept, Kept
<1>10. CASE kept = N
  <2>1. d = [c EXCEPT !.segments = W \o V]
    BY <1>1, <1>2, <1>6, <1>10
  <2>2. d.segments = U /\ ~d.head_done /\ ~d.cap_truncated /\ d.limit = c.limit
    BY <1>1, <2>1 DEF Captures
  <2>3. Appended(c, d)
    BY <1>5, <2>1, <2>2 DEF Captures, Appended
  <2>4. Bytes(U) <= c.limit
    <3>1. fits(N) /\ N \in 0..N
      BY <1>9, <1>10 DEF Kept
    <3>2. SubSeq(U, 1, M + N) = U
      BY <1>5, SubSeqFull
    <3> QED BY <1>4, <3>1, <3>2 DEF Off
  <2> HIDE DEF U
  <2>5. KeepsHead(d, U)
    BY <2>2, <2>4 DEF KeepsHead
  <2> QED BY <2>3, <2>5 DEF U, d
<1>11. CASE kept # N
  <2> DEFINE X == SubSeq(V, 1, kept)
  <2>1. d = [c EXCEPT !.segments = W \o X, !.head_done = TRUE, !.cap_truncated = TRUE,
                      !.pending = << >>]
    BY <1>1, <1>2, <1>6, <1>11
  <2>2. X \in Seq(Seq(Chars)) /\ W \o X \in Seq(Seq(Chars)) /\ SubSeq(U, 1, M + kept) = W \o X
    BY <1>3, <1>9, ConcatProperties
  <2> HIDE DEF X
  <2>3. d.segments = W \o X /\ d.head_done /\ d.cap_truncated /\ d.limit = c.limit
    BY <2>1 DEF Captures
  <2>4. d \in Captures
    <3>1. << >> \in Seq(Chars)
      OBVIOUS
    <3> DEFINE Y == W \o X
               z == << >>
    <3>2. Y \in Seq(Seq(Chars)) /\ z \in Seq(Chars)
          /\ d = [c EXCEPT !.segments = Y, !.head_done = TRUE, !.cap_truncated = TRUE, !.pending = z]
      BY <2>1, <2>2, <3>1
    <3> HIDE DEF Y, z
    <3> QED BY <3>2 DEF Captures
  <2>5. Appended(c, d)
    BY <2>1, <2>3, <2>4 DEF Captures, Appended
  <2>6. kept + 1 \in 0..N /\ M + kept \in 0..M + N /\ M + kept < M + N
        /\ (M + kept) + 1 = M + (kept + 1)
    BY <1>9, <1>11
  <2>7. Off(U, M + kept) <= c.limit
    BY <1>4, <1>9 DEF Kept
  <2>8. Off(U, (M + kept) + 1) > c.limit
    <3>1. ~fits(kept + 1)
      BY <1>2, <1>9, <1>11 DEF Kept
    <3>2. ~(Off(U, M + (kept + 1)) <= c.limit)
      BY <1>4, <2>6, <3>1
    <3>3. Off(U, M + (kept + 1)) \in Nat /\ c.limit \in Nat
      <4>1. SubSeq(U, 1, M + (kept + 1)) \in Seq(Seq(Chars))
        BY <1>3, <2>6, ConcatProperties
      <4> QED BY <4>1, FlattenType DEF Off, Bytes, Captures
    <3> QED BY <2>6, <3>2, <3>3
  <2> DEFINE n == M + kept
  <2>9. n \in 0..Len(U) /\ n < Len(U) /\ d.segments = SubSeq(U, 1, n)
        /\ Off(U, n) <= d.limit /\ Off(U, n + 1) > d.limit
    BY <1>5, <2>2, <2>3, <2>6, <2>7, <2>8
  <2> HIDE DEF n, U
  <2>10. KeepsHead(d, U)
    BY <2>3, <2>9 DEF KeepsHead
  <2> QED BY <2>5, <2>10 DEF U, d
<1> QED BY <1>10, <1>11

LEMMA TailAppends ==
  ASSUME NEW c \in Captures, NEW W \in Seq(Seq(Chars)),
         NEW V \in Seq(Seq(Chars)), KeepsTail(c, W)
  PROVE  Appended(c, AppendTail(c, V)) /\ KeepsTail(AppendTail(c, V), W \o V)
<1> DEFINE all == c.segments \o V
           First(k) == /\ Bytes(Suffix(all, k)) <= c.limit
                       /\ k = 1 \/ Bytes(Suffix(all, k - 1)) > c.limit
           first == CHOOSE k \in 1..Len(all) + 1 : First(k)
           d == AppendTail(c, V)
           U == W \o V
<1>1. PICK j \in 1..Len(W) + 1 : /\ c.segments = Suffix(W, j)
                                 /\ Bytes(Suffix(W, j)) <= c.limit
                                 /\ j > 1 => Bytes(Suffix(W, j - 1)) > c.limit
                                 /\ c.cap_truncated <=> j > 1
  BY DEF KeepsTail
<1>2. PICK M \in Nat, N \in Nat : M = Len(W) /\ N = Len(V)
  OBVIOUS
<1>3. U \in Seq(Seq(Chars)) /\ Len(U) = M + N /\ j \in 1..M + 1 /\ ~c.head_done /\ c.limit \in Nat
  BY <1>2, ConcatProperties DEF KeepsTail, Captures
<1>4. all = Suffix(U, j)
  BY <1>1, <1>2, SuffixOfConcat
<1>5. d = [c EXCEPT !.segments = Suffix(all, first), !.cap_truncated = @ \/ first > 1]
  BY DEF AppendTail
<1> HIDE DEF all, d, first
<1>6. PICK L \in Nat : L = Len(all) /\ L = (M + N) - j + 1
  <2>1. j \in 1..Len(U) + 1
    BY <1>3
  <2>2. Len(all) = Len(U) - j + 1
    BY <1>3, <1>4, <2>1, SuffixIs
  <2> QED BY <1>3, <2>2
<1>7. ASSUME NEW k \in 1..L + 1
      PROVE  /\ j + k - 1 \in 1..Len(U) + 1
             /\ Suffix(all, k) = Suffix(U, j + k - 1)
             /\ Suffix(all, k) \in Seq(Seq(Chars)) /\ Bytes(Suffix(all, k)) \in Nat
  <2>1. j \in 1..Len(U) + 1 /\ k \in 1..Len(U) - j + 2 /\ j + k - 1 \in 1..Len(U) + 1
    BY <1>3, <1>6
  <2>2. Suffix(Suffix(U, j), k) = Suffix(U, j + k - 1)
    BY <1>3, <2>1, SuffixOfSuffix
  <2>3. Suffix(U, j + k - 1) \in Seq(Seq(Chars))
    BY <1>3, <2>1, SuffixIs
  <2>4. Suffix(all, k) = Suffix(U, j + k - 1)
    BY <1>4, <2>2
  <2>5. Suffix(all, k) \in Seq(Seq(Chars))
    BY <2>3, <2>4
  <2>6. Bytes(Suffix(all, k)) \in Nat
    BY <2>5, BytesAdd
  <2> QED BY <2>1, <2>4, <2>5, <2>6
<1>8. Bytes(Suffix(all, L + 1)) <= c.limit
  <2>1. j \in 1..Len(U) + 1 /\ j + (L + 1) - 1 \in 1..Len(U) + 1 /\ L + 1 \in 1..L + 1
        /\ Len(U) - (j + (L + 1) - 1) + 1 = 0
    BY <1>3, <1>6
  <2>2. Suffix(all, L + 1) = Suffix(U, j + (L + 1) - 1)
    BY <1>7, <2>1
  <2>3. Suffix(U, j + (L + 1) - 1) \in Seq(Seq(Chars)) /\ Len(Suffix(U, j + (L + 1) - 1)) = 0
    BY <1>3, <2>1, SuffixIs
  <2>4. Suffix(all, L + 1) = << >>
    BY <2>2, <2>3
  <2>5. Bytes(<< >>) = 0
    BY FlattenNone DEF Bytes
  <2> QED BY <1>3, <2>4, <2>5
<1>9. \E k \in 1..L + 1 : First(k)
  <2> DEFINE S == {k \in 1..L + 1 : Bytes(Suffix(all, k)) <= c.limit}
  <2>1. L + 1 \in S /\ S \in SUBSET Nat
    BY <1>8
  <2> HIDE DEF S
  <2>2. PICK k \in S : \A i \in S : k <= i
    BY <2>1, LeastNumber
  <2>3. k \in 1..L + 1 /\ Bytes(Suffix(all, k)) <= c.limit
    BY <2>1 DEF S
  <2>4. ASSUME k # 1 PROVE Bytes(Suffix(all, k - 1)) > c.limit
    <3>1. k - 1 \in 1..L + 1 /\ ~(k <= k - 1)
      BY <2>3, <2>4
    <3>2. k - 1 \notin S
      BY <2>2, <3>1
    <3>3. ~(Bytes(Suffix(all, k - 1)) <= c.limit)
      BY <3>1, <3>2 DEF S
    <3>4. Bytes(Suffix(all, k - 1)) \in Nat
      BY <1>7, <3>1
    <3> QED BY <1>3, <3>3, <3>4
  <2> QED BY <2>3, <2>4
<1>10. first \in 1..L + 1 /\ First(first)
  <2> HIDE DEF First
  <2> QED BY <1>6, <1>9 DEF first
<1> HIDE DEF First
<1> DEFINE X == Suffix(all, first)
           n == j + first - 1
<1>11. n \in 1..Len(U) + 1 /\ X = Suffix(U, n) /\ X \in Seq(Seq(Chars))
  BY <1>7, <1>10
<1> DEFINE more == c.cap_truncated \/ first > 1
<1>12. d = [c EXCEPT !.segments = X, !.cap_truncated = more]
  BY <1>5
<1>13. more \in BOOLEAN
  BY <1>3 DEF Captures
<1>14. more <=> n > 1
  BY <1>1, <1>3, <1>10
<1>15. Bytes(Suffix(U, n)) <= c.limit
  BY <1>10, <1>11 DEF First
<1>16. ASSUME n > 1 PROVE Bytes(Suffix(U, n - 1)) > c.limit
  <2>1. CASE first > 1
    <3>1. first - 1 \in 1..L + 1 /\ j + (first - 1) - 1 = n - 1 /\ first # 1
      BY <1>3, <1>10, <2>1
    <3>2. Suffix(all, first - 1) = Suffix(U, n - 1)
      BY <1>7, <3>1
    <3>3. Bytes(Suffix(all, first - 1)) > c.limit
      BY <1>10, <3>1 DEF First
    <3> QED BY <3>2, <3>3
  <2>2. CASE first = 1
    <3>1. n = j /\ j > 1 /\ j - 1 \in 1..Len(W) + 1
      BY <1>2, <1>3, <1>16, <2>2
    <3>2. Suffix(U, j - 1) = Suffix(W, j - 1) \o V
      BY <3>1, SuffixOfConcat
    <3>3. Suffix(W, j - 1) \in Seq(Seq(Chars))
      BY <3>1, SuffixIs
    <3>4. /\ Bytes(Suffix(W, j - 1)) \in Nat /\ Bytes(V) \in Nat
          /\ Bytes(Suffix(W, j - 1) \o V) = Bytes(Suffix(W, j - 1)) + Bytes(V)
      BY <3>3, BytesAdd
    <3>5. Bytes(Suffix(W, j - 1)) > c.limit
      BY <1>1, <3>1
    <3>6. Bytes(Suffix(U, j - 1)) > c.limit
      <4>1. PICK a \in Nat, b \in Nat : a = Bytes(Suffix(W, j - 1)) /\ b = Bytes(V)
        BY <3>4
      <4>2. Bytes(Suffix(U, j - 1)) = a + b /\ a > c.limit
        BY <3>2, <3>4, <3>5, <4>1
      <4>3. c.limit \in Nat
        BY <1>3
      <4>4. a + b > c.limit
        BY <4>2, <4>3
      <4> QED BY <4>2, <4>4
    <3> QED BY <3>1, <3>6
  <2>3. first > 1 \/ first = 1
    BY <1>10
  <2> QED BY <2>1, <2>2, <2>3
<1> HIDE DEF X, n, more, U
<1>17. d.segments = X /\ d.limit = c.limit /\ d.cap_truncated = more /\ d.head_done = c.head_done
  BY <1>12 DEF Captures
<1>18. d \in Captures
  BY <1>11, <1>12, <1>13 DEF Captures
<1>19. Appended(c, d)
  BY <1>3, <1>12, <1>17, <1>18 DEF Captures, Appended
<1>20. KeepsTail(d, U)
  <2>1. n \in 1..Len(U) + 1 /\ d.segments = Suffix(U, n) /\ Bytes(Suffix(U, n)) <= d.limit
        /\ ~d.head_done
    BY <1>3, <1>11, <1>15, <1>17
  <2>2. n > 1 => Bytes(Suffix(U, n - 1)) > d.limit
    BY <1>16, <1>17
  <2>3. d.cap_truncated <=> n > 1
    BY <1>14, <1>17
  <2> QED BY <2>1, <2>2, <2>3 DEF KeepsTail
<1> QED BY <1>19, <1>20 DEF d, U

(* A capture that keeps no more has all that it will ever keep.            *)
LEMMA DoneKeeps ==
  ASSUME NEW c \in Captures, c.head_done, NEW W \in Seq(Seq(Chars)),
         NEW V \in Seq(Seq(Chars)), Keeping(c, W)
  PROVE  Keeping(c, W \o V)
<1> DEFINE U == W \o V
<1>1. c.retention = "head"
  BY DEF Captures, Keeping, KeepsTail
<1>2. c.cap_truncated /\ \E k \in 0..Len(W) : /\ k < Len(W) /\ c.segments = SubSeq(W, 1, k)
                                              /\ Off(W, k) <= c.limit /\ Off(W, k + 1) > c.limit
  BY <1>1 DEF Keeping, KeepsHead
<1>3. PICK k \in 0..Len(W) : /\ k < Len(W) /\ c.segments = SubSeq(W, 1, k)
                             /\ Off(W, k) <= c.limit /\ Off(W, k + 1) > c.limit
  BY <1>2
<1>4. Len(U) = Len(W) + Len(V) /\ k + 1 \in 0..Len(W)
  BY <1>3, ConcatProperties
<1>5. SubSeq(U, 1, k) = SubSeq(W, 1, k) /\ SubSeq(U, 1, k + 1) = SubSeq(W, 1, k + 1)
  BY <1>4, PrefixOfConcat
<1>6. k \in 0..Len(U) /\ k < Len(U)
  BY <1>3, <1>4
<1>7. Off(U, k) <= c.limit /\ Off(U, k + 1) > c.limit /\ c.segments = SubSeq(U, 1, k)
  BY <1>3, <1>5 DEF Off
<1> HIDE DEF U
<1>8. KeepsHead(c, U)
  BY <1>2, <1>6, <1>7 DEF KeepsHead
<1> QED BY <1>1, <1>8 DEF Keeping, U

LEMMA AppendKeeps ==
  ASSUME NEW c \in Captures, ~c.head_done, NEW W \in Seq(Seq(Chars)),
         NEW V \in Seq(Seq(Chars)), Keeping(c, W)
  PROVE  Appended(c, AppendSegments(c, V)) /\ Keeping(AppendSegments(c, V), W \o V)
<1>1. c.retention \in {"head", "tail"}
  BY DEF Captures
<1>2. CASE c.retention = "head"
  <2>1. AppendSegments(c, V) = AppendHead(c, V)
    BY <1>2 DEF AppendSegments
  <2>2. KeepsHead(c, W)
    BY <1>2 DEF Keeping
  <2>3. Appended(c, AppendHead(c, V)) /\ KeepsHead(AppendHead(c, V), W \o V)
    BY <2>2, HeadAppends
  <2>4. AppendHead(c, V).retention = "head"
    BY <1>2, <2>3 DEF Appended
  <2> QED BY <2>1, <2>3, <2>4 DEF Keeping
<1>3. CASE c.retention = "tail"
  <2>1. AppendSegments(c, V) = AppendTail(c, V)
    BY <1>3 DEF AppendSegments
  <2>2. KeepsTail(c, W)
    BY <1>3 DEF Keeping
  <2>3. Appended(c, AppendTail(c, V)) /\ KeepsTail(AppendTail(c, V), W \o V)
    BY <2>2, TailAppends
  <2>4. AppendTail(c, V).retention = "tail"
    BY <1>3, <2>3 DEF Appended
  <2> QED BY <2>1, <2>3, <2>4 DEF Keeping
<1> QED BY <1>1, <1>2, <1>3

-----------------------------------------------------------------------------
(* A capture that has been fed o, and what is left of it at the end. *)

Capturing(c, o, W, r) ==
  /\ c \in Captures /\ Joined(W, r)
  /\ o = FlattenSeq(W) \o r
  /\ c.sanitized_bytes_seen = Len(o)
  /\ Keeping(c, W)
  /\ c.head_done => c.pending = << >>
  /\ ~c.head_done => c.pending = r

Left(o, source_eof) ==
  IF ~source_eof /\ o # << >> /\ Last(o) = "[" THEN Front(o) ELSE o

Finishing(c, o, source_eof) ==
  \E W : /\ c \in Captures /\ Pieces(W)
         /\ FlattenSeq(W) = Left(o, source_eof)
         /\ c.sanitized_bytes_seen = Len(o)
         /\ Keeping(c, W)

LEMMA KeepingSame ==
  ASSUME NEW c, NEW d, NEW W, Keeping(c, W),
         d.retention = c.retention, d.limit = c.limit, d.segments = c.segments,
         d.head_done = c.head_done, d.cap_truncated = c.cap_truncated
  PROVE  Keeping(d, W)
<1>1. KeepsHead(c, W) => KeepsHead(d, W)
  BY DEF KeepsHead
<1>2. KeepsTail(c, W) => KeepsTail(d, W)
  BY DEF KeepsTail
<1> QED BY <1>1, <1>2 DEF Keeping

LEMMA PendingIs ==
  ASSUME Markable, NEW W, NEW r, Joined(W, r)
  PROVE  /\ W \in Seq(Seq(Chars)) /\ r \in Seq(Chars) /\ r \in {<< >>, << "[" >>}
         /\ FlattenSeq(W) \in Seq(Chars)
<1>1. W \in Seq(Seq(Chars)) /\ r \in {<< >>, << "[" >>}
  BY DEF Joined, Pieces
<1>2. "[" \in Chars
  BY DEF Markable
<1>3. << >> \in Seq(Chars) /\ << "[" >> \in Seq(Chars)
  BY <1>2
<1>4. r \in Seq(Chars)
  BY <1>1, <1>3
<1>5. FlattenSeq(W) \in Seq(Chars)
  BY <1>1, FlattenType
<1> QED BY <1>1, <1>4, <1>5

LEMMA AbsorbCaptures ==
  ASSUME Markable, NEW c, NEW o, NEW W, NEW r, Capturing(c, o, W, r), NEW x \in Seq(Chars)
  PROVE  \E V, q : Capturing(Absorb(c, x), o \o x, V, q)
<1> DEFINE b == r \o x
           seen == [c EXCEPT !.sanitized_bytes_seen = @ + Len(x)]
<1>1. /\ c \in Captures /\ Joined(W, r) /\ o = FlattenSeq(W) \o r
      /\ c.sanitized_bytes_seen = Len(o) /\ Keeping(c, W)
      /\ c.head_done => c.pending = << >>
      /\ ~c.head_done => c.pending = r
  BY DEF Capturing
<1>2. W \in Seq(Seq(Chars)) /\ r \in Seq(Chars) /\ FlattenSeq(W) \in Seq(Chars)
  BY <1>1, PendingIs
<1>3. o \in Seq(Chars) /\ Len(o) \in Nat
  BY <1>1, <1>2, ConcatProperties
<1>4. o \o x \in Seq(Chars) /\ Len(o \o x) = Len(o) + Len(x) /\ Len(o \o x) \in Nat
  BY <1>3, ConcatProperties
<1>5. /\ seen \in Captures /\ seen.sanitized_bytes_seen = Len(o \o x)
      /\ seen.retention = c.retention /\ seen.limit = c.limit /\ seen.segments = c.segments
      /\ seen.head_done = c.head_done /\ seen.cap_truncated = c.cap_truncated
      /\ seen.pending = c.pending
  <2> DEFINE n == Len(o \o x)
  <2>1. seen = [c EXCEPT !.sanitized_bytes_seen = n] /\ n \in Nat
    BY <1>1, <1>4
  <2> HIDE DEF n, seen
  <2> QED BY <1>1, <2>1 DEF Captures, n
<1>6. CASE x = << >>
  <2>1. Absorb(c, x) = seen
    BY <1>6 DEF Absorb
  <2>2. o \o x = o
    BY <1>3, <1>6, ConcatEmptySeq
  <2> HIDE DEF seen
  <2>3. Keeping(seen, W)
    BY <1>1, <1>5, KeepingSame
  <2>4. Capturing(seen, o \o x, W, r)
    BY <1>1, <1>5, <2>2, <2>3 DEF Capturing
  <2> QED BY <2>1, <2>4
<1>7. CASE x # << >>
  <2>1. Len(x) > 0
    BY <1>7
  <2>2. b \in Seq(Chars)
    BY <1>2, ConcatProperties
  <2> DEFINE V == Segments(b).segments
             q == Segments(b).pending
  <2>3. Segments(b).segments = V /\ Segments(b).pending = q
    OBVIOUS
  <2>4. /\ Joined(W \o V, q) /\ o \o x = FlattenSeq(W \o V) \o q
        /\ V \in Seq(Seq(Chars)) /\ q \in Seq(Chars)
    <3>1. Joined(W, r) /\ o = FlattenSeq(W) \o r /\ b = r \o x
      BY <1>1
    <3> HIDE DEF b, seen
    <3>2. Joined(W \o V, q)
      BY <2>1, <3>1, SplitAfter
    <3>3. V \in Seq(Seq(Chars)) /\ q \in Seq(Chars)
      BY <2>1, <3>1, SplitAfter
    <3>4. FlattenSeq(V) \o q = b
      BY <2>1, <3>1, SplitAfter
    <3> DEFINE f == FlattenSeq(W)
               g == FlattenSeq(V)
    <3> HIDE DEF V, q
    <3>5. g \in Seq(Chars)
      BY <3>3, FlattenType
    <3>6. FlattenSeq(W \o V) = f \o g
      BY <1>2, <3>3, FlattenConcat
    <3>7. f \in Seq(Chars) /\ o = f \o r /\ g \o q = b
      BY <1>2, <3>1, <3>4
    <3> HIDE DEF f, g
    <3>8. (f \o r) \o x = f \o (r \o x)
      BY <1>2, <3>7, ConcatAssociative
    <3>9. (f \o g) \o q = f \o (g \o q)
      <4>1. f \in Seq(Chars) /\ g \in Seq(Chars) /\ q \in Seq(Chars)
        BY <3>3, <3>5, <3>7
      <4> QED BY <4>1, ConcatChars
    <3>10. o \o x = FlattenSeq(W \o V) \o q
      BY <3>1, <3>6, <3>7, <3>8, <3>9
    <3> QED BY <3>2, <3>3, <3>10
  <2> HIDE DEF V, q
  <2>5. CASE c.head_done
    <3>1. Absorb(c, x) = seen
      BY <2>5 DEF Absorb
    <3> HIDE DEF seen
    <3>2. Keeping(seen, W) /\ seen.head_done
      BY <1>1, <1>5, <2>5, KeepingSame
    <3>3. Keeping(seen, W \o V)
      BY <1>2, <1>5, <2>4, <3>2, DoneKeeps
    <3>4. Capturing(seen, o \o x, W \o V, q)
      BY <1>1, <1>5, <2>4, <2>5, <3>3 DEF Capturing
    <3> QED BY <3>1, <3>4
  <2>6. CASE ~c.head_done
    <3> DEFINE d == [seen EXCEPT !.pending = q]
               e == AppendSegments(d, V)
    <3>1. c.pending \o x = b
      BY <1>1, <2>6
    <3>2. Absorb(c, x) = e
      <4>1. Absorb(c, x) = AppendSegments([seen EXCEPT !.pending = Segments(c.pending \o x).pending],
                                          Segments(c.pending \o x).segments)
        BY <1>7, <2>6 DEF Absorb
      <4>2. Segments(c.pending \o x).pending = q /\ Segments(c.pending \o x).segments = V
        BY <2>3, <3>1 DEF b
      <4> HIDE DEF seen
      <4> QED BY <4>1, <4>2
    <3> HIDE DEF seen
    <3>3. /\ d \in Captures /\ d.sanitized_bytes_seen = Len(o \o x)
          /\ d.retention = c.retention /\ d.limit = c.limit /\ d.segments = c.segments
          /\ d.head_done = c.head_done /\ d.cap_truncated = c.cap_truncated
          /\ d.pending = q
      BY <1>5, <2>4 DEF Captures
    <3> HIDE DEF d
    <3>4. Keeping(d, W)
      BY <1>1, <3>3, KeepingSame
    <3>5. Appended(d, e) /\ Keeping(e, W \o V)
      BY <1>2, <2>4, <2>6, <3>3, <3>4, AppendKeeps
    <3> HIDE DEF e
    <3>6. Capturing(e, o \o x, W \o V, q)
      BY <2>4, <3>3, <3>5 DEF Capturing, Appended
    <3> QED BY <3>2, <3>6
  <2> QED BY <2>5, <2>6
<1> QED BY <1>6, <1>7

(* The last character of segments with nothing pending.                    *)
LEMMA LastIs ==
  ASSUME Markable, NEW W, Joined(W, << >>), Len(FlattenSeq(W)) > 0
  PROVE  FlattenSeq(W)[Len(FlattenSeq(W))] # "["
<1>1. Pieces(W)
  BY DEF Joined
<1>2. PICK N \in Nat : N = Len(W)
  BY <1>1 DEF Pieces
<1>3. Off(W, N) = Len(FlattenSeq(W)) /\ Off(W, 0) = 0
  BY <1>1, <1>2, OffsetEnds
<1>4. N # 0
  BY <1>3
<1> DEFINE k == N - 1
<1>5. k \in 0..Len(W) /\ k < Len(W) /\ k + 1 = N /\ N \in 1..Len(W)
  BY <1>2, <1>4
<1> HIDE DEF k
<1>6. Off(W, N) = Off(W, k) + Len(W[N]) /\ Len(W[N]) \in {1, 2}
  BY <1>1, <1>5, OffsetSteps
<1>7. Len(W[N]) \in 1..Len(W[N])
  BY <1>6
<1>8. FlattenSeq(W)[Off(W, k) + Len(W[N])] = W[N][Len(W[N])]
  BY <1>1, <1>5, <1>7, OffsetChars
<1>9. W[N] # << "[" >>
  <2>1. << >> # << "[" >>
    <3>1. Len(<< >>) = 0 /\ Len(<< "[" >>) = 1
      OBVIOUS
    <3> QED BY <3>1
  <2> QED BY <1>2, <1>4, <2>1 DEF Joined
<1>10. Segment(W[N])
  BY <1>1, <1>5 DEF Pieces
<1>11. W[N][Len(W[N])] # "["
  <2>1. CASE W[N] = REDACTION_MARKER
    BY <2>1, MarkerIs
  <2>2. CASE \E c \in Chars : W[N] = << c >>
    <3>1. PICK c \in Chars : W[N] = << c >>
      BY <2>2
    <3>2. W[N][Len(W[N])] = c
      BY <3>1
    <3>3. c # "["
      BY <1>9, <3>1
    <3> QED BY <3>2, <3>3
  <2> QED BY <1>10, <2>1, <2>2 DEF Segment
<1> QED BY <1>3, <1>6, <1>8, <1>11

(* What is pending at the end of the source is kept character by character. *)
LEMMA LeftoverIs ==
  ASSUME Markable, NEW W, NEW r, Joined(W, r), NEW V, V = [i \in DOMAIN r |-> << r[i] >>]
  PROVE  /\ V \in Seq(Seq(Chars)) /\ Pieces(W \o V)
         /\ FlattenSeq(W \o V) = FlattenSeq(W) \o r
<1>1. W \in Seq(Seq(Chars)) /\ r \in Seq(Chars) /\ r \in {<< >>, << "[" >>}
      /\ FlattenSeq(W) \in Seq(Chars)
  BY PendingIs
<1>2. CASE r = << >>
  <2>1. V = << >>
    BY <1>2
  <2>2. V \in Seq(Seq(Chars)) /\ W \o V = W
    BY <1>1, <2>1, ConcatEmptySeq
  <2>3. FlattenSeq(W) \o r = FlattenSeq(W)
    BY <1>1, <1>2, ConcatEmptySeq
  <2> QED BY <2>2, <2>3 DEF Joined
<1>3. CASE r = << "[" >>
  <2>1. V = << << "[" >> >>
    <3>1. Len(r) = 1 /\ r[1] = "[" /\ DOMAIN r = 1..1
      BY <1>3
    <3>2. V = [i \in 1..1 |-> << "[" >>]
      BY <3>1
    <3> QED BY <3>2
  <2>2. "[" \in Chars /\ << "[" >> \in Seq(Chars)
    BY DEF Markable
  <2> DEFINE e == << "[" >>
  <2>3. V \in Seq(Seq(Chars)) /\ Len(V) = 1 /\ V[1] = e
    BY <2>1, <2>2
  <2>4. FlattenSeq(V) = r
    BY <1>3, <2>1, <2>2, FlattenOne
  <2>5. e # << "]" >>
    <3>1. e[1] = "[" /\ << "]" >>[1] = "]"
      OBVIOUS
    <3> QED BY <3>1
  <2>6. Segment(e)
    BY <2>2 DEF Segment
  <2> HIDE DEF e
  <2>7. Pieces(V)
    <3>1. \A k \in 1..Len(V) : k = 1 /\ ~(k < Len(V))
      BY <2>3
    <3> QED BY <2>3, <2>6, <3>1 DEF Pieces
  <2>8. Joined(V, r)
    BY <1>3, <2>7 DEF Joined
  <2>9. Joined(W \o V, r)
    <3>1. V[1] # << "]" >> /\ Len(V) # 0
      BY <2>3, <2>5
    <3> QED BY <2>8, <3>1, JoinPieces
  <2>10. FlattenSeq(W \o V) = FlattenSeq(W) \o FlattenSeq(V)
    BY <1>1, <2>3, FlattenConcat
  <2> QED BY <2>3, <2>4, <2>9, <2>10 DEF Joined
<1> QED BY <1>1, <1>2, <1>3

(* What is pending before the end of the source is dropped.                *)
LEMMA LeftIs ==
  ASSUME Markable, NEW W, NEW r, Joined(W, r), NEW o, o = FlattenSeq(W) \o r
  PROVE  Left(o, TRUE) = o /\ Left(o, FALSE) = FlattenSeq(W)
<1> DEFINE f == FlattenSeq(W)
<1>1. r \in {<< >>, << "[" >>} /\ f \in Seq(Chars)
  BY PendingIs
<1>2. Left(o, TRUE) = o
  BY DEF Left
<1>3. CASE r = << >>
  <2>1. o = f
    BY <1>1, <1>3, ConcatEmptySeq
  <2>2. ASSUME o # << >> PROVE Last(o) # "["
    <3>1. Len(f) > 0
      BY <1>1, <2>1, <2>2
    <3>2. f[Len(f)] # "["
      BY <1>3, <3>1, LastIs
    <3> HIDE DEF f
    <3> QED BY <2>1, <3>2 DEF Last
  <2> HIDE DEF f
  <2>3. Left(o, FALSE) = o
    BY <2>2 DEF Left
  <2> QED BY <1>2, <2>1, <2>3 DEF f
<1>4. CASE r = << "[" >>
  <2>1. r \in Seq(Chars) /\ Len(r) = 1 /\ r[1] = "["
    BY <1>4 DEF Markable
  <2>2. o = f \o r
    OBVIOUS
  <2> HIDE DEF f
  <2>3. PICK n \in Nat : n = Len(f)
    BY <1>1
  <2>4. /\ o \in Seq(Chars) /\ Len(o) = n + 1
        /\ \A i \in 1..n + 1 : o[i] = IF i <= n THEN f[i] ELSE r[i - n]
    BY <1>1, <2>1, <2>2, <2>3, ConcatProperties
  <2>5. o # << >>
    BY <2>4
  <2>6. Last(o) = "["
    <3>1. n + 1 \in 1..n + 1 /\ ~(n + 1 <= n) /\ (n + 1) - n = 1
      OBVIOUS
    <3>2. o[n + 1] = r[1]
      BY <2>4, <3>1
    <3> QED BY <2>1, <2>4, <3>2 DEF Last
  <2>7. Front(o) = f
    <3>1. n \in 0..Len(f)
      BY <2>3
    <3>2. SubSeq(f \o r, 1, n) = SubSeq(f, 1, n)
      BY <1>1, <2>1, <3>1, PrefixOfConcat
    <3>3. SubSeq(f, 1, n) = f
      BY <1>1, <2>3, SubSeqFull
    <3>4. Len(o) - 1 = n
      BY <2>4
    <3> QED BY <2>2, <3>2, <3>3, <3>4 DEF Front
  <2>8. Left(o, FALSE) = Front(o)
    BY <2>5, <2>6 DEF Left
  <2> QED BY <1>2, <2>7, <2>8 DEF f
<1> QED BY <1>1, <1>3, <1>4

LEMMA FinishCaptures ==
  ASSUME Markable, NEW c, NEW o, NEW W, NEW r, Capturing(c, o, W, r),
         NEW source_eof \in BOOLEAN
  PROVE  Finishing(FinishCapture(c, source_eof), o, source_eof)
<1> DEFINE closed == [c EXCEPT !.pending = << >>, !.finished = TRUE]
           V == [i \in DOMAIN r |-> << r[i] >>]
<1>1. /\ c \in Captures /\ Joined(W, r) /\ o = FlattenSeq(W) \o r
      /\ c.sanitized_bytes_seen = Len(o) /\ Keeping(c, W)
      /\ ~c.head_done => c.pending = r
  BY DEF Capturing
<1>2. W \in Seq(Seq(Chars)) /\ Pieces(W)
  BY <1>1, PendingIs DEF Joined
<1>3. /\ V \in Seq(Seq(Chars)) /\ Pieces(W \o V)
      /\ FlattenSeq(W \o V) = FlattenSeq(W) \o r
  BY <1>1, LeftoverIs
<1>4. Left(o, TRUE) = o /\ Left(o, FALSE) = FlattenSeq(W)
  BY <1>1, LeftIs
<1>5. /\ closed \in Captures /\ closed.sanitized_bytes_seen = Len(o)
      /\ closed.retention = c.retention /\ closed.limit = c.limit /\ closed.segments = c.segments
      /\ closed.head_done = c.head_done /\ closed.cap_truncated = c.cap_truncated
  <2>1. c \in Captures /\ c.sanitized_bytes_seen = Len(o)
    BY <1>1
  <2>2. << >> \in Seq(Chars)
    OBVIOUS
  <2> DEFINE e == << >>
  <2>3. closed = [c EXCEPT !.pending = e, !.finished = TRUE] /\ e \in Seq(Chars)
    BY <2>2
  <2> HIDE DEF e, closed
  <2>4. closed \in Captures
    BY <2>1, <2>3 DEF Captures
  <2> QED BY <2>1, <2>3, <2>4 DEF Captures
<1>6. Keeping(closed, W)
  <2> HIDE DEF closed
  <2> QED BY <1>1, <1>5, KeepingSame
<1>7. CASE source_eof = TRUE
  <2>1. FlattenSeq(W \o V) = Left(o, TRUE)
    BY <1>1, <1>3, <1>4
  <2>2. CASE c.head_done
    <3>1. FinishCapture(c, TRUE) = closed
      BY <2>2 DEF FinishCapture
    <3> HIDE DEF closed, V
    <3>2. Keeping(closed, W \o V)
      BY <1>2, <1>3, <1>5, <1>6, <2>2, DoneKeeps
    <3>3. Finishing(closed, o, TRUE)
      BY <1>3, <1>5, <2>1, <3>2 DEF Finishing
    <3> QED BY <1>7, <3>1, <3>3
  <2>3. CASE ~c.head_done
    <3> DEFINE e == AppendSegments(closed, V)
    <3>1. FinishCapture(c, TRUE) = e
      <4>1. FinishCapture(c, TRUE)
              = AppendSegments(closed, [i \in DOMAIN c.pending |-> << c.pending[i] >>])
        BY <2>3 DEF FinishCapture
      <4>2. c.pending = r
        BY <1>1, <2>3
      <4> HIDE DEF closed
      <4> QED BY <4>1, <4>2
    <3> HIDE DEF closed, V
    <3>2. Appended(closed, e) /\ Keeping(e, W \o V)
      BY <1>2, <1>3, <1>5, <1>6, <2>3, AppendKeeps
    <3> HIDE DEF e
    <3>3. e \in Captures /\ e.sanitized_bytes_seen = Len(o)
      BY <1>5, <3>2 DEF Appended
    <3>4. Finishing(e, o, TRUE)
      BY <1>3, <2>1, <3>2, <3>3 DEF Finishing
    <3> QED BY <1>7, <3>1, <3>4
  <2> QED BY <2>2, <2>3
<1>8. CASE source_eof = FALSE
  <2> DEFINE dropped == c.pending # << >>
             e == [closed EXCEPT !.overlap_discarded = dropped]
  <2>1. FinishCapture(c, FALSE) = e
    BY DEF FinishCapture
  <2>2. dropped \in BOOLEAN
    OBVIOUS
  <2> HIDE DEF closed, dropped
  <2>3. /\ e \in Captures /\ e.sanitized_bytes_seen = Len(o)
        /\ e.retention = closed.retention /\ e.limit = closed.limit
        /\ e.segments = closed.segments /\ e.head_done = closed.head_done
        /\ e.cap_truncated = closed.cap_truncated
    BY <1>5, <2>2 DEF Captures
  <2> HIDE DEF e
  <2>4. Keeping(e, W)
    BY <1>6, <2>3, KeepingSame
  <2>5. Finishing(e, o, FALSE)
    BY <1>2, <1>4, <2>3, <2>4 DEF Finishing
  <2> QED BY <1>8, <2>1, <2>5
<1> QED BY <1>7, <1>8

-----------------------------------------------------------------------------
(* What has been kept is the window that the limit leaves of the text.     *)

LEMMA OffsetOrder ==
  ASSUME NEW W, Pieces(W), NEW j \in 0..Len(W), NEW k \in 0..Len(W)
  PROVE  /\ j <= k => Off(W, j) <= Off(W, k)
         /\ Off(W, j) \in Nat /\ Off(W, k) \in Nat
<1>1. Off(W, j) \in 0..Len(FlattenSeq(W)) /\ Off(W, k) \in 0..Len(FlattenSeq(W))
  BY OffsetParts
<1>2. Off(W, j) \in Nat /\ Off(W, k) \in Nat
  BY <1>1
<1>3. j < k => Off(W, j) < Off(W, k)
  BY OffsetGrows
<1>4. CASE j < k
  <2> DEFINE a == Off(W, j)
             b == Off(W, k)
  <2>1. a < b /\ a \in Nat /\ b \in Nat
    BY <1>2, <1>3, <1>4
  <2> HIDE DEF a, b
  <2>2. a <= b
    BY <2>1
  <2> QED BY <1>2, <2>2 DEF a, b
<1>5. CASE j = k
  <2>1. Off(W, j) <= Off(W, k)
    BY <1>2, <1>5
  <2> QED BY <1>2, <2>1
<1>6. CASE j > k
  <2>1. ~(j <= k)
    BY <1>6
  <2> QED BY <1>2, <2>1
<1>7. Len(W) \in Nat
  BY OffsetEnds
<1>8. j < k \/ j = k \/ j > k
  BY <1>7
<1> QED BY <1>4, <1>5, <1>6, <1>8

LEMMA HeadWindow ==
  ASSUME NEW f \in Seq(Chars), NEW m \in CutsOf(f), capture.retention = "head",
         m <= capture.limit, \A j \in CutsOf(f) : j <= capture.limit => j <= m
  PROVE  Window(f) = SubSeq(f, 1, m)
<1> DEFINE Best(k) == k <= capture.limit /\ \A j \in CutsOf(f) : j <= capture.limit => j <= k
           n == CHOOSE k \in CutsOf(f) : Best(k)
<1>1. Window(f) = SubSeq(f, 1, n)
  BY DEF Window
<1>2. Best(m)
  OBVIOUS
<1> HIDE DEF Best
<1>3. n \in CutsOf(f) /\ Best(n)
  BY <1>2
<1> HIDE DEF n
<1>4. n <= m /\ m <= n
  BY <1>2, <1>3 DEF Best
<1>5. n \in Nat /\ m \in Nat
  BY <1>3 DEF CutsOf
<1>6. n = m
  BY <1>4, <1>5
<1> QED BY <1>1, <1>6

LEMMA TailWindow ==
  ASSUME NEW f \in Seq(Chars), NEW m \in CutsOf(f), capture.retention = "tail",
         Len(f) - m <= capture.limit,
         \A j \in CutsOf(f) : Len(f) - j <= capture.limit => m <= j
  PROVE  Window(f) = Suffix(f, m + 1)
<1> DEFINE Best(k) == /\ Len(f) - k <= capture.limit
                      /\ \A j \in CutsOf(f) : Len(f) - j <= capture.limit => k <= j
           n == CHOOSE k \in CutsOf(f) : Best(k)
<1>1. Window(f) = Suffix(f, 1 + n)
  <2>1. capture.retention # "head"
    OBVIOUS
  <2> QED BY <2>1 DEF Window
<1>2. Best(m)
  OBVIOUS
<1> HIDE DEF Best
<1>3. n \in CutsOf(f) /\ Best(n)
  BY <1>2
<1> HIDE DEF n
<1>4. n <= m /\ m <= n
  BY <1>2, <1>3 DEF Best
<1>5. n \in Nat /\ m \in Nat
  BY <1>3 DEF CutsOf
<1>6. 1 + n = m + 1
  BY <1>4, <1>5
<1> QED BY <1>1, <1>6

LEMMA HeadKept ==
  ASSUME capture \in Captures, capture.retention = "head", NEW W, Pieces(W),
         KeepsHead(capture, W)
  PROVE  /\ FlattenSeq(capture.segments) = Window(FlattenSeq(W))
         /\ capture.cap_truncated <=> Window(FlattenSeq(W)) # FlattenSeq(W)
<1> DEFINE f == FlattenSeq(W)
           lim == capture.limit
<1>1. PICK N \in Nat : N = Len(W) /\ Off(W, 0) = 0 /\ Off(W, N) = Len(f)
  BY OffsetEnds
<1>2. /\ \A k \in 0..N : Off(W, k) \in CutsOf(f)
      /\ \A m \in CutsOf(f) : \E k \in 0..N : m = Off(W, k)
  BY <1>1, PieceCuts
<1>3. f \in Seq(Chars)
  <2>1. W \in Seq(Seq(Chars))
    BY DEF Pieces
  <2> QED BY <2>1, FlattenType
<1>4. lim \in Nat
  BY DEF Captures
<1>5. CASE ~capture.head_done
  <2>1. capture.segments = W /\ Len(f) <= lim /\ ~capture.cap_truncated
    BY <1>5 DEF KeepsHead, Bytes
  <2>2. Len(f) \in CutsOf(f)
    <3>1. N \in 0..N
      OBVIOUS
    <3> HIDE DEF f
    <3> QED BY <1>1, <1>2, <3>1
  <2>3. \A j \in CutsOf(f) : j <= Len(f)
    BY <1>3 DEF CutsOf
  <2> HIDE DEF f, lim
  <2>4. Window(f) = SubSeq(f, 1, Len(f))
    BY <1>3, <2>1, <2>2, <2>3, HeadWindow DEF lim
  <2>5. Window(f) = f
    BY <1>3, <2>4, SubSeqFull
  <2> QED BY <2>1, <2>5 DEF f
<1>6. CASE capture.head_done
  <2>1. capture.cap_truncated
    BY <1>6 DEF KeepsHead
  <2>2. PICK k \in 0..Len(W) : /\ k < Len(W) /\ capture.segments = SubSeq(W, 1, k)
                               /\ Off(W, k) <= lim /\ Off(W, k + 1) > lim
    BY <1>6 DEF KeepsHead
  <2>3. k \in 0..N /\ k + 1 \in 0..N /\ k < k + 1
    BY <1>1, <2>2
  <2> DEFINE m == Off(W, k)
  <2>4. m \in CutsOf(f)
    BY <1>2, <2>3
  <2>5. ASSUME NEW j \in CutsOf(f), j <= lim PROVE j <= m
    <3>1. PICK i \in 0..N : j = Off(W, i)
      BY <1>2
    <3>2. CASE i <= k
      BY <1>1, <2>3, <3>1, <3>2, OffsetOrder
    <3>3. CASE k + 1 <= i
      <4> DEFINE a == Off(W, k + 1)
                 b == Off(W, i)
      <4>1. a <= b /\ a \in Nat /\ b \in Nat /\ a > lim /\ b <= lim
        BY <1>1, <2>2, <2>3, <2>5, <3>1, <3>3, OffsetOrder
      <4> HIDE DEF a, b, lim
      <4>2. FALSE
        BY <1>4, <4>1
      <4> QED BY <4>2
    <3>4. i <= k \/ k + 1 <= i
      BY <2>3
    <3> QED BY <3>2, <3>3, <3>4
  <2>6. Window(f) = SubSeq(f, 1, m)
    <3>1. m <= lim
      BY <2>2
    <3> HIDE DEF f, m, lim
    <3> QED BY <1>3, <2>4, <2>5, <3>1, HeadWindow DEF lim
  <2>7. SubSeq(f, 1, m) = FlattenSeq(SubSeq(W, 1, k))
    BY <2>2, OffsetParts
  <2>8. Window(f) # f
    <3>1. Off(W, k) < Off(W, k + 1) /\ Off(W, k) \in 0..Len(f) /\ Off(W, k + 1) \in 0..Len(f)
      BY <1>1, <2>3, OffsetGrows, OffsetParts
    <3> HIDE DEF f
    <3>2. m \in 0..Len(f) /\ m # Len(f)
      BY <1>3, <3>1
    <3> HIDE DEF m
    <3>3. Len(SubSeq(f, 1, m)) = m
      BY <1>3, <3>2, TwoParts
    <3> QED BY <2>6, <3>2, <3>3
  <2> QED BY <2>1, <2>2, <2>6, <2>7, <2>8
<1>7. capture.head_done \in BOOLEAN
  BY DEF Captures
<1> QED BY <1>5, <1>6, <1>7

LEMMA TailKept ==
  ASSUME capture \in Captures, capture.retention = "tail", NEW W, Pieces(W),
         KeepsTail(capture, W)
  PROVE  /\ FlattenSeq(capture.segments) = Window(FlattenSeq(W))
         /\ capture.cap_truncated <=> Window(FlattenSeq(W)) # FlattenSeq(W)
<1> DEFINE f == FlattenSeq(W)
           lim == capture.limit
<1>1. PICK N \in Nat : N = Len(W) /\ Off(W, 0) = 0
  BY OffsetEnds
<1>2. /\ \A k \in 0..N : Off(W, k) \in CutsOf(f)
      /\ \A m \in CutsOf(f) : \E k \in 0..N : m = Off(W, k)
  BY <1>1, PieceCuts
<1>3. f \in Seq(Chars)
  <2>1. W \in Seq(Seq(Chars))
    BY DEF Pieces
  <2> QED BY <2>1, FlattenType
<1>4. lim \in Nat
  BY DEF Captures
<1>5. PICK j \in 1..Len(W) + 1 : /\ capture.segments = Suffix(W, j)
                                 /\ Bytes(Suffix(W, j)) <= lim
                                 /\ j > 1 => Bytes(Suffix(W, j - 1)) > lim
                                 /\ capture.cap_truncated <=> j > 1
  BY DEF KeepsTail
<1> DEFINE k == j - 1
           m == Off(W, k)
<1>6. k \in 0..N /\ k + 1 = j /\ (j > 1 <=> k > 0)
  BY <1>1, <1>5
<1> HIDE DEF k
<1>7. /\ Suffix(f, m + 1) = FlattenSeq(capture.segments)
      /\ Len(f) - m <= lim /\ m \in 0..Len(f)
  <2>1. /\ m \in 0..Len(f)
        /\ Suffix(f, m + 1) = FlattenSeq(Suffix(W, k + 1))
        /\ Bytes(Suffix(W, k + 1)) = Len(f) - m
    BY <1>1, <1>6, OffsetParts
  <2> HIDE DEF f, m
  <2> QED BY <1>5, <1>6, <2>1
<1>8. m \in CutsOf(f)
  BY <1>2, <1>6
<1>9. ASSUME NEW i \in 0..N, i < k PROVE Len(f) - Off(W, i) > lim
  <2> DEFINE h == k - 1
  <2>1. k > 0 /\ h \in 0..N /\ i <= h /\ h + 1 = j - 1 /\ j > 1
    BY <1>6, <1>9
  <2>2. Bytes(Suffix(W, j - 1)) > lim
    BY <1>5, <2>1
  <2> HIDE DEF h
  <2>3. Bytes(Suffix(W, h + 1)) = Len(f) - Off(W, h) /\ Off(W, h) \in 0..Len(f)
    BY <1>1, <2>1, OffsetParts
  <2>4. Off(W, i) <= Off(W, h) /\ Off(W, i) \in Nat
    BY <1>1, <2>1, OffsetOrder
  <2> DEFINE a == Off(W, i)
             b == Off(W, h)
  <2>5. Len(f) - b > lim
    BY <2>1, <2>2, <2>3
  <2>6. a \in Nat /\ b \in Nat /\ a <= b /\ Len(f) \in Nat
    BY <1>3, <2>3, <2>4
  <2> HIDE DEF a, b, lim, f
  <2>7. Len(f) - a > lim
    BY <1>4, <2>5, <2>6
  <2> QED BY <2>7 DEF a
<1>10. ASSUME NEW n \in CutsOf(f), Len(f) - n <= lim PROVE m <= n
  <2>1. PICK i \in 0..N : n = Off(W, i)
    BY <1>2
  <2>2. ~(i < k)
    <3>1. ASSUME i < k PROVE FALSE
      <4>1. Len(f) - n > lim
        BY <1>9, <2>1, <3>1
      <4>2. n \in Nat /\ Len(f) \in Nat
        BY <1>3 DEF CutsOf
      <4> HIDE DEF f, lim
      <4> QED BY <1>4, <1>10, <4>1, <4>2
    <3> QED BY <3>1
  <2>3. k <= i
    BY <1>6, <2>2
  <2> QED BY <1>1, <1>6, <2>1, <2>3, OffsetOrder
<1>11. Window(f) = Suffix(f, m + 1)
  <2> HIDE DEF f, m, lim
  <2> QED BY <1>3, <1>7, <1>8, <1>10, TailWindow DEF lim
<1>12. Window(f) # f <=> j > 1
  <2>1. CASE j > 1
    <3>1. 0 \in 0..N /\ 0 < k
      BY <1>6, <2>1
    <3>2. Off(W, 0) < Off(W, k)
      BY <1>1, <1>6, <3>1, OffsetGrows
    <3>3. 0 < m
      BY <1>1, <3>2
    <3> HIDE DEF f, m
    <3>4. Len(Suffix(f, m + 1)) = Len(f) - m
      BY <1>3, <1>7, TwoParts
    <3>5. Len(f) - m # Len(f)
      BY <1>3, <1>7, <3>3
    <3>6. Window(f) # f
      BY <1>11, <3>4, <3>5
    <3> QED BY <2>1, <3>6
  <2>2. CASE ~(j > 1)
    <3>1. k = 0 /\ m = 0
      <4>1. k = 0
        BY <1>6, <2>2
      <4> QED BY <1>1, <4>1
    <3>2. Suffix(f, 1) = f
      <4> HIDE DEF f
      <4> QED BY <1>3, SubSeqFull DEF Suffix
    <3>3. m + 1 = 1
      BY <3>1
    <3> HIDE DEF f, m
    <3>4. Window(f) = f
      BY <1>11, <3>2, <3>3
    <3> QED BY <2>2, <3>4
  <2> QED BY <2>1, <2>2
<1> HIDE DEF f, m, lim
<1>13. FlattenSeq(capture.segments) = Window(f)
  BY <1>7, <1>11
<1>14. capture.cap_truncated <=> Window(f) # f
  <2>1. capture.cap_truncated <=> j > 1
    BY <1>5
  <2> QED BY <1>12, <2>1, Zenon
<1> QED BY <1>13, <1>14 DEF f

LEMMA WindowIs ==
  ASSUME NEW o, NEW source_eof, Finishing(capture, o, source_eof)
  PROVE  /\ capture.sanitized_bytes_seen = Len(o)
         /\ FlattenSeq(capture.segments) = Window(Left(o, source_eof))
         /\ capture.cap_truncated <=> Window(Left(o, source_eof)) # Left(o, source_eof)
<1>1. PICK W : /\ capture \in Captures /\ Pieces(W)
               /\ FlattenSeq(W) = Left(o, source_eof)
               /\ capture.sanitized_bytes_seen = Len(o)
               /\ Keeping(capture, W)
  BY DEF Finishing
<1>2. capture.retention \in {"head", "tail"}
  BY <1>1 DEF Captures
<1>3. CASE capture.retention = "head"
  <2>1. KeepsHead(capture, W)
    BY <1>1, <1>3 DEF Keeping
  <2>2. /\ FlattenSeq(capture.segments) = Window(FlattenSeq(W))
        /\ capture.cap_truncated <=> Window(FlattenSeq(W)) # FlattenSeq(W)
    BY <1>1, <1>3, <2>1, HeadKept
  <2> QED BY <1>1, <2>2
<1>4. CASE capture.retention = "tail"
  <2>1. KeepsTail(capture, W)
    BY <1>1, <1>4 DEF Keeping
  <2>2. /\ FlattenSeq(capture.segments) = Window(FlattenSeq(W))
        /\ capture.cap_truncated <=> Window(FlattenSeq(W)) # FlattenSeq(W)
    BY <1>1, <1>4, <2>1, TailKept
  <2> QED BY <1>1, <2>2
<1> QED BY <1>2, <1>3, <1>4

-----------------------------------------------------------------------------
(* The capture's part of the inductive invariant: what it keeps is part of *)
(* a way to cut what has been emitted into segments.                       *)

CaptureInv ==
  /\ stream.state = "open" => \E W, r : Capturing(capture, output, W, r)
  /\ stream.state = "ended" => Finishing(capture, output, TRUE)
  /\ stream.state = "cut" => Finishing(capture, output, FALSE)

LEMMA CaptureInit == Init => CaptureInv
<1> SUFFICES ASSUME Init PROVE CaptureInv
  OBVIOUS
<1> DEFINE e == << >>
<1>1. /\ stream.state = "open" /\ output = e
      /\ capture \in [ retention : {"head", "tail"}, limit : Limits, pending : {e},
                       segments : {e}, sanitized_bytes_seen : {0}, head_done : {FALSE},
                       cap_truncated : {FALSE}, overlap_discarded : {FALSE},
                       finished : {FALSE} ]
  BY DEF Init
<1>2. /\ e \in Seq(Chars) /\ e \in Seq(Seq(Chars)) /\ Len(e) = 0 /\ Limits \subseteq Nat
      /\ e \o e = e
  BY CaptureAssumption
<1>3. FlattenSeq(e) = e /\ Bytes(e) = 0
  BY FlattenNone DEF Bytes
<1>4. Suffix(e, 1) = e
  BY <1>2, SubSeqFull DEF Suffix
<1>5. Joined(e, e)
  <2>1. Pieces(e)
    BY <1>2 DEF Pieces
  <2> QED BY <1>2, <2>1 DEF Joined
<1> HIDE DEF e
<1>6. /\ capture \in Captures /\ capture.pending = e /\ capture.segments = e
      /\ capture.sanitized_bytes_seen = 0 /\ capture.head_done = FALSE
      /\ capture.cap_truncated = FALSE /\ capture.limit \in Nat
  <2>1. /\ {"head", "tail"} \subseteq {"head", "tail"} /\ Limits \subseteq Nat
        /\ {e} \subseteq Seq(Chars) /\ {e} \subseteq Seq(Seq(Chars))
        /\ {0} \subseteq Nat /\ {FALSE} \subseteq BOOLEAN
    BY <1>2
  <2>2. capture \in Captures
    BY <1>1, <2>1, Zenon DEF Captures
  <2>3. /\ capture.pending \in {e} /\ capture.segments \in {e}
        /\ capture.sanitized_bytes_seen \in {0} /\ capture.head_done \in {FALSE}
        /\ capture.cap_truncated \in {FALSE} /\ capture.limit \in Limits
    BY <1>1
  <2> QED BY <2>1, <2>2, <2>3
<1>7. KeepsHead(capture, e)
  BY <1>3, <1>6 DEF KeepsHead
<1>8. KeepsTail(capture, e)
  <2>1. 1 \in 1..Len(e) + 1 /\ ~(1 > 1)
    BY <1>2
  <2> QED BY <1>3, <1>4, <1>6, <2>1 DEF KeepsTail
<1>9. Capturing(capture, output, e, e)
  <2>1. Keeping(capture, e)
    BY <1>7, <1>8 DEF Keeping
  <2> QED BY <1>1, <1>2, <1>3, <1>5, <1>6, <2>1 DEF Capturing
<1> QED BY <1>1, <1>9 DEF CaptureInv

LEMMA CaptureFeed ==
  ASSUME StreamInv, CaptureInv, NEW n \in 1..Len(text), Feed(n)
  PROVE  CaptureInv'
<1> DEFINE R == stream.snapshot
           x == SubSeq(text, at + 1, at + n)
           d == stream.carry \o x
           s == Scan(d, TRUE)
<1>1. /\ stream.state = "open" /\ at + n <= Len(text)
      /\ stream' = [stream EXCEPT !.carry = Suffix(d, s.cut)]
      /\ output' = output \o s.out /\ capture' = Absorb(capture, s.out)
  BY DEF Feed, Emit
<1>2. Types /\ Open(R, Arrived, stream.carry, output)
  BY <1>1 DEF StreamInv, Streaming
<1>3. Markable
  BY CaptureAssumption DEF Markable
<1>4. text \in Seq(Chars) /\ at \in 0..Len(text) /\ n \in Nat /\ Registered(R)
  BY <1>2 DEF Types
<1>5. Arrived \in Seq(Chars) /\ x \in Seq(Chars)
  BY <1>1, <1>4, ArrivedIs DEF Arrived
<1> HIDE DEF x
<1>6. s.out \in Seq(Chars)
  BY <1>2, <1>3, <1>4, <1>5, FeedOpens
<1> HIDE DEF s, d
<1>7. PICK W, r : Capturing(capture, output, W, r)
  BY <1>1 DEF CaptureInv
<1>8. \E V, q : Capturing(Absorb(capture, s.out), output \o s.out, V, q)
  BY <1>3, <1>6, <1>7, AbsorbCaptures
<1>9. stream'.state = "open"
  BY <1>1, <1>2 DEF Types
<1> QED BY <1>1, <1>8, <1>9 DEF CaptureInv

LEMMA CaptureFinish ==
  ASSUME StreamInv, CaptureInv, NEW source_eof \in BOOLEAN, Finish(source_eof)
  PROVE  CaptureInv'
<1> DEFINE R == stream.snapshot
<1>1. PICK s : /\ source_eof => s = Scan(stream.carry, FALSE)
               /\ ~source_eof => s = [out |-> << >>, cut |-> 1]
               /\ stream' = [stream EXCEPT !.carry = << >>,
                                           !.state = IF source_eof THEN "ended" ELSE "cut",
                                           !.discarded = s.cut <= Len(stream.carry)]
               /\ output' = output \o s.out
               /\ capture' = FinishCapture(Absorb(capture, s.out), source_eof)
  BY DEF Finish, Emit
<1>2. stream.state = "open"
  BY DEF Finish
<1>3. Types /\ Open(R, Arrived, stream.carry, output)
  BY <1>2 DEF StreamInv, Streaming
<1>4. Markable
  BY CaptureAssumption DEF Markable
<1>5. text \in Seq(Chars) /\ at \in 0..Len(text) /\ Registered(R)
  BY <1>3 DEF Types
<1>6. Arrived \in Seq(Chars)
  BY <1>5, ArrivedIs DEF Arrived
<1>7. s.out \in Seq(Chars)
  BY <1>1, <1>3, <1>4, <1>5, <1>6, FinishCloses
<1>8. stream'.state = IF source_eof THEN "ended" ELSE "cut"
  BY <1>1, <1>3 DEF Types
<1>9. PICK W, r : Capturing(capture, output, W, r)
  BY <1>2 DEF CaptureInv
<1>10. PICK V, q : Capturing(Absorb(capture, s.out), output \o s.out, V, q)
  BY <1>4, <1>7, <1>9, AbsorbCaptures
<1> DEFINE c == Absorb(capture, s.out)
           o == output \o s.out
<1>11. Finishing(FinishCapture(c, source_eof), o, source_eof)
  <2>1. Capturing(c, o, V, q)
    BY <1>10
  <2> HIDE DEF c, o
  <2> QED BY <1>4, <2>1, FinishCaptures
<1>12. Finishing(capture', output', source_eof)
  BY <1>1, <1>11
<1>13. CASE source_eof = TRUE
  <2>1. stream'.state = "ended"
    BY <1>8, <1>13
  <2> QED BY <1>12, <1>13, <2>1 DEF CaptureInv
<1>14. CASE source_eof = FALSE
  <2>1. stream'.state = "cut"
    BY <1>8, <1>14
  <2> QED BY <1>12, <1>14, <2>1 DEF CaptureInv
<1> QED BY <1>13, <1>14

LEMMA CaptureNext == StreamInv /\ CaptureInv /\ [Next]_vars => CaptureInv'
<1> SUFFICES ASSUME StreamInv, CaptureInv, [Next]_vars PROVE CaptureInv'
  OBVIOUS
<1>1. CASE \E n \in 1..Len(text) : Feed(n)
  BY <1>1, CaptureFeed
<1>2. CASE Finish(TRUE)
  BY <1>2, CaptureFinish
<1>3. CASE Finish(FALSE)
  BY <1>3, CaptureFinish
<1>4. CASE Register
  <2>1. stream' = stream /\ output' = output /\ capture' = capture
    BY <1>4 DEF Register
  <2> QED BY <2>1 DEF CaptureInv
<1>5. CASE Stale
  <2>1. stream' = [stream EXCEPT !.carry = << >>, !.state = "stale"]
    BY <1>5 DEF Stale
  <2>2. stream'.state = "stale"
    BY <2>1 DEF StreamInv, Types
  <2> QED BY <2>2 DEF CaptureInv
<1>6. CASE GiveUp
  <2>1. stream.state = "stale" /\ stream' = stream
    BY <1>6 DEF GiveUp
  <2> QED BY <2>1 DEF CaptureInv
<1>7. CASE UNCHANGED vars
  <2>1. stream' = stream /\ output' = output /\ capture' = capture
    BY <1>7 DEF vars
  <2> QED BY <2>1 DEF CaptureInv
<1> QED BY <1>1, <1>2, <1>3, <1>4, <1>5, <1>6, <1>7 DEF Next

LEMMA WholeSplits ==
  ASSUME StreamInv, CaptureInv
  PROVE  SplitInvariant
<1> SUFFICES ASSUME stream.state \in {"ended", "cut"} PROVE SplitInvariant
  BY DEF SplitInvariant
<1> DEFINE eof == stream.state = "ended"
           R == stream.snapshot
           whole == Sanitized(eof)
           kept == IF ~eof /\ whole # << >> /\ Last(whole) = "[" THEN Front(whole) ELSE whole
<1>1. eof \in BOOLEAN /\ Markable
  BY CaptureAssumption DEF Markable
<1>2. Closed(R, Arrived, output, eof, stream.discarded) /\ Finishing(capture, output, eof)
  <2>1. CASE eof
    <3>1. eof = TRUE /\ stream.state = "ended"
      BY <2>1
    <3>2. /\ Closed(R, Arrived, output, TRUE, stream.discarded)
          /\ Finishing(capture, output, TRUE)
      BY <3>1 DEF StreamInv, Streaming, CaptureInv
    <3> QED BY <3>1, <3>2
  <2>2. CASE ~eof
    <3>1. eof = FALSE /\ stream.state = "cut"
      BY <2>2
    <3>2. /\ Closed(R, Arrived, output, FALSE, stream.discarded)
          /\ Finishing(capture, output, FALSE)
      BY <3>1 DEF StreamInv, Streaming, CaptureInv
    <3> QED BY <3>1, <3>2
  <2> QED BY <2>1, <2>2
<1>3. Registered(R) /\ text \in Seq(Chars) /\ at \in 0..Len(text)
  BY DEF StreamInv, Types
<1> HIDE DEF eof
<1>4. output = Sanitized(eof) /\ (stream.discarded <=> Doubtful(eof) # {})
  BY <1>1, <1>2, <1>3, ClosedWhole
<1>5. /\ capture.sanitized_bytes_seen = Len(output)
      /\ FlattenSeq(capture.segments) = Window(Left(output, eof))
      /\ capture.cap_truncated <=> Window(Left(output, eof)) # Left(output, eof)
  BY <1>2, WindowIs
<1>6. output = whole
  BY <1>4
<1> HIDE DEF whole
<1>7. Left(output, eof) = kept
  BY <1>6 DEF Left
<1> HIDE DEF kept
<1>8. /\ capture.sanitized_bytes_seen = Len(whole)
      /\ FlattenSeq(capture.segments) = Window(kept)
      /\ capture.cap_truncated <=> Window(kept) # kept
  BY <1>5, <1>6, <1>7
<1> QED BY <1>4, <1>6, <1>8 DEF SplitInvariant, eof, whole, kept

(* However the text was cut into chunks, what was emitted and what was     *)
(* kept are the leftmost longest redaction of the text, cut down to the    *)
(* limit without splitting a marker, and the flags say what is missing     *)
(* (StreamingSecretScrubber.feed and finish, BoundedTextCapture.feed and   *)
(* finish).                                                                *)
THEOREM SplitsAgree == Spec => []SplitInvariant
<1>1. StreamInv /\ CaptureInv => SplitInvariant
  BY WholeSplits
<1> QED BY StreamAlways, CaptureInit, CaptureNext, <1>1, PTL DEF Spec
=============================================================================
