---------------------------- MODULE CouncilProofs ----------------------------
(***************************************************************************)
(* Theorems about the Council run, for every plan, budget, provider and    *)
(* fault constant, and about the plans that PlanValidator accepts.         *)
(***************************************************************************)
EXTENDS CouncilProperties, FiniteSetsExt, SequenceTheorems, FiniteSetTheorems,
        WellFoundedInduction, TLAPS

-----------------------------------------------------------------------------
(* The sum of a function over a finite set, as MapThenSumSet computes it:  *)
(* it does not depend on the order in which elements are chosen.           *)

Picked(s) == CHOOSE x \in s : TRUE

(* g holds the sum of f over each subset of S.                             *)
Summing(g, f, S) ==
  g = [s \in SUBSET S |-> IF s = {} THEN 0 ELSE f[Picked(s)] + g[s \ {Picked(s)}]]

SumOf(f, S) == (CHOOSE g : Summing(g, f, S))[S]

(* Of the subsets of a finite set that lack a property one is minimal.     *)
LEMMA MinimalSubset ==
  ASSUME NEW S, IsFiniteSet(S), NEW Bad \in SUBSET (SUBSET S), Bad # {}
  PROVE  \E A \in Bad : \A B \in SUBSET A : B # A => B \notin Bad
<1>1. IsWellFoundedOn(StrictSubsetOrdering(S), SUBSET S)
  BY FS_StrictSubsetOrderingWellFounded, FS_FiniteSubsetsOfFinite
<1>2. PICK A \in Bad : \A B \in Bad : ~(<< B, A >> \in StrictSubsetOrdering(S))
  BY <1>1, WFMin
<1> QED BY <1>2 DEF StrictSubsetOrdering

(* Two functions that agree on a set have the same sum over it, whatever   *)
(* else their sums are taken over.                                         *)
LEMMA SummingAgree ==
  ASSUME NEW S, NEW T, NEW f, NEW h, NEW g, NEW k, IsFiniteSet(S),
         Summing(g, f, S), Summing(k, h, T),
         NEW C, C \subseteq S, C \subseteq T, \A x \in C : f[x] = h[x]
  PROVE  g[C] = k[C]
<1> DEFINE Bad == {A \in SUBSET S : A \subseteq C /\ g[A] # k[A]}
<1> SUFFICES ASSUME Bad # {} PROVE FALSE
  OBVIOUS
<1>1. PICK A \in Bad : \A B \in SUBSET A : B # A => B \notin Bad
  <2> HIDE DEF Bad
  <2>1. Bad \in SUBSET (SUBSET S)
    BY DEF Bad
  <2> QED BY <2>1, MinimalSubset
<1>2. /\ g[A] = IF A = {} THEN 0 ELSE f[Picked(A)] + g[A \ {Picked(A)}]
      /\ k[A] = IF A = {} THEN 0 ELSE h[Picked(A)] + k[A \ {Picked(A)}]
  BY DEF Summing
<1>3. A # {}
  BY <1>2
<1>4. Picked(A) \in A
  BY <1>3 DEF Picked
<1>5. g[A \ {Picked(A)}] = k[A \ {Picked(A)}]
  BY <1>1, <1>4
<1> QED BY <1>2, <1>3, <1>4, <1>5

(* Sums exist.                                                             *)
LEMMA SummingExists ==
  ASSUME NEW S, IsFiniteSet(S), NEW f
  PROVE  \E g : Summing(g, f, S)
<1> DEFINE Bad == {A \in SUBSET S : ~ \E g : Summing(g, f, A)}
<1> SUFFICES ASSUME Bad # {} PROVE FALSE
  OBVIOUS
<1>1. PICK A \in Bad : \A B \in SUBSET A : B # A => B \notin Bad
  <2>1. Bad \in SUBSET (SUBSET S)
    OBVIOUS
  <2> HIDE DEF Bad
  <2> QED BY <2>1, MinimalSubset
<1>2. ASSUME NEW B \in SUBSET A, B # A
      PROVE  Summing(CHOOSE g : Summing(g, f, B), f, B)
  BY <1>1, <1>2
<1>3. \A B \in SUBSET A : IsFiniteSet(B)
  BY FS_Subset
<1>4. ASSUME NEW B \in SUBSET A, B # A, B # {}
      PROVE  SumOf(f, B) = f[Picked(B)] + SumOf(f, B \ {Picked(B)})
  <2> DEFINE x == Picked(B)
             g == CHOOSE i : Summing(i, f, B)
             k == CHOOSE i : Summing(i, f, B \ {x})
  <2>1. x \in B
    BY <1>4 DEF Picked
  <2>2. Summing(g, f, B) /\ Summing(k, f, B \ {x})
    BY <1>2, <1>4, <2>1
  <2>3. g[B] = f[x] + g[B \ {x}]
    BY <1>4, <2>2 DEF Summing
  <2>4. g[B \ {x}] = k[B \ {x}]
    <3> HIDE DEF g, k, x
    <3> QED BY <1>3, <2>1, <2>2, SummingAgree
  <2> QED BY <2>3, <2>4 DEF SumOf
<1>5. SumOf(f, {}) = 0 \/ A = {}
  <2> SUFFICES ASSUME A # {} PROVE SumOf(f, {}) = 0
    OBVIOUS
  <2>1. Summing(CHOOSE g : Summing(g, f, {}), f, {})
    BY <1>2
  <2> QED BY <2>1 DEF Summing, SumOf
<1> DEFINE sum == [s \in SUBSET A |->
                     IF s = {} THEN 0
                     ELSE IF s = A THEN f[Picked(A)] + SumOf(f, A \ {Picked(A)})
                     ELSE SumOf(f, s)]
<1>6. Summing(sum, f, A)
  <2> SUFFICES ASSUME NEW s \in SUBSET A, s # {}
               PROVE  sum[s] = f[Picked(s)] + sum[s \ {Picked(s)}]
    BY DEF Summing
  <2>1. Picked(s) \in s
    BY DEF Picked
  <2>2. sum[s \ {Picked(s)}] = SumOf(f, s \ {Picked(s)})
    BY <1>5, <2>1
  <2>3. sum[s] = f[Picked(s)] + SumOf(f, s \ {Picked(s)})
    BY <1>4
  <2> QED BY <2>2, <2>3
<1> QED BY <1>6

(* The function that a sum is taken from.                                  *)
LEMMA SummingChosen ==
  ASSUME NEW S, IsFiniteSet(S), NEW f
  PROVE  Summing(CHOOSE g : Summing(g, f, S), f, S)
BY SummingExists

(* Any function that sums over the subsets of S gives that sum.            *)
LEMMA SumUnique ==
  ASSUME NEW S, IsFiniteSet(S), NEW f, NEW g, Summing(g, f, S)
  PROVE  g[S] = SumOf(f, S)
<1> DEFINE h == CHOOSE i : Summing(i, f, S)
<1>1. Summing(h, f, S)
  BY SummingChosen
<1> HIDE DEF h
<1>2. g[S] = h[S]
  BY <1>1, SummingAgree
<1> QED BY <1>2 DEF h, SumOf

(* The sum over no elements.                                               *)
LEMMA SumEmpty ==
  ASSUME NEW f
  PROVE  SumOf(f, {}) = 0
BY SummingChosen, FS_EmptySet DEF Summing, SumOf

(* Taking out the element that is chosen first.                            *)
LEMMA SumPicked ==
  ASSUME NEW S, IsFiniteSet(S), NEW f, S # {}
  PROVE  SumOf(f, S) = f[Picked(S)] + SumOf(f, S \ {Picked(S)})
<1> DEFINE g == CHOOSE i : Summing(i, f, S)
           k == CHOOSE i : Summing(i, f, S \ {Picked(S)})
<1>1. Picked(S) \in S /\ IsFiniteSet(S \ {Picked(S)})
  BY FS_RemoveElement DEF Picked
<1>2. Summing(g, f, S) /\ Summing(k, f, S \ {Picked(S)})
  BY <1>1, SummingChosen
<1>3. g[S] = f[Picked(S)] + g[S \ {Picked(S)}]
  BY <1>2 DEF Summing
<1>4. g[S \ {Picked(S)}] = k[S \ {Picked(S)}]
  <2> HIDE DEF g, k
  <2> QED BY <1>1, <1>2, SummingAgree
<1> QED BY <1>3, <1>4 DEF SumOf

(* A sum of integers is an integer.                                        *)
LEMMA SumType ==
  ASSUME NEW S, IsFiniteSet(S), NEW f, \A x \in S : f[x] \in Int
  PROVE  SumOf(f, S) \in Int
<1> DEFINE Bad == {A \in SUBSET S : SumOf(f, A) \notin Int}
<1> SUFFICES ASSUME Bad # {} PROVE FALSE
  OBVIOUS
<1>1. PICK A \in Bad : \A B \in SUBSET A : B # A => B \notin Bad
  <2>1. Bad \in SUBSET (SUBSET S)
    OBVIOUS
  <2> HIDE DEF Bad
  <2> QED BY <2>1, MinimalSubset
<1>2. A # {}
  BY SumEmpty
<1>3. Picked(A) \in A
  BY <1>2 DEF Picked
<1>4. SumOf(f, A) = f[Picked(A)] + SumOf(f, A \ {Picked(A)})
  BY <1>2, SumPicked, FS_Subset
<1>5. SumOf(f, A \ {Picked(A)}) \in Int
  BY <1>1, <1>3
<1> QED BY <1>3, <1>4, <1>5

(* Any element can be taken out of a sum.                                  *)
LEMMA SumRemove ==
  ASSUME NEW S, IsFiniteSet(S), NEW f, \A x \in S : f[x] \in Int, NEW y \in S
  PROVE  SumOf(f, S) = f[y] + SumOf(f, S \ {y})
<1> DEFINE Bad == {A \in SUBSET S : \E z \in A : SumOf(f, A) # f[z] + SumOf(f, A \ {z})}
<1> SUFFICES ASSUME Bad # {} PROVE FALSE
  OBVIOUS
<1>1. PICK A \in Bad : \A B \in SUBSET A : B # A => B \notin Bad
  <2>1. Bad \in SUBSET (SUBSET S)
    OBVIOUS
  <2> HIDE DEF Bad
  <2> QED BY <2>1, MinimalSubset
<1>2. PICK z \in A : SumOf(f, A) # f[z] + SumOf(f, A \ {z})
  OBVIOUS
<1> DEFINE x == Picked(A)
<1>3. x \in A /\ \A B \in SUBSET A : IsFiniteSet(B)
  BY FS_Subset DEF Picked
<1>4. SumOf(f, A) = f[x] + SumOf(f, A \ {x})
  BY <1>3, SumPicked
<1>5. x # z
  BY <1>2, <1>4
<1>6. /\ SumOf(f, A \ {x}) = f[z] + SumOf(f, (A \ {x}) \ {z})
      /\ SumOf(f, A \ {z}) = f[x] + SumOf(f, (A \ {z}) \ {x})
  <2>1. A \ {x} \notin Bad /\ A \ {z} \notin Bad
    BY <1>1, <1>3
  <2>2. z \in A \ {x} /\ x \in A \ {z} /\ A \ {x} \in SUBSET S /\ A \ {z} \in SUBSET S
    BY <1>3, <1>5
  <2> QED BY <2>1, <2>2
<1>7. (A \ {x}) \ {z} = (A \ {z}) \ {x}
  OBVIOUS
<1>8. SumOf(f, (A \ {x}) \ {z}) \in Int /\ f[x] \in Int /\ f[z] \in Int
  <2>1. (A \ {x}) \ {z} \in SUBSET A
    OBVIOUS
  <2>2. \A t \in (A \ {x}) \ {z} : f[t] \in Int
    OBVIOUS
  <2> QED BY <1>3, <2>1, <2>2, SumType
<1>9. SumOf(f, A) = f[z] + SumOf(f, A \ {z})
  <2> HIDE DEF x, Bad
  <2>1. SumOf(f, A) = f[x] + (f[z] + SumOf(f, (A \ {x}) \ {z}))
    BY <1>4, <1>6
  <2>2. SumOf(f, A \ {z}) = f[x] + SumOf(f, (A \ {x}) \ {z})
    BY <1>6, <1>7
  <2> QED BY <1>8, <2>1, <2>2
<1> QED BY <1>2, <1>9

(* An element more.                                                        *)
LEMMA SumAdd ==
  ASSUME NEW S, IsFiniteSet(S), NEW f, NEW y, y \notin S, \A x \in S \cup {y} : f[x] \in Int
  PROVE  SumOf(f, S \cup {y}) = f[y] + SumOf(f, S)
<1>1. IsFiniteSet(S \cup {y}) /\ (S \cup {y}) \ {y} = S
  BY FS_AddElement
<1> QED BY <1>1, SumRemove

-----------------------------------------------------------------------------
(* Arithmetic of the ledger. *)

(* The ceiling of a quotient of naturals is a natural. *)
LEMMA CeilDivType ==
  ASSUME NEW a \in Nat, NEW b \in Nat \ {0}
  PROVE  CeilDiv(a, b) \in Nat
BY SMT DEF CeilDiv

(* Rounding up is monotone. *)
LEMMA CeilDivMonotone ==
  ASSUME NEW a \in Nat, NEW c \in Nat, NEW b \in Nat \ {0}, a <= c
  PROVE  CeilDiv(a, b) <= CeilDiv(c, b)
BY SMT DEF CeilDiv

(* The product of two naturals, as a fact of its own: the leaves that use  *)
(* it have no other nonlinear term.                                        *)
LEMMA ProductType ==
  ASSUME NEW a \in Nat, NEW b \in Nat
  PROVE  a * b \in Nat
BY SMT

(* A product is monotone in its first factor. *)
LEMMA ProductMonotone ==
  ASSUME NEW a \in Nat, NEW c \in Nat, NEW b \in Nat, a <= c
  PROVE  a * b <= c * b
BY SMT

(* What a dispatch costs is a natural number of microdollars. *)
LEMMA DispatchCostType ==
  ASSUME NEW u \in Usage
  PROVE  DispatchCost(u) \in Nat
<1>1. u.input * InputPrice \in Nat /\ u.output * OutputPrice \in Nat
  BY ProductType, BudgetAssumption DEF Usage
<1>2. /\ CeilDiv(u.input * InputPrice, TokensPerPriceUnit) \in Nat
      /\ CeilDiv(u.output * OutputPrice, TokensPerPriceUnit) \in Nat
  BY <1>1, CeilDivType, BudgetAssumption
<1> QED BY <1>2 DEF DispatchCost

(* A dispatch costs no more than one that uses at least as many tokens. *)
LEMMA DispatchCostMonotone ==
  ASSUME NEW u \in Usage, NEW v \in Usage, u.input <= v.input, u.output <= v.output
  PROVE  DispatchCost(u) <= DispatchCost(v)
<1>1. /\ u.input * InputPrice \in Nat /\ v.input * InputPrice \in Nat
      /\ u.output * OutputPrice \in Nat /\ v.output * OutputPrice \in Nat
  BY ProductType, BudgetAssumption DEF Usage
<1>2. /\ u.input * InputPrice <= v.input * InputPrice
      /\ u.output * OutputPrice <= v.output * OutputPrice
  BY ProductMonotone, BudgetAssumption DEF Usage
<1>3. /\ CeilDiv(u.input * InputPrice, TokensPerPriceUnit)
           <= CeilDiv(v.input * InputPrice, TokensPerPriceUnit)
      /\ CeilDiv(u.output * OutputPrice, TokensPerPriceUnit)
           <= CeilDiv(v.output * OutputPrice, TokensPerPriceUnit)
  BY <1>1, <1>2, CeilDivMonotone, BudgetAssumption
<1>4. /\ CeilDiv(u.input * InputPrice, TokensPerPriceUnit) \in Nat
      /\ CeilDiv(u.output * OutputPrice, TokensPerPriceUnit) \in Nat
      /\ CeilDiv(v.input * InputPrice, TokensPerPriceUnit) \in Nat
      /\ CeilDiv(v.output * OutputPrice, TokensPerPriceUnit) \in Nat
  BY <1>1, CeilDivType, BudgetAssumption
<1> QED BY <1>3, <1>4 DEF DispatchCost

(* Every node reserves a well-formed ceiling. *)
LEMMA ReservationType ==
  ASSUME NEW n \in Nodes
  PROVE  /\ Ceiling[n] \in Usage
         /\ ReservationFor(Ceiling[n]) \in Reservation
<1>1. Ceiling[n] \in Usage
  BY BackendAssumption
<1> QED BY <1>1, DispatchCostType DEF ReservationFor, Usage, Reservation

(* The methods of the ledger keep its type. *)
LEMMA LedgerMethods ==
  ASSUME NEW l \in Ledger, NEW r \in Reservation, NEW u \in Usage
  PROVE  /\ Reserve(l, r) \in Ledger
         /\ Release(l, r) \in Ledger
         /\ Commit(l, r, u, DispatchCost(u)) \in Ledger
<1>1. DispatchCost(u) \in Nat
  BY DispatchCostType
<1>2. Reserve(l, r) \in Ledger
  BY DEF Ledger, Reservation, Reserve
<1>3. Release(l, r) \in Ledger
  BY DEF Ledger, Reservation, Release
<1>4. Commit(l, r, u, DispatchCost(u)) \in Ledger
  BY <1>1, <1>3 DEF Ledger, BudgetTotals, Usage, Commit
<1> QED BY <1>2, <1>3, <1>4

-----------------------------------------------------------------------------
(* Journal segments. *)

(* Numbering events yields frames of these events. *)
LEMMA FramesType ==
  ASSUME NEW k \in Nat, NEW S, NEW events \in Seq(S)
  PROVE  /\ Replay!Frames(k, events) \in Seq([seq : Nat, event : S])
<1>1. DOMAIN events = 1..Len(events) /\ Len(events) \in Nat
  OBVIOUS
<1>2. \A i \in 1..Len(events) : [seq |-> k + i, event |-> events[i]] \in [seq : Nat, event : S]
  BY <1>1
<1> QED BY <1>1, <1>2 DEF Replay!Frames

(* What a line of the file holds, and the shape of both histories.         *)
FileFrames == [seq : Nat, event : Events]

HistoryOK == journal \in Seq(Events) /\ file \in Seq(FileFrames)

(* The written history only grows, and by events of the segment. *)
Grows(S) == \E added \in Seq(S) : journal' = journal \o added

(* A segment that is written grows the history by its events. *)
LEMMA WrittenGrows ==
  ASSUME NEW S \in SUBSET Events, NEW events \in Seq(S), HistoryOK, Written(events)
  PROVE  HistoryOK' /\ Grows(S)
<1>1. events \in Seq(Events)
  OBVIOUS
<1>2. Len(journal) \in Nat
  BY DEF HistoryOK
<1>3. Replay!Frames(Len(journal), events) \in Seq(FileFrames)
  BY <1>1, <1>2, FramesType DEF FileFrames
<1>4. journal' \in Seq(Events)
  BY <1>1 DEF HistoryOK, Written
<1>5. file' \in Seq(FileFrames)
  BY <1>3 DEF HistoryOK, Written
<1> QED BY <1>4, <1>5 DEF HistoryOK, Grows, Written

(* So does one that fails on the way, by a part of them. *)
LEMMA FailsAtGrows ==
  ASSUME NEW S \in SUBSET Events, NEW events \in Seq(S), HistoryOK,
         NEW k \in DOMAIN events, NEW fault, FailsAt(events, k, fault)
  PROVE  HistoryOK' /\ Grows(S)
<1> DEFINE done == SubSeq(events, 1, k - 1)
           left == IF fault = "kept" THEN <<events[k]>> ELSE << >>
<1>1. k \in 1..Len(events) /\ Len(events) \in Nat
  OBVIOUS
<1>2. done \in Seq(S)
  BY <1>1
<1>3. events[k] \in S
  BY <1>1
<1>4. left \in Seq(S)
  BY <1>3
<1>5. done \in Seq(Events) /\ left \in Seq(Events)
  BY <1>2, <1>4
<1>6. Len(journal) \in Nat /\ Len(journal) + k - 1 \in Nat
  BY <1>1 DEF HistoryOK
<1>7. /\ Replay!Frames(Len(journal), done) \in Seq(FileFrames)
      /\ Replay!Frames(Len(journal) + k - 1, left) \in Seq(FileFrames)
  BY <1>5, <1>6, FramesType DEF FileFrames
<1>8. /\ journal' = journal \o done
      /\ file' = file \o Replay!Frames(Len(journal), done)
                      \o Replay!Frames(Len(journal) + k - 1, left)
  BY DEF FailsAt
<1>9. journal' \in Seq(Events)
  BY <1>5, <1>8 DEF HistoryOK
<1>10. file' \in Seq(FileFrames)
  <2>1. file \o Replay!Frames(Len(journal), done) \in Seq(FileFrames)
    BY <1>7 DEF HistoryOK
  <2> QED BY <2>1, <1>7, <1>8
<1> QED BY <1>2, <1>8, <1>9, <1>10 DEF HistoryOK, Grows

-----------------------------------------------------------------------------
(* The events of a segment are node-level events. *)

(* The codes _fail_node writes.                                            *)
FailureReasons ==
  {"dependency_failed", "budget_rejected", "budget_exceeded", "backend_error",
   "invalid_decision", "unexpected_error", "cancelled"}

(* What a node journals apart from its bills. *)
LEMMA EventTypes ==
  ASSUME NEW n \in Nodes
  PROVE  /\ NodeStarted(n) \in NodeLevelEvents
         /\ \A what \in {"request", "output", "receipt"} :
              ArtifactWritten(what, n) \in NodeLevelEvents
         /\ BudgetRejected(n) \in NodeLevelEvents
         /\ ModelDispatched(n) \in NodeLevelEvents
         /\ NodeCompleted(n) \in NodeLevelEvents
         /\ \A reason \in FailureReasons : NodeFailed(n, reason) \in NodeLevelEvents
         /\ DecisionRecorded(n) \in NodeLevelEvents
<1>1. \A what \in {"request", "output", "receipt"} : Artifact(what, n) \in Artifacts
  BY DEF Artifact, Artifacts
<1>2. NodeStarted(n) \in NodeLevelEvents
  BY PlanAssumption DEF NodeStarted, NodeLevelEvents
<1>3. \A what \in {"request", "output", "receipt"} :
        ArtifactWritten(what, n) \in NodeLevelEvents
  BY <1>1 DEF ArtifactWritten, NodeLevelEvents
<1>4. BudgetRejected(n) \in NodeLevelEvents
  BY DEF BudgetRejected, NodeLevelEvents
<1>5. ModelDispatched(n) \in NodeLevelEvents
  BY <1>1, ReservationType DEF ModelDispatched, NodeLevelEvents
<1>6. NodeCompleted(n) \in NodeLevelEvents
  BY <1>1 DEF NodeCompleted, NodeLevelEvents
<1>7. \A reason \in FailureReasons : NodeFailed(n, reason) \in NodeLevelEvents
  BY DEF NodeFailed, NodeLevelEvents, FailureReasons
<1>8. DecisionRecorded(n) \in NodeLevelEvents
  BY <1>1 DEF DecisionRecorded, NodeLevelEvents
<1> QED BY <1>2, <1>3, <1>4, <1>5, <1>6, <1>7, <1>8

(* The two events that bill a dispatch. *)
LEMMA BillingEventTypes ==
  ASSUME NEW n \in Nodes, NEW u \in Usage
  PROVE  /\ ModelCompleted(n, u) \in NodeLevelEvents
         /\ \A reason \in {"timeout", "protocol", "cancelled"},
               source \in {"provider", "ceiling", "mixed"} :
              ModelFailed(n, reason, u, source) \in NodeLevelEvents
<1>1. Costed(u) \in CostedUsage
  BY DispatchCostType DEF Costed, CostedUsage, Usage
<1>2. Artifact("output", n) \in Artifacts
  BY DEF Artifact, Artifacts
<1>3. ModelCompleted(n, u) \in NodeLevelEvents
  BY <1>1, <1>2 DEF ModelCompleted, NodeLevelEvents
<1>4. \A reason \in {"timeout", "protocol", "cancelled"},
        source \in {"provider", "ceiling", "mixed"} :
          ModelFailed(n, reason, u, source) \in NodeLevelEvents
  BY <1>1 DEF ModelFailed, NodeLevelEvents
<1> QED BY <1>3, <1>4

(* The segments the actions write. *)
LEMMA SegmentTypes ==
  ASSUME NEW n \in Nodes
  PROVE  /\ \A reason \in FailureReasons :
              <<NodeFailed(n, reason)>> \in Seq(NodeLevelEvents)
         /\ Receipt(n) \in Seq(NodeLevelEvents)
         /\ \A reason \in FailureReasons :
              Receipt(n) \o <<NodeFailed(n, reason)>> \in Seq(NodeLevelEvents)
         /\ Prologue(n) \o <<ModelDispatched(n)>> \in Seq(NodeLevelEvents)
         /\ Prologue(n) \o <<BudgetRejected(n), NodeFailed(n, "budget_rejected")>>
              \in Seq(NodeLevelEvents)
         /\ \A verdict \in Verdicts : Closing(n, verdict) \in Seq(NodeLevelEvents)
         /\ NodeCancelled(n) \in Seq(NodeLevelEvents)
<1> DEFINE E == NodeLevelEvents
<1>1. \A reason \in FailureReasons : <<NodeFailed(n, reason)>> \in Seq(E)
  BY EventTypes
<1>2. Receipt(n) \in Seq(E)
  BY EventTypes DEF Receipt
<1>3. \A reason \in FailureReasons : Receipt(n) \o <<NodeFailed(n, reason)>> \in Seq(E)
  BY <1>1, <1>2
<1>4. Prologue(n) \in Seq(E)
  BY EventTypes DEF Prologue
<1>5. <<ModelDispatched(n)>> \in Seq(E)
  BY EventTypes
<1>6. <<BudgetRejected(n), NodeFailed(n, "budget_rejected")>> \in Seq(E)
  BY EventTypes DEF FailureReasons
<1>7. \A verdict \in Verdicts : Closing(n, verdict) \in Seq(E)
  <2>1. /\ <<NodeCompleted(n)>> \in Seq(E)
        /\ <<NodeCompleted(n), DecisionRecorded(n)>> \in Seq(E)
        /\ <<NodeFailed(n, "invalid_decision")>> \in Seq(E)
        /\ <<NodeCompleted(n), NodeFailed(n, "unexpected_error")>> \in Seq(E)
    BY EventTypes DEF FailureReasons
  <2> QED BY <2>1, BackendAssumption DEF Closing
<1>8. NodeCancelled(n) \in Seq(E)
  BY <1>1 DEF NodeCancelled, FailureReasons
<1> QED BY <1>1, <1>2, <1>3, <1>4, <1>5, <1>6, <1>7, <1>8

(* What a segment does to its node, whether its writes succeed or not. *)
LEMMA SegmentStep ==
  ASSUME TypeOK, NEW n \in Nodes, NEW events \in Seq(NodeLevelEvents),
         NEW next \in {"waiting", "inflight", "completed", "failed"},
         \/ Segment(n, events, next)
         \/ SegmentEscapes(n, events)
  PROVE  /\ HistoryOK' /\ Grows(NodeLevelEvents)
         /\ \/ /\ Written(events)
               /\ task' = [task EXCEPT ![n] = next]
               /\ UNCHANGED << raised, engineAbort >>
            \/ /\ task' = [task EXCEPT ![n] = "failed"]
               /\ raised' = raised \cup {n}
               /\ engineAbort' \in BOOLEAN
<1> NodeLevelEvents \in SUBSET Events
  BY DEF Events
<1> HistoryOK
  BY DEF HistoryOK, TypeOK, FileFrames
<1>1. CASE Segment(n, events, next) /\ Written(events)
           /\ task' = [task EXCEPT ![n] = next] /\ UNCHANGED << raised, engineAbort >>
  BY <1>1, WrittenGrows
<1>2. CASE SegmentFails(n, events)
  <2>1. PICK k \in DOMAIN events, fault \in StorageFaults :
          /\ FailsAt(events, k, fault)
          /\ task' = [task EXCEPT ![n] = "failed"]
          /\ raised' = raised \cup {n}
          /\ engineAbort' = (engineAbort \/ ~InsideHandler(events[k]))
    BY <1>2 DEF SegmentFails
  <2>2. HistoryOK' /\ Grows(NodeLevelEvents)
    BY <2>1, FailsAtGrows
  <2>3. engineAbort' \in BOOLEAN
    BY <2>1
  <2> QED BY <2>1, <2>2, <2>3
<1>3. CASE SegmentEscapes(n, events) /\ Written(events)
           /\ task' = [task EXCEPT ![n] = "failed"]
           /\ raised' = raised \cup {n} /\ UNCHANGED engineAbort
  <2>1. engineAbort' \in BOOLEAN
    BY <1>3 DEF TypeOK
  <2> QED BY <1>3, <2>1, WrittenGrows
<1> QED BY <1>1, <1>2, <1>3 DEF Segment, SegmentEscapes

-----------------------------------------------------------------------------
(* Type correctness. *)

(* A step of a node that writes one segment keeps the types, if what it    *)
(* does to the ledger, to the decision and to the cancellations does.      *)
LEMMA NodeStepType ==
  ASSUME TypeOK, NEW n \in Nodes, NEW events \in Seq(NodeLevelEvents),
         NEW next \in {"waiting", "inflight", "completed", "failed"},
         \/ Segment(n, events, next)
         \/ SegmentEscapes(n, events),
         ledger' \in Ledger, decided' \in BOOLEAN, cancelled' \in SUBSET cancelled,
         UNCHANGED << phase, groupAborted, ownerCancelled, documents >>
  PROVE  TypeOK'
<1>1. /\ HistoryOK'
      /\ \/ /\ task' = [task EXCEPT ![n] = next]
            /\ UNCHANGED << raised, engineAbort >>
         \/ /\ task' = [task EXCEPT ![n] = "failed"]
            /\ raised' = raised \cup {n}
            /\ engineAbort' \in BOOLEAN
  BY SegmentStep
<1>2. task' \in [Nodes -> {"waiting", "inflight", "completed", "failed"}]
  BY <1>1 DEF TypeOK
<1>3. raised' \subseteq Nodes /\ engineAbort' \in BOOLEAN
  BY <1>1 DEF TypeOK
<1> QED BY <1>1, <1>2, <1>3 DEF TypeOK, HistoryOK, FileFrames

(* The ledger after each way a dispatch can be settled. *)
LEMMA SettledType ==
  ASSUME TypeOK, NEW n \in Nodes, NEW u \in Usage
  PROVE  /\ Reserve(ledger, ReservationFor(Ceiling[n])) \in Ledger
         /\ Release(ledger, ReservationFor(Ceiling[n])) \in Ledger
         /\ Settled(n, u) \in Ledger
BY ReservationType, LedgerMethods DEF TypeOK, Settled

(* A bill assembled from what a provider reported and the ceiling. *)
LEMMA BilledUsageType ==
  ASSUME NEW n \in Nodes, NEW known \in PartialUsages
  PROVE  /\ BilledUsage(n, known) \in Usage
         /\ UsageSource(known) \in {"provider", "ceiling", "mixed"}
<1>1. PICK i \in {None} \cup {u.input : u \in Reported},
           o \in {None} \cup {u.output : u \in Reported} :
        known = [input |-> i, output |-> o]
  BY DEF PartialUsages
<1>2. \A u \in Reported : u.input \in Nat /\ u.output \in Nat
  BY BackendAssumption DEF Usage
<1>3. known.input # None => known.input \in Nat
  BY <1>1, <1>2
<1>4. known.output # None => known.output \in Nat
  BY <1>1, <1>2
<1>5. Ceiling[n].input \in Nat /\ Ceiling[n].output \in Nat
  BY ReservationType DEF Usage
<1>6. BilledUsage(n, known) \in Usage
  BY <1>3, <1>4, <1>5 DEF BilledUsage, Usage
<1> QED BY <1>6 DEF UsageSource

(* The segments that bill a dispatch. *)
LEMMA BillingSegmentTypes ==
  ASSUME NEW n \in Nodes, NEW u \in Usage
  PROVE  /\ Billing(n, u) \in Seq(NodeLevelEvents)
         /\ << ArtifactWritten("output", n), ArtifactWritten("receipt", n),
               ModelFailed(n, "protocol", u, "provider"),
               NodeFailed(n, "backend_error") >> \in Seq(NodeLevelEvents)
         /\ \A source \in {"provider", "ceiling", "mixed"} :
              <<ArtifactWritten("receipt", n)>>
                \o << ModelFailed(n, "timeout", u, source),
                      NodeFailed(n, "backend_error") >> \in Seq(NodeLevelEvents)
         /\ <<ArtifactWritten("receipt", n)>> \o <<NodeFailed(n, "unexpected_error")>>
              \in Seq(NodeLevelEvents)
         /\ <<ModelFailed(n, "cancelled", u, "ceiling")>> \o NodeCancelled(n)
              \in Seq(NodeLevelEvents)
<1>1. Billing(n, u) \in Seq(NodeLevelEvents)
  <2>1. << ArtifactWritten("output", n), ModelCompleted(n, u) >> \in Seq(NodeLevelEvents)
    BY EventTypes, BillingEventTypes
  <2> QED BY <2>1, SegmentTypes DEF Billing
<1>2. << ArtifactWritten("output", n), ArtifactWritten("receipt", n),
         ModelFailed(n, "protocol", u, "provider"),
         NodeFailed(n, "backend_error") >> \in Seq(NodeLevelEvents)
  BY EventTypes, BillingEventTypes DEF FailureReasons
<1>3. \A source \in {"provider", "ceiling", "mixed"} :
        <<ArtifactWritten("receipt", n)>>
          \o << ModelFailed(n, "timeout", u, source),
                NodeFailed(n, "backend_error") >> \in Seq(NodeLevelEvents)
  BY EventTypes, BillingEventTypes DEF FailureReasons
<1>4. <<ArtifactWritten("receipt", n)>> \o <<NodeFailed(n, "unexpected_error")>>
        \in Seq(NodeLevelEvents)
  BY EventTypes DEF FailureReasons
<1>5. <<ModelFailed(n, "cancelled", u, "ceiling")>> \o NodeCancelled(n)
        \in Seq(NodeLevelEvents)
  BY BillingEventTypes, SegmentTypes
<1> QED BY <1>1, <1>2, <1>3, <1>4, <1>5

(* A run-level event extends the history, or fails to. *)
LEMMA RunEventType ==
  ASSUME TypeOK, NEW e \in Events,
         \/ Written(<<e>>)
         \/ \E fault \in StorageFaults : FailsAt(<<e>>, 1, fault)
  PROVE  HistoryOK'
<1>1. HistoryOK /\ <<e>> \in Seq(Events) /\ 1 \in DOMAIN <<e>>
  BY DEF HistoryOK, TypeOK, FileFrames
<1>2. CASE Written(<<e>>)
  BY <1>1, <1>2, WrittenGrows
<1>3. CASE \E fault \in StorageFaults : FailsAt(<<e>>, 1, fault)
  BY <1>1, <1>3, FailsAtGrows
<1> QED BY <1>2, <1>3

(* Each event of the run itself is one of the journal's events. *)
LEMMA RunEventTypes ==
  ASSUME TypeOK
  PROVE  RunCreated \in Events /\ RunFinished \in Events
<1>1. Totals(ledger) \in BudgetTotals
  BY DEF TypeOK, Ledger, Totals
<1>2. RunFinished \in RunLevelEvents
  BY <1>1 DEF RunFinished, RunLevelEvents
<1>3. RunCreated \in RunLevelEvents
  BY DEF RunCreated, RunLevelEvents
<1> QED BY <1>2, <1>3 DEF Events

(* The backend's answers keep the types. *)
LEMMA AnswersType ==
  ASSUME TypeOK, NEW n \in Nodes, BackendAnswers(n)
  PROVE  TypeOK'
<1>1. PICK usage \in Reported, text \in Texts :
        \/ text = "plain" /\ \E verdict \in Verdicts : Complete(n, usage, verdict)
        \/ text = "unencodable" /\ CompleteUnencodable(n, usage)
        \/ OverLimit(n, usage, text)
  BY DEF BackendAnswers
<1>2. usage \in Usage
  BY BackendAssumption
<1>3. CASE \E verdict \in Verdicts : Complete(n, usage, verdict)
  <2>1. PICK verdict \in Verdicts : Complete(n, usage, verdict)
    BY <1>3
  <2> DEFINE closing == IF BreachedBy(n, usage) THEN <<NodeFailed(n, "budget_exceeded")>>
                        ELSE Closing(n, verdict)
             next == IF closing[Len(closing)].type = "node.failed" THEN "failed"
                     ELSE "completed"
  <2>2. closing \in Seq(NodeLevelEvents)
    BY SegmentTypes DEF FailureReasons
  <2>3. Billing(n, usage) \o closing \in Seq(NodeLevelEvents)
    BY <2>2, <1>2, BillingSegmentTypes
  <2>4. /\ Segment(n, Billing(n, usage) \o closing, next)
        /\ ledger' = Settled(n, usage)
        /\ UNCHANGED ControlVars
    BY <2>1 DEF Complete, CommitUsage
  <2>5. decided' \in BOOLEAN
    BY <2>1 DEF Complete, TypeOK
  <2>6. next \in {"waiting", "inflight", "completed", "failed"}
    OBVIOUS
  <2>7. ledger' \in Ledger
    BY <1>2, <2>4, SettledType
  <2> HIDE DEF next, closing
  <2> QED BY <2>3, <2>4, <2>5, <2>6, <2>7, NodeStepType DEF ControlVars
<1>4. CASE CompleteUnencodable(n, usage)
  <2>1. /\ Segment(n, <<NodeFailed(n, "unexpected_error")>>, "failed")
        /\ ledger' = Settled(n, usage)
        /\ UNCHANGED << ControlVars, decided >>
    BY <1>4 DEF CompleteUnencodable, CommitUsage
  <2>2. <<NodeFailed(n, "unexpected_error")>> \in Seq(NodeLevelEvents)
    BY SegmentTypes DEF FailureReasons
  <2>3. ledger' \in Ledger /\ decided' \in BOOLEAN
    BY <1>2, <2>1, SettledType DEF TypeOK
  <2> QED BY <2>1, <2>2, <2>3, NodeStepType DEF ControlVars
<1>5. CASE OverLimit(n, usage, text)
  <2>1. decided' \in BOOLEAN /\ UNCHANGED ControlVars
    BY <1>5 DEF OverLimit, TypeOK
  <2>2. CASE LiveBackend
    <3>1. /\ ledger' = Settled(n, usage)
          /\ Segment(n, << ArtifactWritten("output", n), ArtifactWritten("receipt", n),
                           ModelFailed(n, "protocol", usage, "provider"),
                           NodeFailed(n, "backend_error") >>, "failed")
      BY <1>5, <2>2 DEF OverLimit, CommitUsage
    <3>2. ledger' \in Ledger
      BY <1>2, <3>1, SettledType
    <3> QED BY <1>2, <2>1, <3>1, <3>2, BillingSegmentTypes, NodeStepType DEF ControlVars
  <2>3. CASE ~LiveBackend
    <3>1. /\ ledger' = Release(ledger, ReservationFor(Ceiling[n]))
          /\ Segment(n, <<NodeFailed(n, "backend_error")>>, "failed")
      BY <1>5, <2>3 DEF OverLimit, ReleaseReservation
    <3>2. ledger' \in Ledger
      BY <1>2, <3>1, SettledType
    <3>3. <<NodeFailed(n, "backend_error")>> \in Seq(NodeLevelEvents)
      BY SegmentTypes DEF FailureReasons
    <3> QED BY <2>1, <3>1, <3>2, <3>3, NodeStepType DEF ControlVars
  <2> QED BY <2>2, <2>3
<1> QED BY <1>1, <1>3, <1>4, <1>5

(* So do its failures. *)
LEMMA FailuresType ==
  ASSUME TypeOK, NEW n \in Nodes, BackendFails(n)
  PROVE  TypeOK'
<1>1. PICK text \in Texts :
        \/ FailFree(n, "backend_error", Receipt(n), text)
        \/ FailFree(n, "unexpected_error", << >>, text)
        \/ \E known \in PartialUsages : FailBilled(n, known, text)
  BY DEF BackendFails
<1>2. ASSUME NEW reason \in FailureReasons, NEW receipt \in Seq(NodeLevelEvents),
             FailFree(n, reason, receipt, text)
      PROVE  TypeOK'
  <2>1. /\ ledger' = Release(ledger, ReservationFor(Ceiling[n]))
        /\ \/ Segment(n, receipt \o <<NodeFailed(n, reason)>>, "failed")
           \/ SegmentEscapes(n, receipt)
        /\ UNCHANGED << ControlVars, decided >>
    BY <1>2 DEF FailFree, ReleaseReservation
  <2>2. [input |-> 0, output |-> 0] \in Usage
    BY DEF Usage
  <2>3. ledger' \in Ledger /\ decided' \in BOOLEAN
    BY <2>1, <2>2, SettledType DEF TypeOK
  <2>4. receipt \o <<NodeFailed(n, reason)>> \in Seq(NodeLevelEvents)
    BY SegmentTypes
  <2> QED BY <2>1, <2>3, <2>4, NodeStepType DEF ControlVars
<1>3. ASSUME NEW known \in PartialUsages, FailBilled(n, known, text)
      PROVE  TypeOK'
  <2> DEFINE usage == BilledUsage(n, known)
  <2>1. usage \in Usage /\ UsageSource(known) \in {"provider", "ceiling", "mixed"}
    BY BilledUsageType
  <2>2. ledger' = Settled(n, usage) /\ UNCHANGED << ControlVars, decided >>
    BY <1>3 DEF FailBilled, CommitUsage
  <2>3. ledger' \in Ledger /\ decided' \in BOOLEAN
    BY <2>1, <2>2, SettledType DEF TypeOK
  <2>4. CASE text = "plain"
    <3> DEFINE events == <<ArtifactWritten("receipt", n)>>
                           \o << ModelFailed(n, "timeout", usage, UsageSource(known)),
                                 NodeFailed(n, "backend_error") >>
    <3>1. Segment(n, events, "failed")
      BY <1>3, <2>4 DEF FailBilled
    <3>2. events \in Seq(NodeLevelEvents)
      BY <2>1, BillingSegmentTypes
    <3> HIDE DEF events
    <3> QED BY <2>2, <2>3, <3>1, <3>2, NodeStepType DEF ControlVars
  <2>5. CASE text # "plain"
    <3> DEFINE events == <<ArtifactWritten("receipt", n)>>
                           \o <<NodeFailed(n, "unexpected_error")>>
    <3>1. Segment(n, events, "failed")
      BY <1>3, <2>5 DEF FailBilled
    <3>2. events \in Seq(NodeLevelEvents)
      BY <2>1, BillingSegmentTypes
    <3> HIDE DEF events
    <3> QED BY <2>2, <2>3, <3>1, <3>2, NodeStepType DEF ControlVars
  <2> QED BY <2>4, <2>5
<1>4. Receipt(n) \in Seq(NodeLevelEvents) /\ << >> \in Seq(NodeLevelEvents)
  BY SegmentTypes
<1> QED BY <1>1, <1>2, <1>3, <1>4 DEF FailureReasons

(* The remaining steps of a node: the barrier, admission, cancellation. *)
LEMMA NodeType ==
  ASSUME TypeOK, NEW n \in Nodes, NodeStep(n)
  PROVE  TypeOK'
<1>1. CASE FailDependency(n)
  <2>1. <<NodeFailed(n, "dependency_failed")>> \in Seq(NodeLevelEvents)
    BY SegmentTypes DEF FailureReasons
  <2> QED BY <1>1, <2>1, NodeStepType DEF FailDependency, ControlVars, TypeOK
<1>2. CASE Dispatch(n)
  <2>1. Prologue(n) \o <<ModelDispatched(n)>> \in Seq(NodeLevelEvents)
    BY SegmentTypes
  <2>2. [input |-> 0, output |-> 0] \in Usage
    BY DEF Usage
  <2>3. ledger' \in Ledger
    BY <1>2, <2>2, SettledType DEF Dispatch, TypeOK
  <2> QED BY <1>2, <2>1, <2>3, NodeStepType DEF Dispatch, ControlVars, TypeOK
<1>3. CASE RejectDispatch(n)
  <2>1. Prologue(n) \o <<BudgetRejected(n), NodeFailed(n, "budget_rejected")>>
          \in Seq(NodeLevelEvents)
    BY SegmentTypes
  <2> QED BY <1>3, <2>1, NodeStepType DEF RejectDispatch, ControlVars, TypeOK
<1>4. CASE BackendAnswers(n)
  BY <1>4, AnswersType
<1>5. CASE BackendFails(n)
  BY <1>5, FailuresType
<1>6. CASE CancelWaiting(n)
  <2>1. NodeCancelled(n) \in Seq(NodeLevelEvents)
    BY SegmentTypes
  <2> QED BY <1>6, <2>1, NodeStepType DEF CancelWaiting, TypeOK
<1>7. CASE CancelInflight(n)
  <2> DEFINE events == <<ModelFailed(n, "cancelled", Ceiling[n], "ceiling")>>
                         \o NodeCancelled(n)
  <2>1. Ceiling[n] \in Usage
    BY ReservationType
  <2>2. events \in Seq(NodeLevelEvents)
    BY <2>1, BillingSegmentTypes
  <2>3. /\ ledger' = Settled(n, Ceiling[n]) /\ cancelled' = cancelled \ {n}
        /\ Segment(n, events, "failed")
        /\ UNCHANGED << phase, groupAborted, ownerCancelled, decided, documents >>
    BY <1>7 DEF CancelInflight, CommitUsage
  <2>4. ledger' \in Ledger /\ decided' \in BOOLEAN
    BY <2>1, <2>3, SettledType DEF TypeOK
  <2> HIDE DEF events
  <2> QED BY <2>2, <2>3, <2>4, NodeStepType
<1> QED BY <1>1, <1>2, <1>3, <1>4, <1>5, <1>6, <1>7 DEF NodeStep

(* Every step keeps the types. *)
LEMMA StepType ==
  ASSUME TypeOK, [Next]_vars
  PROVE  TypeOK'
<1>1. CASE Open
  <2>1. HistoryOK'
    BY <1>1, RunEventType, RunEventTypes DEF Open
  <2> QED BY <1>1, <2>1 DEF Open, TypeOK, HistoryOK, FileFrames, Phases
<1>2. CASE \E n \in Nodes : NodeStep(n)
  BY <1>2, NodeType
<1>3. CASE AbortGroup
  BY <1>3 DEF AbortGroup, TypeOK, Unfinished
<1>4. CASE OwnerCancel
  BY <1>4 DEF OwnerCancel, TypeOK, Unfinished
<1>5. CASE Unwind
  BY <1>5 DEF Unwind, TypeOK, Phases
<1>6. CASE Finish
  <2>1. HistoryOK'
    BY <1>6, RunEventType, RunEventTypes DEF Finish
  <2> QED BY <1>6, <2>1 DEF Finish, TypeOK, HistoryOK, FileFrames, Phases
<1>7. CASE WriteReport
  BY <1>7 DEF WriteReport, TypeOK, Phases
<1>8. CASE WriteDecision
  BY <1>8 DEF WriteDecision, TypeOK, Phases
<1>9. CASE UNCHANGED vars
  BY <1>9 DEF vars, TypeOK
<1> QED BY <1>1, <1>2, <1>3, <1>4, <1>5, <1>6, <1>7, <1>8, <1>9 DEF Next

(* Every variable of a run keeps its type, whatever the plan, the budget,  *)
(* the provider's reports and the faults.                                  *)
THEOREM TypeCorrect == Spec => []TypeOK
<1>1. Init => TypeOK
  <2>1. EmptyLedger \in Ledger
    BY DEF EmptyLedger, Ledger, BudgetTotals
  <2>2. << >> \in Seq(Events) /\ << >> \in Seq([seq : Nat, event : Events])
    OBVIOUS
  <2> QED BY <2>1, <2>2 DEF Init, TypeOK, Phases
<1>2. TypeOK /\ [Next]_vars => TypeOK'
  BY StepType
<1> QED BY <1>1, <1>2, PTL DEF Spec

-----------------------------------------------------------------------------
(* The budget: no plan, price, provider or fault makes a run exceed its    *)
(* caps at admission or complete above them.                               *)

(* What a step of a node does to the ledger. *)

(* The usage a settled dispatch is billed at; under an honest backend it   *)
(* is within the ceiling that the dispatch reserved.                       *)
BillableFor(n) ==
  {u \in Usage : HonestBackend => /\ u.input <= Ceiling[n].input
                                  /\ u.output <= Ceiling[n].output}

(* What a step of a node does to the ledger.                               *)
LedgerStep(n) ==
  \/ UNCHANGED ledger
  \/ /\ Admits(ledger, ReservationFor(Ceiling[n]))
     /\ ledger' = Reserve(ledger, ReservationFor(Ceiling[n]))
  \/ ledger' = Release(ledger, ReservationFor(Ceiling[n]))
  \/ \E u \in BillableFor(n) : ledger' = Settled(n, u)

(* The node's own ceiling is billable. *)
LEMMA CeilingBillable ==
  ASSUME NEW n \in Nodes
  PROVE  Ceiling[n] \in BillableFor(n)
<1>1. Ceiling[n] \in Usage
  BY ReservationType
<1> QED BY <1>1 DEF BillableFor, Usage

(* A bill assembled by the worker of a failed live call is billable. *)
LEMMA BilledUsageBillable ==
  ASSUME NEW n \in Nodes, NEW known \in PartialUsages, LiveBackend
  PROVE  BilledUsage(n, known) \in BillableFor(n)
<1>1. BilledUsage(n, known) \in Usage /\ Ceiling[n] \in Usage
  BY BilledUsageType, ReservationType
<1>2. PICK i \in {None} \cup {u.input : u \in Reported},
           o \in {None} \cup {u.output : u \in Reported} :
        known = [input |-> i, output |-> o]
  BY DEF PartialUsages
<1>3. ASSUME HonestBackend
      PROVE  /\ BilledUsage(n, known).input <= Ceiling[n].input
             /\ BilledUsage(n, known).output <= Ceiling[n].output
  <2>1. \A u \in Reported : u.input <= Ceiling[n].input /\ u.output <= Ceiling[n].output
    BY <1>3 DEF HonestBackend
  <2>2. known.input # None => known.input <= Ceiling[n].input
    BY <1>2, <2>1
  <2>3. known.output # None => known.output <= Ceiling[n].output
    BY <1>2, <2>1
  <2> QED BY <1>1, <2>2, <2>3 DEF BilledUsage, Usage
<1> QED BY <1>1, <1>3 DEF BillableFor

(* A node reserves only what is admitted and settles only what is          *)
(* billable.                                                               *)
LEMMA NodeLedgerStep ==
  ASSUME NEW n \in Nodes, NodeStep(n)
  PROVE  LedgerStep(n)
<1>1. CASE FailDependency(n) \/ RejectDispatch(n) \/ CancelWaiting(n)
  BY <1>1 DEF FailDependency, RejectDispatch, CancelWaiting, LedgerStep
<1>2. CASE Dispatch(n)
  BY <1>2 DEF Dispatch, LedgerStep
<1>3. CASE BackendAnswers(n)
  <2>1. PICK usage \in Reported, text \in Texts :
          \/ text = "plain" /\ \E verdict \in Verdicts : Complete(n, usage, verdict)
          \/ text = "unencodable" /\ CompleteUnencodable(n, usage)
          \/ OverLimit(n, usage, text)
    BY <1>3 DEF BackendAnswers
  <2>2. usage \in Usage
    BY BackendAssumption
  <2>3. HonestBackend => /\ usage.input <= Ceiling[n].input
                         /\ LiveBackend => usage.output <= Ceiling[n].output
    BY DEF HonestBackend
  <2>4. CASE \E verdict \in Verdicts : Complete(n, usage, verdict)
    <3>1. ledger' = Settled(n, usage) /\ usage.output <= Ceiling[n].output
      BY <2>4 DEF Complete, CommitUsage
    <3> QED BY <2>2, <2>3, <3>1 DEF LedgerStep, BillableFor
  <2>5. CASE CompleteUnencodable(n, usage)
    <3>1. /\ ledger' = Settled(n, usage)
          /\ usage.output <= Ceiling[n].output \/ LiveBackend
      BY <2>5 DEF CompleteUnencodable, CommitUsage
    <3> QED BY <2>2, <2>3, <3>1 DEF LedgerStep, BillableFor
  <2>6. CASE OverLimit(n, usage, text)
    <3>1. CASE LiveBackend
      <4>1. ledger' = Settled(n, usage)
        BY <2>6, <3>1 DEF OverLimit, CommitUsage
      <4> QED BY <2>2, <2>3, <3>1, <4>1 DEF LedgerStep, BillableFor
    <3>2. CASE ~LiveBackend
      BY <2>6, <3>2 DEF OverLimit, ReleaseReservation, LedgerStep
    <3> QED BY <3>1, <3>2
  <2> QED BY <2>1, <2>4, <2>5, <2>6
<1>4. CASE BackendFails(n)
  <2>1. PICK text \in Texts :
          \/ FailFree(n, "backend_error", Receipt(n), text)
          \/ FailFree(n, "unexpected_error", << >>, text)
          \/ /\ LiveBackend
             /\ \E known \in PartialUsages : FailBilled(n, known, text)
    BY <1>4, FaultAssumption DEF BackendFails
  <2>2. CASE \/ FailFree(n, "backend_error", Receipt(n), text)
             \/ FailFree(n, "unexpected_error", << >>, text)
    BY <2>2 DEF FailFree, ReleaseReservation, LedgerStep
  <2>3. CASE LiveBackend /\ \E known \in PartialUsages : FailBilled(n, known, text)
    <3>1. PICK known \in PartialUsages : FailBilled(n, known, text)
      BY <2>3
    <3>2. ledger' = Settled(n, BilledUsage(n, known))
      BY <3>1 DEF FailBilled, CommitUsage
    <3> QED BY <2>3, <3>2, BilledUsageBillable DEF LedgerStep
  <2> QED BY <2>1, <2>2, <2>3
<1>5. CASE CancelInflight(n)
  BY <1>5, CeilingBillable DEF CancelInflight, CommitUsage, LedgerStep
<1> QED BY <1>1, <1>2, <1>3, <1>4, <1>5 DEF NodeStep

(* No other step touches the ledger. *)
LEMMA LedgerSteps ==
  ASSUME [Next]_vars
  PROVE  UNCHANGED ledger \/ \E n \in Nodes : LedgerStep(n)
<1>1. CASE \E n \in Nodes : NodeStep(n)
  BY <1>1, NodeLedgerStep
<1>2. CASE ~ \E n \in Nodes : NodeStep(n)
  BY <1>2 DEF Next, vars, Open, AbortGroup, OwnerCancel, Unwind, Finish,
              WriteReport, WriteDecision
<1> QED BY <1>1, <1>2

-----------------------------------------------------------------------------
(* The hard caps hold at admission. *)

(* One step of the ledger keeps the caps: admission checks them, a release *)
(* frees what was reserved, and a commit exchanges the reservation for a   *)
(* bill that, from an honest backend, is no larger.                        *)
LEMMA LedgerStepKeepsCaps ==
  ASSUME TypeOK, HardCaps, NEW n \in Nodes, LedgerStep(n)
  PROVE  HardCaps'
<1> DEFINE r == ReservationFor(Ceiling[n])
<1>1. /\ ledger \in Ledger /\ r \in Reservation /\ Ceiling[n] \in Usage
      /\ MaxCalls \in Nat /\ MaxTotalTokens \in Nat /\ MaxCostMicrousd \in Nat
  BY ReservationType, BudgetAssumption DEF TypeOK
<1>2. HonestBackend' <=> HonestBackend
  BY DEF HonestBackend
<1>3. CASE UNCHANGED ledger
  BY <1>2, <1>3 DEF HardCaps, CallsWithinCap, TokensWithinCap, CostWithinCap,
                    UsedCalls, UsedTokens, UsedCost
<1>4. CASE Admits(ledger, r) /\ ledger' = Reserve(ledger, r)
  <2>1. /\ UsedCalls(Reserve(ledger, r)) = UsedCalls(ledger) + 1
        /\ UsedTokens(Reserve(ledger, r)) = UsedTokens(ledger) + r.tokens
        /\ UsedCost(Reserve(ledger, r)) = UsedCost(ledger) + r.cost
    BY <1>1 DEF Reserve, UsedCalls, UsedTokens, UsedCost, Ledger, BudgetTotals, Reservation
  <2> QED BY <1>4, <2>1 DEF Admits, HardCaps, CallsWithinCap, TokensWithinCap,
                            CostWithinCap
<1>5. CASE ledger' = Release(ledger, r)
  <2>1. /\ UsedCalls(Release(ledger, r)) = UsedCalls(ledger) - 1
        /\ UsedTokens(Release(ledger, r)) = UsedTokens(ledger) - r.tokens
        /\ UsedCost(Release(ledger, r)) = UsedCost(ledger) - r.cost
    BY <1>1 DEF Release, UsedCalls, UsedTokens, UsedCost, Ledger, BudgetTotals, Reservation
  <2>2. /\ UsedCalls(ledger) \in Int /\ UsedTokens(ledger) \in Int
        /\ UsedCost(ledger) \in Int /\ r.tokens \in Nat /\ r.cost \in Nat
    BY <1>1 DEF UsedCalls, UsedTokens, UsedCost, Ledger, BudgetTotals, Reservation
  <2> HIDE DEF r
  <2> QED BY <1>1, <1>2, <1>5, <2>1, <2>2 DEF HardCaps, CallsWithinCap,
                                         TokensWithinCap, CostWithinCap
<1>6. CASE \E u \in BillableFor(n) : ledger' = Settled(n, u)
  <2>1. PICK u \in BillableFor(n) : ledger' = Settled(n, u)
    BY <1>6
  <2>2. u \in Usage /\ DispatchCost(u) \in Nat
    BY DispatchCostType DEF BillableFor
  <2>3. /\ UsedCalls(Settled(n, u)) = UsedCalls(ledger)
        /\ UsedTokens(Settled(n, u)) = UsedTokens(ledger) + u.input + u.output - r.tokens
        /\ UsedCost(Settled(n, u)) = UsedCost(ledger) + DispatchCost(u) - r.cost
    BY <1>1, <2>2 DEF Settled, Commit, Release, UsedCalls, UsedTokens, UsedCost,
                      Ledger, BudgetTotals, Reservation, Usage
  <2>4. HonestBackend => u.input + u.output <= r.tokens /\ DispatchCost(u) <= r.cost
    BY <1>1, <2>2, DispatchCostMonotone DEF BillableFor, ReservationFor, Usage
  <2>5. /\ UsedCalls(ledger) \in Int /\ UsedTokens(ledger) \in Int
        /\ UsedCost(ledger) \in Int /\ r.tokens \in Nat /\ r.cost \in Nat
        /\ u.input \in Nat /\ u.output \in Nat
    BY <1>1, <2>2 DEF UsedCalls, UsedTokens, UsedCost, Ledger, BudgetTotals,
                      Reservation, Usage
  <2> HIDE DEF r
  <2> QED BY <1>1, <1>2, <2>1, <2>2, <2>3, <2>4, <2>5
        DEF HardCaps, CallsWithinCap, TokensWithinCap, CostWithinCap
<1> QED BY <1>3, <1>4, <1>5, <1>6 DEF LedgerStep

(* The caps on calls, tokens and cost count what is in flight and are      *)
(* never exceeded: the one on calls unconditionally, the others for every  *)
(* provider whose reports stay within what was reserved for the call.      *)
THEOREM BudgetKept == Spec => []HardCaps
<1>1. Init => HardCaps
  BY BudgetAssumption DEF Init, EmptyLedger, HardCaps, CallsWithinCap, TokensWithinCap,
                          CostWithinCap, UsedCalls, UsedTokens, UsedCost
<1>2. TypeOK /\ HardCaps /\ [Next]_vars => HardCaps'
  <2> SUFFICES ASSUME TypeOK, HardCaps, [Next]_vars PROVE HardCaps'
    OBVIOUS
  <2>1. CASE UNCHANGED ledger
    BY <2>1 DEF HardCaps, CallsWithinCap, TokensWithinCap, CostWithinCap,
                UsedCalls, UsedTokens, UsedCost, HonestBackend
  <2>2. CASE \E n \in Nodes : LedgerStep(n)
    BY <2>2, LedgerStepKeepsCaps
  <2> QED BY <2>1, <2>2, LedgerSteps
<1> QED BY <1>1, <1>2, TypeCorrect, PTL DEF Spec

-----------------------------------------------------------------------------
(* A run completes within its caps. *)

(* Why a breach cannot go unnoticed: whoever commits the usage that        *)
(* breaches a cap also journals a failure or unwinds the run, the engine's *)
(* abort keeps a node from journaling its failure only when another node   *)
(* has raised, and the terminal event is written by Finish alone.          *)
BreachShows ==
  /\ engineAbort => raised # {}
  /\ phase \in {"created", "running"} => Recorded("run.finished") = {}
  /\ Breached(ledger) => AnyFailure \/ raised # {}
  /\ CompletedWithinCaps

(* What a segment cannot undo, and what it must show if it ends with the   *)
(* failure of its node.                                                    *)
LEMMA SegmentShows ==
  ASSUME TypeOK, NEW n \in Nodes, NEW events \in Seq(NodeLevelEvents),
         NEW next \in {"waiting", "inflight", "completed", "failed"},
         \/ Segment(n, events, next)
         \/ SegmentEscapes(n, events),
         engineAbort => raised # {}
  PROVE  /\ engineAbort' => raised' # {}
         /\ AnyFailure \/ raised # {} => AnyFailure' \/ raised' # {}
         /\ Recorded("run.finished") = {} => Recorded("run.finished")' = {}
         /\ (\E i \in DOMAIN events : events[i].type = "node.failed")
              => AnyFailure' \/ raised' # {}
<1>1. PICK added \in Seq(NodeLevelEvents) : journal' = journal \o added
  BY SegmentStep DEF Grows
<1>2. \/ /\ journal' = journal \o events
         /\ UNCHANGED << raised, engineAbort >>
      \/ raised' = raised \cup {n}
  BY SegmentStep DEF Written
<1>3. journal \in Seq(Events)
  BY DEF TypeOK
<1>4. \A i \in DOMAIN journal : i \in DOMAIN journal' /\ journal'[i] = journal[i]
  BY <1>1, <1>3
<1>5. \A i \in DOMAIN journal' : i \in DOMAIN journal \/ journal'[i] \in NodeLevelEvents
  BY <1>1, <1>3
<1>6. \A e \in NodeLevelEvents : e.type # "run.finished"
  BY DEF NodeLevelEvents
<1>7. engineAbort' => raised' # {}
  BY <1>2
<1>8. AnyFailure => AnyFailure'
  BY <1>4 DEF AnyFailure
<1>9. Recorded("run.finished") = {} => Recorded("run.finished")' = {}
  BY <1>4, <1>5, <1>6 DEF Recorded
<1>10. (\E i \in DOMAIN events : events[i].type = "node.failed")
         => AnyFailure' \/ raised' # {}
  <2>1. CASE journal' = journal \o events
    <3>1. \A i \in DOMAIN events :
            /\ Len(journal) + i \in DOMAIN journal'
            /\ journal'[Len(journal) + i] = events[i]
      BY <2>1, <1>3
    <3> QED BY <3>1 DEF AnyFailure
  <2>2. CASE raised' = raised \cup {n}
    BY <2>2
  <2> QED BY <1>2, <2>1, <2>2
<1> QED BY <1>2, <1>7, <1>8, <1>9, <1>10

(* A step of a node keeps the invariant if its breach is shown. *)
LEMMA NodeStepShows ==
  ASSUME TypeOK, BreachShows, NEW n \in Nodes, phase = "running", phase' = phase,
         NEW events \in Seq(NodeLevelEvents),
         NEW next \in {"waiting", "inflight", "completed", "failed"},
         \/ Segment(n, events, next)
         \/ SegmentEscapes(n, events),
         \/ ledger'.committed = ledger.committed
         \/ \E i \in DOMAIN events : events[i].type = "node.failed"
         \/ engineAbort
         \/ ~Breached(ledger')
  PROVE  BreachShows'
<1>1. /\ engineAbort' => raised' # {}
      /\ AnyFailure \/ raised # {} => AnyFailure' \/ raised' # {}
      /\ Recorded("run.finished")' = {}
      /\ (\E i \in DOMAIN events : events[i].type = "node.failed")
           => AnyFailure' \/ raised' # {}
  BY SegmentShows DEF BreachShows
<1>2. Breached(ledger)' => AnyFailure' \/ raised' # {}
  <2>1. CASE ledger'.committed = ledger.committed
    BY <1>1, <2>1 DEF BreachShows, Breached
  <2>2. CASE engineAbort
    BY <1>1, <2>2 DEF BreachShows
  <2>3. CASE ~Breached(ledger')
    BY <2>3 DEF Breached
  <2> QED BY <1>1, <2>1, <2>2, <2>3
<1>3. CompletedWithinCaps'
  BY <1>1 DEF CompletedWithinCaps
<1> QED BY <1>1, <1>2, <1>3 DEF BreachShows

(* A backend's answer shows the breach it causes. *)
LEMMA AnswersShow ==
  ASSUME TypeOK, BreachShows, NEW n \in Nodes, BackendAnswers(n)
  PROVE  BreachShows'
<1>1. PICK usage \in Reported, text \in Texts :
        \/ text = "plain" /\ \E verdict \in Verdicts : Complete(n, usage, verdict)
        \/ text = "unencodable" /\ CompleteUnencodable(n, usage)
        \/ OverLimit(n, usage, text)
  BY DEF BackendAnswers
<1>2. usage \in Usage
  BY BackendAssumption
<1>3. CASE \E verdict \in Verdicts : Complete(n, usage, verdict)
  <2>1. PICK verdict \in Verdicts : Complete(n, usage, verdict)
    BY <1>3
  <2> DEFINE closing == IF BreachedBy(n, usage) THEN <<NodeFailed(n, "budget_exceeded")>>
                        ELSE Closing(n, verdict)
             next == IF closing[Len(closing)].type = "node.failed" THEN "failed"
                     ELSE "completed"
             billing == Billing(n, usage)
             events == billing \o closing
  <2>2. closing \in Seq(NodeLevelEvents) /\ billing \in Seq(NodeLevelEvents)
    BY <1>2, SegmentTypes, BillingSegmentTypes DEF FailureReasons
  <2>3. /\ phase = "running" /\ phase' = phase
        /\ Segment(n, events, next)
        /\ ledger' = Settled(n, usage)
    BY <2>1 DEF Complete, CommitUsage, Inflight, ControlVars
  <2>4. next \in {"waiting", "inflight", "completed", "failed"}
    OBVIOUS
  <2>5. CASE BreachedBy(n, usage)
    <3>1. closing = <<NodeFailed(n, "budget_exceeded")>>
      BY <2>5
    <3>2. /\ Len(billing) + 1 \in DOMAIN events
          /\ events[Len(billing) + 1] = NodeFailed(n, "budget_exceeded")
      BY <2>2, <3>1
    <3>3. \E i \in DOMAIN events : events[i].type = "node.failed"
      BY <3>2 DEF NodeFailed
    <3>4. events \in Seq(NodeLevelEvents)
      BY <2>2
    <3> HIDE DEF events, next
    <3> QED BY <2>3, <2>4, <3>3, <3>4, NodeStepShows
  <2>6. CASE ~BreachedBy(n, usage)
    <3>1. ~Breached(ledger')
      BY <2>3, <2>6 DEF BreachedBy
    <3>2. events \in Seq(NodeLevelEvents)
      BY <2>2
    <3> HIDE DEF events, next
    <3> QED BY <2>3, <2>4, <3>1, <3>2, NodeStepShows
  <2> QED BY <2>5, <2>6
<1>4. CASE CompleteUnencodable(n, usage)
  <2> DEFINE events == <<NodeFailed(n, "unexpected_error")>>
  <2>1. /\ phase = "running" /\ phase' = phase
        /\ Segment(n, events, "failed")
    BY <1>4 DEF CompleteUnencodable, Inflight, ControlVars
  <2>2. events \in Seq(NodeLevelEvents)
    BY SegmentTypes DEF FailureReasons
  <2>3. 1 \in DOMAIN events /\ events[1].type = "node.failed"
    BY DEF NodeFailed
  <2> HIDE DEF events
  <2> QED BY <2>1, <2>2, <2>3, NodeStepShows
<1>5. CASE OverLimit(n, usage, text)
  <2>1. phase = "running" /\ phase' = phase
    BY <1>5 DEF OverLimit, Inflight, ControlVars
  <2>2. CASE LiveBackend
    <3> DEFINE events == << ArtifactWritten("output", n), ArtifactWritten("receipt", n),
                            ModelFailed(n, "protocol", usage, "provider"),
                            NodeFailed(n, "backend_error") >>
    <3>1. Segment(n, events, "failed")
      BY <1>5, <2>2 DEF OverLimit
    <3>2. events \in Seq(NodeLevelEvents)
      BY <1>2, BillingSegmentTypes
    <3>3. 4 \in DOMAIN events /\ events[4].type = "node.failed"
      BY DEF NodeFailed
    <3> HIDE DEF events
    <3> QED BY <2>1, <3>1, <3>2, <3>3, NodeStepShows
  <2>3. CASE ~LiveBackend
    <3> DEFINE events == <<NodeFailed(n, "backend_error")>>
    <3>1. Segment(n, events, "failed")
      BY <1>5, <2>3 DEF OverLimit
    <3>2. events \in Seq(NodeLevelEvents)
      BY SegmentTypes DEF FailureReasons
    <3>3. 1 \in DOMAIN events /\ events[1].type = "node.failed"
      BY DEF NodeFailed
    <3> HIDE DEF events
    <3> QED BY <2>1, <3>1, <3>2, <3>3, NodeStepShows
  <2> QED BY <2>2, <2>3
<1> QED BY <1>1, <1>3, <1>4, <1>5

(* A failing backend's bill shows too. *)
LEMMA FailuresShow ==
  ASSUME TypeOK, BreachShows, NEW n \in Nodes, BackendFails(n)
  PROVE  BreachShows'
<1>1. PICK text \in Texts :
        \/ FailFree(n, "backend_error", Receipt(n), text)
        \/ FailFree(n, "unexpected_error", << >>, text)
        \/ \E known \in PartialUsages : FailBilled(n, known, text)
  BY DEF BackendFails
<1>2. ASSUME NEW reason \in FailureReasons, NEW receipt \in Seq(NodeLevelEvents),
             FailFree(n, reason, receipt, text)
      PROVE  BreachShows'
  <2>1. /\ phase = "running" /\ phase' = phase
        /\ \/ Segment(n, receipt \o <<NodeFailed(n, reason)>>, "failed")
           \/ SegmentEscapes(n, receipt)
        /\ ledger' = Release(ledger, ReservationFor(Ceiling[n]))
    BY <1>2 DEF FailFree, ReleaseReservation, Inflight, ControlVars
  <2>2. ledger'.committed = ledger.committed
    BY <2>1 DEF Release, TypeOK, Ledger
  <2>3. receipt \o <<NodeFailed(n, reason)>> \in Seq(NodeLevelEvents)
    BY SegmentTypes
  <2> QED BY <2>1, <2>2, <2>3, NodeStepShows
<1>3. ASSUME NEW known \in PartialUsages, FailBilled(n, known, text)
      PROVE  BreachShows'
  <2> DEFINE usage == BilledUsage(n, known)
             close == IF text = "plain"
                      THEN << ModelFailed(n, "timeout", usage, UsageSource(known)),
                              NodeFailed(n, "backend_error") >>
                      ELSE << NodeFailed(n, "unexpected_error") >>
             receipt == <<ArtifactWritten("receipt", n)>>
             events == receipt \o close
  <2>1. usage \in Usage /\ UsageSource(known) \in {"provider", "ceiling", "mixed"}
    BY BilledUsageType
  <2>2. /\ phase = "running" /\ phase' = phase
        /\ Segment(n, events, "failed")
    BY <1>3 DEF FailBilled, Inflight, ControlVars
  <2>3. close \in Seq(NodeLevelEvents) /\ receipt \in Seq(NodeLevelEvents)
    BY <2>1, EventTypes, BillingEventTypes DEF FailureReasons
  <2>4. /\ events \in Seq(NodeLevelEvents)
        /\ Len(events) = 1 + Len(close)
        /\ \A i \in DOMAIN close : events[1 + i] = close[i]
    BY <2>3
  <2>5. \E i \in DOMAIN close : close[i].type = "node.failed"
    <3>1. CASE text = "plain"
      <4>1. 2 \in DOMAIN close /\ close[2] = NodeFailed(n, "backend_error")
        BY <3>1
      <4> QED BY <4>1 DEF NodeFailed
    <3>2. CASE text # "plain"
      <4>1. 1 \in DOMAIN close /\ close[1] = NodeFailed(n, "unexpected_error")
        BY <3>2
      <4> QED BY <4>1 DEF NodeFailed
    <3> QED BY <3>1, <3>2
  <2> HIDE DEF close
  <2>6. \E i \in DOMAIN events : events[i].type = "node.failed"
    <3>1. PICK i \in DOMAIN close : close[i].type = "node.failed"
      BY <2>5
    <3>2. i \in 1..Len(close) /\ DOMAIN events = 1..Len(events) /\ Len(close) \in Nat
      BY <2>3, <2>4, <3>1
    <3> HIDE DEF events
    <3>3. 1 + i \in DOMAIN events /\ events[1 + i].type = "node.failed"
      BY <2>4, <3>1, <3>2
    <3> QED BY <3>3
  <2> HIDE DEF events
  <2> QED BY <2>2, <2>4, <2>6, NodeStepShows
<1>4. Receipt(n) \in Seq(NodeLevelEvents) /\ << >> \in Seq(NodeLevelEvents)
  BY SegmentTypes
<1> QED BY <1>1, <1>2, <1>3, <1>4 DEF FailureReasons

(* The remaining steps of a node show their breaches: only a cancelled     *)
(* dispatch commits anything, and it fails its node unless the engine      *)
(* aborts.                                                                 *)
LEMMA NodeShows ==
  ASSUME TypeOK, BreachShows, NEW n \in Nodes, NodeStep(n)
  PROVE  BreachShows'
<1>1. CASE FailDependency(n)
  <2>1. <<NodeFailed(n, "dependency_failed")>> \in Seq(NodeLevelEvents)
    BY SegmentTypes DEF FailureReasons
  <2> QED BY <1>1, <2>1, NodeStepShows DEF FailDependency, PastBarrier, ControlVars
<1>2. CASE Dispatch(n)
  <2> DEFINE events == Prologue(n) \o <<ModelDispatched(n)>>
  <2>1. events \in Seq(NodeLevelEvents)
    BY SegmentTypes
  <2>2. ledger'.committed = ledger.committed
    BY <1>2 DEF Dispatch, Reserve, TypeOK, Ledger
  <2>3. /\ phase = "running" /\ phase' = phase
        /\ Segment(n, events, "inflight")
    BY <1>2 DEF Dispatch, PastBarrier, ControlVars
  <2> HIDE DEF events
  <2> QED BY <2>1, <2>2, <2>3, NodeStepShows
<1>3. CASE RejectDispatch(n)
  <2> DEFINE events == Prologue(n) \o <<BudgetRejected(n), NodeFailed(n, "budget_rejected")>>
  <2>1. events \in Seq(NodeLevelEvents)
    BY SegmentTypes
  <2>2. ledger'.committed = ledger.committed
    BY <1>3 DEF RejectDispatch
  <2>3. /\ phase = "running" /\ phase' = phase
        /\ Segment(n, events, "failed")
    BY <1>3 DEF RejectDispatch, PastBarrier, ControlVars
  <2> HIDE DEF events
  <2> QED BY <2>1, <2>2, <2>3, NodeStepShows
<1>4. CASE BackendAnswers(n)
  BY <1>4, AnswersShow
<1>5. CASE BackendFails(n)
  BY <1>5, FailuresShow
<1>6. CASE CancelWaiting(n)
  <2>1. NodeCancelled(n) \in Seq(NodeLevelEvents)
    BY SegmentTypes
  <2>2. ledger'.committed = ledger.committed
    BY <1>6 DEF CancelWaiting
  <2> QED BY <1>6, <2>1, <2>2, NodeStepShows DEF CancelWaiting
<1>7. CASE CancelInflight(n)
  <2> DEFINE billed == <<ModelFailed(n, "cancelled", Ceiling[n], "ceiling")>>
             events == billed \o NodeCancelled(n)
  <2>1. Ceiling[n] \in Usage
    BY ReservationType
  <2>2. events \in Seq(NodeLevelEvents)
    BY <2>1, BillingSegmentTypes
  <2>3. /\ phase = "running" /\ phase' = phase
        /\ Segment(n, events, "failed")
    BY <1>7 DEF CancelInflight
  <2>4. engineAbort \/ \E i \in DOMAIN events : events[i].type = "node.failed"
    <3>1. CASE engineAbort
      BY <3>1
    <3>2. CASE ~engineAbort
      <4>1. NodeCancelled(n) = <<NodeFailed(n, "cancelled")>>
        BY <3>2 DEF NodeCancelled
      <4>2. 2 \in DOMAIN events /\ events[2] = NodeFailed(n, "cancelled")
        BY <4>1
      <4> QED BY <4>2 DEF NodeFailed
    <3> QED BY <3>1, <3>2
  <2> HIDE DEF events
  <2> QED BY <2>2, <2>3, <2>4, NodeStepShows
<1> QED BY <1>1, <1>2, <1>3, <1>4, <1>5, <1>6, <1>7 DEF NodeStep

(* The terminal event says completed only when nothing failed or raised,   *)
(* and then no cap is breached.                                            *)
LEMMA FinishShows ==
  ASSUME TypeOK, BreachShows, Finish
  PROVE  BreachShows'
<1>1. /\ phase = "running" /\ phase' \notin {"created", "running"} /\ raised = {}
      /\ UNCHANGED << raised, engineAbort, ledger >>
  BY DEF Finish
<1>2. journal \in Seq(Events) /\ RunFinished \in Events
  BY RunEventTypes DEF TypeOK
<1>3. Recorded("run.finished") = {}
  BY <1>1 DEF BreachShows
<1>4. CASE Written(<<RunFinished>>)
  <2>1. journal' = Append(journal, RunFinished)
    BY <1>2, <1>4 DEF Written
  <2>2. /\ \A i \in DOMAIN journal : i \in DOMAIN journal' /\ journal'[i] = journal[i]
        /\ \A i \in DOMAIN journal' : i \in DOMAIN journal \/ journal'[i] = RunFinished
    BY <1>2, <2>1
  <2>3. AnyFailure => AnyFailure'
    BY <2>2 DEF AnyFailure
  <2>4. RunFinished.status = "completed" => ~AnyFailure
    BY DEF RunFinished
  <2>5. RunFinished.status = "completed" => ~Breached(ledger)
    BY <1>1, <2>4 DEF BreachShows
  <2>6. \A i \in Recorded("run.finished")' : journal'[i] = RunFinished
    BY <1>3, <2>2 DEF Recorded
  <2>7. Breached(ledger)' <=> Breached(ledger)
    BY <1>1 DEF Breached
  <2>8. CompletedWithinCaps'
    BY <2>5, <2>6, <2>7 DEF CompletedWithinCaps
  <2> QED BY <1>1, <2>3, <2>7, <2>8 DEF BreachShows
<1>5. CASE \E fault \in StorageFaults : FailsAt(<<RunFinished>>, 1, fault)
  <2>1. journal' = journal
    BY <1>2, <1>5 DEF FailsAt
  <2> QED BY <1>1, <1>3, <2>1
        DEF BreachShows, CompletedWithinCaps, Recorded, AnyFailure, Breached
<1> QED BY <1>4, <1>5 DEF Finish

(* Every step keeps the invariant. *)
LEMMA StepShows ==
  ASSUME TypeOK, BreachShows, [Next]_vars
  PROVE  BreachShows'
<1>1. CASE Open
  <2>1. /\ Recorded("run.finished") = {} /\ phase' \in {"running", "raised"}
        /\ UNCHANGED << raised, engineAbort, ledger >>
    BY <1>1 DEF Open, BreachShows
  <2>2. journal \in Seq(Events)
    BY DEF TypeOK
  <2>3. journal' = journal \/ journal' = Append(journal, RunCreated)
    <3>1. CASE Written(<<RunCreated>>)
      BY <2>2, <3>1, RunEventTypes DEF Written
    <3>2. CASE \E fault \in StorageFaults : FailsAt(<<RunCreated>>, 1, fault)
      <4>1. SubSeq(<<RunCreated>>, 1, 1 - 1) = << >>
        OBVIOUS
      <4> QED BY <2>2, <3>2, <4>1 DEF FailsAt
    <3> QED BY <1>1, <3>1, <3>2 DEF Open
  <2>4. /\ AnyFailure => AnyFailure'
        /\ Recorded("run.finished")' = {}
    BY <2>1, <2>2, <2>3 DEF AnyFailure, Recorded, RunCreated
  <2> QED BY <2>1, <2>4 DEF BreachShows, CompletedWithinCaps, Breached
<1>2. CASE \E n \in Nodes : NodeStep(n)
  BY <1>2, NodeShows
<1>3. CASE AbortGroup \/ OwnerCancel \/ UNCHANGED vars
  BY <1>3 DEF AbortGroup, OwnerCancel, vars, BreachShows, CompletedWithinCaps, Recorded,
              AnyFailure, Breached
<1>4. CASE Unwind \/ WriteReport \/ WriteDecision
  BY <1>4 DEF Unwind, WriteReport, WriteDecision, BreachShows, CompletedWithinCaps,
              Recorded, AnyFailure, Breached
<1>5. CASE Finish
  BY <1>5, FinishShows
<1> QED BY <1>1, <1>2, <1>3, <1>4, <1>5 DEF Next

(* A run whose journal says completed has spent no more than its caps,     *)
(* even when providers report more than the calls reserved, whatever is    *)
(* cancelled, cannot be encoded or fails to be written.                    *)
THEOREM CompletionKept == Spec => []CompletedWithinCaps
<1>1. Init => BreachShows
  BY BudgetAssumption DEF Init, BreachShows, EmptyLedger, Breached, CompletedWithinCaps,
                          Recorded
<1>2. TypeOK /\ BreachShows /\ [Next]_vars => BreachShows'
  BY StepShows
<1>3. BreachShows => CompletedWithinCaps
  BY DEF BreachShows
<1> QED BY <1>1, <1>2, <1>3, TypeCorrect, PTL DEF Spec

-----------------------------------------------------------------------------
(* What a step of a node tells the journal, and what becomes of the node,  *)
(* its reservation and the run's flags.                                    *)

StatusTypes == {"node.started", "node.completed", "node.failed"}

(* The changes of status that a segment tells of. *)
Marks(events) == {events[i].type : i \in DOMAIN events} \cap StatusTypes

(* A segment tells of one node only.                                       *)
About(n, events) ==
  \A i \in DOMAIN events : events[i].type \in StatusTypes => events[i].node = n

(* A segment holds the failure of a node that blames a dependency.         *)
Blames(events) ==
  \E i \in DOMAIN events :
    events[i].type = "node.failed" /\ events[i].reason = "dependency_failed"

(* A segment of a node is what the step adds to the journal.               *)
Tells(n, events) ==
  /\ events \in Seq(NodeLevelEvents)
  /\ About(n, events)
  /\ journal' = journal \o events

(* The step ends a dispatch in the ledger, unbilled or billed.             *)
Frees(n) ==
  \/ ledger' = Release(ledger, ReservationFor(Ceiling[n]))
  \/ \E u \in Usage : ledger' = Settled(n, u)

(* A node is dispatched: it reserves, says so, and has its dependencies.   *)
Starts(n) ==
  /\ task[n] = "waiting" /\ n \notin cancelled /\ DependenciesCompleted(n)
  /\ task' = [task EXCEPT ![n] = "inflight"]
  /\ ledger' = Reserve(ledger, ReservationFor(Ceiling[n]))
  /\ \E events : Tells(n, events) /\ Marks(events) = {"node.started"} /\ ~Blames(events)
  /\ UNCHANGED << raised, engineAbort, cancelled >>

(* A node completes: it is billed, and says so.                            *)
Completes(n) ==
  /\ task[n] = "inflight"
  /\ task' = [task EXCEPT ![n] = "completed"]
  /\ Frees(n)
  /\ \E events :
       /\ Tells(n, events) /\ Marks(events) = {"node.completed"} /\ ~Blames(events)
       /\ \E i \in DOMAIN events : events[i] = NodeCompleted(n)
  /\ UNCHANGED << raised, engineAbort, cancelled >>

(* A node that fails says so, unless its coroutine raised or a failed      *)
(* write of another has it torn down silently.                             *)
Fails(n) ==
  /\ task[n] \in {"waiting", "inflight"}
  /\ task' = [task EXCEPT ![n] = "failed"]
  /\ IF task[n] = "waiting" THEN UNCHANGED ledger ELSE Frees(n)
  /\ \E events :
       /\ Tells(n, events)
       /\ "node.started" \in Marks(events) => task[n] = "waiting" /\ DependenciesCompleted(n)
       /\ "node.completed" \in Marks(events) => task[n] = "inflight"
       /\ \/ "node.failed" \in Marks(events)
          \/ n \in raised'
          \/ engineAbort /\ (n \in cancelled \/ task[n] = "inflight")
       /\ Blames(events) => PastBarrier(n) /\ \E d \in DependsOn[n] : task[d] = "failed"
  /\ raised' \in {raised, raised \cup {n}}
  /\ engineAbort => engineAbort'
  /\ engineAbort' =>
       engineAbort \/ (n \in raised' /\ (task[n] = "inflight" \/ DependenciesCompleted(n)))
  /\ cancelled' = cancelled \ {n}

(* What every step of a node comes to.                                     *)
Outcome(n) ==
  /\ phase = "running"
  /\ UNCHANGED << phase, groupAborted, ownerCancelled >>
  /\ Starts(n) \/ Completes(n) \/ Fails(n)

(* Two segments in a row tell of what each tells of. *)
LEMMA MarksConcat ==
  ASSUME NEW n, NEW a \in Seq(NodeLevelEvents), NEW b \in Seq(NodeLevelEvents)
  PROVE  /\ a \o b \in Seq(NodeLevelEvents)
         /\ Marks(a \o b) = Marks(a) \cup Marks(b)
         /\ About(n, a) /\ About(n, b) => About(n, a \o b)
         /\ Blames(a \o b) <=> Blames(a) \/ Blames(b)
<1> DEFINE c == a \o b
<1>1. /\ c \in Seq(NodeLevelEvents) /\ Len(c) = Len(a) + Len(b)
      /\ Len(a) \in Nat /\ Len(b) \in Nat
      /\ DOMAIN a = 1..Len(a) /\ DOMAIN b = 1..Len(b) /\ DOMAIN c = 1..Len(c)
      /\ \A i \in 1..Len(a) : c[i] = a[i]
      /\ \A i \in 1..Len(b) : c[Len(a) + i] = b[i]
  OBVIOUS
<1> HIDE DEF c
<1>2. ASSUME NEW i \in DOMAIN c
      PROVE  \/ i \in DOMAIN a /\ c[i] = a[i]
             \/ i - Len(a) \in DOMAIN b /\ c[i] = b[i - Len(a)]
  <2>1. CASE i \in 1..Len(a)
    BY <1>1, <2>1
  <2>2. CASE i \notin 1..Len(a)
    <3>1. i - Len(a) \in 1..Len(b) /\ Len(a) + (i - Len(a)) = i
      BY <1>1, <2>2
    <3> QED BY <1>1, <3>1
  <2> QED BY <2>1, <2>2
<1>3. /\ \A i \in DOMAIN a : i \in DOMAIN c /\ c[i] = a[i]
      /\ \A i \in DOMAIN b : Len(a) + i \in DOMAIN c /\ c[Len(a) + i] = b[i]
  BY <1>1
<1>4. Marks(c) = Marks(a) \cup Marks(b)
  BY <1>2, <1>3 DEF Marks
<1>5. About(n, a) /\ About(n, b) => About(n, c)
  BY <1>2 DEF About
<1>6. Blames(c) <=> Blames(a) \/ Blames(b)
  BY <1>2, <1>3 DEF Blames
<1> QED BY <1>1, <1>4, <1>5, <1>6 DEF c

(* A segment of one event. *)
LEMMA MarksOne ==
  ASSUME NEW n, NEW e \in NodeLevelEvents
  PROVE  /\ <<e>> \in Seq(NodeLevelEvents)
         /\ Marks(<<e>>) = {e.type} \cap StatusTypes
         /\ (e.type \in StatusTypes => e.node = n) => About(n, <<e>>)
         /\ Blames(<<e>>) <=> e.type = "node.failed" /\ e.reason = "dependency_failed"
<1>1. /\ <<e>> \in Seq(NodeLevelEvents)
      /\ DOMAIN <<e>> = {1} /\ <<e>>[1] = e
  OBVIOUS
<1>2. Marks(<<e>>) = {e.type} \cap StatusTypes
  BY <1>1 DEF Marks
<1>3. (e.type \in StatusTypes => e.node = n) => About(n, <<e>>)
  BY <1>1 DEF About
<1>4. Blames(<<e>>) <=> e.type = "node.failed" /\ e.reason = "dependency_failed"
  BY <1>1 DEF Blames
<1> QED BY <1>1, <1>2, <1>3, <1>4

(* A segment of no events.                                                 *)
LEMMA MarksNone ==
  ASSUME NEW n
  PROVE  << >> \in Seq(NodeLevelEvents) /\ Marks(<< >>) = {} /\ About(n, << >>) /\ ~Blames(<< >>)
BY DEF Marks, About, Blames

(* A part of a segment tells of no more than the whole. *)
LEMMA MarksPart ==
  ASSUME NEW n, NEW events \in Seq(NodeLevelEvents), NEW k \in DOMAIN events
  PROVE  LET done == SubSeq(events, 1, k - 1)
         IN  /\ done \in Seq(NodeLevelEvents)
             /\ Marks(done) \subseteq Marks(events)
             /\ About(n, events) => About(n, done)
             /\ Blames(done) => Blames(events)
<1> DEFINE done == SubSeq(events, 1, k - 1)
<1>1. k \in 1..Len(events) /\ Len(events) \in Nat /\ DOMAIN events = 1..Len(events)
  OBVIOUS
<1>2. /\ done \in Seq(NodeLevelEvents) /\ DOMAIN done = 1..(k - 1)
      /\ \A i \in 1..(k - 1) : done[i] = events[i]
  BY <1>1
<1> HIDE DEF done
<1>3. \A i \in DOMAIN done : i \in DOMAIN events /\ done[i] = events[i]
  BY <1>1, <1>2
<1>4. Marks(done) \subseteq Marks(events)
  BY <1>3 DEF Marks
<1>5. About(n, events) => About(n, done)
  BY <1>3 DEF About
<1>6. Blames(done) => Blames(events)
  BY <1>3 DEF Blames
<1> QED BY <1>2, <1>4, <1>5, <1>6 DEF done

(* A segment is written whole and the node goes on, or the node raises.    *)
LEMMA SegmentOutcome ==
  ASSUME TypeOK, NEW n \in Nodes, NEW events \in Seq(NodeLevelEvents), About(n, events),
         NEW next, Segment(n, events, next) \/ SegmentEscapes(n, events)
  PROVE  \/ /\ Tells(n, events)
            /\ task' = [task EXCEPT ![n] = next]
            /\ UNCHANGED << raised, engineAbort >>
            /\ Segment(n, events, next)
         \/ /\ task' = [task EXCEPT ![n] = "failed"]
            /\ raised' = raised \cup {n}
            /\ engineAbort => engineAbort'
            /\ engineAbort' => engineAbort \/ \E i \in DOMAIN events : ~InsideHandler(events[i])
            /\ \E told :
                 /\ Tells(n, told) /\ Marks(told) \subseteq Marks(events)
                 /\ Blames(told) => Blames(events)
<1>1. CASE Written(events) /\ Segment(n, events, next)
           /\ task' = [task EXCEPT ![n] = next] /\ UNCHANGED << raised, engineAbort >>
  BY <1>1 DEF Written, Tells
<1>2. CASE SegmentFails(n, events)
  <2>1. PICK k \in DOMAIN events, fault \in StorageFaults :
          /\ FailsAt(events, k, fault)
          /\ task' = [task EXCEPT ![n] = "failed"]
          /\ raised' = raised \cup {n}
          /\ engineAbort' = (engineAbort \/ ~InsideHandler(events[k]))
    BY <1>2 DEF SegmentFails
  <2> DEFINE told == SubSeq(events, 1, k - 1)
  <2>2. journal' = journal \o told
    BY <2>1 DEF FailsAt
  <2>3. /\ told \in Seq(NodeLevelEvents) /\ About(n, told)
        /\ Marks(told) \subseteq Marks(events) /\ (Blames(told) => Blames(events))
    BY MarksPart
  <2> HIDE DEF told
  <2> QED BY <2>1, <2>2, <2>3 DEF Tells
<1>3. CASE /\ Written(events) /\ task' = [task EXCEPT ![n] = "failed"]
           /\ raised' = raised \cup {n} /\ UNCHANGED engineAbort
  BY <1>3 DEF Written, Tells
<1> QED BY <1>1, <1>2, <1>3 DEF Segment, SegmentEscapes

(* A segment that tells of no change of status. *)
Neutral(n, events) ==
  events \in Seq(NodeLevelEvents) /\ About(n, events) /\ Marks(events) = {} /\ ~Blames(events)

(* A segment that tells of one change, and blames no dependency.           *)
Marking(n, events, type) ==
  events \in Seq(NodeLevelEvents) /\ About(n, events) /\ Marks(events) = {type} /\ ~Blames(events)

(* A neutral segment adds nothing to the one it precedes or follows. *)
LEMMA NeutralConcat ==
  ASSUME NEW n, NEW a, NEW b, Neutral(n, a)
  PROVE  /\ Neutral(n, b) => Neutral(n, a \o b)
         /\ \A type : Marking(n, b, type) => Marking(n, a \o b, type) /\ Marking(n, b \o a, type)
<1>1. Neutral(n, b) => Neutral(n, a \o b)
  <2> HAVE Neutral(n, b)
  <2>1. a \in Seq(NodeLevelEvents) /\ b \in Seq(NodeLevelEvents)
    BY DEF Neutral
  <2> QED BY <2>1, MarksConcat DEF Neutral
<1>2. ASSUME NEW type, Marking(n, b, type)
      PROVE  Marking(n, a \o b, type) /\ Marking(n, b \o a, type)
  <2>1. a \in Seq(NodeLevelEvents) /\ b \in Seq(NodeLevelEvents)
    BY <1>2 DEF Neutral, Marking
  <2>2. Marking(n, a \o b, type)
    BY <1>2, <2>1, MarksConcat DEF Neutral, Marking
  <2>3. Marking(n, b \o a, type)
    BY <1>2, <2>1, MarksConcat DEF Neutral, Marking
  <2> QED BY <2>2, <2>3
<1> QED BY <1>1, <1>2

(* A segment of one event that is no change of status.                     *)
LEMMA NeutralOne ==
  ASSUME NEW n, NEW e \in NodeLevelEvents, e.type \notin StatusTypes
  PROVE  Neutral(n, <<e>>)
<1>1. /\ <<e>> \in Seq(NodeLevelEvents) /\ About(n, <<e>>)
      /\ Marks(<<e>>) = {e.type} \cap StatusTypes
  BY MarksOne
<1>2. ~Blames(<<e>>)
  BY MarksOne DEF StatusTypes
<1> QED BY <1>1, <1>2 DEF Neutral

(* What the segments of the actions tell of. *)
LEMMA SegmentMarks ==
  ASSUME NEW n \in Nodes
  PROVE  /\ \A reason \in FailureReasons \ {"dependency_failed"} :
              Marking(n, <<NodeFailed(n, reason)>>, "node.failed")
         /\ Marking(n, <<NodeCompleted(n)>>, "node.completed")
         /\ Marking(n, Prologue(n), "node.started")
         /\ \A what \in {"request", "output", "receipt"} :
              Neutral(n, <<ArtifactWritten(what, n)>>)
         /\ Neutral(n, Receipt(n)) /\ Neutral(n, << >>)
         /\ Neutral(n, <<ModelDispatched(n)>>) /\ Neutral(n, <<BudgetRejected(n)>>)
         /\ Neutral(n, <<DecisionRecorded(n)>>)
<1>1. ASSUME NEW reason \in FailureReasons \ {"dependency_failed"}
      PROVE  Marking(n, <<NodeFailed(n, reason)>>, "node.failed")
  <2>1. NodeFailed(n, reason) \in NodeLevelEvents
    BY EventTypes
  <2>2. /\ NodeFailed(n, reason).type = "node.failed" /\ NodeFailed(n, reason).node = n
        /\ NodeFailed(n, reason).reason = reason
    BY DEF NodeFailed
  <2> QED BY <2>1, <2>2, MarksOne DEF StatusTypes, Marking
<1>2. Marking(n, <<NodeCompleted(n)>>, "node.completed")
  <2>1. NodeCompleted(n) \in NodeLevelEvents
    BY EventTypes
  <2>2. NodeCompleted(n).type = "node.completed" /\ NodeCompleted(n).node = n
    BY DEF NodeCompleted
  <2> QED BY <2>1, <2>2, MarksOne DEF StatusTypes, Marking
<1>3. ASSUME NEW what \in {"request", "output", "receipt"}
      PROVE  Neutral(n, <<ArtifactWritten(what, n)>>)
  <2>1. ArtifactWritten(what, n) \in NodeLevelEvents
    BY EventTypes
  <2> QED BY <2>1, NeutralOne DEF ArtifactWritten, StatusTypes
<1>4. Marking(n, Prologue(n), "node.started")
  <2>1. NodeStarted(n) \in NodeLevelEvents
    BY EventTypes
  <2>2. NodeStarted(n).type = "node.started" /\ NodeStarted(n).node = n
    BY DEF NodeStarted
  <2>3. Marking(n, <<NodeStarted(n)>>, "node.started")
    BY <2>1, <2>2, MarksOne DEF StatusTypes, Marking
  <2>4. Prologue(n) = <<NodeStarted(n)>> \o <<ArtifactWritten("request", n)>>
    BY DEF Prologue
  <2> QED BY <1>3, <2>3, <2>4, NeutralConcat
<1>5. Neutral(n, << >>)
  BY MarksNone DEF Neutral
<1>6. Neutral(n, Receipt(n))
  BY <1>3, <1>5 DEF Receipt
<1>7. Neutral(n, <<ModelDispatched(n)>>)
  BY EventTypes, NeutralOne DEF ModelDispatched, StatusTypes
<1>8. Neutral(n, <<BudgetRejected(n)>>)
  BY EventTypes, NeutralOne DEF BudgetRejected, StatusTypes
<1>9. Neutral(n, <<DecisionRecorded(n)>>)
  BY EventTypes, NeutralOne DEF DecisionRecorded, StatusTypes
<1> QED BY <1>1, <1>2, <1>3, <1>4, <1>5, <1>6, <1>7, <1>8, <1>9

(* Bills change no status.                                                 *)
LEMMA BillingMarks ==
  ASSUME NEW n \in Nodes, NEW u \in Usage
  PROVE  /\ Neutral(n, Billing(n, u))
         /\ \A reason \in {"timeout", "protocol", "cancelled"},
               source \in {"provider", "ceiling", "mixed"} :
              Neutral(n, <<ModelFailed(n, reason, u, source)>>)
<1>1. ASSUME NEW reason \in {"timeout", "protocol", "cancelled"},
             NEW source \in {"provider", "ceiling", "mixed"}
      PROVE  Neutral(n, <<ModelFailed(n, reason, u, source)>>)
  <2>1. ModelFailed(n, reason, u, source) \in NodeLevelEvents
    BY BillingEventTypes
  <2> QED BY <2>1, NeutralOne DEF ModelFailed, StatusTypes
<1>2. Neutral(n, <<ModelCompleted(n, u)>>)
  <2>1. ModelCompleted(n, u) \in NodeLevelEvents
    BY BillingEventTypes
  <2> QED BY <2>1, NeutralOne DEF ModelCompleted, StatusTypes
<1> DEFINE out == <<ArtifactWritten("output", n)>>
           done == <<ModelCompleted(n, u)>>
<1>3. Billing(n, u) = (out \o done) \o Receipt(n)
  BY DEF Billing
<1>4. Neutral(n, out) /\ Neutral(n, done) /\ Neutral(n, Receipt(n))
  BY <1>2, SegmentMarks
<1> HIDE DEF out, done
<1>5. Neutral(n, out \o done)
  BY <1>4, NeutralConcat
<1>6. Neutral(n, Billing(n, u))
  BY <1>3, <1>4, <1>5, NeutralConcat
<1> QED BY <1>1, <1>6

(* What the actions of a node come to. *)

(* A coroutine of which a step fails the node, whole or halfway. *)
LEMMA FailingSegment ==
  ASSUME TypeOK, NEW n \in Nodes, phase = "running",
         UNCHANGED << phase, groupAborted, ownerCancelled >>,
         NEW events \in Seq(NodeLevelEvents), About(n, events),
         \/ Segment(n, events, "failed")
         \/ SegmentEscapes(n, events),
         task[n] \in {"waiting", "inflight"}, cancelled' = cancelled \ {n},
         IF task[n] = "waiting" THEN UNCHANGED ledger ELSE Frees(n),
         "node.started" \in Marks(events) => task[n] = "waiting" /\ DependenciesCompleted(n),
         "node.completed" \in Marks(events) => task[n] = "inflight",
         \/ "node.failed" \in Marks(events)
         \/ n \in raised'
         \/ engineAbort /\ (n \in cancelled \/ task[n] = "inflight"),
         Blames(events) => PastBarrier(n) /\ \E d \in DependsOn[n] : task[d] = "failed",
         \/ task[n] = "inflight" \/ DependenciesCompleted(n)
         \/ \A i \in DOMAIN events : InsideHandler(events[i])
  PROVE  Outcome(n)
<1>1. CASE /\ Tells(n, events)
           /\ task' = [task EXCEPT ![n] = "failed"]
           /\ UNCHANGED << raised, engineAbort >>
           /\ Segment(n, events, "failed")
  <2>1. Fails(n)
    BY <1>1 DEF Fails
  <2> QED BY <2>1 DEF Outcome
<1>2. CASE /\ task' = [task EXCEPT ![n] = "failed"]
           /\ raised' = raised \cup {n}
           /\ engineAbort => engineAbort'
           /\ engineAbort' => engineAbort \/ \E i \in DOMAIN events : ~InsideHandler(events[i])
           /\ \E told :
                /\ Tells(n, told) /\ Marks(told) \subseteq Marks(events)
                /\ Blames(told) => Blames(events)
  <2>1. Fails(n)
    BY <1>2 DEF Fails
  <2> QED BY <2>1 DEF Outcome
<1> QED BY <1>1, <1>2, SegmentOutcome

(* A node whose dependency has failed.                                     *)
LEMMA DependencyOutcome ==
  ASSUME TypeOK, NEW n \in Nodes, FailDependency(n)
  PROVE  Outcome(n)
<1> DEFINE events == <<NodeFailed(n, "dependency_failed")>>
<1>1. NodeFailed(n, "dependency_failed") \in NodeLevelEvents
  BY EventTypes DEF FailureReasons
<1>2. /\ NodeFailed(n, "dependency_failed").type = "node.failed"
      /\ NodeFailed(n, "dependency_failed").node = n
      /\ InsideHandler(NodeFailed(n, "dependency_failed"))
  BY DEF NodeFailed, InsideHandler
<1>3. /\ events \in Seq(NodeLevelEvents) /\ About(n, events)
      /\ Marks(events) = {"node.failed"}
      /\ \A i \in DOMAIN events : InsideHandler(events[i])
  <2>1. \A i \in DOMAIN events : events[i] = NodeFailed(n, "dependency_failed")
    OBVIOUS
  <2> QED BY <1>1, <1>2, <2>1, MarksOne DEF StatusTypes
<1> HIDE DEF events
<1>4. /\ PastBarrier(n) /\ \E d \in DependsOn[n] : task[d] = "failed"
      /\ Segment(n, events, "failed")
      /\ UNCHANGED << phase, cancelled, groupAborted, ownerCancelled, ledger >>
  BY DEF FailDependency, ControlVars, events
<1>5. phase = "running" /\ task[n] = "waiting" /\ n \notin cancelled
  BY <1>4 DEF PastBarrier
<1>6. cancelled' = cancelled \ {n}
  BY <1>4, <1>5
<1> QED BY <1>3, <1>4, <1>5, <1>6, FailingSegment

(* A dispatch, or a failed write in the prologue that precedes it.         *)
LEMMA DispatchOutcome ==
  ASSUME TypeOK, NEW n \in Nodes, Dispatch(n)
  PROVE  Outcome(n)
<1> DEFINE events == Prologue(n) \o <<ModelDispatched(n)>>
<1>1. Marking(n, events, "node.started")
  BY SegmentMarks, NeutralConcat
<1>2. /\ PastBarrier(n) /\ DependenciesCompleted(n)
      /\ Segment(n, events, "inflight")
      /\ ledger' = IF task'[n] = "inflight"
                   THEN Reserve(ledger, ReservationFor(Ceiling[n])) ELSE ledger
      /\ UNCHANGED << phase, cancelled, groupAborted, ownerCancelled >>
  BY DEF Dispatch, ControlVars
<1> HIDE DEF events
<1>3. phase = "running" /\ task[n] = "waiting" /\ n \notin cancelled
  BY <1>2 DEF PastBarrier
<1>4. cancelled' = cancelled \ {n}
  BY <1>2, <1>3
<1>5. \A state : task' = [task EXCEPT ![n] = state] => task'[n] = state
  BY DEF TypeOK
<1>6. CASE /\ Tells(n, events)
           /\ task' = [task EXCEPT ![n] = "inflight"]
           /\ UNCHANGED << raised, engineAbort >>
  <2>1. Starts(n)
    BY <1>1, <1>2, <1>3, <1>5, <1>6 DEF Starts, Marking
  <2> QED BY <1>2, <1>3, <2>1 DEF Outcome
<1>7. CASE /\ task' = [task EXCEPT ![n] = "failed"]
           /\ raised' = raised \cup {n}
           /\ engineAbort => engineAbort'
           /\ \E told :
                /\ Tells(n, told) /\ Marks(told) \subseteq Marks(events)
                /\ Blames(told) => Blames(events)
  <2>1. ledger' = ledger
    BY <1>2, <1>5, <1>7
  <2>2. PICK told :
          /\ Tells(n, told) /\ Marks(told) \subseteq Marks(events)
          /\ Blames(told) => Blames(events)
    BY <1>7
  <2>3. Marks(told) \subseteq {"node.started"} /\ ~Blames(told)
    BY <1>1, <2>2 DEF Marking
  <2>4. Fails(n)
    BY <1>2, <1>3, <1>4, <1>7, <2>1, <2>2, <2>3 DEF Fails
  <2> QED BY <1>2, <1>3, <2>4 DEF Outcome
<1>8. events \in Seq(NodeLevelEvents) /\ About(n, events)
  BY <1>1 DEF Marking
<1> QED BY <1>2, <1>6, <1>7, <1>8, SegmentOutcome

(* A dispatch the budget rejects.                                          *)
LEMMA RejectionOutcome ==
  ASSUME TypeOK, NEW n \in Nodes, RejectDispatch(n)
  PROVE  Outcome(n)
<1> DEFINE closing == <<BudgetRejected(n), NodeFailed(n, "budget_rejected")>>
           events == Prologue(n) \o closing
<1>1. closing = <<BudgetRejected(n)>> \o <<NodeFailed(n, "budget_rejected")>>
  OBVIOUS
<1>2. /\ Marking(n, <<NodeFailed(n, "budget_rejected")>>, "node.failed")
      /\ Neutral(n, <<BudgetRejected(n)>>)
      /\ Marking(n, Prologue(n), "node.started")
  BY SegmentMarks DEF FailureReasons
<1>3. Marking(n, closing, "node.failed")
  BY <1>1, <1>2, NeutralConcat
<1> HIDE DEF closing
<1>4. /\ events \in Seq(NodeLevelEvents) /\ About(n, events) /\ ~Blames(events)
      /\ Marks(events) = {"node.started", "node.failed"}
  BY <1>2, <1>3, MarksConcat DEF Marking
<1>5. /\ PastBarrier(n) /\ DependenciesCompleted(n)
      /\ Segment(n, events, "failed")
      /\ UNCHANGED << phase, cancelled, groupAborted, ownerCancelled, ledger >>
  BY DEF RejectDispatch, ControlVars, closing
<1> HIDE DEF events
<1>6. phase = "running" /\ task[n] = "waiting" /\ n \notin cancelled
  BY <1>5 DEF PastBarrier
<1>7. cancelled' = cancelled \ {n}
  BY <1>5, <1>6
<1> QED BY <1>4, <1>5, <1>6, <1>7, FailingSegment

(* Two events in a row make a sequence of two.                             *)
LEMMA Juxtaposed ==
  ASSUME NEW a, NEW b
  PROVE  <<a>> \o <<b>> = <<a, b>>
<1> DEFINE c == <<a>> \o <<b>>
<1>1. /\ <<a>> \in Seq({a, b}) /\ <<b>> \in Seq({a, b}) /\ Len(<<a>>) = 1 /\ Len(<<b>>) = 1
  OBVIOUS
<1>2. c \in Seq({a, b}) /\ Len(c) = 2 /\ c[1] = a /\ c[2] = b
  BY <1>1
<1> HIDE DEF c
<1>3. c = <<a, b>>
  BY <1>2
<1> QED BY <1>3 DEF c

(* Two pairs in a row make a sequence of four.                             *)
LEMMA JuxtaposedPairs ==
  ASSUME NEW a, NEW b, NEW c, NEW d
  PROVE  <<a, b>> \o <<c, d>> = <<a, b, c, d>>
<1> DEFINE S == {a, b, c, d}
           s == <<a, b>> \o <<c, d>>
<1>1. <<a, b>> \in Seq(S) /\ <<c, d>> \in Seq(S) /\ Len(<<a, b>>) = 2 /\ Len(<<c, d>>) = 2
  OBVIOUS
<1>2. s \in Seq(S) /\ Len(s) = 4 /\ s[1] = a /\ s[2] = b /\ s[3] = c /\ s[4] = d
  BY <1>1
<1> HIDE DEF s
<1>3. s = <<a, b, c, d>>
  BY <1>2
<1> QED BY <1>3 DEF s

(* A dispatch that is closed by a failing node. *)
LEMMA InflightFails ==
  ASSUME TypeOK, NEW n \in Nodes, phase = "running", task[n] = "inflight", Frees(n),
         UNCHANGED << phase, groupAborted, ownerCancelled >>, cancelled' = cancelled \ {n},
         NEW events \in Seq(NodeLevelEvents), About(n, events), ~Blames(events),
         "node.started" \notin Marks(events),
         \/ Segment(n, events, "failed") /\ ("node.failed" \in Marks(events) \/ engineAbort)
         \/ SegmentEscapes(n, events)
  PROVE  Outcome(n)
<1>1. SegmentEscapes(n, events) => n \in raised'
  BY DEF SegmentEscapes, SegmentFails
<1> QED BY <1>1, FailingSegment

(* An answer the node accepts.                                             *)
LEMMA AnswerOutcome ==
  ASSUME TypeOK, NEW n \in Nodes, NEW usage \in Usage, NEW verdict \in Verdicts,
         Complete(n, usage, verdict)
  PROVE  Outcome(n)
<1> DEFINE closing == IF BreachedBy(n, usage) THEN <<NodeFailed(n, "budget_exceeded")>>
                      ELSE Closing(n, verdict)
           next == IF closing[Len(closing)].type = "node.failed" THEN "failed"
                   ELSE "completed"
           billing == Billing(n, usage)
           events == billing \o closing
<1>1. /\ phase = "running" /\ task[n] = "inflight" /\ n \notin cancelled
      /\ ledger' = Settled(n, usage)
      /\ Segment(n, events, next)
      /\ UNCHANGED << phase, cancelled, groupAborted, ownerCancelled >>
  BY DEF Complete, Inflight, CommitUsage, ControlVars
<1>2. Frees(n) /\ cancelled' = cancelled \ {n}
  BY <1>1 DEF Frees
<1>3. Neutral(n, billing)
  BY BillingMarks
<1>4. CASE closing = <<NodeFailed(n, "budget_exceeded")>>
           \/ closing = <<NodeFailed(n, "invalid_decision")>>
  <2>1. next = "failed"
    <3>1. PICK reason \in FailureReasons : closing = <<NodeFailed(n, reason)>>
      BY <1>4 DEF FailureReasons
    <3>2. closing[Len(closing)] = NodeFailed(n, reason)
      BY <3>1
    <3> QED BY <3>2 DEF NodeFailed
  <2>2. Marking(n, closing, "node.failed")
    BY <1>4, SegmentMarks DEF FailureReasons
  <2> HIDE DEF closing, next, billing
  <2>3. Marking(n, events, "node.failed")
    BY <1>3, <2>2, NeutralConcat
  <2> HIDE DEF events
  <2> QED BY <1>1, <1>2, <2>1, <2>3, InflightFails DEF Marking
<1>5. CASE closing = <<NodeCompleted(n), NodeFailed(n, "unexpected_error")>>
  <2>1. next = "failed"
    <3>1. closing[Len(closing)] = NodeFailed(n, "unexpected_error")
      BY <1>5
    <3> QED BY <3>1 DEF NodeFailed
  <2>2. closing = <<NodeCompleted(n)>> \o <<NodeFailed(n, "unexpected_error")>>
    BY <1>5
  <2>3. /\ Marking(n, <<NodeCompleted(n)>>, "node.completed")
        /\ Marking(n, <<NodeFailed(n, "unexpected_error")>>, "node.failed")
    BY SegmentMarks DEF FailureReasons
  <2> HIDE DEF closing, next, billing
  <2>4. /\ closing \in Seq(NodeLevelEvents) /\ About(n, closing) /\ ~Blames(closing)
        /\ Marks(closing) = {"node.completed", "node.failed"}
    BY <2>2, <2>3, MarksConcat DEF Marking
  <2>5. /\ events \in Seq(NodeLevelEvents) /\ About(n, events) /\ ~Blames(events)
        /\ Marks(events) = {"node.completed", "node.failed"}
    BY <1>3, <2>4, MarksConcat DEF Neutral
  <2> HIDE DEF events
  <2> QED BY <1>1, <1>2, <2>1, <2>5, InflightFails
<1>6. CASE closing = <<NodeCompleted(n)>> \/ closing = <<NodeCompleted(n), DecisionRecorded(n)>>
  <2>1. next = "completed"
    BY <1>6 DEF NodeCompleted, DecisionRecorded
  <2>2. /\ Marking(n, closing, "node.completed")
        /\ 1 \in DOMAIN closing /\ closing[1] = NodeCompleted(n)
    <3>1. Marking(n, <<NodeCompleted(n)>>, "node.completed") /\ Neutral(n, <<DecisionRecorded(n)>>)
      BY SegmentMarks
    <3>2. <<NodeCompleted(n), DecisionRecorded(n)>>
            = <<NodeCompleted(n)>> \o <<DecisionRecorded(n)>>
      OBVIOUS
    <3>3. Marking(n, closing, "node.completed")
      BY <1>6, <3>1, <3>2, NeutralConcat
    <3> QED BY <1>6, <3>3
  <2> HIDE DEF closing, next, billing
  <2>3. Marking(n, events, "node.completed")
    BY <1>3, <2>2, NeutralConcat
  <2>4. \E i \in DOMAIN events : events[i] = NodeCompleted(n)
    <3>1. billing \in Seq(NodeLevelEvents) /\ closing \in Seq(NodeLevelEvents)
      BY <1>3, <2>2 DEF Neutral, Marking
    <3>2. Len(billing) + 1 \in DOMAIN events /\ events[Len(billing) + 1] = closing[1]
      BY <2>2, <3>1
    <3> QED BY <2>2, <3>2
  <2> HIDE DEF events
  <2>5. /\ events \in Seq(NodeLevelEvents) /\ About(n, events) /\ ~Blames(events)
        /\ Marks(events) = {"node.completed"}
    BY <2>3 DEF Marking
  <2>6. CASE /\ Tells(n, events)
             /\ task' = [task EXCEPT ![n] = next]
             /\ UNCHANGED << raised, engineAbort >>
    <3>1. Completes(n)
      BY <1>1, <1>2, <2>1, <2>4, <2>5, <2>6 DEF Completes
    <3> QED BY <1>1, <3>1 DEF Outcome
  <2>7. CASE /\ task' = [task EXCEPT ![n] = "failed"]
             /\ raised' = raised \cup {n}
             /\ engineAbort => engineAbort'
             /\ \E told :
                  /\ Tells(n, told) /\ Marks(told) \subseteq Marks(events)
                  /\ Blames(told) => Blames(events)
    <3>1. Fails(n)
      BY <1>1, <1>2, <2>5, <2>7 DEF Fails
    <3> QED BY <1>1, <3>1 DEF Outcome
  <2> QED BY <1>1, <2>5, <2>6, <2>7, SegmentOutcome
<1>7. \/ closing = <<NodeFailed(n, "budget_exceeded")>>
      \/ closing = <<NodeFailed(n, "invalid_decision")>>
      \/ closing = <<NodeCompleted(n), NodeFailed(n, "unexpected_error")>>
      \/ closing = <<NodeCompleted(n)>>
      \/ closing = <<NodeCompleted(n), DecisionRecorded(n)>>
  BY BackendAssumption DEF Closing
<1> QED BY <1>4, <1>5, <1>6, <1>7

(* Every answer of a backend: plain, unencodable, or above the limit.      *)
LEMMA AnswersOutcome ==
  ASSUME TypeOK, NEW n \in Nodes, BackendAnswers(n)
  PROVE  Outcome(n)
<1>1. PICK usage \in Reported, text \in Texts :
        \/ text = "plain" /\ \E verdict \in Verdicts : Complete(n, usage, verdict)
        \/ text = "unencodable" /\ CompleteUnencodable(n, usage)
        \/ OverLimit(n, usage, text)
  BY DEF BackendAnswers
<1>2. usage \in Usage
  BY BackendAssumption
<1>3. CASE \E verdict \in Verdicts : Complete(n, usage, verdict)
  BY <1>2, <1>3, AnswerOutcome
<1>4. CASE CompleteUnencodable(n, usage)
  <2> DEFINE events == <<NodeFailed(n, "unexpected_error")>>
  <2>1. /\ phase = "running" /\ task[n] = "inflight" /\ n \notin cancelled
        /\ ledger' = Settled(n, usage)
        /\ Segment(n, events, "failed")
        /\ UNCHANGED << phase, cancelled, groupAborted, ownerCancelled >>
    BY <1>4 DEF CompleteUnencodable, Inflight, CommitUsage, ControlVars
  <2>2. Marking(n, events, "node.failed")
    BY SegmentMarks DEF FailureReasons
  <2>3. Frees(n) /\ cancelled' = cancelled \ {n}
    BY <1>2, <2>1 DEF Frees
  <2> HIDE DEF events
  <2> QED BY <2>1, <2>2, <2>3, InflightFails DEF Marking
<1>5. CASE OverLimit(n, usage, text)
  <2>1. /\ phase = "running" /\ task[n] = "inflight" /\ n \notin cancelled
        /\ UNCHANGED << phase, cancelled, groupAborted, ownerCancelled >>
    BY <1>5 DEF OverLimit, Inflight, ControlVars
  <2>2. cancelled' = cancelled \ {n}
    BY <2>1
  <2>3. Marking(n, <<NodeFailed(n, "backend_error")>>, "node.failed")
    BY SegmentMarks DEF FailureReasons
  <2>4. CASE LiveBackend
    <3> DEFINE bill == <<ArtifactWritten("output", n)>> \o <<ArtifactWritten("receipt", n)>>
               said == <<ModelFailed(n, "protocol", usage, "provider")>>
                         \o <<NodeFailed(n, "backend_error")>>
               events == bill \o said
    <3>1. events = << ArtifactWritten("output", n), ArtifactWritten("receipt", n),
                      ModelFailed(n, "protocol", usage, "provider"),
                      NodeFailed(n, "backend_error") >>
      <4>1. /\ bill = << ArtifactWritten("output", n), ArtifactWritten("receipt", n) >>
            /\ said = << ModelFailed(n, "protocol", usage, "provider"),
                         NodeFailed(n, "backend_error") >>
        BY Juxtaposed
      <4> HIDE DEF bill, said
      <4> QED BY <4>1, JuxtaposedPairs
    <3>2. Segment(n, events, "failed") /\ ledger' = Settled(n, usage)
      <4> HIDE DEF events
      <4> QED BY <1>5, <2>4, <3>1 DEF OverLimit, CommitUsage
    <3>3. Neutral(n, bill)
      BY SegmentMarks, NeutralConcat
    <3>4. Marking(n, said, "node.failed")
      BY <1>2, <2>3, BillingMarks, NeutralConcat
    <3> HIDE DEF bill, said
    <3>5. Marking(n, events, "node.failed")
      BY <3>3, <3>4, NeutralConcat
    <3>6. Frees(n)
      BY <1>2, <3>2 DEF Frees
    <3> HIDE DEF events
    <3> QED BY <2>1, <2>2, <3>2, <3>5, <3>6, InflightFails DEF Marking
  <2>5. CASE ~LiveBackend
    <3> DEFINE events == <<NodeFailed(n, "backend_error")>>
    <3>1. /\ Segment(n, events, "failed")
          /\ ledger' = Release(ledger, ReservationFor(Ceiling[n]))
      BY <1>5, <2>5 DEF OverLimit, ReleaseReservation
    <3>2. Frees(n)
      BY <3>1 DEF Frees
    <3>3. Marking(n, events, "node.failed")
      BY <2>3
    <3> HIDE DEF events
    <3> QED BY <2>1, <2>2, <3>1, <3>2, <3>3, InflightFails DEF Marking
  <2> QED BY <2>4, <2>5
<1> QED BY <1>1, <1>3, <1>4, <1>5

(* Every way a backend fails: unbilled, or billed by what is known.        *)
LEMMA FailuresOutcome ==
  ASSUME TypeOK, NEW n \in Nodes, BackendFails(n)
  PROVE  Outcome(n)
<1>1. PICK text \in Texts :
        \/ FailFree(n, "backend_error", Receipt(n), text)
        \/ FailFree(n, "unexpected_error", << >>, text)
        \/ \E known \in PartialUsages : FailBilled(n, known, text)
  BY DEF BackendFails
<1>2. ASSUME NEW reason \in FailureReasons \ {"dependency_failed"}, NEW receipt,
             Neutral(n, receipt), FailFree(n, reason, receipt, text)
      PROVE  Outcome(n)
  <2> DEFINE events == receipt \o <<NodeFailed(n, reason)>>
  <2>1. /\ phase = "running" /\ task[n] = "inflight" /\ n \notin cancelled
        /\ ledger' = Release(ledger, ReservationFor(Ceiling[n]))
        /\ Segment(n, events, "failed") \/ SegmentEscapes(n, receipt)
        /\ UNCHANGED << phase, cancelled, groupAborted, ownerCancelled >>
    BY <1>2 DEF FailFree, ReleaseReservation, Inflight, ControlVars
  <2>2. Frees(n) /\ cancelled' = cancelled \ {n}
    BY <2>1 DEF Frees
  <2>3. Marking(n, events, "node.failed")
    BY <1>2, SegmentMarks, NeutralConcat
  <2> HIDE DEF events
  <2>4. CASE Segment(n, events, "failed")
    BY <2>1, <2>2, <2>3, <2>4, InflightFails DEF Marking
  <2>5. CASE SegmentEscapes(n, receipt)
    BY <1>2, <2>1, <2>2, <2>5, InflightFails DEF Neutral
  <2> QED BY <2>1, <2>4, <2>5
<1>3. ASSUME NEW known \in PartialUsages, FailBilled(n, known, text)
      PROVE  Outcome(n)
  <2> DEFINE usage == BilledUsage(n, known)
             receipt == <<ArtifactWritten("receipt", n)>>
  <2>1. usage \in Usage /\ UsageSource(known) \in {"provider", "ceiling", "mixed"}
    BY BilledUsageType
  <2>2. /\ phase = "running" /\ task[n] = "inflight" /\ n \notin cancelled
        /\ ledger' = Settled(n, usage)
        /\ UNCHANGED << phase, cancelled, groupAborted, ownerCancelled >>
    BY <1>3 DEF FailBilled, CommitUsage, Inflight, ControlVars
  <2>3. Frees(n) /\ cancelled' = cancelled \ {n}
    BY <2>1, <2>2 DEF Frees
  <2>4. Neutral(n, receipt)
    BY SegmentMarks
  <2>5. CASE text = "plain"
    <3> DEFINE close == <<ModelFailed(n, "timeout", usage, UsageSource(known))>>
                          \o <<NodeFailed(n, "backend_error")>>
               events == receipt \o close
    <3>1. close = << ModelFailed(n, "timeout", usage, UsageSource(known)),
                     NodeFailed(n, "backend_error") >>
      BY Juxtaposed
    <3>2. Marking(n, close, "node.failed")
      <4>1. Marking(n, <<NodeFailed(n, "backend_error")>>, "node.failed")
        BY SegmentMarks DEF FailureReasons
      <4>2. Neutral(n, <<ModelFailed(n, "timeout", usage, UsageSource(known))>>)
        BY <2>1, BillingMarks
      <4> QED BY <4>1, <4>2, NeutralConcat
    <3> HIDE DEF close
    <3>3. Segment(n, events, "failed")
      BY <1>3, <2>5, <3>1 DEF FailBilled
    <3> HIDE DEF receipt
    <3>4. Marking(n, events, "node.failed")
      BY <2>4, <3>2, NeutralConcat
    <3> HIDE DEF events
    <3> QED BY <2>2, <2>3, <3>3, <3>4, InflightFails DEF Marking
  <2>6. CASE text # "plain"
    <3> DEFINE events == receipt \o <<NodeFailed(n, "unexpected_error")>>
    <3>1. Segment(n, events, "failed")
      BY <1>3, <2>6 DEF FailBilled
    <3> HIDE DEF receipt
    <3>2. Marking(n, events, "node.failed")
      <4>1. Marking(n, <<NodeFailed(n, "unexpected_error")>>, "node.failed")
        BY SegmentMarks DEF FailureReasons
      <4> QED BY <2>4, <4>1, NeutralConcat
    <3> HIDE DEF events
    <3> QED BY <2>2, <2>3, <3>1, <3>2, InflightFails DEF Marking
  <2> QED BY <2>5, <2>6
<1>4. Neutral(n, Receipt(n)) /\ Neutral(n, << >>)
  BY SegmentMarks
<1> QED BY <1>1, <1>2, <1>3, <1>4 DEF FailureReasons

(* A cancelled node tells of its failure unless the engine aborts. *)
LEMMA CancelMarks ==
  ASSUME NEW n \in Nodes
  PROVE  /\ ~engineAbort => Marking(n, NodeCancelled(n), "node.failed")
         /\ engineAbort => Neutral(n, NodeCancelled(n))
BY SegmentMarks DEF NodeCancelled, FailureReasons

(* A cancellation that reaches a node before or after its dispatch.        *)
LEMMA CancelsOutcome ==
  ASSUME TypeOK, NEW n \in Nodes, CancelWaiting(n) \/ CancelInflight(n)
  PROVE  Outcome(n)
<1>1. CASE CancelWaiting(n)
  <2>1. /\ phase = "running" /\ task[n] = "waiting" /\ n \in cancelled
        /\ Segment(n, NodeCancelled(n), "failed") /\ cancelled' = cancelled \ {n}
        /\ UNCHANGED << phase, groupAborted, ownerCancelled, ledger >>
    BY <1>1 DEF CancelWaiting
  <2>2. \A i \in DOMAIN NodeCancelled(n) : InsideHandler(NodeCancelled(n)[i])
    BY DEF NodeCancelled, InsideHandler, NodeFailed
  <2> QED BY <2>1, <2>2, CancelMarks, FailingSegment DEF Marking, Neutral
<1>2. CASE CancelInflight(n)
  <2> DEFINE billed == <<ModelFailed(n, "cancelled", Ceiling[n], "ceiling")>>
             events == billed \o NodeCancelled(n)
  <2>1. /\ phase = "running" /\ task[n] = "inflight"
        /\ ledger' = Settled(n, Ceiling[n])
        /\ Segment(n, events, "failed") /\ cancelled' = cancelled \ {n}
        /\ UNCHANGED << phase, groupAborted, ownerCancelled >>
    BY <1>2 DEF CancelInflight, CommitUsage
  <2>2. Ceiling[n] \in Usage
    BY ReservationType
  <2>3. Neutral(n, billed) /\ Frees(n)
    BY <2>1, <2>2, BillingMarks DEF Frees
  <2> HIDE DEF billed
  <2>4. /\ ~engineAbort => Marking(n, events, "node.failed")
        /\ engineAbort => Neutral(n, events)
    BY <2>3, CancelMarks, NeutralConcat
  <2> HIDE DEF events
  <2> QED BY <2>1, <2>3, <2>4, InflightFails DEF Marking, Neutral
<1> QED BY <1>1, <1>2

(* Every step of a node has one of the three outcomes. *)
LEMMA NodeOutcome ==
  ASSUME TypeOK, NEW n \in Nodes, NodeStep(n)
  PROVE  Outcome(n)
BY DependencyOutcome, DispatchOutcome, RejectionOutcome, AnswersOutcome, FailuresOutcome,
   CancelsOutcome DEF NodeStep

-----------------------------------------------------------------------------
(* Reservations: a dispatch takes its own, and whatever ends it returns it *)
(* once.                                                                   *)

(* What each node reserves, as functions to sum over a set of nodes.       *)
ReservedTokens == [n \in Nodes |-> ReservationFor(Ceiling[n]).tokens]
ReservedCost   == [n \in Nodes |-> ReservationFor(Ceiling[n]).cost]

(* They hold integers.                                                     *)
LEMMA ReservedTypes ==
  \A n \in Nodes : /\ ReservedTokens[n] \in Int /\ ReservedCost[n] \in Int
                   /\ ReservedTokens[n] = ReservationFor(Ceiling[n]).tokens
                   /\ ReservedCost[n] = ReservationFor(Ceiling[n]).cost
<1> SUFFICES ASSUME NEW n \in Nodes
             PROVE  /\ ReservedTokens[n] \in Int /\ ReservedCost[n] \in Int
                    /\ ReservedTokens[n] = ReservationFor(Ceiling[n]).tokens
                    /\ ReservedCost[n] = ReservationFor(Ceiling[n]).cost
  OBVIOUS
<1>1. ReservationFor(Ceiling[n]) \in Reservation
  BY ReservationType
<1> QED BY <1>1 DEF ReservedTokens, ReservedCost, Reservation

(* The sums of the property are sums of these functions.                   *)
LEMMA TokenSum ==
  ASSUME NEW S \in SUBSET Nodes
  PROVE  MapThenSumSet(LAMBDA n : ReservationFor(Ceiling[n]).tokens, S) = SumOf(ReservedTokens, S)
<1>1. IsFiniteSet(S)
  BY PlanAssumption, FS_Subset
<1> DEFINE Is(g) == g = [s \in SUBSET S |->
                           IF s = {} THEN 0
                           ELSE ReservationFor(Ceiling[Picked(s)]).tokens + g[s \ {Picked(s)}]]
           h == CHOOSE g : Is(g)
<1>2. MapThenSumSet(LAMBDA n : ReservationFor(Ceiling[n]).tokens, S) = h[S]
  BY DEF MapThenSumSet, MapThenFoldSet, Picked
<1>3. ASSUME NEW s \in SUBSET S, s # {}
      PROVE  ReservedTokens[Picked(s)] = ReservationFor(Ceiling[Picked(s)]).tokens
  BY <1>3 DEF ReservedTokens, Picked
<1>4. \A g : Is(g) <=> Summing(g, ReservedTokens, S)
  BY <1>3 DEF Summing
<1>5. Summing(h, ReservedTokens, S)
  BY <1>1, <1>4, SummingExists
<1> HIDE DEF h
<1> QED BY <1>1, <1>2, <1>5, SumUnique

(* The same for the cost.                                                  *)
LEMMA CostSum ==
  ASSUME NEW S \in SUBSET Nodes
  PROVE  MapThenSumSet(LAMBDA n : ReservationFor(Ceiling[n]).cost, S) = SumOf(ReservedCost, S)
<1>1. IsFiniteSet(S)
  BY PlanAssumption, FS_Subset
<1> DEFINE Is(g) == g = [s \in SUBSET S |->
                           IF s = {} THEN 0
                           ELSE ReservationFor(Ceiling[Picked(s)]).cost + g[s \ {Picked(s)}]]
           h == CHOOSE g : Is(g)
<1>2. MapThenSumSet(LAMBDA n : ReservationFor(Ceiling[n]).cost, S) = h[S]
  BY DEF MapThenSumSet, MapThenFoldSet, Picked
<1>3. ASSUME NEW s \in SUBSET S, s # {}
      PROVE  ReservedCost[Picked(s)] = ReservationFor(Ceiling[Picked(s)]).cost
  BY <1>3 DEF ReservedCost, Picked
<1>4. \A g : Is(g) <=> Summing(g, ReservedCost, S)
  BY <1>3 DEF Summing
<1>5. Summing(h, ReservedCost, S)
  BY <1>1, <1>4, SummingExists
<1> HIDE DEF h
<1> QED BY <1>1, <1>2, <1>5, SumUnique

(* What the ledger holds in flight is the sum over the dispatched nodes.   *)
Reserved(nodes) ==
  [ calls  |-> Cardinality(nodes),
    tokens |-> SumOf(ReservedTokens, nodes),
    cost   |-> SumOf(ReservedCost, nodes) ]

(* The property says no more and no less.                                  *)
LEMMA ExactMeansReserved ==
  ASSUME TypeOK
  PROVE  ReservationsExact <=> ledger.inflight = Reserved(InflightNodes)
<1>1. InflightNodes \in SUBSET Nodes
  BY DEF InflightNodes
<1>2. ledger.inflight \in [calls : Int, tokens : Int, cost : Int]
  BY DEF TypeOK, Ledger
<1>3. /\ MapThenSumSet(LAMBDA n : ReservationFor(Ceiling[n]).tokens, InflightNodes)
           = SumOf(ReservedTokens, InflightNodes)
      /\ MapThenSumSet(LAMBDA n : ReservationFor(Ceiling[n]).cost, InflightNodes)
           = SumOf(ReservedCost, InflightNodes)
  BY <1>1, TokenSum, CostSum
<1>4. ReservationsExact <=> /\ ledger.inflight.calls = Cardinality(InflightNodes)
                            /\ ledger.inflight.tokens = SumOf(ReservedTokens, InflightNodes)
                            /\ ledger.inflight.cost = SumOf(ReservedCost, InflightNodes)
  BY <1>3 DEF ReservationsExact
<1> QED BY <1>2, <1>4 DEF Reserved

(* One node more in flight. *)
LEMMA ReservedAdd ==
  ASSUME NEW S \in SUBSET Nodes, NEW n \in Nodes, n \notin S
  PROVE  /\ Reserved(S) \in [calls : Int, tokens : Int, cost : Int]
         /\ Reserved(S \cup {n}) =
              [ calls  |-> Reserved(S).calls + 1,
                tokens |-> Reserved(S).tokens + ReservationFor(Ceiling[n]).tokens,
                cost   |-> Reserved(S).cost + ReservationFor(Ceiling[n]).cost ]
<1>1. IsFiniteSet(S)
  BY PlanAssumption, FS_Subset
<1>2. /\ \A x \in S \cup {n} : ReservedTokens[x] \in Int /\ ReservedCost[x] \in Int
      /\ ReservedTokens[n] = ReservationFor(Ceiling[n]).tokens
      /\ ReservedCost[n] = ReservationFor(Ceiling[n]).cost
  BY ReservedTypes
<1>3. /\ Cardinality(S) \in Nat /\ Cardinality(S \cup {n}) = Cardinality(S) + 1
  BY <1>1, FS_CardinalityType, FS_AddElement
<1>4. /\ SumOf(ReservedTokens, S \cup {n}) = ReservedTokens[n] + SumOf(ReservedTokens, S)
      /\ SumOf(ReservedCost, S \cup {n}) = ReservedCost[n] + SumOf(ReservedCost, S)
  <2> HIDE DEF ReservedTokens, ReservedCost
  <2> QED BY <1>1, <1>2, SumAdd
<1>5. SumOf(ReservedTokens, S) \in Int /\ SumOf(ReservedCost, S) \in Int
  BY <1>1, <1>2, SumType
<1> QED BY <1>2, <1>3, <1>4, <1>5 DEF Reserved

(* A step of a node moves the ledger with the set of dispatched nodes.     *)
LEMMA NodeReserves ==
  ASSUME TypeOK, NEW n \in Nodes, Outcome(n), ledger.inflight = Reserved(InflightNodes)
  PROVE  ledger'.inflight = Reserved(InflightNodes')
<1> DEFINE r == ReservationFor(Ceiling[n])
<1>1. ledger \in Ledger /\ r \in Reservation /\ InflightNodes \in SUBSET Nodes
  BY ReservationType DEF TypeOK, InflightNodes
<1>2. \A m \in Nodes \ {n} : task'[m] = task[m]
  BY DEF Outcome, Starts, Completes, Fails, TypeOK
<1>3. CASE Starts(n)
  <2>1. /\ task[n] = "waiting" /\ task'[n] = "inflight"
        /\ ledger' = Reserve(ledger, r)
    BY <1>3 DEF Starts, TypeOK
  <2>2. n \notin InflightNodes /\ InflightNodes' = InflightNodes \cup {n}
    BY <1>2, <2>1 DEF InflightNodes
  <2>3. ledger'.inflight = [ calls  |-> ledger.inflight.calls + 1,
                             tokens |-> ledger.inflight.tokens + r.tokens,
                             cost   |-> ledger.inflight.cost + r.cost ]
    BY <1>1, <2>1 DEF Reserve, Ledger
  <2> QED BY <1>1, <2>2, <2>3, ReservedAdd
<1>4. CASE task[n] = "inflight" /\ task'[n] # "inflight" /\ Frees(n)
  <2> DEFINE S == InflightNodes \ {n}
  <2>1. n \notin S /\ InflightNodes = S \cup {n} /\ InflightNodes' = S
    BY <1>2, <1>4 DEF InflightNodes
  <2>2. ledger'.inflight = [ calls  |-> ledger.inflight.calls - 1,
                             tokens |-> ledger.inflight.tokens - r.tokens,
                             cost   |-> ledger.inflight.cost - r.cost ]
    BY <1>1, <1>4 DEF Frees, Settled, Commit, Release, Ledger
  <2>3. /\ Reserved(S) \in [calls : Int, tokens : Int, cost : Int]
        /\ ledger.inflight = [ calls  |-> Reserved(S).calls + 1,
                               tokens |-> Reserved(S).tokens + r.tokens,
                               cost   |-> Reserved(S).cost + r.cost ]
    <3>1. S \in SUBSET Nodes /\ n \notin S
      BY <1>1
    <3> HIDE DEF S
    <3> QED BY <2>1, <3>1, ReservedAdd
  <2>4. ledger'.inflight = Reserved(S)
    <3> HIDE DEF S
    <3>1. /\ ledger'.inflight.calls = Reserved(S).calls
          /\ ledger'.inflight.tokens = Reserved(S).tokens
          /\ ledger'.inflight.cost = Reserved(S).cost
      BY <1>1, <2>2, <2>3 DEF Reservation
    <3> QED BY <2>2, <2>3, <3>1
  <2> QED BY <2>1, <2>4
<1>5. CASE task[n] = "waiting" /\ task'[n] # "inflight" /\ UNCHANGED ledger
  <2>1. InflightNodes' = InflightNodes
    BY <1>2, <1>5 DEF InflightNodes
  <2> QED BY <1>5, <2>1
<1>6. Starts(n) \/ (task[n] = "inflight" /\ task'[n] # "inflight" /\ Frees(n))
      \/ (task[n] = "waiting" /\ task'[n] # "inflight" /\ UNCHANGED ledger)
  BY DEF Outcome, Completes, Fails, TypeOK
<1> QED BY <1>3, <1>4, <1>5, <1>6

(* No path out of a dispatch leaks its reservation or returns it twice:    *)
(* breach, unencodable answer, failed write and cancellation included.     *)
THEOREM ReservationsKept == Spec => []ReservationsExact
<1> DEFINE Exact == ledger.inflight = Reserved(InflightNodes)
<1>1. Init => Exact
  <2> SUFFICES ASSUME Init PROVE Exact
    OBVIOUS
  <2>1. InflightNodes = {}
    BY DEF Init, InflightNodes
  <2>2. Reserved({}) = [calls |-> 0, tokens |-> 0, cost |-> 0]
    BY SumEmpty, FS_EmptySet DEF Reserved
  <2>3. ledger.inflight = [calls |-> 0, tokens |-> 0, cost |-> 0]
    BY DEF Init, EmptyLedger
  <2> QED BY <2>1, <2>2, <2>3
<1>2. TypeOK /\ Exact /\ [Next]_vars => Exact'
  <2> SUFFICES ASSUME TypeOK, Exact, [Next]_vars PROVE Exact'
    OBVIOUS
  <2>1. CASE \E n \in Nodes : NodeStep(n)
    BY <2>1, NodeOutcome, NodeReserves
  <2>2. CASE ~ \E n \in Nodes : NodeStep(n)
    <3>1. UNCHANGED << ledger, task >>
      BY <2>2 DEF Next, vars, Open, AbortGroup, OwnerCancel, Unwind, Finish,
                  WriteReport, WriteDecision
    <3> QED BY <3>1 DEF InflightNodes
  <2> QED BY <2>1, <2>2
<1>3. TypeOK /\ Exact => ReservationsExact
  BY ExactMeansReserved
<1> QED BY <1>1, <1>2, <1>3, TypeCorrect, PTL DEF Spec

-----------------------------------------------------------------------------
(* The journal tells what the coroutines did.  A step of a node adds to    *)
(* the node's own events only.                                             *)

(* A segment adds its marks to the events of its node, and to no others.   *)
LEMMA NodeEventsGrow ==
  ASSUME TypeOK, NEW n \in Nodes, NEW events, Tells(n, events)
  PROVE  /\ NodeEvents(n)' = NodeEvents(n) \cup Marks(events)
         /\ \A m \in Nodes \ {n} : NodeEvents(m)' = NodeEvents(m)
         /\ Recorded("run.finished")' = Recorded("run.finished")
         /\ journal # << >> => journal' # << >>
         /\ \A i \in DOMAIN journal : i \in DOMAIN journal' /\ journal'[i] = journal[i]
<1>1. /\ journal \in Seq(Events) /\ events \in Seq(NodeLevelEvents)
      /\ About(n, events) /\ journal' = journal \o events
  BY DEF TypeOK, Tells
<1>2. /\ Len(journal') = Len(journal) + Len(events)
      /\ Len(journal) \in Nat /\ Len(events) \in Nat
      /\ DOMAIN journal = 1..Len(journal) /\ DOMAIN events = 1..Len(events)
      /\ DOMAIN journal' = 1..Len(journal')
      /\ \A i \in 1..Len(journal) : journal'[i] = journal[i]
      /\ \A i \in 1..Len(events) : journal'[Len(journal) + i] = events[i]
  <2>1. events \in Seq(Events)
    BY <1>1 DEF Events
  <2> QED BY <1>1, <2>1
<1>3. \A i \in DOMAIN journal : i \in DOMAIN journal' /\ journal'[i] = journal[i]
  BY <1>2
<1>4. \A i \in DOMAIN events : /\ Len(journal) + i \in DOMAIN journal'
                              /\ journal'[Len(journal) + i] = events[i]
  BY <1>2
<1>5. ASSUME NEW i \in DOMAIN journal'
      PROVE  \/ i \in DOMAIN journal /\ journal'[i] = journal[i]
             \/ i - Len(journal) \in DOMAIN events /\ journal'[i] = events[i - Len(journal)]
  <2>1. CASE i \in 1..Len(journal)
    BY <1>2, <2>1
  <2>2. CASE i \notin 1..Len(journal)
    <3>1. i - Len(journal) \in 1..Len(events) /\ Len(journal) + (i - Len(journal)) = i
      BY <1>2, <2>2
    <3> QED BY <1>2, <3>1
  <2> QED BY <2>1, <2>2
<1>6. NodeEvents(n)' = NodeEvents(n) \cup Marks(events)
  <2>1. ASSUME NEW t \in NodeEvents(n)' PROVE t \in NodeEvents(n) \cup Marks(events)
    <3>1. PICK i \in DOMAIN journal' :
            /\ journal'[i].type \in StatusTypes /\ journal'[i].node = n
            /\ t = journal'[i].type
      BY <2>1 DEF NodeEvents, StatusTypes
    <3> QED BY <1>5, <3>1 DEF NodeEvents, Marks, StatusTypes
  <2>2. ASSUME NEW t \in NodeEvents(n) PROVE t \in NodeEvents(n)'
    BY <1>3, <2>2 DEF NodeEvents
  <2>3. ASSUME NEW t \in Marks(events) PROVE t \in NodeEvents(n)'
    <3>1. PICK i \in DOMAIN events : t = events[i].type /\ t \in StatusTypes
      BY <2>3 DEF Marks
    <3>2. events[i].node = n
      BY <1>1, <3>1 DEF About
    <3> QED BY <1>4, <3>1, <3>2 DEF NodeEvents, StatusTypes
  <2> QED BY <2>1, <2>2, <2>3
<1>7. ASSUME NEW m \in Nodes \ {n} PROVE NodeEvents(m)' = NodeEvents(m)
  <2>1. ASSUME NEW t \in NodeEvents(m)' PROVE t \in NodeEvents(m)
    <3>1. PICK i \in DOMAIN journal' :
            /\ journal'[i].type \in StatusTypes /\ journal'[i].node = m
            /\ t = journal'[i].type
      BY <2>1 DEF NodeEvents, StatusTypes
    <3>2. i \in DOMAIN journal /\ journal'[i] = journal[i]
      BY <1>1, <1>5, <3>1 DEF About
    <3> QED BY <3>1, <3>2 DEF NodeEvents, StatusTypes
  <2>2. ASSUME NEW t \in NodeEvents(m) PROVE t \in NodeEvents(m)'
    BY <1>3, <2>2 DEF NodeEvents
  <2> QED BY <2>1, <2>2
<1>8. Recorded("run.finished")' = Recorded("run.finished")
  <2>1. \A i \in DOMAIN events : events[i].type # "run.finished"
    <3>1. \A e \in NodeLevelEvents : e.type # "run.finished"
      BY DEF NodeLevelEvents
    <3> QED BY <1>1, <3>1
  <2> QED BY <1>3, <1>5, <2>1 DEF Recorded
<1>9. journal # << >> => journal' # << >>
  BY <1>1, <1>2
<1> QED BY <1>3, <1>6, <1>7, <1>8, <1>9

(* What the journal has told of each coroutine, and why one that has       *)
(* failed may not have told: it raised, or the run is being torn down.     *)
TornDown == groupAborted \/ ownerCancelled

(* For each state of a coroutine, what the journal says of it.             *)
ToldOf(n) ==
  /\ task[n] = "waiting" => NodeEvents(n) = {}
  /\ task[n] = "inflight" => NodeEvents(n) = {"node.started"}
  /\ task[n] = "completed" =>
       /\ NodeEvents(n) = {"node.started", "node.completed"}
       /\ \E i \in DOMAIN journal : journal[i] = NodeCompleted(n)
  /\ task[n] = "failed" =>
       \/ "node.failed" \in NodeEvents(n)
       \/ n \in raised
       \/ engineAbort /\ (TornDown \/ DependenciesCompleted(n))
  /\ task[n] \in {"inflight", "completed"} => DependenciesCompleted(n)
  /\ n \in raised => task[n] = "failed"

(* The journal begins with the run and does not end before it.             *)
Underway ==
  /\ phase = "created" => journal = << >>
  /\ phase = "running" => journal # << >> /\ Recorded("run.finished") = {}

(* A run is torn down whole, and an abort of the engine has a cause.       *)
Torn ==
  /\ TornDown => Unfinished \subseteq cancelled
  /\ cancelled # {} => TornDown
  /\ engineAbort => \E r \in raised : DependenciesCompleted(r)

(* The journal and the coroutines are in step.                             *)
Told == Underway /\ Torn /\ \A n \in Nodes : ToldOf(n)

(* A step of a node keeps them in step.                                    *)
LEMMA NodeTells ==
  ASSUME TypeOK, Told, NEW n \in Nodes, Outcome(n)
  PROVE  Told'
<1>1. /\ phase = "running" /\ UNCHANGED << phase, groupAborted, ownerCancelled >>
      /\ \A m \in Nodes \ {n} : task'[m] = task[m]
      /\ task[n] \in {"waiting", "inflight"} /\ task'[n] \in {"inflight", "completed", "failed"}
      /\ task'[n] = "inflight" => task[n] = "waiting"
      /\ raised \subseteq raised' /\ raised' \subseteq raised \cup {n}
      /\ cancelled' \subseteq cancelled
      /\ cancelled \ {n} \subseteq cancelled'
      /\ n \in cancelled => n \in cancelled' \/ task'[n] = "failed"
      /\ engineAbort => engineAbort'
      /\ n \in raised' => n \in raised \/ task'[n] = "failed"
  BY DEF Outcome, Starts, Completes, Fails, TypeOK
<1>2. \A m \in Nodes : DependenciesCompleted(m) => DependenciesCompleted(m)'
  BY <1>1, PlanAssumption DEF DependenciesCompleted
<1>3. PICK events :
        /\ Tells(n, events)
        /\ task'[n] = "inflight" => Marks(events) = {"node.started"} /\ DependenciesCompleted(n)
        /\ task'[n] = "completed" =>
             /\ task[n] = "inflight" /\ Marks(events) = {"node.completed"}
             /\ \E i \in DOMAIN events : events[i] = NodeCompleted(n)
        /\ task'[n] = "failed" =>
             \/ "node.failed" \in Marks(events)
             \/ n \in raised'
             \/ engineAbort /\ (n \in cancelled \/ task[n] = "inflight")
  BY DEF Outcome, Starts, Completes, Fails, TypeOK
<1>4. /\ NodeEvents(n)' = NodeEvents(n) \cup Marks(events)
      /\ \A m \in Nodes \ {n} : NodeEvents(m)' = NodeEvents(m)
      /\ Recorded("run.finished")' = Recorded("run.finished")
      /\ journal # << >> => journal' # << >>
      /\ \A i \in DOMAIN journal : i \in DOMAIN journal' /\ journal'[i] = journal[i]
  BY <1>3, NodeEventsGrow
<1>5. Underway'
  BY <1>1, <1>4 DEF Told, Underway
<1>6. TornDown' <=> TornDown
  BY <1>1 DEF TornDown
<1>7. Torn'
  <2>1. TornDown' => Unfinished' \subseteq cancelled'
    <3> SUFFICES ASSUME TornDown, NEW m \in Nodes, task'[m] \notin {"completed", "failed"}
                 PROVE  m \in cancelled'
      BY <1>6 DEF Unfinished, Ended
    <3>1. m \in cancelled
      <4>1. task[m] \notin {"completed", "failed"}
        BY <1>1
      <4> QED BY <4>1 DEF Told, Torn, Unfinished, Ended
    <3> QED BY <1>1, <3>1
  <2>2. cancelled' # {} => TornDown'
    BY <1>1, <1>6 DEF Told, Torn
  <2>3. engineAbort' => \E r \in raised' : DependenciesCompleted(r)'
    <3>1. CASE engineAbort
      <4>1. PICK r \in raised : DependenciesCompleted(r)
        BY <3>1 DEF Told, Torn
      <4> QED BY <1>1, <1>2, <4>1 DEF TypeOK
    <3>2. CASE engineAbort' /\ ~engineAbort
      <4>1. n \in raised' /\ (task[n] = "inflight" \/ DependenciesCompleted(n))
        BY <3>2 DEF Outcome, Starts, Completes, Fails
      <4>2. DependenciesCompleted(n)
        BY <4>1 DEF Told, ToldOf
      <4> QED BY <1>2, <4>1, <4>2
    <3> QED BY <3>1, <3>2
  <2> QED BY <2>1, <2>2, <2>3 DEF Torn
<1>8. ASSUME NEW m \in Nodes \ {n} PROVE ToldOf(m)'
  <2>1. ToldOf(m) /\ (m \in raised' <=> m \in raised)
    BY <1>1 DEF Told
  <2>2. (\E i \in DOMAIN journal : journal[i] = NodeCompleted(m))
          => \E i \in DOMAIN journal' : journal'[i] = NodeCompleted(m)
    BY <1>4
  <2>3. NodeEvents(m)' = NodeEvents(m) /\ task'[m] = task[m]
    BY <1>1, <1>4
  <2> QED BY <1>1, <1>2, <1>6, <2>1, <2>2, <2>3 DEF ToldOf, NodeCompleted, Artifact
<1>9. ToldOf(n)'
  <2>1. ToldOf(n)
    BY DEF Told
  <2>2. CASE task'[n] = "inflight"
    BY <1>1, <1>2, <1>3, <1>4, <2>1, <2>2 DEF ToldOf
  <2>3. CASE task'[n] = "completed"
    <3>1. \E i \in DOMAIN journal' : journal'[i] = NodeCompleted(n)
      <4>1. PICK i \in DOMAIN events : events[i] = NodeCompleted(n)
        BY <1>3, <2>3
      <4>2. /\ journal \in Seq(Events) /\ events \in Seq(Events) /\ journal' = journal \o events
        BY <1>3 DEF TypeOK, Tells, Events
      <4>3. Len(journal) + i \in DOMAIN journal' /\ journal'[Len(journal) + i] = events[i]
        BY <4>2
      <4> QED BY <4>1, <4>3
    <3> QED BY <1>1, <1>2, <1>3, <1>4, <2>1, <2>3, <3>1 DEF ToldOf, NodeCompleted, Artifact
  <2>4. CASE task'[n] = "failed"
    <3>1. n \in cancelled => TornDown
      BY DEF Told, Torn
    <3>2. \/ "node.failed" \in NodeEvents(n)'
          \/ n \in raised'
          \/ engineAbort' /\ (TornDown' \/ DependenciesCompleted(n)')
      BY <1>1, <1>2, <1>3, <1>4, <1>6, <2>1, <2>4, <3>1 DEF ToldOf
    <3> QED BY <2>4, <3>2 DEF ToldOf
  <2> QED BY <1>1, <2>2, <2>3, <2>4
<1> QED BY <1>5, <1>7, <1>8, <1>9 DEF Told

(* Apart from the nodes only the run's two events are journaled. *)
LEMMA RunLevelSteps ==
  ASSUME TypeOK, [Next]_vars, ~ \E n \in Nodes : NodeStep(n)
  PROVE  \/ UNCHANGED journal
         \/ Open /\ phase' = "running" /\ journal' = journal \o <<RunCreated>>
         \/ Finish /\ phase' = "finished" /\ journal' = journal \o <<RunFinished>>
<1>1. journal \in Seq(Events)
  BY DEF TypeOK
<1>2. ASSUME NEW e, NEW fault, FailsAt(<<e>>, 1, fault) PROVE UNCHANGED journal
  <2>1. SubSeq(<<e>>, 1, 1 - 1) = << >>
    OBVIOUS
  <2>2. journal' = journal \o << >>
    BY <1>2, <2>1 DEF FailsAt
  <2> QED BY <1>1, <2>2
<1>3. CASE Open
  BY <1>2, <1>3 DEF Open, Written
<1>4. CASE Finish
  BY <1>2, <1>4 DEF Finish, Written
<1> QED BY <1>3, <1>4 DEF Next, vars, AbortGroup, OwnerCancel, Unwind, WriteReport, WriteDecision

(* So does every other step.                                               *)
LEMMA OthersTell ==
  ASSUME TypeOK, Told, [Next]_vars, ~ \E n \in Nodes : NodeStep(n)
  PROVE  Told'
<1>1. /\ UNCHANGED << task, raised, engineAbort >>
      /\ phase' = "running" => phase = "running" \/ Open
      /\ phase' = "created" => phase = "created" /\ journal' = journal
  BY DEF Next, vars, Open, AbortGroup, OwnerCancel, Unwind, Finish, WriteReport, WriteDecision
<1>2. /\ journal \in Seq(Events) /\ RunCreated \in Events /\ RunFinished \in Events
      /\ RunCreated.type = "run.created" /\ RunFinished.type = "run.finished"
  BY RunEventTypes DEF TypeOK, RunCreated, RunFinished
<1>3. \/ UNCHANGED journal
      \/ Open /\ phase' = "running" /\ journal' = journal \o <<RunCreated>>
      \/ Finish /\ phase' = "finished" /\ journal' = journal \o <<RunFinished>>
  BY RunLevelSteps
<1>4. ASSUME NEW e \in Events, e.type \notin StatusTypes, journal' = journal \o <<e>>
      PROVE  /\ \A n \in Nodes : NodeEvents(n)' = NodeEvents(n)
             /\ \A i \in DOMAIN journal : i \in DOMAIN journal' /\ journal'[i] = journal[i]
             /\ journal' # << >>
             /\ \A i \in DOMAIN journal' : i \in DOMAIN journal \/ journal'[i] = e
  <2>1. journal' = Append(journal, e)
    BY <1>2, <1>4
  <2>2. /\ \A i \in DOMAIN journal : i \in DOMAIN journal' /\ journal'[i] = journal[i]
        /\ \A i \in DOMAIN journal' : i \in DOMAIN journal \/ journal'[i] = e
        /\ journal' # << >>
    BY <1>2, <2>1
  <2>3. ASSUME NEW n \in Nodes PROVE NodeEvents(n)' = NodeEvents(n)
    BY <1>4, <2>2 DEF NodeEvents, StatusTypes
  <2> QED BY <2>2, <2>3
<1>5. /\ \A n \in Nodes : NodeEvents(n)' = NodeEvents(n)
      /\ \A i \in DOMAIN journal : i \in DOMAIN journal' /\ journal'[i] = journal[i]
  <2>1. CASE UNCHANGED journal
    BY <2>1 DEF NodeEvents
  <2> QED BY <1>2, <1>3, <1>4, <2>1 DEF StatusTypes
<1>6. Underway'
  <2>1. ASSUME phase' = "running" PROVE journal' # << >> /\ Recorded("run.finished")' = {}
    <3>1. CASE Open
      <4>1. journal = << >> /\ journal' = journal \o <<RunCreated>>
        BY <1>3, <2>1, <3>1 DEF Told, Underway, Open, Finish, Written
      <4>2. journal' = <<RunCreated>>
        BY <1>2, <4>1
      <4> QED BY <1>2, <4>2 DEF Recorded
    <3>2. CASE ~Open
      <4>1. phase = "running" /\ UNCHANGED journal
        BY <1>1, <1>3, <2>1, <3>2
      <4> QED BY <4>1 DEF Told, Underway, Recorded
    <3> QED BY <3>1, <3>2
  <2>2. phase' = "created" => journal' = << >>
    BY <1>1 DEF Told, Underway
  <2> QED BY <2>1, <2>2 DEF Underway
<1>7. Torn' /\ (TornDown => TornDown')
  <2>1. CASE AbortGroup \/ OwnerCancel
    BY <1>1, <2>1 DEF AbortGroup, OwnerCancel, Told, Torn, TornDown, Unfinished, Ended,
                      DependenciesCompleted
  <2>2. CASE ~(AbortGroup \/ OwnerCancel)
    <3>1. UNCHANGED << cancelled, groupAborted, ownerCancelled >>
      BY <2>2 DEF Next, vars, Open, Unwind, Finish, WriteReport, WriteDecision
    <3> QED BY <1>1, <3>1 DEF Told, Torn, TornDown, Unfinished, Ended, DependenciesCompleted
  <2> QED BY <2>1, <2>2
<1>8. ASSUME NEW n \in Nodes PROVE ToldOf(n)'
  <2>1. ToldOf(n) /\ NodeEvents(n)' = NodeEvents(n)
    BY <1>5 DEF Told
  <2>2. (\E i \in DOMAIN journal : journal[i] = NodeCompleted(n))
          => \E i \in DOMAIN journal' : journal'[i] = NodeCompleted(n)
    BY <1>5
  <2>3. DependenciesCompleted(n)' <=> DependenciesCompleted(n)
    BY <1>1 DEF DependenciesCompleted
  <2> QED BY <1>1, <1>7, <2>1, <2>2, <2>3 DEF ToldOf, NodeCompleted, Artifact
<1> QED BY <1>6, <1>7, <1>8 DEF Told

(* The journal and the coroutines stay in step, and whoever fails without  *)
(* a word does so while the run is torn down.                              *)
THEOREM JournalTells == Spec => []Told
<1>1. Init => Told
  <2> SUFFICES ASSUME Init PROVE Told
    OBVIOUS
  <2>1. \A n \in Nodes : ToldOf(n)
    BY DEF Init, ToldOf, NodeEvents
  <2> QED BY <2>1 DEF Init, Told, Underway, Torn, TornDown
<1>2. TypeOK /\ Told /\ [Next]_vars => Told'
  BY NodeOutcome, NodeTells, OthersTell
<1> QED BY <1>1, <1>2, TypeCorrect, PTL DEF Spec

-----------------------------------------------------------------------------
(* A run is a run of the contract. *)

(* The status of a node as a function of the events it has.                *)
StatusBy(types) ==
  CASE "node.failed" \in types -> "failed"
    [] "node.failed" \notin types /\ "node.completed" \in types -> "completed"
    [] types = {"node.started"} -> "running"
    [] types = {} -> "pending"

(* Its value for the sets of events that occur.                            *)
LEMMA Statuses ==
  /\ StatusBy({}) = "pending"
  /\ StatusBy({"node.started"}) = "running"
  /\ StatusBy({"node.started", "node.completed"}) = "completed"
  /\ \A types : "node.failed" \in types => StatusBy(types) = "failed"
BY DEF StatusBy

(* It is the status the contract is shown.                                 *)
LEMMA StatusByEvents ==
  ASSUME NEW n \in Nodes
  PROVE  JournaledNodeStatus(n) = StatusBy(NodeEvents(n))
BY DEF JournaledNodeStatus, StatusBy

(* A step of a node moves its status, and no other, as the contract has    *)
(* it.                                                                     *)
LEMMA NodeImplements ==
  ASSUME TypeOK, Told, Told', NEW n \in Nodes, Outcome(n)
  PROVE  [Contract!ContractNext]_(Contract!contractVars)
<1> DEFINE status == [m \in Nodes |-> JournaledNodeStatus(m)]
<1>1. /\ \A m \in Nodes : status[m] = StatusBy(NodeEvents(m))
      /\ \A m \in Nodes : status'[m] = StatusBy(NodeEvents(m)')
  BY DEF JournaledNodeStatus, StatusBy
<1>2. PICK events :
        /\ Tells(n, events)
        /\ "node.started" \in Marks(events) => task[n] = "waiting" /\ DependenciesCompleted(n)
        /\ "node.completed" \in Marks(events) => task[n] = "inflight"
  BY DEF Outcome, Starts, Completes, Fails
<1>3. /\ NodeEvents(n)' = NodeEvents(n) \cup Marks(events)
      /\ \A m \in Nodes \ {n} : NodeEvents(m)' = NodeEvents(m)
      /\ Recorded("run.finished")' = Recorded("run.finished")
      /\ journal # << >> => journal' # << >>
  BY <1>2, NodeEventsGrow
<1>4. JournaledRunStatus = "running" /\ JournaledRunStatus' = "running"
  <2>1. journal # << >> /\ Recorded("run.finished") = {}
    BY DEF Told, Underway, Outcome
  <2>2. journal' # << >> /\ Recorded("run.finished")' = {}
    BY <1>3, <2>1
  <2> QED BY <2>1, <2>2 DEF JournaledRunStatus
<1>5. Marks(events) \subseteq {"node.started", "node.completed", "node.failed"}
  BY DEF Marks, StatusTypes
<1>6. \/ task[n] = "waiting" /\ NodeEvents(n) = {} /\ "node.completed" \notin Marks(events)
      \/ task[n] = "inflight" /\ NodeEvents(n) = {"node.started"}
           /\ "node.started" \notin Marks(events)
  BY <1>2 DEF Told, ToldOf, Outcome, Starts, Completes, Fails
<1>7. ASSUME NEW s, status'[n] = s PROVE status' = [status EXCEPT ![n] = s]
  BY <1>1, <1>3, <1>7
<1> HIDE DEF status
<1>8. CASE status'[n] = status[n]
  <2>1. status' = status
    BY <1>7, <1>8 DEF status
  <2> QED BY <1>4, <2>1 DEF Contract!contractVars, status
<1>9. CASE "node.failed" \in Marks(events)
  <2>1. status[n] \in {"pending", "running"} /\ status'[n] = "failed"
    BY <1>1, <1>3, <1>6, <1>9, Statuses
  <2>2. status' = [status EXCEPT ![n] = "failed"]
    BY <1>7, <2>1
  <2>3. Contract!Settle(n, "failed")
    BY <1>4, <2>1, <2>2 DEF Contract!Settle, Contract!advance_node_status, Contract!NodeMoves,
                            status
  <2> QED BY <2>3 DEF Contract!ContractNext
<1>10. CASE Marks(events) = {"node.started"}
  <2>1. status[n] = "pending" /\ status'[n] = "running"
    BY <1>1, <1>3, <1>6, <1>10, Statuses
  <2>2. status' = [status EXCEPT ![n] = "running"]
    BY <1>7, <2>1
  <2>3. \A d \in DependsOn[n] : status[d] = "completed"
    <3>1. \A d \in DependsOn[n] : d \in Nodes /\ NodeEvents(d) = {"node.started", "node.completed"}
      BY <1>2, <1>10, PlanAssumption DEF DependenciesCompleted, Told, ToldOf
    <3> QED BY <1>1, <3>1, Statuses
  <2>4. Contract!Start(n)
    BY <1>4, <2>1, <2>2, <2>3 DEF Contract!Start, Contract!advance_node_status,
                                  Contract!NodeMoves, status
  <2> QED BY <2>4 DEF Contract!ContractNext
<1>11. CASE Marks(events) = {"node.completed"}
  <2>1. status[n] = "running" /\ status'[n] = "completed"
    <3>1. NodeEvents(n) = {"node.started"} /\ NodeEvents(n)' = {"node.started", "node.completed"}
      BY <1>3, <1>6, <1>11
    <3> QED BY <1>1, <3>1, Statuses
  <2>2. status' = [status EXCEPT ![n] = "completed"]
    BY <1>7, <2>1
  <2>3. Contract!Settle(n, "completed")
    BY <1>4, <2>1, <2>2 DEF Contract!Settle, Contract!advance_node_status, Contract!NodeMoves,
                            status
  <2> QED BY <2>3 DEF Contract!ContractNext
<1>12. CASE Marks(events) = {}
  <2>1. status'[n] = status[n]
    BY <1>1, <1>3, <1>12
  <2> QED BY <1>8, <2>1
<1>13. \/ "node.failed" \in Marks(events) \/ Marks(events) = {"node.started"}
       \/ Marks(events) = {"node.completed"} \/ Marks(events) = {}
  BY <1>5, <1>6
<1> QED BY <1>9, <1>10, <1>11, <1>12, <1>13

(* The run begins and concludes as the contract has it.                    *)
LEMMA RunImplements ==
  ASSUME TypeOK, Told, [Next]_vars, ~ \E n \in Nodes : NodeStep(n)
  PROVE  [Contract!ContractNext]_(Contract!contractVars)
<1> DEFINE status == [m \in Nodes |-> JournaledNodeStatus(m)]
<1>1. /\ \A m \in Nodes : status[m] = StatusBy(NodeEvents(m))
      /\ \A m \in Nodes : status'[m] = StatusBy(NodeEvents(m)')
  BY DEF JournaledNodeStatus, StatusBy
<1>2. /\ journal \in Seq(Events) /\ RunCreated \in Events /\ RunFinished \in Events
      /\ RunCreated.type = "run.created" /\ RunFinished.type = "run.finished"
  BY RunEventTypes DEF TypeOK, RunCreated, RunFinished
<1>3. CASE UNCHANGED journal
  <2>1. /\ JournaledRunStatus' = JournaledRunStatus
        /\ \A n \in Nodes : JournaledNodeStatus(n)' = JournaledNodeStatus(n)
    BY <1>3 DEF JournaledRunStatus, Recorded, JournaledNodeStatus, NodeEvents
  <2> QED BY <2>1 DEF Contract!contractVars
<1>4. ASSUME NEW e \in Events, e.type \notin StatusTypes, journal' = journal \o <<e>>
      PROVE  /\ status' = status
             /\ journal' # << >> /\ journal'[Len(journal')] = e
             /\ \A i \in DOMAIN journal' : i \in DOMAIN journal \/ journal'[i] = e
             /\ Len(journal') \in DOMAIN journal'
  <2>1. journal' = Append(journal, e)
    BY <1>2, <1>4
  <2>2. /\ \A i \in DOMAIN journal : i \in DOMAIN journal' /\ journal'[i] = journal[i]
        /\ \A i \in DOMAIN journal' : i \in DOMAIN journal \/ journal'[i] = e
        /\ journal' # << >> /\ journal'[Len(journal')] = e /\ Len(journal') \in DOMAIN journal'
    BY <1>2, <2>1
  <2>3. ASSUME NEW n \in Nodes PROVE NodeEvents(n)' = NodeEvents(n)
    BY <1>4, <2>2 DEF NodeEvents, StatusTypes
  <2> QED BY <1>1, <2>2, <2>3
<1>5. CASE Open /\ phase' = "running" /\ journal' = journal \o <<RunCreated>>
  <2>1. journal = << >>
    BY <1>5 DEF Open, Told, Underway
  <2>2. status' = status /\ journal' # << >> /\ \A i \in DOMAIN journal' : journal'[i] = RunCreated
    BY <1>2, <1>4, <1>5, <2>1 DEF StatusTypes
  <2>3. JournaledRunStatus = "created" /\ JournaledRunStatus' = "running"
    BY <1>2, <2>1, <2>2 DEF JournaledRunStatus, Recorded
  <2>4. Contract!Begin
    BY <2>2, <2>3 DEF Contract!Begin, Contract!advance_run_status, Contract!RunMoves
  <2> QED BY <2>4 DEF Contract!ContractNext
<1>6. CASE Finish /\ phase' = "finished" /\ journal' = journal \o <<RunFinished>>
  <2>1. /\ phase = "running" /\ AllEnded /\ raised = {} /\ ~ownerCancelled
    BY <1>6 DEF Finish
  <2>2. journal # << >> /\ Recorded("run.finished") = {} /\ ~engineAbort
    BY <2>1 DEF Told, Underway, Torn
  <2>3. /\ status' = status /\ journal' # << >> /\ journal'[Len(journal')] = RunFinished
        /\ Len(journal') \in DOMAIN journal'
    BY <1>2, <1>4, <1>6 DEF StatusTypes
  <2>4. /\ JournaledRunStatus = "running" /\ JournaledRunStatus' = RunFinished.status
    <3>1. Recorded("run.finished")' # {}
      BY <1>2, <2>3 DEF Recorded
    <3> QED BY <2>2, <2>3, <3>1 DEF JournaledRunStatus
  <2>5. \A n \in Nodes : \/ /\ task[n] = "completed" /\ "node.failed" \notin NodeEvents(n)
                            /\ status[n] = "completed"
                         \/ /\ task[n] = "failed" /\ "node.failed" \in NodeEvents(n)
                            /\ status[n] = "failed"
    BY <1>1, <2>1, <2>2, Statuses DEF Told, ToldOf, AllEnded, Ended
  <2>6. AnyFailure <=> \E n \in Nodes : status[n] = "failed"
    <3>1. ASSUME AnyFailure PROVE \E n \in Nodes : status[n] = "failed"
      <4>1. PICK i \in DOMAIN journal : journal[i].type = "node.failed"
        BY <3>1 DEF AnyFailure
      <4>2. journal[i] \in Events
        BY <1>2
      <4>3. journal[i].node \in Nodes
        BY <4>1, <4>2 DEF Events, NodeLevelEvents, RunLevelEvents
      <4>4. "node.failed" \in NodeEvents(journal[i].node)
        BY <4>1 DEF NodeEvents
      <4> QED BY <2>5, <4>3, <4>4
    <3>2. ASSUME NEW n \in Nodes, status[n] = "failed" PROVE AnyFailure
      <4>1. "node.failed" \in NodeEvents(n)
        BY <2>5, <3>2
      <4> QED BY <4>1 DEF NodeEvents, AnyFailure
    <3> QED BY <3>1, <3>2
  <2>7. RunFinished.status = IF \E n \in Nodes : status[n] = "failed" THEN "failed" ELSE "completed"
    BY <2>6 DEF RunFinished
  <2>8. Contract!Conclude
    BY <2>3, <2>4, <2>5, <2>7 DEF Contract!Conclude, Contract!advance_run_status, Contract!RunMoves
  <2> QED BY <2>8 DEF Contract!ContractNext
<1>7. \/ UNCHANGED journal
      \/ Open /\ phase' = "running" /\ journal' = journal \o <<RunCreated>>
      \/ Finish /\ phase' = "finished" /\ journal' = journal \o <<RunFinished>>
  BY RunLevelSteps
<1> QED BY <1>3, <1>5, <1>6, <1>7

(* The journal of a run tells of a run of the contract, step by step.      *)
THEOREM ContractKept == Spec => KeepsContract
<1>1. Init => Contract!ContractInit
  <2> SUFFICES ASSUME Init PROVE Contract!ContractInit
    OBVIOUS
  <2>1. \A n \in Nodes : JournaledNodeStatus(n) = "pending"
    <3>1. \A n \in Nodes : NodeEvents(n) = {}
      BY DEF Init, NodeEvents
    <3> QED BY <3>1, StatusByEvents, Statuses
  <2>2. JournaledRunStatus = "created"
    <3>1. journal = << >>
      BY DEF Init
    <3>2. Recorded("run.finished") = {}
      BY <3>1 DEF Recorded
    <3> QED BY <3>1, <3>2 DEF JournaledRunStatus
  <2> QED BY <2>1, <2>2 DEF Contract!ContractInit
<1>2. TypeOK /\ Told /\ Told' /\ [Next]_vars
        => [Contract!ContractNext]_(Contract!contractVars)
  BY NodeOutcome, NodeImplements, RunImplements
<1> QED BY <1>1, <1>2, TypeCorrect, JournalTells, PTL
      DEF Spec, KeepsContract, Contract!ContractSpec

-----------------------------------------------------------------------------
(* The plan: what one that PlanValidator accepts gives the executor and    *)
(* the judge, for every plan.  The run relies on it and no check of the    *)
(* validator says it in one place.                                         *)
Plans == INSTANCE CouncilPlan

(* Its finite sets are those of this module. *)
LEMMA PlanSets ==
  \A S : (Plans!IsFiniteSet(S) <=> IsFiniteSet(S)) /\ Plans!Cardinality(S) = Cardinality(S)
BY DEF Plans!IsFiniteSet, IsFiniteSet, Plans!Cardinality, Cardinality

(* The ancestors of a node are what it waits for, and what those wait for. *)
LEMMA AncestorsClosed ==
  ASSUME NEW plan, NEW routes, Plans!WellFormed(plan, routes), NEW n \in plan.nodes
  PROVE  /\ n.depends_on \subseteq Plans!Ancestors(plan, n)
         /\ Plans!Closed(plan, Plans!Ancestors(plan, n))
  <1>1. n.depends_on \subseteq Plans!Ancestors(plan, n)
    BY DEF Plans!WellFormed, Plans!Ancestors
  <1>2. Plans!Closed(plan, Plans!Ancestors(plan, n))
    <2>1. SUFFICES ASSUME NEW m \in plan.nodes, m.id \in Plans!Ancestors(plan, n),
                          NEW i \in m.depends_on
                   PROVE  i \in Plans!Ancestors(plan, n)
      BY DEF Plans!Closed
    <2>2. i \in Plans!Ids(plan.nodes)
      BY DEF Plans!WellFormed
    <2>3. ASSUME NEW ids \in SUBSET Plans!Ids(plan.nodes),
                 n.depends_on \subseteq ids, Plans!Closed(plan, ids)
          PROVE  i \in ids
      <3>1. m.id \in ids
        BY <2>1, <2>3 DEF Plans!Ancestors
      <3>2. QED
        BY <2>3, <3>1 DEF Plans!Closed
    <2>4. QED
      BY <2>2, <2>3 DEF Plans!Ancestors
  <1>3. QED
    BY <1>1, <1>2

(* The nodes of a role, of which the validator has counted two. *)
LEMMA TwoMembers ==
  ASSUME NEW S, IsFiniteSet(S), Cardinality(S) = 2
  PROVE  \E a, b \in S : a # b /\ S = {a, b}
  <1>1. PICK a : a \in S
    BY FS_EmptySet
  <1>2. IsFiniteSet(S \ {a}) /\ Cardinality(S \ {a}) = 1
    BY <1>1, FS_RemoveElement
  <1>3. PICK b : S \ {a} = {b}
    BY <1>2, FS_Singleton
  <1>4. QED
    BY <1>1, <1>3

(* A set of one member.                                                    *)
LEMMA OneMember ==
  ASSUME NEW S, IsFiniteSet(S), Cardinality(S) = 1
  PROVE  \E a : S = {a}
  BY FS_Singleton

-----------------------------------------------------------------------------
(* When a node is dispatched, its dependencies have completed, and so had  *)
(* theirs before them: whatever its manifest names has been produced, and  *)
(* the assertion of _resolve_manifest (outcome.text is not None) holds.    *)
THEOREM ManifestIsReady ==
  ASSUME NEW plan, NEW routes, Plans!Valid(plan, routes),
         NEW n \in plan.nodes,
         NEW completed \in SUBSET Plans!Ids(plan.nodes), Plans!Closed(plan, completed),
         n.depends_on \subseteq completed
  PROVE  \A e \in n.manifest : e.kind # "task" => e.producer \in completed
  <1>1. Plans!Ancestors(plan, n) \subseteq completed
    BY DEF Plans!Ancestors
  <1>2. \A e \in n.manifest : e.kind # "task" => e.producer \in Plans!Ancestors(plan, n)
    BY DEF Plans!Valid, Plans!ValidNode, Plans!ValidManifest, Plans!ValidEntry
  <1>3. QED
    BY <1>1, <1>2

(* Every other node is an ancestor of the judge, and nobody waits for it.  *)
JudgeIsLast(plan) ==
  \A j, n \in plan.nodes :
    j.role = "judge" /\ n # j => /\ n.id \in Plans!Ancestors(plan, j)
                                 /\ j.id \notin n.depends_on

(* The judge decides after all the others: an accepted plan has no node    *)
(* that could still run, or spend, once the decision is recorded.          *)
THEOREM JudgeRunsLast ==
  ASSUME NEW plan, NEW routes, Plans!IsPlan(plan), Plans!Valid(plan, routes)
  PROVE  JudgeIsLast(plan)
  <1>1. SUFFICES ASSUME NEW j \in plan.nodes, NEW n \in plan.nodes,
                        j.role = "judge", n # j
                 PROVE  n.id \in Plans!Ancestors(plan, j) /\ j.id \notin n.depends_on
    BY DEF JudgeIsLast
  <1>2. Plans!WellFormed(plan, routes) /\ Plans!Acyclic(plan) /\ Plans!Topology(plan)
    BY DEF Plans!Valid
  <1>3. /\ j.depends_on \subseteq Plans!Ancestors(plan, j)
        /\ Plans!Closed(plan, Plans!Ancestors(plan, j))
    BY <1>2, AncestorsClosed
  <1>4. Plans!Ids(Plans!NodesIn(plan, "reviewer")) \subseteq j.depends_on
    BY <1>1 DEF Plans!Valid, Plans!ValidNode, Plans!JudgeNode
  <1>5. n.role \in {"proposer", "reviewer"}
    <2>1. n.role \in {"proposer", "reviewer", "judge"}
      BY DEF Plans!Valid, Plans!ValidNode
    <2>2. IsFiniteSet(Plans!NodesIn(plan, "judge"))
      BY FS_Subset, PlanSets DEF Plans!IsPlan, Plans!NodesIn
    <2>3. PICK k : Plans!NodesIn(plan, "judge") = {k}
      BY <1>2, <2>2, OneMember, PlanSets DEF Plans!Topology
    <2>4. QED
      BY <1>1, <2>1, <2>3 DEF Plans!NodesIn
  <1>6. n.id \in Plans!Ancestors(plan, j)
    <2>1. CASE n.role = "reviewer"
      BY <1>3, <1>4, <2>1 DEF Plans!Ids, Plans!NodesIn
    <2>2. CASE n.role = "proposer"
      <3>1. IsFiniteSet(Plans!NodesIn(plan, "reviewer"))
        BY FS_Subset, PlanSets DEF Plans!IsPlan, Plans!NodesIn
      <3>2. PICK r \in plan.nodes : r.role = "reviewer"
        BY <1>2, <3>1, TwoMembers, PlanSets DEF Plans!Topology, Plans!NodesIn
      <3>3. r.id \in Plans!Ancestors(plan, j)
        BY <1>3, <1>4, <3>2 DEF Plans!Ids, Plans!NodesIn
      <3>4. n.id \in r.depends_on
        BY <2>2, <3>2 DEF Plans!Valid, Plans!ValidNode, Plans!ReviewerNode, Plans!Ids, Plans!NodesIn
      <3>5. QED
        BY <1>3, <3>3, <3>4 DEF Plans!Closed
    <2>3. QED
      BY <1>5, <2>1, <2>2
  <1>7. j.id \notin n.depends_on
    <2>1. SUFFICES ASSUME j.id \in n.depends_on PROVE FALSE
      OBVIOUS
    <2>2. j.id \in Plans!Ancestors(plan, j)
      BY <1>3, <1>6, <2>1 DEF Plans!Closed
    <2>3. QED
      BY <1>2, <2>2 DEF Plans!Acyclic
  <1>8. QED
    BY <1>6, <1>7

(* Each proposal has one reviewer, and it has the other identity. *)
OppositeReviews(plan) ==
  \A p \in Plans!NodesIn(plan, "proposer") :
    \E r \in Plans!NodesIn(plan, "reviewer") :
      /\ r.identity # p.identity
      /\ \A s \in Plans!NodesIn(plan, "reviewer") :
           p.id \in Plans!Producers(Plans!Entries(s, "proposal")) <=> s = r

(* The blind cross-review: from two reviewers with the identities of the   *)
(* two proposers, neither of which sees its own identity's proposal, it    *)
(* follows that no proposal goes unreviewed and none is reviewed twice.    *)
THEOREM ProposalsAreCrossReviewed ==
  ASSUME NEW plan, NEW routes, Plans!IsPlan(plan), Plans!Valid(plan, routes)
  PROVE  OppositeReviews(plan)
  <1> DEFINE P == Plans!NodesIn(plan, "proposer")
             R == Plans!NodesIn(plan, "reviewer")
  <1>1. IsFiniteSet(P) /\ IsFiniteSet(R)
    BY FS_Subset, PlanSets DEF Plans!IsPlan, Plans!NodesIn
  <1>2. PICK p, q \in P : p # q /\ P = {p, q}
    BY <1>1, TwoMembers, PlanSets DEF Plans!Valid, Plans!Topology
  <1>3. PICK r, s \in R : r # s /\ R = {r, s}
    BY <1>1, TwoMembers, PlanSets DEF Plans!Valid, Plans!Topology
  <1>4. p.identity # q.identity
    <2>1. SUFFICES ASSUME p.identity = q.identity PROVE FALSE
      OBVIOUS
    <2>2. Plans!Identities(P) = {p.identity}
      BY <1>2, <2>1 DEF Plans!Identities
    <2>3. Cardinality(Plans!Identities(P)) = 1
      BY <2>2, FS_Singleton
    <2>4. QED
      BY <2>3, PlanSets DEF Plans!Valid, Plans!Topology
  <1>5. {r.identity, s.identity} = {p.identity, q.identity}
    BY <1>2, <1>3 DEF Plans!Valid, Plans!Topology, Plans!Identities
  <1>6. ASSUME NEW v \in R
        PROVE  \E u \in P : /\ Plans!Producers(Plans!Entries(v, "proposal")) = {u.id}
                            /\ u.identity # v.identity
    <2>1. v \in plan.nodes /\ Plans!ReviewerNode(plan, v) /\ Plans!ValidManifest(plan, v)
      BY <1>6 DEF Plans!Valid, Plans!ValidNode, Plans!NodesIn
    <2>2. IsFiniteSet(Plans!Entries(v, "proposal"))
      BY <2>1, FS_Subset, PlanSets DEF Plans!IsPlan, Plans!Entries
    <2>3. PICK e : Plans!Entries(v, "proposal") = {e}
      BY <2>1, <2>2, OneMember, PlanSets DEF Plans!ReviewerNode
    <2>4. e \in v.manifest /\ e.kind = "proposal"
      BY <2>3 DEF Plans!Entries
    <2>5. e.producer \in Plans!Ids(plan.nodes)
      BY <2>1, <2>4 DEF Plans!ValidManifest, Plans!ValidEntry, Plans!Ancestors
    <2>6. PICK u \in plan.nodes : u.id = e.producer
      BY <2>5 DEF Plans!Ids
    <2>7. u.role = "proposer"
      BY <2>1, <2>4, <2>6 DEF Plans!ValidManifest, Plans!ValidEntry, Plans!ProducerRole
    <2>8. u.identity # v.identity
      BY <2>1, <2>3, <2>6 DEF Plans!ReviewerNode
    <2>9. Plans!Producers(Plans!Entries(v, "proposal")) = {u.id}
      BY <2>3, <2>6 DEF Plans!Producers
    <2>10. QED
      BY <2>6, <2>7, <2>8, <2>9 DEF Plans!NodesIn
  <1>7. p.id # q.id
    BY <1>2 DEF Plans!Valid, Plans!WellFormed, Plans!NodesIn
  <1>8. \/ /\ Plans!Producers(Plans!Entries(r, "proposal")) = {q.id} /\ r.identity = p.identity
           /\ Plans!Producers(Plans!Entries(s, "proposal")) = {p.id} /\ s.identity = q.identity
        \/ /\ Plans!Producers(Plans!Entries(r, "proposal")) = {p.id} /\ r.identity = q.identity
           /\ Plans!Producers(Plans!Entries(s, "proposal")) = {q.id} /\ s.identity = p.identity
    <2>1. \E u \in {p, q} : /\ Plans!Producers(Plans!Entries(r, "proposal")) = {u.id}
                            /\ u.identity # r.identity
      BY <1>2, <1>3, <1>6
    <2>2. \E u \in {p, q} : /\ Plans!Producers(Plans!Entries(s, "proposal")) = {u.id}
                            /\ u.identity # s.identity
      BY <1>2, <1>3, <1>6
    <2>3. QED
      BY <1>4, <1>5, <2>1, <2>2
  <1>9. QED
    BY <1>2, <1>3, <1>4, <1>7, <1>8 DEF OppositeReviews

(* A label is a pseudonym: two proposals in any two manifests have the     *)
(* same label exactly if they have the same author.                        *)
PseudonymsHold(plan) ==
  \A e, f \in Plans!ProposalEntries(plan) : e.label = f.label <=> e.producer = f.producer

(* What the judge reads about a label in one review is about the proposal  *)
(* it sees under that label, and unsealing the mapping names its author.   *)
THEOREM LabelsArePseudonyms ==
  ASSUME NEW plan, NEW routes, Plans!Valid(plan, routes)
  PROVE  PseudonymsHold(plan)
  <1>1. SUFFICES ASSUME NEW e \in Plans!ProposalEntries(plan), NEW f \in Plans!ProposalEntries(plan)
                 PROVE  e.label = f.label <=> e.producer = f.producer
    BY DEF PseudonymsHold
  <1>2. /\ e.label \in DOMAIN plan.anonymization
        /\ f.label \in DOMAIN plan.anonymization
        /\ plan.anonymization[e.label] = e.producer
        /\ plan.anonymization[f.label] = f.producer
    BY <1>1 DEF Plans!Valid, Plans!Sealed
  <1>3. QED
    BY <1>1, <1>2 DEF Plans!Valid, Plans!Sealed

(* The plan that the run executes. *)
Executes(plan) ==
  /\ Nodes = Plans!Ids(plan.nodes)
  /\ \A n \in plan.nodes : DependsOn[n.id] = n.depends_on

(* The template's two barriers follow from the checks of the validator:    *)
(* no accepted plan lets a node run beside one that waits for something    *)
(* else, which is what the causal order of a run's events rests on.        *)
THEOREM BarriersFollow ==
  ASSUME NEW plan, NEW routes, Plans!IsPlan(plan), Plans!Valid(plan, routes), Executes(plan)
  PROVE  Barriers
  <1> DEFINE P == Plans!NodesIn(plan, "proposer")
             R == Plans!NodesIn(plan, "reviewer")
  <1>1. IsFiniteSet(P) /\ IsFiniteSet(R) /\ IsFiniteSet(Plans!NodesIn(plan, "judge"))
    BY FS_Subset, PlanSets DEF Plans!IsPlan, Plans!NodesIn
  <1>2. PICK p, q \in P : p # q /\ P = {p, q}
    BY <1>1, TwoMembers, PlanSets DEF Plans!Valid, Plans!Topology
  <1>3. PICK v, w \in R : v # w /\ R = {v, w}
    BY <1>1, TwoMembers, PlanSets DEF Plans!Valid, Plans!Topology
  <1>4. PICK j : Plans!NodesIn(plan, "judge") = {j}
    BY <1>1, OneMember, PlanSets DEF Plans!Valid, Plans!Topology
  <1>5. plan.nodes = {p, q, v, w, j}
    BY <1>2, <1>3, <1>4 DEF Plans!Valid, Plans!ValidNode, Plans!NodesIn
  <1>6. /\ \A m \in R : p.id \in m.depends_on /\ q.id \in m.depends_on
        /\ v.id \in j.depends_on /\ w.id \in j.depends_on
    BY <1>2, <1>3, <1>4 DEF Plans!Valid, Plans!ValidNode, Plans!ReviewerNode, Plans!JudgeNode,
                           Plans!NodesIn, Plans!Ids
  <1>7. \A m \in {v, w} : m.id \in Above(j.id)
    BY <1>5, <1>6 DEF Above, Executes
  <1>8. \A m \in {p, q} : m.id \in Above(j.id) /\ m.id \in Above(v.id) /\ m.id \in Above(w.id)
    BY <1>3, <1>5, <1>6 DEF Above, Executes
  <1>9. ASSUME NEW n \in plan.nodes PROVE n.id \notin n.depends_on
    BY AncestorsClosed DEF Plans!Valid, Plans!Acyclic
  <1>10. ASSUME NEW m \in plan.nodes, NEW n \in plan.nodes, m.id \in n.depends_on
         PROVE  n.id \notin m.depends_on
    BY <1>10, AncestorsClosed DEF Plans!Valid, Plans!Acyclic, Plans!Closed
  <1>11. ASSUME NEW n \in P PROVE n.depends_on \subseteq {p.id, q.id} \ {n.id}
    <2> SUFFICES ASSUME NEW d \in n.depends_on PROVE d \in {p.id, q.id} \ {n.id}
      OBVIOUS
    <2>1. n \in plan.nodes /\ (n = p \/ n = q)
      BY <1>2 DEF Plans!NodesIn
    <2>2. PICK m \in plan.nodes : m.id = d
      BY <2>1 DEF Plans!Valid, Plans!WellFormed, Plans!Ids
    <2>3. m # n
      BY <1>9, <2>1, <2>2
    <2>4. m \notin {v, w}
      BY <1>3, <1>6, <1>10, <2>1, <2>2
    <2>5. m # j
      <3>1. j.id \notin n.depends_on
        BY <1>4, <2>1, <2>3, JudgeRunsLast DEF JudgeIsLast, Plans!NodesIn
      <3> QED BY <2>2, <3>1
    <2> QED BY <1>5, <1>9, <2>1, <2>2, <2>3, <2>4, <2>5
  <1>12. SUFFICES ASSUME NEW n \in plan.nodes, NEW r \in plan.nodes, NEW d \in n.depends_on,
                         r # n
                  PROVE  r.id \in Above(n.id) \/ n.id \in Above(r.id) \/ d \in r.depends_on
    <2>1. \A i \in Nodes : \E m \in plan.nodes : m.id = i /\ DependsOn[i] = m.depends_on
      BY DEF Executes, Plans!Ids
    <2> QED BY <2>1 DEF Barriers
  <1>13. CASE n \in {p, q} /\ r \in {p, q}
    <2>1. d = r.id
      BY <1>2, <1>11, <1>12, <1>13
    <2> QED BY <2>1 DEF Above, Executes
  <1>14. CASE n \in {v, w} /\ r \in {v, w}
    <2>1. PICK m \in plan.nodes : m.id = d
      BY DEF Plans!Valid, Plans!WellFormed, Plans!Ids
    <2>2. CASE m \in {p, q}
      BY <1>3, <1>6, <1>14, <2>1, <2>2
    <2>3. CASE m \in {v, w}
      <3>1. m = r
        BY <1>9, <1>12, <1>14, <2>1, <2>3
      <3> QED BY <2>1, <3>1 DEF Above, Executes
    <2>4. m # j
      <3>1. j.id \notin n.depends_on
        BY <1>4, <1>12, <1>14, <1>3, JudgeRunsLast DEF JudgeIsLast, Plans!NodesIn
      <3> QED BY <2>1, <3>1
    <2> QED BY <1>5, <2>2, <2>3, <2>4
  <1>15. CASE ~(n \in {p, q} /\ r \in {p, q}) /\ ~(n \in {v, w} /\ r \in {v, w})
    BY <1>5, <1>7, <1>8, <1>12, <1>15
  <1> QED BY <1>13, <1>14, <1>15

-----------------------------------------------------------------------------
(* Causal order. *)

(* One event is in causal order.                                           *)
Causal(i) ==
  LET e == journal[i]
  IN  /\ e.type = "node.started" =>
           \A d \in DependsOn[e.node] : \E j \in 1..(i - 1) : journal[j] = NodeCompleted(d)
      /\ e.type = "node.failed" /\ e.reason = "dependency_failed" =>
           \E d \in DependsOn[e.node] :
             \/ \E j \in 1..(i - 1) : journal[j].type = "node.failed" /\ journal[j].node = d
             \/ d \in raised

(* The failure that a node blames has shown: of a dependency that fell     *)
(* silent some other dependency of the node tells.                         *)
LEMMA BlameIsFounded ==
  ASSUME Barriers, TypeOK, Told, NEW n \in Nodes, PastBarrier(n),
         NEW d \in DependsOn[n], task[d] = "failed"
  PROVE  \E c \in DependsOn[n] : "node.failed" \in NodeEvents(c) \/ c \in raised
<1>1. /\ task[n] = "waiting" /\ n \notin cancelled /\ d \in Nodes
      /\ \A c \in DependsOn[n] : c \in Nodes /\ task[c] \in {"completed", "failed"}
  BY PlanAssumption DEF PastBarrier, Ended
<1>2. ~TornDown
  BY <1>1 DEF Told, Torn, Unfinished, Ended
<1> SUFFICES ASSUME \A c \in DependsOn[n] : "node.failed" \notin NodeEvents(c) /\ c \notin raised
             PROVE  FALSE
  OBVIOUS
<1>3. \A c \in DependsOn[n] : task[c] = "failed" => engineAbort /\ DependenciesCompleted(c)
  BY <1>1, <1>2 DEF Told, ToldOf
<1>4. PICK r \in raised : DependenciesCompleted(r)
  BY <1>3 DEF Told, Torn
<1>5. r \in Nodes /\ task[r] = "failed" /\ r # n
  BY <1>1 DEF TypeOK, Told, ToldOf
<1>6. d \notin DependsOn[r]
  BY <1>4 DEF DependenciesCompleted
<1>7. n \notin Above(r)
  <2>1. \A x \in DependsOn[r] : x \in Nodes /\ task[x] = "completed" /\ DependenciesCompleted(x)
    BY <1>4, <1>5, PlanAssumption DEF DependenciesCompleted, Told, ToldOf
  <2> QED BY <1>1, <2>1 DEF Above, DependenciesCompleted
<1>8. r \notin Above(n)
  <2>1. r \notin DependsOn[n]
    OBVIOUS
  <2>2. \A c \in DependsOn[n] : DependenciesCompleted(c)
    BY <1>1, <1>3 DEF Told, ToldOf
  <2> QED BY <1>5, <2>1, <2>2 DEF Above, DependenciesCompleted
<1> QED BY <1>5, <1>6, <1>7, <1>8 DEF Barriers

(* What a step of a node adds is in causal order.                          *)
LEMMA NodeCausal ==
  ASSUME Barriers, TypeOK, Told, NEW n \in Nodes, Outcome(n), \A i \in DOMAIN journal : Causal(i)
  PROVE  \A i \in DOMAIN journal' : Causal(i)'
<1>1. PICK events :
        /\ Tells(n, events)
        /\ "node.started" \in Marks(events) => DependenciesCompleted(n)
        /\ Blames(events) => PastBarrier(n) /\ \E d \in DependsOn[n] : task[d] = "failed"
  BY DEF Outcome, Starts, Completes, Fails
<1>2. raised \subseteq raised'
  BY DEF Outcome, Starts, Completes, Fails
<1>3. /\ journal \in Seq(Events) /\ events \in Seq(Events) /\ journal' = journal \o events
      /\ About(n, events)
  BY <1>1 DEF Tells, TypeOK, Events
<1>4. /\ Len(journal) \in Nat /\ DOMAIN journal = 1..Len(journal)
      /\ DOMAIN journal' = 1..(Len(journal) + Len(events))
      /\ Len(events) \in Nat /\ DOMAIN events = 1..Len(events)
      /\ \A i \in 1..Len(journal) : journal'[i] = journal[i]
      /\ \A i \in 1..Len(events) : journal'[Len(journal) + i] = events[i]
  BY <1>3
<1>5. ASSUME NEW i \in DOMAIN journal PROVE Causal(i)'
  <2>1. i \in 1..Len(journal) /\ \A j \in 1..i : journal'[j] = journal[j]
    BY <1>4
  <2>2. Causal(i) /\ journal'[i] = journal[i]
    BY <2>1
  <2>3. \A j \in 1..(i - 1) : journal'[j] = journal[j]
    BY <1>4, <2>1
  <2> QED BY <1>2, <2>2, <2>3 DEF Causal, NodeCompleted, Artifact
<1>6. ASSUME NEW k \in DOMAIN events, NEW i, i = Len(journal) + k PROVE Causal(i)'
  <2>1. /\ journal'[i] = events[k] /\ k \in 1..Len(events)
        /\ \A j \in DOMAIN journal : j \in 1..(i - 1) /\ journal'[j] = journal[j]
    BY <1>4, <1>6
  <2>2. ASSUME events[k].type = "node.started", NEW d \in DependsOn[n]
        PROVE  \E j \in 1..(i - 1) : journal'[j] = NodeCompleted(d)
    <3>1. "node.started" \in Marks(events)
      BY <2>2 DEF Marks, StatusTypes
    <3>2. d \in Nodes /\ task[d] = "completed"
      BY <1>1, <3>1, PlanAssumption DEF DependenciesCompleted
    <3>3. PICK j \in DOMAIN journal : journal[j] = NodeCompleted(d)
      BY <3>2 DEF Told, ToldOf
    <3> QED BY <2>1, <3>3
  <2>3. ASSUME events[k].type = "node.failed", events[k].reason = "dependency_failed"
        PROVE  \E d \in DependsOn[n] :
                 \/ \E j \in 1..(i - 1) : journal'[j].type = "node.failed" /\ journal'[j].node = d
                 \/ d \in raised'
    <3>1. Blames(events)
      BY <2>3 DEF Blames
    <3>2. PICK c \in DependsOn[n] : "node.failed" \in NodeEvents(c) \/ c \in raised
      BY <1>1, <3>1, BlameIsFounded
    <3>3. ASSUME "node.failed" \in NodeEvents(c)
          PROVE  \E j \in DOMAIN journal : journal[j].type = "node.failed" /\ journal[j].node = c
      BY <3>3 DEF NodeEvents
    <3> QED BY <1>2, <2>1, <3>2, <3>3
  <2>4. events[k].type \in StatusTypes => events[k].node = n
    BY <1>3 DEF About
  <2> QED BY <2>1, <2>2, <2>3, <2>4 DEF Causal, StatusTypes, NodeCompleted, Artifact
<1>7. ASSUME NEW i \in DOMAIN journal'
      PROVE  i \in DOMAIN journal \/ i - Len(journal) \in DOMAIN events
  BY <1>4
<1>8. ASSUME NEW i \in DOMAIN journal', i \notin DOMAIN journal PROVE Causal(i)'
  <2>1. i - Len(journal) \in DOMAIN events /\ i = Len(journal) + (i - Len(journal))
    BY <1>4, <1>7, <1>8
  <2> QED BY <1>6, <2>1
<1> QED BY <1>5, <1>8

(* Events are journaled in causal order: a node starts after each of its   *)
(* dependencies has completed and blames one only for a failure that has   *)
(* shown (_run_node), of every plan with barriers.                         *)
THEOREM CausalityKept ==
  ASSUME Barriers
  PROVE  Spec => []CausalOrder
<1> DEFINE InOrder == \A i \in DOMAIN journal : Causal(i)
<1>1. Init => InOrder
  BY DEF Init
<1>2. TypeOK /\ Told /\ InOrder /\ [Next]_vars => InOrder'
  <2> SUFFICES ASSUME TypeOK, Told, InOrder, [Next]_vars PROVE InOrder'
    OBVIOUS
  <2>1. CASE \E n \in Nodes : NodeStep(n)
    BY <2>1, NodeOutcome, NodeCausal
  <2>2. CASE ~ \E n \in Nodes : NodeStep(n)
    <3>1. UNCHANGED raised
      BY <2>2 DEF Next, vars, Open, AbortGroup, OwnerCancel, Unwind, Finish, WriteReport,
                  WriteDecision
    <3>2. CASE UNCHANGED journal
      BY <3>1, <3>2 DEF Causal, NodeCompleted, Artifact
    <3>3. ASSUME NEW e, e.type \notin StatusTypes, journal' = journal \o <<e>> PROVE InOrder'
      <4>1. journal \in Seq(Events)
        BY DEF TypeOK
      <4>2. /\ DOMAIN journal = 1..Len(journal) /\ Len(journal) \in Nat
            /\ \A i \in DOMAIN journal' : i \in DOMAIN journal \/ journal'[i] = e
            /\ \A i \in DOMAIN journal : journal'[i] = journal[i]
        BY <3>3, <4>1
      <4>3. ASSUME NEW i \in DOMAIN journal' PROVE Causal(i)'
        <5>1. CASE i \in DOMAIN journal
          <6>1. Causal(i) /\ journal'[i] = journal[i]
            BY <4>2, <5>1
          <6>2. \A j \in 1..(i - 1) : journal'[j] = journal[j]
            BY <4>2, <5>1
          <6> QED BY <3>1, <6>1, <6>2 DEF Causal, NodeCompleted, Artifact
        <5>2. CASE journal'[i] = e
          BY <3>3, <5>2 DEF Causal, StatusTypes
        <5> QED BY <4>2, <5>1, <5>2
      <4> QED BY <4>3
    <3> QED BY <2>2, <3>2, <3>3, RunLevelSteps DEF RunCreated, RunFinished, StatusTypes
  <2> QED BY <2>1, <2>2
<1>3. InOrder => CausalOrder
  BY DEF Causal, CausalOrder
<1> QED BY <1>1, <1>2, <1>3, TypeCorrect, JournalTells, PTL DEF Spec

(* The causal order holds in every run of a plan the validator accepts.    *)
COROLLARY AcceptedPlansCausal ==
  ASSUME NEW plan, NEW routes, Plans!IsPlan(plan), Plans!Valid(plan, routes), Executes(plan)
  PROVE  Spec => []CausalOrder
BY BarriersFollow, CausalityKept

-----------------------------------------------------------------------------
(* The fold of a journal: the view of an extended journal is the view of   *)
(* the journal after one more frame.                                       *)

(* A set of numbers up to a bound has a least one.                         *)
LEMMA LeastNumber ==
  ASSUME NEW N \in Nat, NEW Bad \in SUBSET (0..N), Bad # {}
  PROVE  \E k \in Bad : \A j \in Bad : k <= j
<1> DEFINE Below == {0..k : k \in Bad}
<1>1. IsFiniteSet(0..N)
  BY FS_Interval
<1>2. Below \in SUBSET (SUBSET (0..N)) /\ Below # {}
  <2>1. ASSUME NEW k \in Bad PROVE 0..k \in SUBSET (0..N)
    <3>1. k \in Nat /\ k <= N
      OBVIOUS
    <3> QED BY <3>1
  <2>2. Below \in SUBSET (SUBSET (0..N))
    BY <2>1, Zenon
  <2>3. PICK k : k \in Bad
    OBVIOUS
  <2>4. 0..k \in Below
    BY <2>3, Zenon
  <2> QED BY <2>2, <2>4
<1> HIDE DEF Below
<1>3. PICK A \in Below : \A B \in SUBSET A : B # A => B \notin Below
  BY <1>1, <1>2, MinimalSubset
<1>4. PICK k \in Bad : A = 0..k
  BY <1>3 DEF Below
<1>5. ASSUME NEW j \in Bad, j < k PROVE FALSE
  <2>1. 0..j \in SUBSET A /\ 0..j # A
    <3>1. k \in 0..k /\ k \notin 0..j
      BY <1>5
    <3>2. \A i \in 0..j : i \in 0..k
      BY <1>5
    <3> QED BY <1>4, <3>1, <3>2
  <2>2. 0..j \in Below
    BY DEF Below
  <2> QED BY <1>3, <2>1, <2>2
<1> QED BY <1>5

(* A step that leads from each number of a set to the next, up to a bound, *)
(* leads from any of them to all that follow.                              *)
LEMMA Onwards ==
  ASSUME NEW N \in Nat, NEW Good \in SUBSET (0..N), NEW a \in Good,
         \A i \in Good : i < N => i + 1 \in Good
  PROVE  \A i \in a..N : i \in Good
<1> DEFINE Bad == {i \in a..N : i \notin Good}
<1>1. SUFFICES ASSUME Bad # {} PROVE FALSE
  OBVIOUS
<1>2. PICK k \in Bad : \A j \in Bad : k <= j
  <2>1. Bad \in SUBSET (0..N)
    OBVIOUS
  <2> HIDE DEF Bad
  <2> QED BY <1>1, <2>1, LeastNumber
<1>3. k \in a..N /\ k \notin Good /\ k # a /\ a \in 0..N
  BY <1>2
<1>4. k - 1 \in a..N /\ ~(k <= k - 1) /\ k - 1 < N /\ (k - 1) + 1 = k
  BY <1>3
<1>5. k - 1 \in Good
  BY <1>2, <1>4
<1> QED BY <1>3, <1>4, <1>5

(* g holds the view after each of the first k frames.                      *)
Viewing(g, frames, k) ==
  g = [ i \in 0..k |-> IF i = 0 THEN Replay!EmptyView
                       ELSE CHOOSE v \in {Replay!FoldFrame(u, frames[i]) : u \in {g[i - 1]}} :
                              TRUE ]

(* Each view is the one before after its frame.                            *)
LEMMA ViewingSteps ==
  ASSUME NEW g, NEW frames, NEW k \in Nat
  PROVE  Viewing(g, frames, k) <=>
           /\ g = [i \in 0..k |-> g[i]]
           /\ g[0] = Replay!EmptyView
           /\ \A i \in 1..k : g[i] = Replay!FoldFrame(g[i - 1], frames[i])
<1> DEFINE F(u, i) == Replay!FoldFrame(u, frames[i])
           C(i) == CHOOSE v \in {F(u, i) : u \in {g[i - 1]}} : TRUE
<1>1. \A i : C(i) = F(g[i - 1], i)
  <2> TAKE i
  <2>1. {F(u, i) : u \in {g[i - 1]}} = {F(g[i - 1], i)}
    OBVIOUS
  <2> QED BY <2>1
<1>2. Viewing(g, frames, k) <=>
        g = [i \in 0..k |-> IF i = 0 THEN Replay!EmptyView ELSE C(i)]
  BY DEF Viewing
<1> HIDE DEF C, F
<1>3. Viewing(g, frames, k) <=>
        g = [i \in 0..k |-> IF i = 0 THEN Replay!EmptyView ELSE F(g[i - 1], i)]
  BY <1>1, <1>2
<1>4. 0 \in 0..k /\ (0..k) \ {0} = 1..k
  OBVIOUS
<1>5. ASSUME Viewing(g, frames, k)
      PROVE  /\ g = [i \in 0..k |-> g[i]]
             /\ g[0] = Replay!EmptyView
             /\ \A i \in 1..k : g[i] = F(g[i - 1], i)
  <2> DEFINE h == [i \in 0..k |-> IF i = 0 THEN Replay!EmptyView ELSE F(g[i - 1], i)]
  <2>1. g = h
    BY <1>3, <1>5
  <2>2. /\ h = [i \in 0..k |-> h[i]]
        /\ h[0] = Replay!EmptyView
        /\ \A i \in 1..k : h[i] = F(g[i - 1], i)
    BY <1>4
  <2> HIDE DEF h
  <2> QED BY <2>1, <2>2
<1>6. ASSUME /\ g = [i \in 0..k |-> g[i]]
             /\ g[0] = Replay!EmptyView
             /\ \A i \in 1..k : g[i] = F(g[i - 1], i)
      PROVE  Viewing(g, frames, k)
  <2>1. [i \in 0..k |-> g[i]] = [i \in 0..k |-> IF i = 0 THEN Replay!EmptyView ELSE F(g[i - 1], i)]
    BY <1>4, <1>6
  <2> QED BY <1>3, <1>6, <2>1
<1> QED BY <1>5, <1>6 DEF F

(* There are views of all frames.                                          *)
LEMMA ViewingExists ==
  ASSUME NEW frames, NEW N \in Nat
  PROVE  \E g : Viewing(g, frames, N)
<1> DEFINE Bad == {k \in 0..N : ~ \E g : Viewing(g, frames, k)}
<1>1. SUFFICES ASSUME Bad # {} PROVE FALSE
  <2>1. N \in 0..N
    OBVIOUS
  <2> QED BY <2>1
<1>2. PICK k \in Bad : \A j \in Bad : k <= j
  <2>1. Bad \in SUBSET (0..N)
    OBVIOUS
  <2> HIDE DEF Bad
  <2> QED BY <1>1, <2>1, LeastNumber
<1>3. k \in 0..N /\ ~ \E g : Viewing(g, frames, k)
  BY <1>2
<1>4. CASE k = 0
  <2> DEFINE h == [i \in 0..0 |-> Replay!EmptyView]
  <2>1. h = [i \in 0..0 |-> h[i]] /\ h[0] = Replay!EmptyView /\ 1..0 = {}
    OBVIOUS
  <2> HIDE DEF h
  <2>2. Viewing(h, frames, 0)
    BY <2>1, ViewingSteps
  <2> QED BY <1>3, <1>4, <2>2
<1>5. CASE k # 0
  <2>1. k - 1 \in 0..N /\ ~(k <= k - 1) /\ k - 1 \in Nat
    BY <1>3, <1>5
  <2>2. PICK g : Viewing(g, frames, k - 1)
    BY <1>2, <2>1
  <2> DEFINE h == [ i \in 0..k |-> IF i = k THEN Replay!FoldFrame(g[k - 1], frames[k]) ELSE g[i] ]
  <2>3. /\ g = [i \in 0..(k - 1) |-> g[i]]
        /\ g[0] = Replay!EmptyView
        /\ \A i \in 1..(k - 1) : g[i] = Replay!FoldFrame(g[i - 1], frames[i])
    BY <2>1, <2>2, ViewingSteps
  <2>4. /\ \A i \in 0..(k - 1) : h[i] = g[i]
        /\ h[k] = Replay!FoldFrame(g[k - 1], frames[k])
        /\ h = [i \in 0..k |-> h[i]]
    BY <1>3, <1>5
  <2> HIDE DEF h
  <2>5. h[0] = Replay!EmptyView
    BY <1>3, <1>5, <2>3, <2>4
  <2>6. ASSUME NEW i \in 1..k PROVE h[i] = Replay!FoldFrame(h[i - 1], frames[i])
    <3>1. CASE i = k
      <4>1. k - 1 \in 0..(k - 1)
        BY <1>3, <1>5
      <4> QED BY <2>4, <3>1, <4>1
    <3>2. CASE i # k
      <4>1. i \in 1..(k - 1) /\ i \in 0..(k - 1) /\ i - 1 \in 0..(k - 1)
        BY <1>3, <3>2
      <4> QED BY <2>3, <2>4, <4>1
    <3> QED BY <3>1, <3>2
  <2>7. Viewing(h, frames, k)
    <3>1. k \in Nat
      BY <1>3
    <3>2. \A i \in 1..k : h[i] = Replay!FoldFrame(h[i - 1], frames[i])
      BY <2>6, Zenon
    <3>3. \/ Viewing(h, frames, k)
          \/ ~ (/\ h = [i \in 0..k |-> h[i]]
                /\ h[0] = Replay!EmptyView
                /\ \A i \in 1..k : h[i] = Replay!FoldFrame(h[i - 1], frames[i]))
      BY <3>1, ViewingSteps
    <3> QED BY <2>4, <2>5, <3>2, <3>3
  <2> QED BY <1>3, <2>7
<1> QED BY <1>4, <1>5

(* Views of frames that agree so far are the same.                         *)
LEMMA ViewingAgrees ==
  ASSUME NEW a, NEW b, NEW m \in Nat, NEW k \in 0..m,
         NEW g, NEW h, Viewing(g, a, k), Viewing(h, b, m),
         \A i \in 1..k : a[i] = b[i]
  PROVE  g[k] = h[k]
<1> DEFINE Bad == {i \in 0..k : g[i] # h[i]}
<1>1. SUFFICES ASSUME Bad # {} PROVE FALSE
  <2>1. k \in 0..k
    OBVIOUS
  <2> QED BY <2>1
<1>2. PICK i \in Bad : \A j \in Bad : i <= j
  <2>1. Bad \in SUBSET (0..k) /\ k \in Nat
    OBVIOUS
  <2> HIDE DEF Bad
  <2> QED BY <1>1, <2>1, LeastNumber
<1>3. /\ g[0] = Replay!EmptyView
      /\ \A j \in 1..k : g[j] = Replay!FoldFrame(g[j - 1], a[j])
      /\ h[0] = Replay!EmptyView
      /\ \A j \in 1..m : h[j] = Replay!FoldFrame(h[j - 1], b[j])
  BY ViewingSteps
<1>4. i \in 0..k /\ g[i] # h[i] /\ i # 0
  BY <1>2, <1>3
<1>5. i - 1 \in 0..k /\ ~(i <= i - 1) /\ i \in 1..k /\ i \in 1..m
  BY <1>4
<1>6. g[i - 1] = h[i - 1]
  BY <1>2, <1>5
<1> QED BY <1>3, <1>4, <1>5, <1>6

(* The fold is the last of the views.                                      *)
LEMMA FoldIsLast ==
  ASSUME NEW frames, Len(frames) \in Nat
  PROVE  \E g : Viewing(g, frames, Len(frames)) /\ Replay!FoldFrames(frames) = g[Len(frames)]
<1> DEFINE c == CHOOSE g : Viewing(g, frames, Len(frames))
<1>1. Viewing(c, frames, Len(frames))
  BY ViewingExists
<1>2. Replay!FoldFrames(frames) = c[Len(frames)]
  BY DEF Replay!FoldFrames, Viewing
<1> QED BY <1>1, <1>2

(* No frame, no view but the first.                                        *)
LEMMA FoldNone == Replay!FoldFrames(<< >>) = Replay!EmptyView
<1>1. PICK g : Viewing(g, << >>, 0) /\ Replay!FoldFrames(<< >>) = g[0]
  BY FoldIsLast
<1> QED BY <1>1, ViewingSteps

(* A frame more is one more turn of the loop.                              *)
LEMMA FoldAppend ==
  ASSUME NEW S, NEW frames \in Seq(S), NEW frame \in S
  PROVE  Replay!FoldFrames(Append(frames, frame))
           = Replay!FoldFrame(Replay!FoldFrames(frames), frame)
<1> DEFINE all == Append(frames, frame)
           N == Len(frames)
<1>1. /\ N \in Nat /\ Len(all) = N + 1 /\ all[N + 1] = frame
      /\ \A i \in 1..N : frames[i] = all[i]
  OBVIOUS
<1>2. PICK g : Viewing(g, frames, N) /\ Replay!FoldFrames(frames) = g[N]
  BY <1>1, FoldIsLast
<1> HIDE DEF all, N
<1>3. PICK h : Viewing(h, all, N + 1) /\ Replay!FoldFrames(all) = h[N + 1]
  BY <1>1, FoldIsLast
<1>4. g[N] = h[N]
  <2>1. N \in 0..(N + 1) /\ N + 1 \in Nat
    BY <1>1
  <2> QED BY <1>1, <1>2, <1>3, <2>1, ViewingAgrees
<1>5. h[N + 1] = Replay!FoldFrame(h[(N + 1) - 1], all[N + 1])
  <2>1. N + 1 \in 1..(N + 1) /\ N + 1 \in Nat
    BY <1>1
  <2>2. \A i \in 1..(N + 1) : h[i] = Replay!FoldFrame(h[i - 1], all[i])
    BY <1>3, <2>1, ViewingSteps
  <2>3. PICK m \in 1..(N + 1) : m = N + 1
    BY <2>1
  <2>4. h[m] = Replay!FoldFrame(h[m - 1], all[m])
    BY <2>2
  <2> QED BY <2>3, <2>4, Zenon
<1>6. (N + 1) - 1 = N
  BY <1>1
<1> QED BY <1>1, <1>2, <1>3, <1>4, <1>5, <1>6 DEF all

(* The view of a journal with one more event.                              *)
LEMMA FoldOne ==
  ASSUME NEW S, NEW j \in Seq(S), NEW e \in S
  PROVE  Replay!Fold(Append(j, e))
           = Replay!FoldFrame(Replay!Fold(j), [seq |-> Len(j) + 1, event |-> e])
<1> DEFINE T == [seq : Nat, event : S]
           frame == [seq |-> Len(j) + 1, event |-> e]
           a == Replay!Frames(0, j)
           b == Replay!Frames(0, Append(j, e))
<1>1. a \in Seq(T) /\ b \in Seq(T) /\ frame \in T
  <2>1. 0 \in Nat /\ Len(j) + 1 \in Nat /\ Append(j, e) \in Seq(S)
    OBVIOUS
  <2>2. a \in Seq(T)
    BY <2>1, FramesType
  <2>3. b \in Seq(T)
    BY <2>1, FramesType
  <2>4. frame \in T
    BY <2>1
  <2> QED BY <2>2, <2>3, <2>4
<1>2. b = Append(a, frame)
  <2>1. /\ DOMAIN j = 1..Len(j) /\ Len(j) \in Nat
        /\ DOMAIN Append(j, e) = 1..(Len(j) + 1)
        /\ \A i \in 1..Len(j) : Append(j, e)[i] = j[i]
        /\ Append(j, e)[Len(j) + 1] = e
    OBVIOUS
  <2>2. /\ DOMAIN a = 1..Len(j) /\ Len(a) = Len(j)
        /\ \A i \in 1..Len(j) : a[i] = [seq |-> 0 + i, event |-> j[i]]
    BY <1>1, <2>1 DEF Replay!Frames
  <2>3. /\ DOMAIN b = 1..(Len(j) + 1) /\ Len(b) = Len(j) + 1
        /\ \A i \in 1..Len(j) : b[i] = [seq |-> 0 + i, event |-> j[i]]
        /\ b[Len(j) + 1] = [seq |-> 0 + (Len(j) + 1), event |-> e]
    BY <1>1, <2>1 DEF Replay!Frames
  <2>4. 0 + (Len(j) + 1) = Len(j) + 1
    BY <2>1
  <2>5. /\ Append(a, frame) \in Seq(T)
        /\ Len(Append(a, frame)) = Len(j) + 1
        /\ DOMAIN Append(a, frame) = 1..(Len(j) + 1)
        /\ \A i \in 1..Len(j) : Append(a, frame)[i] = a[i]
        /\ Append(a, frame)[Len(j) + 1] = frame
    <3> HIDE DEF a, b, T, frame
    <3> QED BY <1>1, <2>1, <2>2
  <2>6. \A i \in 1..(Len(j) + 1) : b[i] = Append(a, frame)[i]
    <3>1. \A i \in 1..(Len(j) + 1) : i \in 1..Len(j) \/ i = Len(j) + 1
      BY <2>1
    <3>2. b[Len(j) + 1] = frame
      BY <2>3, <2>4
    <3> HIDE DEF a, b, T, frame
    <3> QED BY <2>2, <2>3, <2>5, <3>1, <3>2
  <2> HIDE DEF a, b, T, frame
  <2> QED BY <1>1, <2>3, <2>5, <2>6
<1> HIDE DEF a, b, frame, T
<1>3. Replay!FoldFrames(b) = Replay!FoldFrame(Replay!FoldFrames(a), frame)
  BY <1>1, <1>2, FoldAppend
<1> QED BY <1>3 DEF a, b, frame, Replay!Fold

-----------------------------------------------------------------------------
(* A frame more, event by event.                                           *)

ViewFields == {"rejected", "seq", "status", "nodes", "open", "ops", "artifacts",
               "totals", "decision"}
NodeFields == {"status", "calls", "role", "lastOutput", "output"}

IsRecord(r, fields) == r = [f \in fields |-> r[f]]

IsFunction(f) == f = [x \in DOMAIN f |-> f[x]]

(* The view of a run under way.                                            *)
Sane(v) ==
  /\ IsRecord(v, ViewFields) /\ IsFunction(v.nodes) /\ IsFunction(v.open)
  /\ \A m \in DOMAIN v.nodes : IsRecord(v.nodes[m], NodeFields) /\ v.nodes[m].calls \in Nat
  /\ v.rejected = FALSE /\ v.status = "running" /\ v.seq \in Nat
  /\ v.totals \in BudgetTotals
  /\ DOMAIN v.nodes \subseteq Nodes
  /\ DOMAIN v.open \subseteq {<<m, m>> : m \in Nodes}

After(v, e) == Replay!FoldFrame(v, [seq |-> v.seq + 1, event |-> e])

(* The frame changes these fields of the view and no other.                *)
Changes(v, w, fields) ==
  /\ IsRecord(w, ViewFields)
  /\ w.seq = v.seq + 1
  /\ \A f \in ViewFields \ (fields \cup {"seq"}) : w[f] = v[f]

(* And of the nodes, this one.                                             *)
Retells(v, w, n, status, calls, role, lastOutput, output) ==
  /\ IsFunction(w.nodes)
  /\ DOMAIN w.nodes = DOMAIN v.nodes \cup {n}
  /\ \A m \in DOMAIN v.nodes : m # n => w.nodes[m] = v.nodes[m]
  /\ IsRecord(w.nodes[n], NodeFields)
  /\ w.nodes[n].status = status
  /\ w.nodes[n].calls = calls
  /\ w.nodes[n].role = role
  /\ w.nodes[n].lastOutput = lastOutput
  /\ w.nodes[n].output = output

(* The node's dispatch is closed and its usage added to the totals.        *)
Pays(v, w, n, usage) ==
  /\ w.open = Replay!Without(v.open, <<n, n>>)
  /\ w.totals = Replay!Billed(v.totals, usage)

(* An accepted event is applied and its number kept.                       *)
LEMMA AfterAccepted ==
  ASSUME NEW v, Sane(v), NEW e, Replay!Accepts(v, e)
  PROVE  After(v, e) = [Replay!Applied(v, e) EXCEPT !.seq = v.seq + 1]
BY DEF After, Replay!FoldFrame, Sane

(* The moves of a node that a run makes.                                   *)
LEMMA Transitions ==
  /\ "running" \in Replay!NodeTransitions("pending")
  /\ "failed" \in Replay!NodeTransitions("pending")
  /\ "failed" \in Replay!NodeTransitions("running")
  /\ "completed" \in Replay!NodeTransitions("running")
BY DEF Replay!NodeTransitions

(* Which rule an event is held to.                                         *)
LEMMA RuleOf ==
  ASSUME NEW v, Sane(v), NEW e
  PROVE  /\ e.type \in {"node.started", "artifact.written", "budget.rejected",
                        "model.dispatched", "model.completed", "model.failed",
                        "node.completed", "node.failed"}
              => (Replay!AcceptsNodeEvent(v, e) => Replay!Accepts(v, e))
         /\ e.type = "node.started" =>
              ("running" \in Replay!NodeTransitions(Replay!NodeOf(v, e.node).status)
                 => Replay!AcceptsNodeEvent(v, e))
         /\ e.type \in {"artifact.written", "budget.rejected"} =>
              (Replay!RunningNode(v, e) => Replay!AcceptsNodeEvent(v, e))
         /\ e.type = "model.dispatched" =>
              (Replay!AcceptsDispatch(v, e) => Replay!AcceptsNodeEvent(v, e))
         /\ e.type = "model.completed" =>
              (Replay!AcceptsModelCompleted(v, e) => Replay!AcceptsNodeEvent(v, e))
         /\ e.type = "model.failed" =>
              (Replay!AcceptsModelFailed(v, e) => Replay!AcceptsNodeEvent(v, e))
         /\ e.type = "node.completed" =>
              (Replay!AcceptsNodeCompleted(v, e) => Replay!AcceptsNodeEvent(v, e))
         /\ e.type = "node.failed" =>
              (Replay!AcceptsNodeFailed(v, e) => Replay!AcceptsNodeEvent(v, e))
         /\ e.type = "decision.recorded" =>
              (Replay!AcceptsDecision(v, e) => Replay!Accepts(v, e))
         /\ e.type = "run.finished" =>
              (Replay!AcceptsRunFinished(v, e) => Replay!Accepts(v, e))
<1>1. v.status = "running"
  BY DEF Sane
<1>2. ASSUME e.type \in {"node.started", "artifact.written", "budget.rejected",
                        "model.dispatched", "model.completed", "model.failed",
                        "node.completed", "node.failed"},
             Replay!AcceptsNodeEvent(v, e)
      PROVE  Replay!Accepts(v, e)
  BY <1>1, <1>2 DEF Replay!Accepts
<1>3. ASSUME e.type = "decision.recorded", Replay!AcceptsDecision(v, e)
      PROVE  Replay!Accepts(v, e)
  BY <1>1, <1>3 DEF Replay!Accepts
<1>4. ASSUME e.type = "run.finished", Replay!AcceptsRunFinished(v, e)
      PROVE  Replay!Accepts(v, e)
  BY <1>1, <1>4 DEF Replay!Accepts
<1> QED BY <1>2, <1>3, <1>4 DEF Replay!AcceptsNodeEvent

(* And what it does to the view.                                           *)
LEMMA EffectOf ==
  ASSUME NEW v, NEW e
  PROVE  /\ e.type = "node.started" =>
              Replay!Applied(v, e) =
                Replay!WithNode(v, e.node,
                  [Replay!NodeOf(v, e.node) EXCEPT !.status = "running", !.role = e.role])
         /\ e.type = "artifact.written" =>
              Replay!Applied(v, e) = [v EXCEPT !.artifacts = @ \cup {e.artifact}]
         /\ e.type = "budget.rejected" => Replay!Applied(v, e) = v
         /\ e.type = "model.dispatched" =>
              Replay!Applied(v, e) =
                [ v EXCEPT !.ops = @ \cup {e.op},
                           !.open = [ k \in DOMAIN v.open \cup {<<e.node, e.op>>} |->
                                        IF k = <<e.node, e.op>> THEN e.reserved
                                        ELSE v.open[k] ] ]
         /\ e.type = "model.completed" =>
              Replay!Applied(v, e) =
                Replay!BilledTo(v, e, [Replay!NodeOf(v, e.node) EXCEPT !.lastOutput = e.output])
         /\ e.type = "model.failed" =>
              Replay!Applied(v, e) = Replay!BilledTo(v, e, Replay!NodeOf(v, e.node))
         /\ e.type = "node.completed" =>
              Replay!Applied(v, e) =
                Replay!WithNode(v, e.node,
                  [Replay!NodeOf(v, e.node) EXCEPT !.status = "completed", !.output = e.output])
         /\ e.type = "node.failed" =>
              Replay!Applied(v, e) =
                Replay!WithNode(v, e.node,
                  [Replay!NodeOf(v, e.node) EXCEPT !.status = "failed"])
         /\ e.type = "decision.recorded" =>
              Replay!Applied(v, e) = [v EXCEPT !.decision = e.source]
         /\ e.type = "run.finished" =>
              Replay!Applied(v, e) = [v EXCEPT !.status = e.status]
BY DEF Replay!Applied

(* A view with another record for a node.                                  *)
LEMMA RetoldNode ==
  ASSUME NEW v, Sane(v), NEW n, NEW r, NEW w, w = [Replay!WithNode(v, n, r) EXCEPT !.seq = v.seq + 1],
         IsRecord(r, NodeFields)
  PROVE  /\ Changes(v, w, {"nodes"})
         /\ Retells(v, w, n, r.status, r.calls, r.role, r.lastOutput, r.output)
<1> DEFINE z == Replay!WithNode(v, n, r)
           d == [m \in DOMAIN v.nodes \cup {n} |-> IF m = n THEN r ELSE v.nodes[m]]
<1>1. /\ IsFunction(d) /\ DOMAIN d = DOMAIN v.nodes \cup {n} /\ d[n] = r
      /\ \A m \in DOMAIN v.nodes : m # n => d[m] = v.nodes[m]
  BY DEF IsFunction
<1>2. z = [v EXCEPT !.nodes = d]
  BY DEF Replay!WithNode
<1> HIDE DEF d, z
<1>3. w = [z EXCEPT !.seq = v.seq + 1]
  BY DEF z
<1>4. Changes(v, w, {"nodes"}) /\ w.nodes = d
  BY <1>2, <1>3 DEF Sane, Changes, IsRecord, ViewFields
<1> QED BY <1>1, <1>4 DEF Retells

(* A node the journal has not named yet is pending.                        *)
LEMMA UntrackedNode ==
  /\ IsRecord(Replay!Untracked, NodeFields)
  /\ Replay!Untracked.status = "pending" /\ Replay!Untracked.calls = 0
  /\ Replay!Untracked.role = None
  /\ Replay!Untracked.lastOutput = None /\ Replay!Untracked.output = None
BY DEF IsRecord, NodeFields, Replay!Untracked

Running(v, n) == n \in DOMAIN v.nodes /\ v.nodes[n].status = "running"

(* node.started makes the node a running one of its role.                  *)
LEMMA StartedAfter ==
  ASSUME NEW v, Sane(v), NEW n \in Nodes, n \notin DOMAIN v.nodes,
         NEW w, w = After(v, NodeStarted(n))
  PROVE  Changes(v, w, {"nodes"}) /\ Retells(v, w, n, "running", 0, Role[n], None, None)
<1> DEFINE e == NodeStarted(n)
           x == Replay!NodeOf(v, e.node)
           r == [x EXCEPT !.status = "running", !.role = e.role]
<1>1. e.type = "node.started" /\ e.node = n /\ e.role = Role[n]
  BY DEF NodeStarted
<1> HIDE DEF e
<1>2. x = Replay!Untracked
  BY <1>1 DEF Replay!NodeOf
<1>3. Replay!Accepts(v, e)
  BY <1>1, <1>2, UntrackedNode, Transitions, RuleOf
<1>4. w = [Replay!Applied(v, e) EXCEPT !.seq = v.seq + 1]
  BY <1>3, AfterAccepted DEF e
<1>5. Replay!Applied(v, e) = Replay!WithNode(v, n, r)
  <2>1. Replay!Applied(v, e) = Replay!WithNode(v, e.node, r)
    BY <1>1, EffectOf, Zenon
  <2> QED BY <1>1, <2>1, Zenon
<1> HIDE DEF x
<1>6. /\ IsRecord(r, NodeFields) /\ r.status = "running" /\ r.calls = 0
      /\ r.role = Role[n] /\ r.lastOutput = None /\ r.output = None
  BY <1>1, <1>2, UntrackedNode DEF IsRecord, NodeFields
<1> HIDE DEF r
<1> QED BY <1>4, <1>5, <1>6, RetoldNode

(* artifact.written and budget.rejected leave the nodes alone.             *)
LEMMA NotedAfter ==
  ASSUME NEW v, Sane(v), NEW n \in Nodes, Running(v, n), NEW w
  PROVE  /\ \A what : w = After(v, ArtifactWritten(what, n)) =>
              /\ Changes(v, w, {"artifacts"})
              /\ w.artifacts = v.artifacts \cup {Artifact(what, n)}
         /\ w = After(v, BudgetRejected(n)) => Changes(v, w, {})
<1>1. ASSUME NEW what, w = After(v, ArtifactWritten(what, n))
      PROVE  /\ Changes(v, w, {"artifacts"})
             /\ w.artifacts = v.artifacts \cup {Artifact(what, n)}
  <2> DEFINE e == ArtifactWritten(what, n)
  <2>1. e.type = "artifact.written" /\ e.node = n /\ e.artifact = Artifact(what, n)
    BY DEF ArtifactWritten
  <2> HIDE DEF e
  <2>2. Replay!Accepts(v, e)
    BY <2>1, RuleOf DEF Replay!RunningNode, Replay!NodeOf, Running
  <2>3. w = [Replay!Applied(v, e) EXCEPT !.seq = v.seq + 1]
    BY <1>1, <2>2, AfterAccepted DEF e
  <2>4. Replay!Applied(v, e) = [v EXCEPT !.artifacts = @ \cup {e.artifact}]
    BY <2>1, EffectOf
  <2> QED BY <2>1, <2>3, <2>4 DEF Sane, Changes, IsRecord, ViewFields
<1>2. ASSUME w = After(v, BudgetRejected(n))
      PROVE  Changes(v, w, {})
  <2> DEFINE e == BudgetRejected(n)
  <2>1. e.type = "budget.rejected" /\ e.node = n
    BY DEF BudgetRejected
  <2> HIDE DEF e
  <2>2. Replay!Accepts(v, e)
    BY <2>1, RuleOf DEF Replay!RunningNode, Replay!NodeOf, Running
  <2>3. w = [Replay!Applied(v, e) EXCEPT !.seq = v.seq + 1]
    BY <1>2, <2>2, AfterAccepted DEF e
  <2>4. Replay!Applied(v, e) = v
    BY <2>1, EffectOf
  <2> QED BY <2>3, <2>4 DEF Sane, Changes, IsRecord, ViewFields
<1> QED BY <1>1, <1>2

(* model.dispatched opens the dispatch with what it reserves.              *)
LEMMA DispatchedAfter ==
  ASSUME NEW v, Sane(v), NEW n \in Nodes, Running(v, n), n \notin v.ops,
         Artifact("request", n) \in v.artifacts, NEW w, w = After(v, ModelDispatched(n))
  PROVE  /\ Changes(v, w, {"ops", "open"})
         /\ w.ops = v.ops \cup {n}
         /\ w.open = [ k \in DOMAIN v.open \cup {<<n, n>>} |->
                         IF k = <<n, n>> THEN ReservationFor(Ceiling[n]) ELSE v.open[k] ]
<1> DEFINE e == ModelDispatched(n)
<1>1. /\ e.type = "model.dispatched" /\ e.node = n /\ e.op = n
      /\ e.request = Artifact("request", n) /\ e.reserved = ReservationFor(Ceiling[n])
  BY DEF ModelDispatched
<1> HIDE DEF e
<1>2. Replay!Accepts(v, e)
  BY <1>1, RuleOf DEF Replay!AcceptsDispatch, Replay!RunningNode, Replay!NodeOf, Running
<1>3. w = [Replay!Applied(v, e) EXCEPT !.seq = v.seq + 1]
  BY <1>2, AfterAccepted DEF e
<1>4. Replay!Applied(v, e) =
        [ v EXCEPT !.ops = @ \cup {e.op},
                   !.open = [ k \in DOMAIN v.open \cup {<<e.node, e.op>>} |->
                                IF k = <<e.node, e.op>> THEN e.reserved ELSE v.open[k] ] ]
  BY <1>1, EffectOf
<1> DEFINE d == [ k \in DOMAIN v.open \cup {<<n, n>>} |->
                    IF k = <<n, n>> THEN ReservationFor(Ceiling[n]) ELSE v.open[k] ]
<1>5. d = [ k \in DOMAIN v.open \cup {<<e.node, e.op>>} |->
              IF k = <<e.node, e.op>> THEN e.reserved ELSE v.open[k] ]
  BY <1>1
<1> HIDE DEF d
<1>6. Replay!Applied(v, e) = [v EXCEPT !.ops = @ \cup {e.op}, !.open = d]
  BY <1>4, <1>5
<1>7. /\ Changes(v, w, {"ops", "open"})
      /\ w.ops = v.ops \cup {n}
      /\ w.open = d
  BY <1>1, <1>3, <1>6 DEF Sane, Changes, IsRecord, ViewFields
<1> QED BY <1>7 DEF d

(* A view after the bill of a dispatch.                                    *)
LEMMA BilledNode ==
  ASSUME NEW v, Sane(v), NEW n, NEW r, IsRecord(r, NodeFields), NEW e, e.node = n, e.op = n,
         NEW w, w = [Replay!BilledTo(v, e, r) EXCEPT !.seq = v.seq + 1]
  PROVE  /\ Changes(v, w, {"nodes", "open", "totals"})
         /\ Retells(v, w, n, r.status, r.calls + 1, r.role, r.lastOutput, r.output)
         /\ Pays(v, w, n, e.usage)
<1> DEFINE q == [r EXCEPT !.calls = @ + 1]
           d == [m \in DOMAIN v.nodes \cup {n} |-> IF m = n THEN q ELSE v.nodes[m]]
           z == Replay!WithNode(v, e.node, q)
           open == Replay!Without(v.open, <<e.node, e.op>>)
           totals == Replay!Billed(v.totals, e.usage)
           b == [z EXCEPT !.open = open, !.totals = totals]
<1>1. /\ IsRecord(q, NodeFields) /\ q.status = r.status /\ q.calls = r.calls + 1
      /\ q.role = r.role /\ q.lastOutput = r.lastOutput /\ q.output = r.output
  BY DEF IsRecord, NodeFields
<1>2. w = [b EXCEPT !.seq = v.seq + 1]
  BY DEF Replay!BilledTo
<1>3. open = Replay!Without(v.open, <<n, n>>)
  OBVIOUS
<1>4. totals = Replay!Billed(v.totals, e.usage)
  OBVIOUS
<1> HIDE DEF q
<1>5. /\ IsFunction(d) /\ DOMAIN d = DOMAIN v.nodes \cup {n} /\ d[n] = q
      /\ \A m \in DOMAIN v.nodes : m # n => d[m] = v.nodes[m]
  BY DEF IsFunction
<1>6. z = [v EXCEPT !.nodes = d]
  BY DEF Replay!WithNode
<1> HIDE DEF d, open, totals, z
<1>7. Changes(v, w, {"nodes", "open", "totals"}) /\ w.nodes = d /\ w.open = open /\ w.totals = totals
  BY <1>2, <1>6 DEF Sane, Changes, IsRecord, ViewFields
<1> QED BY <1>1, <1>3, <1>4, <1>5, <1>7 DEF Retells, Pays

(* model.completed closes the dispatch and bills its usage.                *)
LEMMA AnsweredAfter ==
  ASSUME NEW v, Sane(v), NEW n \in Nodes, Running(v, n), <<n, n>> \in DOMAIN v.open,
         Artifact("output", n) \in v.artifacts, NEW u \in Usage,
         NEW w, w = After(v, ModelCompleted(n, u))
  PROVE  /\ Changes(v, w, {"nodes", "open", "totals"})
         /\ Retells(v, w, n, "running", v.nodes[n].calls + 1, v.nodes[n].role,
                    Artifact("output", n), v.nodes[n].output)
         /\ Pays(v, w, n, Costed(u))
<1> DEFINE e == ModelCompleted(n, u)
           x == Replay!NodeOf(v, e.node)
           r == [x EXCEPT !.lastOutput = e.output]
<1>1. /\ e.type = "model.completed" /\ e.node = n /\ e.op = n
      /\ e.output = Artifact("output", n) /\ e.usage = Costed(u)
  BY DEF ModelCompleted
<1> HIDE DEF e
<1>2. /\ x = v.nodes[n] /\ IsRecord(x, NodeFields) /\ x.status = "running"
  BY <1>1 DEF Replay!NodeOf, Running, Sane
<1>3. Replay!Accepts(v, e)
  <2>1. u.input \in Nat /\ u.output \in Nat /\ DispatchCost(u) \in Nat
    BY DispatchCostType DEF Usage
  <2>2. Replay!NonNegative(e.usage)
    BY <1>1, <2>1 DEF Replay!NonNegative, Costed
  <2>3. Replay!RunningNode(v, e)
    BY <1>2 DEF Replay!RunningNode
  <2> QED BY <1>1, <2>2, <2>3, RuleOf DEF Replay!AcceptsModelCompleted
<1>4. w = [Replay!Applied(v, e) EXCEPT !.seq = v.seq + 1]
  BY <1>3, AfterAccepted DEF e
<1>5. Replay!Applied(v, e) = Replay!BilledTo(v, e, r)
  BY <1>1, EffectOf, Zenon
<1> HIDE DEF x
<1>6. /\ IsRecord(r, NodeFields) /\ r.status = "running" /\ r.calls = v.nodes[n].calls
      /\ r.role = v.nodes[n].role /\ r.lastOutput = Artifact("output", n)
      /\ r.output = v.nodes[n].output
  BY <1>1, <1>2 DEF IsRecord, NodeFields
<1> HIDE DEF r
<1>7. /\ Changes(v, w, {"nodes", "open", "totals"})
      /\ Retells(v, w, n, r.status, r.calls + 1, r.role, r.lastOutput, r.output)
      /\ Pays(v, w, n, e.usage)
  <2>1. w = [Replay!BilledTo(v, e, r) EXCEPT !.seq = v.seq + 1]
    BY <1>4, <1>5
  <2> QED BY <1>1, <1>6, <2>1, BilledNode
<1> QED BY <1>1, <1>6, <1>7

(* What model.failed does to a view.                                       *)
LEMMA EffectOfFailure ==
  ASSUME NEW v, NEW e, e.type = "model.failed"
  PROVE  Replay!Applied(v, e) = Replay!BilledTo(v, e, Replay!NodeOf(v, e.node))
BY DEF Replay!Applied

(* model.failed closes it too; a bill at the ceiling is the reservation.   *)
LEMMA BilledAfter ==
  ASSUME NEW v, Sane(v), NEW n \in Nodes, Running(v, n), <<n, n>> \in DOMAIN v.open,
         NEW u \in Usage, NEW reason \in {"timeout", "protocol", "cancelled"},
         NEW source \in {"provider", "ceiling", "mixed"},
         reason = "cancelled" => source = "ceiling",
         source = "ceiling" => /\ u.input + u.output = v.open[<<n, n>>].tokens
                               /\ DispatchCost(u) = v.open[<<n, n>>].cost,
         NEW w, w = After(v, ModelFailed(n, reason, u, source))
  PROVE  /\ Changes(v, w, {"nodes", "open", "totals"})
         /\ Retells(v, w, n, "running", v.nodes[n].calls + 1, v.nodes[n].role,
                    v.nodes[n].lastOutput, v.nodes[n].output)
         /\ Pays(v, w, n, Costed(u))
<1> DEFINE e == ModelFailed(n, reason, u, source)
           r == Replay!NodeOf(v, e.node)
<1>1. /\ e.type = "model.failed" /\ e.node = n /\ e.op = n
      /\ e.reason = reason /\ e.source = source /\ e.usage = Costed(u)
  BY DEF ModelFailed
<1> HIDE DEF e
<1>2. /\ r = v.nodes[n] /\ IsRecord(r, NodeFields) /\ r.status = "running"
  BY <1>1 DEF Replay!NodeOf, Running, Sane
<1>3. Replay!Accepts(v, e)
  <2>1. u.input \in Nat /\ u.output \in Nat /\ DispatchCost(u) \in Nat
    BY DispatchCostType DEF Usage
  <2>2. /\ Replay!NonNegative(e.usage) /\ e.usage.input = u.input
        /\ e.usage.output = u.output /\ e.usage.cost = DispatchCost(u)
    BY <1>1, <2>1 DEF Replay!NonNegative, Costed
  <2>3. Replay!RunningNode(v, e)
    BY <1>2 DEF Replay!RunningNode
  <2>4. e.reason \in Replay!DispatchKinds /\ e.source \in Replay!UsageSources
    BY <1>1 DEF Replay!DispatchKinds, Replay!UsageSources
  <2>5. Replay!AcceptsModelFailed(v, e)
    BY <1>1, <2>2, <2>3, <2>4 DEF Replay!AcceptsModelFailed
  <2> QED BY <1>1, <2>5, RuleOf
<1>4. w = [Replay!Applied(v, e) EXCEPT !.seq = v.seq + 1]
  BY <1>3, AfterAccepted DEF e
<1>5. Replay!Applied(v, e) = Replay!BilledTo(v, e, r)
  <2>1. Replay!Applied(v, e) = Replay!BilledTo(v, e, Replay!NodeOf(v, e.node))
    BY <1>1, EffectOfFailure
  <2> QED BY <2>1
<1> HIDE DEF r
<1>7. /\ Changes(v, w, {"nodes", "open", "totals"})
      /\ Retells(v, w, n, r.status, r.calls + 1, r.role, r.lastOutput, r.output)
      /\ Pays(v, w, n, e.usage)
  <2>1. w = [Replay!BilledTo(v, e, r) EXCEPT !.seq = v.seq + 1]
    BY <1>4, <1>5
  <2>2. IsRecord(r, NodeFields) /\ e.node = n /\ e.op = n
    BY <1>1, <1>2
  <2> QED BY <2>1, <2>2, BilledNode
<1> QED BY <1>1, <1>2, <1>7

(* A node without an open dispatch has none under another id.              *)
LEMMA OwnDispatchOnly ==
  ASSUME NEW v, Sane(v), NEW n, <<n, n>> \notin DOMAIN v.open
  PROVE  Replay!OpenOps(v, n) = {}
BY DEF Sane, Replay!OpenOps

(* node.completed is accepted with the last output, once it is billed.     *)
LEMMA CompletedAfter ==
  ASSUME NEW v, Sane(v), NEW n \in Nodes, Running(v, n), <<n, n>> \notin DOMAIN v.open,
         v.nodes[n].calls >= 1, v.nodes[n].lastOutput = Artifact("output", n),
         NEW w, w = After(v, NodeCompleted(n))
  PROVE  /\ Changes(v, w, {"nodes"})
         /\ Retells(v, w, n, "completed", v.nodes[n].calls, v.nodes[n].role,
                    v.nodes[n].lastOutput, Artifact("output", n))
<1> DEFINE e == NodeCompleted(n)
           x == Replay!NodeOf(v, e.node)
           r == [x EXCEPT !.status = "completed", !.output = e.output]
<1>1. e.type = "node.completed" /\ e.node = n /\ e.output = Artifact("output", n)
  BY DEF NodeCompleted
<1> HIDE DEF e
<1>2. x = v.nodes[n] /\ IsRecord(x, NodeFields) /\ x.status = "running"
  BY <1>1 DEF Replay!NodeOf, Running, Sane
<1>3. Replay!Accepts(v, e)
  <2>1. Replay!OpenOps(v, e.node) = {}
    BY <1>1, OwnDispatchOnly
  <2>2. Replay!AcceptsNodeCompleted(v, e)
    BY <1>1, <1>2, <2>1, Transitions DEF Replay!AcceptsNodeCompleted
  <2> QED BY <1>1, <2>2, RuleOf
<1>4. w = [Replay!Applied(v, e) EXCEPT !.seq = v.seq + 1]
  BY <1>3, AfterAccepted DEF e
<1>5. Replay!Applied(v, e) = Replay!WithNode(v, n, r)
  <2>1. Replay!Applied(v, e) = Replay!WithNode(v, e.node, r)
    BY <1>1, EffectOf, Zenon
  <2> QED BY <1>1, <2>1, Zenon
<1> HIDE DEF x
<1>6. /\ IsRecord(r, NodeFields) /\ r.status = "completed" /\ r.calls = v.nodes[n].calls
      /\ r.role = v.nodes[n].role /\ r.lastOutput = v.nodes[n].lastOutput
      /\ r.output = Artifact("output", n)
  BY <1>1, <1>2 DEF IsRecord, NodeFields
<1> HIDE DEF r
<1> QED BY <1>4, <1>5, <1>6, RetoldNode

(* node.failed is accepted of a node not started or running.               *)
LEMMA FailedAfter ==
  ASSUME NEW v, Sane(v), NEW n \in Nodes, n \notin DOMAIN v.nodes \/ Running(v, n),
         NEW reason \in FailureReasons,
         reason = "cancelled" => <<n, n>> \notin DOMAIN v.open,
         NEW w, w = After(v, NodeFailed(n, reason))
  PROVE  /\ Changes(v, w, {"nodes"})
         /\ \E calls, role, lastOutput, output :
              calls \in Nat /\ Retells(v, w, n, "failed", calls, role, lastOutput, output)
<1> DEFINE e == NodeFailed(n, reason)
           x == Replay!NodeOf(v, e.node)
           r == [x EXCEPT !.status = "failed"]
<1>1. e.type = "node.failed" /\ e.node = n /\ e.reason = reason
  BY DEF NodeFailed
<1> HIDE DEF e
<1>2. x.status \in {"pending", "running"} /\ IsRecord(x, NodeFields) /\ x.calls \in Nat
  <2>1. CASE n \in DOMAIN v.nodes
    BY <1>1, <2>1 DEF Replay!NodeOf, Running, Sane
  <2>2. CASE n \notin DOMAIN v.nodes
    BY <1>1, <2>2, UntrackedNode DEF Replay!NodeOf
  <2> QED BY <2>1, <2>2
<1>3. Replay!Accepts(v, e)
  <2>1. e.reason = "cancelled" => Replay!OpenOps(v, e.node) = {}
    BY <1>1, OwnDispatchOnly
  <2>2. e.reason \in Replay!NodeFailureReasons
    BY <1>1 DEF FailureReasons, Replay!NodeFailureReasons
  <2>3. Replay!AcceptsNodeFailed(v, e)
    BY <1>1, <1>2, <2>1, <2>2, Transitions DEF Replay!AcceptsNodeFailed
  <2> QED BY <1>1, <2>3, RuleOf
<1>4. w = [Replay!Applied(v, e) EXCEPT !.seq = v.seq + 1]
  BY <1>3, AfterAccepted DEF e
<1>5. Replay!Applied(v, e) = Replay!WithNode(v, n, r)
  <2>1. Replay!Applied(v, e) = Replay!WithNode(v, e.node, r)
    BY <1>1, EffectOf, Zenon
  <2> QED BY <1>1, <2>1, Zenon
<1> HIDE DEF x
<1>6. IsRecord(r, NodeFields) /\ r.status = "failed" /\ r.calls \in Nat
  BY <1>2 DEF IsRecord, NodeFields
<1> HIDE DEF r
<1>7. Changes(v, w, {"nodes"}) /\ Retells(v, w, n, "failed", r.calls, r.role, r.lastOutput, r.output)
  BY <1>4, <1>5, <1>6, RetoldNode
<1> QED BY <1>6, <1>7

(* decision.recorded is accepted of the completed judge, once.             *)
LEMMA DecidedAfter ==
  ASSUME NEW v, Sane(v), NEW n \in Nodes, v.decision = None,
         n \in DOMAIN v.nodes, v.nodes[n].status = "completed", v.nodes[n].role = "judge",
         v.nodes[n].output = Artifact("output", n),
         NEW w, w = After(v, DecisionRecorded(n))
  PROVE  Changes(v, w, {"decision"}) /\ w.decision = Artifact("output", n)
<1> DEFINE e == DecisionRecorded(n)
<1>1. e.type = "decision.recorded" /\ e.source = Artifact("output", n)
  BY DEF DecisionRecorded
<1> HIDE DEF e
<1>2. Replay!Accepts(v, e)
  <2>1. n \in Replay!NodesWith(v, "completed")
    BY DEF Replay!NodesWith
  <2>2. Replay!AcceptsDecision(v, e)
    BY <1>1, <2>1 DEF Replay!AcceptsDecision
  <2> QED BY <1>1, <2>2, RuleOf
<1>3. w = [Replay!Applied(v, e) EXCEPT !.seq = v.seq + 1]
  BY <1>2, AfterAccepted DEF e
<1>4. Replay!Applied(v, e) = [v EXCEPT !.decision = e.source]
  BY <1>1, EffectOf
<1> QED BY <1>1, <1>3, <1>4 DEF Sane, Changes, IsRecord, ViewFields

-----------------------------------------------------------------------------
(* Where a node stands in a view, and the events that move it on.          *)

Mine(v, n) == Running(v, n) /\ v.nodes[n].role = Role[n]

Opened(v, n) == <<n, n>> \in DOMAIN v.open

Standing(v, n, stage) ==
  /\ stage = "fresh" => n \notin DOMAIN v.nodes /\ n \notin v.ops /\ ~Opened(v, n)
  /\ stage \in {"started", "asked"} => Mine(v, n) /\ n \notin v.ops /\ ~Opened(v, n)
  /\ stage = "asked" => Artifact("request", n) \in v.artifacts
  /\ stage \in {"open", "told"} =>
       Mine(v, n) /\ Opened(v, n) /\ v.open[<<n, n>>] = ReservationFor(Ceiling[n])
  /\ stage = "told" => Artifact("output", n) \in v.artifacts
  /\ stage \in {"answered", "closed"} => Mine(v, n) /\ ~Opened(v, n)
  /\ stage = "answered" =>
       v.nodes[n].calls >= 1 /\ v.nodes[n].lastOutput = Artifact("output", n)
  /\ stage \in {"done", "decided"} =>
       /\ n \in DOMAIN v.nodes /\ v.nodes[n].status = "completed" /\ v.nodes[n].role = Role[n]
       /\ v.nodes[n].output = Artifact("output", n) /\ ~Opened(v, n)
  /\ stage = "decided" => Role[n] = "judge"
  /\ stage \in {"failed", "settled"} => n \in DOMAIN v.nodes /\ v.nodes[n].status = "failed"

(* The stages after the bill.                                              *)
Paid == {"answered", "closed", "done", "decided", "settled"}

(* A dispatch with usage u: the event e takes the node from s to t.        *)
Edge(n, u, s, e, t) ==
  \/ s = "fresh" /\ e = NodeStarted(n) /\ t = "started"
  \/ s = "started" /\ e = ArtifactWritten("request", n) /\ t = "asked"
  \/ s = "asked" /\ e = BudgetRejected(n) /\ t = "asked"
  \/ s = "asked" /\ e = ModelDispatched(n) /\ t = "open"
  \/ s \in {"open", "told", "answered"} /\ e = ArtifactWritten("receipt", n) /\ t = s
  \/ s = "open" /\ e = ArtifactWritten("output", n) /\ t = "told"
  \/ s = "told" /\ e = ModelCompleted(n, u) /\ t = "answered"
  \/ /\ s \in {"open", "told"} /\ t = "closed"
     /\ \E reason \in {"timeout", "protocol", "cancelled"},
           source \in {"provider", "ceiling", "mixed"} :
          /\ e = ModelFailed(n, reason, u, source)
          /\ reason = "cancelled" => source = "ceiling"
          /\ source = "ceiling" => u = Ceiling[n]
  \/ s = "answered" /\ e = NodeCompleted(n) /\ t = "done"
  \/ /\ s \in {"fresh", "asked", "open", "told", "answered", "closed"}
     /\ t = IF s \in Paid THEN "settled" ELSE "failed"
     /\ \E reason \in FailureReasons :
          e = NodeFailed(n, reason) /\ (reason = "cancelled" => s \notin {"open", "told"})
  \/ s = "done" /\ e = DecisionRecorded(n) /\ Role[n] = "judge" /\ t = "decided"

(* What a view says of the other nodes.                                    *)
Alike(v, w, m) ==
  /\ m \in DOMAIN v.nodes <=> m \in DOMAIN w.nodes
  /\ m \in DOMAIN v.nodes => w.nodes[m] = v.nodes[m]
  /\ m \in v.ops <=> m \in w.ops
  /\ Opened(v, m) <=> Opened(w, m)
  /\ Opened(v, m) => w.open[<<m, m>>] = v.open[<<m, m>>]

Moves(v, w, n) ==
  /\ Sane(w)
  /\ v.artifacts \subseteq w.artifacts
  /\ \A m \in Nodes \ {n} : Alike(v, w, m)

(* Node n's events, from the view v on, have led to w and to stage t.      *)
Followed(v, w, n, u, t) ==
  /\ Moves(v, w, n)
  /\ Standing(w, n, t)
  /\ w.totals = IF t \in Paid THEN Replay!Billed(v.totals, Costed(u)) ELSE v.totals
  /\ w.decision = IF t = "decided" THEN Artifact("output", n) ELSE v.decision

(* A new record for a node leaves the others where they stand.             *)
LEMMA NodesMove ==
  ASSUME NEW v, Sane(v), NEW n \in Nodes, NEW w, Changes(v, w, {"nodes"}),
         NEW status, NEW calls \in Nat, NEW role, NEW lastOutput, NEW output,
         Retells(v, w, n, status, calls, role, lastOutput, output)
  PROVE  /\ Moves(v, w, n)
         /\ w.totals = v.totals /\ w.decision = v.decision /\ w.artifacts = v.artifacts
         /\ w.ops = v.ops /\ w.open = v.open
<1>1. /\ w.totals = v.totals /\ w.decision = v.decision /\ w.artifacts = v.artifacts
      /\ w.ops = v.ops /\ w.open = v.open /\ w.rejected = v.rejected /\ w.status = v.status
      /\ IsRecord(w, ViewFields) /\ w.seq = v.seq + 1
  BY DEF Changes, ViewFields
<1>2. Sane(w)
  BY <1>1 DEF Sane, Retells
<1>3. \A m \in Nodes \ {n} : Alike(v, w, m)
  BY <1>1 DEF Alike, Retells, Opened
<1> QED BY <1>1, <1>2, <1>3 DEF Moves

(* So does an artifact, a note or a decision.                              *)
LEMMA NotesMove ==
  ASSUME NEW v, Sane(v), NEW n \in Nodes, NEW w,
         \/ Changes(v, w, {"artifacts"}) /\ v.artifacts \subseteq w.artifacts
         \/ Changes(v, w, {})
         \/ Changes(v, w, {"decision"})
  PROVE  /\ Moves(v, w, n)
         /\ w.totals = v.totals /\ w.nodes = v.nodes /\ w.ops = v.ops /\ w.open = v.open
<1>1. /\ w.totals = v.totals /\ w.nodes = v.nodes /\ w.ops = v.ops /\ w.open = v.open
      /\ w.rejected = v.rejected /\ w.status = v.status
      /\ IsRecord(w, ViewFields) /\ w.seq = v.seq + 1 /\ v.artifacts \subseteq w.artifacts
  BY DEF Changes, ViewFields
<1>2. Sane(w)
  BY <1>1 DEF Sane
<1>3. \A m \in Nodes \ {n} : Alike(v, w, m)
  BY <1>1 DEF Alike, Opened
<1> QED BY <1>1, <1>2, <1>3 DEF Moves

(* And a dispatch, which is the node's own.                                *)
LEMMA DispatchMoves ==
  ASSUME NEW v, Sane(v), NEW n \in Nodes, NEW w, Changes(v, w, {"ops", "open"}),
         w.ops = v.ops \cup {n}, NEW r,
         w.open = [ k \in DOMAIN v.open \cup {<<n, n>>} |-> IF k = <<n, n>> THEN r ELSE v.open[k] ]
  PROVE  /\ Moves(v, w, n)
         /\ w.totals = v.totals /\ w.decision = v.decision /\ w.nodes = v.nodes
         /\ Opened(w, n) /\ w.open[<<n, n>>] = r
<1>1. /\ w.totals = v.totals /\ w.decision = v.decision /\ w.nodes = v.nodes
      /\ w.rejected = v.rejected /\ w.status = v.status
      /\ IsRecord(w, ViewFields) /\ w.seq = v.seq + 1 /\ v.artifacts = w.artifacts
  BY DEF Changes, ViewFields
<1>2. /\ IsFunction(w.open) /\ DOMAIN w.open = DOMAIN v.open \cup {<<n, n>>}
      /\ w.open[<<n, n>>] = r
      /\ \A m \in Nodes \ {n} : <<m, m>> \in DOMAIN v.open => w.open[<<m, m>>] = v.open[<<m, m>>]
  BY DEF IsFunction
<1>3. Sane(w)
  BY <1>1, <1>2 DEF Sane
<1>4. \A m \in Nodes \ {n} : Alike(v, w, m)
  BY <1>1, <1>2 DEF Alike, Opened
<1> QED BY <1>1, <1>2, <1>3, <1>4 DEF Moves, Opened

(* And a bill, which adds to the totals.                                   *)
LEMMA BillMoves ==
  ASSUME NEW v, Sane(v), NEW n \in Nodes, NEW w, Changes(v, w, {"nodes", "open", "totals"}),
         NEW status, NEW calls \in Nat, NEW role, NEW lastOutput, NEW output,
         Retells(v, w, n, status, calls, role, lastOutput, output),
         NEW u \in Usage, Pays(v, w, n, Costed(u))
  PROVE  /\ Moves(v, w, n)
         /\ w.totals = Replay!Billed(v.totals, Costed(u)) /\ w.decision = v.decision
         /\ ~Opened(w, n)
<1>1. /\ w.decision = v.decision /\ w.artifacts = v.artifacts
      /\ w.ops = v.ops /\ w.rejected = v.rejected /\ w.status = v.status
      /\ IsRecord(w, ViewFields) /\ w.seq = v.seq + 1
  BY DEF Changes, ViewFields
<1>2. w.open = [k \in DOMAIN v.open \ {<<n, n>>} |-> v.open[k]]
  BY DEF Pays, Replay!Without
<1>3. /\ IsFunction(w.open) /\ DOMAIN w.open = DOMAIN v.open \ {<<n, n>>}
      /\ \A m \in Nodes \ {n} : <<m, m>> \in DOMAIN v.open => w.open[<<m, m>>] = v.open[<<m, m>>]
  BY <1>2 DEF IsFunction
<1>4. w.totals \in BudgetTotals
  <2>1. u.input \in Nat /\ u.output \in Nat /\ DispatchCost(u) \in Nat
    BY DispatchCostType DEF Usage
  <2> QED BY <2>1 DEF Pays, Replay!Billed, Costed, Sane, BudgetTotals
<1>5. Sane(w)
  BY <1>1, <1>3, <1>4 DEF Sane, Retells
<1>6. \A m \in Nodes \ {n} : Alike(v, w, m)
  BY <1>1, <1>3 DEF Alike, Retells, Opened
<1> QED BY <1>1, <1>3, <1>5, <1>6 DEF Moves, Opened, Pays

(* What one of these events does.                                          *)
Taken(v, w, n, u, s, t) ==
  /\ Moves(v, w, n)
  /\ Standing(w, n, t)
  /\ w.totals = IF t \in Paid /\ s \notin Paid
                THEN Replay!Billed(v.totals, Costed(u)) ELSE v.totals
  /\ w.decision = IF t = "decided" THEN Artifact("output", n) ELSE v.decision

(* The node starts.                                                        *)
LEMMA TakenStart ==
  ASSUME NEW n \in Nodes, NEW u \in Usage, NEW v, Sane(v), Standing(v, n, "fresh"),
         NEW w, w = After(v, NodeStarted(n))
  PROVE  Taken(v, w, n, u, "fresh", "started")
<1>1. n \notin DOMAIN v.nodes /\ n \notin v.ops /\ ~Opened(v, n)
  BY DEF Standing
<1>2. Changes(v, w, {"nodes"}) /\ Retells(v, w, n, "running", 0, Role[n], None, None)
  BY <1>1, StartedAfter
<1>3. /\ Moves(v, w, n)
      /\ w.totals = v.totals /\ w.decision = v.decision
      /\ w.ops = v.ops /\ w.open = v.open
  BY <1>2, NodesMove
<1>4. Mine(w, n) /\ n \notin w.ops /\ ~Opened(w, n)
  BY <1>1, <1>2, <1>3 DEF Mine, Running, Retells, Opened
<1> QED BY <1>3, <1>4 DEF Taken, Standing, Paid

(* Notes: a request, an output, a receipt, a refusal.                      *)
LEMMA TakenNote ==
  ASSUME NEW n \in Nodes, NEW u \in Usage, NEW v, Sane(v),
         NEW s \in {"started", "asked", "open", "told", "answered"}, Standing(v, n, s), NEW w
  PROVE  /\ s = "started" /\ w = After(v, ArtifactWritten("request", n))
              => Taken(v, w, n, u, s, "asked")
         /\ s = "asked" /\ w = After(v, BudgetRejected(n)) => Taken(v, w, n, u, s, s)
         /\ s \in {"open", "told", "answered"} /\ w = After(v, ArtifactWritten("receipt", n))
              => Taken(v, w, n, u, s, s)
         /\ s = "open" /\ w = After(v, ArtifactWritten("output", n))
              => Taken(v, w, n, u, s, "told")
<1>1. Mine(v, n) /\ Running(v, n)
  BY DEF Standing, Mine
<1>2. ASSUME w.nodes = v.nodes, w.ops = v.ops, w.open = v.open, v.artifacts \subseteq w.artifacts
      PROVE  Standing(w, n, s)
  BY <1>2 DEF Standing, Mine, Running, Opened
<1>3. ASSUME NEW what, w = After(v, ArtifactWritten(what, n))
      PROVE  /\ Moves(v, w, n)
             /\ w.totals = v.totals /\ w.nodes = v.nodes /\ w.ops = v.ops /\ w.open = v.open
             /\ w.decision = v.decision
             /\ v.artifacts \subseteq w.artifacts /\ Artifact(what, n) \in w.artifacts
  <2>1. Changes(v, w, {"artifacts"}) /\ w.artifacts = v.artifacts \cup {Artifact(what, n)}
    BY <1>1, <1>3, NotedAfter
  <2>2. w.decision = v.decision
    BY <2>1 DEF Changes, ViewFields
  <2> QED BY <2>1, <2>2, NotesMove
<1>4. ASSUME s = "started", w = After(v, ArtifactWritten("request", n))
      PROVE  Taken(v, w, n, u, s, "asked")
  <2>1. Standing(w, n, "started") /\ Artifact("request", n) \in w.artifacts
    BY <1>2, <1>3, <1>4
  <2>2. Standing(w, n, "asked")
    BY <2>1 DEF Standing
  <2> QED BY <1>3, <1>4, <2>2 DEF Taken, Paid
<1>5. ASSUME s = "asked", w = After(v, BudgetRejected(n))
      PROVE  Taken(v, w, n, u, s, s)
  <2>1. Changes(v, w, {})
    BY <1>1, <1>5, NotedAfter
  <2>2. w.decision = v.decision /\ w.artifacts = v.artifacts
    BY <2>1 DEF Changes, ViewFields
  <2>3. /\ Moves(v, w, n)
        /\ w.totals = v.totals /\ w.nodes = v.nodes /\ w.ops = v.ops /\ w.open = v.open
    BY <2>1, NotesMove
  <2> QED BY <1>2, <1>5, <2>2, <2>3 DEF Taken, Paid
<1>6. ASSUME s \in {"open", "told", "answered"}, w = After(v, ArtifactWritten("receipt", n))
      PROVE  Taken(v, w, n, u, s, s)
  BY <1>2, <1>3, <1>6 DEF Taken
<1>7. ASSUME s = "open", w = After(v, ArtifactWritten("output", n))
      PROVE  Taken(v, w, n, u, s, "told")
  <2>1. Standing(w, n, "open") /\ Artifact("output", n) \in w.artifacts
    BY <1>2, <1>3, <1>7
  <2>2. Standing(w, n, "told")
    BY <2>1 DEF Standing
  <2> QED BY <1>3, <1>7, <2>2 DEF Taken, Paid
<1> QED BY <1>4, <1>5, <1>6, <1>7

(* The node, its request written, dispatches.                              *)
LEMMA TakenDispatch ==
  ASSUME NEW n \in Nodes, NEW u \in Usage, NEW v, Sane(v), Standing(v, n, "asked"),
         NEW w, w = After(v, ModelDispatched(n))
  PROVE  Taken(v, w, n, u, "asked", "open")
<1>1. Mine(v, n) /\ n \notin v.ops /\ Artifact("request", n) \in v.artifacts
  BY DEF Standing
<1>2. /\ Changes(v, w, {"ops", "open"})
      /\ w.ops = v.ops \cup {n}
      /\ w.open = [ k \in DOMAIN v.open \cup {<<n, n>>} |->
                      IF k = <<n, n>> THEN ReservationFor(Ceiling[n]) ELSE v.open[k] ]
  BY <1>1, DispatchedAfter DEF Mine
<1>3. /\ Moves(v, w, n)
      /\ w.totals = v.totals /\ w.decision = v.decision /\ w.nodes = v.nodes
      /\ Opened(w, n) /\ w.open[<<n, n>>] = ReservationFor(Ceiling[n])
  BY <1>2, DispatchMoves
<1>4. Mine(w, n)
  BY <1>1, <1>3 DEF Mine, Running
<1> QED BY <1>3, <1>4 DEF Taken, Standing, Paid

(* The answer, its output written, is billed.                              *)
LEMMA TakenAnswer ==
  ASSUME NEW n \in Nodes, NEW u \in Usage, NEW v, Sane(v), Standing(v, n, "told"),
         NEW w, w = After(v, ModelCompleted(n, u))
  PROVE  Taken(v, w, n, u, "told", "answered")
<1>1. Mine(v, n) /\ Opened(v, n) /\ Artifact("output", n) \in v.artifacts
  BY DEF Standing
<1>2. /\ Changes(v, w, {"nodes", "open", "totals"})
      /\ Retells(v, w, n, "running", v.nodes[n].calls + 1, v.nodes[n].role,
                 Artifact("output", n), v.nodes[n].output)
      /\ Pays(v, w, n, Costed(u))
  BY <1>1, AnsweredAfter DEF Mine, Opened
<1>3. v.nodes[n].calls + 1 \in Nat /\ v.nodes[n].calls + 1 >= 1
  BY <1>1 DEF Sane, Mine, Running
<1>4. /\ Moves(v, w, n)
      /\ w.totals = Replay!Billed(v.totals, Costed(u)) /\ w.decision = v.decision
      /\ ~Opened(w, n)
  BY <1>2, <1>3, BillMoves
<1>5. /\ Mine(w, n) /\ w.nodes[n].calls >= 1
      /\ w.nodes[n].lastOutput = Artifact("output", n)
  BY <1>1, <1>2, <1>3 DEF Mine, Running, Retells
<1> QED BY <1>4, <1>5 DEF Taken, Standing, Paid

(* A failed or cancelled dispatch is billed as well.                       *)
LEMMA TakenBill ==
  ASSUME NEW n \in Nodes, NEW u \in Usage, NEW v, Sane(v),
         NEW s \in {"open", "told"}, Standing(v, n, s),
         NEW reason \in {"timeout", "protocol", "cancelled"},
         NEW source \in {"provider", "ceiling", "mixed"},
         reason = "cancelled" => source = "ceiling", source = "ceiling" => u = Ceiling[n],
         NEW w, w = After(v, ModelFailed(n, reason, u, source))
  PROVE  Taken(v, w, n, u, s, "closed")
<1>1. Mine(v, n) /\ Opened(v, n) /\ v.open[<<n, n>>] = ReservationFor(Ceiling[n])
  BY DEF Standing
<1>2. source = "ceiling" => /\ u.input + u.output = v.open[<<n, n>>].tokens
                            /\ DispatchCost(u) = v.open[<<n, n>>].cost
  BY <1>1 DEF ReservationFor
<1>3. /\ Changes(v, w, {"nodes", "open", "totals"})
      /\ Retells(v, w, n, "running", v.nodes[n].calls + 1, v.nodes[n].role,
                 v.nodes[n].lastOutput, v.nodes[n].output)
      /\ Pays(v, w, n, Costed(u))
  BY <1>1, <1>2, BilledAfter DEF Mine, Opened
<1>4. v.nodes[n].calls + 1 \in Nat
  BY <1>1 DEF Sane, Mine, Running
<1>5. /\ Moves(v, w, n)
      /\ w.totals = Replay!Billed(v.totals, Costed(u)) /\ w.decision = v.decision
      /\ ~Opened(w, n)
  BY <1>3, <1>4, BillMoves
<1>6. Mine(w, n)
  BY <1>1, <1>3 DEF Mine, Running, Retells
<1> QED BY <1>5, <1>6 DEF Taken, Standing, Paid

(* The node completes once its answer is billed.                           *)
LEMMA TakenCompletion ==
  ASSUME NEW n \in Nodes, NEW u \in Usage, NEW v, Sane(v), Standing(v, n, "answered"),
         NEW w, w = After(v, NodeCompleted(n))
  PROVE  Taken(v, w, n, u, "answered", "done")
<1>1. /\ Mine(v, n) /\ ~Opened(v, n)
      /\ v.nodes[n].calls >= 1 /\ v.nodes[n].lastOutput = Artifact("output", n)
  BY DEF Standing
<1>2. /\ Changes(v, w, {"nodes"})
      /\ Retells(v, w, n, "completed", v.nodes[n].calls, v.nodes[n].role,
                 v.nodes[n].lastOutput, Artifact("output", n))
  BY <1>1, CompletedAfter DEF Mine, Opened
<1>3. v.nodes[n].calls \in Nat
  BY <1>1 DEF Sane, Mine, Running
<1>4. /\ Moves(v, w, n)
      /\ w.totals = v.totals /\ w.decision = v.decision /\ w.open = v.open
  BY <1>2, <1>3, NodesMove
<1>5. /\ n \in DOMAIN w.nodes /\ w.nodes[n].status = "completed" /\ w.nodes[n].role = Role[n]
      /\ w.nodes[n].output = Artifact("output", n) /\ ~Opened(w, n)
  BY <1>1, <1>2, <1>4 DEF Mine, Retells, Opened
<1> QED BY <1>4, <1>5 DEF Taken, Standing, Paid

(* It may fail at any stage, cancelled only with no open dispatch.         *)
LEMMA TakenFailure ==
  ASSUME NEW n \in Nodes, NEW u \in Usage, NEW v, Sane(v),
         NEW s \in {"fresh", "asked", "open", "told", "answered", "closed"}, Standing(v, n, s),
         NEW reason \in FailureReasons, reason = "cancelled" => s \notin {"open", "told"},
         NEW w, w = After(v, NodeFailed(n, reason)),
         NEW t, t = IF s \in Paid THEN "settled" ELSE "failed"
  PROVE  Taken(v, w, n, u, s, t)
<1>1. n \notin DOMAIN v.nodes \/ Running(v, n)
  BY DEF Standing, Mine
<1>2. reason = "cancelled" => <<n, n>> \notin DOMAIN v.open
  BY DEF Standing, Opened
<1>3. PICK calls, role, lastOutput, output :
        /\ calls \in Nat
        /\ Changes(v, w, {"nodes"})
        /\ Retells(v, w, n, "failed", calls, role, lastOutput, output)
  BY <1>1, <1>2, FailedAfter
<1>4. Moves(v, w, n) /\ w.totals = v.totals /\ w.decision = v.decision
  BY <1>3, NodesMove
<1>5. n \in DOMAIN w.nodes /\ w.nodes[n].status = "failed"
  BY <1>3 DEF Retells
<1> QED BY <1>4, <1>5 DEF Taken, Standing, Paid

(* The judge's decision follows its completion.                            *)
LEMMA TakenDecision ==
  ASSUME NEW n \in Nodes, NEW u \in Usage, NEW v, Sane(v), Standing(v, n, "done"),
         Role[n] = "judge", v.decision = None, NEW w, w = After(v, DecisionRecorded(n))
  PROVE  Taken(v, w, n, u, "done", "decided")
<1>1. /\ n \in DOMAIN v.nodes /\ v.nodes[n].status = "completed" /\ v.nodes[n].role = "judge"
      /\ v.nodes[n].output = Artifact("output", n) /\ ~Opened(v, n)
  BY DEF Standing
<1>2. Changes(v, w, {"decision"}) /\ w.decision = Artifact("output", n)
  BY <1>1, DecidedAfter
<1>3. Moves(v, w, n) /\ w.totals = v.totals /\ w.nodes = v.nodes /\ w.open = v.open
  BY <1>2, NotesMove
<1> QED BY <1>1, <1>2, <1>3 DEF Taken, Standing, Paid, Opened

(* Each event of a node is accepted at the stage where the node writes it. *)
LEMMA EdgeTaken ==
  ASSUME NEW n \in Nodes, NEW u \in Usage, NEW v, Sane(v), NEW s, Standing(v, n, s),
         NEW e, NEW t, Edge(n, u, s, e, t), t = "decided" => v.decision = None,
         NEW w, w = After(v, e)
  PROVE  Taken(v, w, n, u, s, t)
<1>1. CASE s = "fresh" /\ e = NodeStarted(n) /\ t = "started"
  BY <1>1, TakenStart
<1>2. CASE s = "started" /\ e = ArtifactWritten("request", n) /\ t = "asked"
  BY <1>2, TakenNote
<1>3. CASE s = "asked" /\ e = BudgetRejected(n) /\ t = "asked"
  BY <1>3, TakenNote
<1>4. CASE s = "asked" /\ e = ModelDispatched(n) /\ t = "open"
  BY <1>4, TakenDispatch
<1>5. CASE s \in {"open", "told", "answered"} /\ e = ArtifactWritten("receipt", n) /\ t = s
  BY <1>5, TakenNote
<1>6. CASE s = "open" /\ e = ArtifactWritten("output", n) /\ t = "told"
  BY <1>6, TakenNote
<1>7. CASE s = "told" /\ e = ModelCompleted(n, u) /\ t = "answered"
  BY <1>7, TakenAnswer
<1>8. ASSUME s \in {"open", "told"}, t = "closed",
             NEW reason \in {"timeout", "protocol", "cancelled"},
             NEW source \in {"provider", "ceiling", "mixed"},
             e = ModelFailed(n, reason, u, source),
             reason = "cancelled" => source = "ceiling", source = "ceiling" => u = Ceiling[n]
      PROVE  Taken(v, w, n, u, s, t)
  BY <1>8, TakenBill
<1>9. CASE s = "answered" /\ e = NodeCompleted(n) /\ t = "done"
  BY <1>9, TakenCompletion
<1>10. ASSUME s \in {"fresh", "asked", "open", "told", "answered", "closed"},
              t = IF s \in Paid THEN "settled" ELSE "failed",
              NEW reason \in FailureReasons, e = NodeFailed(n, reason),
              reason = "cancelled" => s \notin {"open", "told"}
       PROVE  Taken(v, w, n, u, s, t)
  BY <1>10, TakenFailure
<1>11. CASE s = "done" /\ e = DecisionRecorded(n) /\ Role[n] = "judge" /\ t = "decided"
  BY <1>11, TakenDecision
<1> QED BY <1>1, <1>2, <1>3, <1>4, <1>5, <1>6, <1>7, <1>8, <1>9, <1>10, <1>11 DEF Edge

(* A chain of events, each moving the node on from where the one before    *)
(* left it: stages[1] is the stage before the first.                       *)
Chain(n, u, events, stages) ==
  /\ events \in Seq(NodeLevelEvents)
  /\ \A i \in 1..Len(events) : Edge(n, u, stages[i], events[i], stages[i + 1])

(* No event leads nowhere.                                                 *)
LEMMA FollowNone ==
  ASSUME NEW n \in Nodes, NEW u \in Usage, NEW v, Sane(v), NEW s \in {"fresh", "open"},
         Standing(v, n, s)
  PROVE  Followed(v, v, n, u, s)
BY DEF Followed, Moves, Alike, Paid

(* One event more leads one stage on.                                      *)
LEMMA FollowOne ==
  ASSUME NEW n \in Nodes, NEW u \in Usage, NEW v, Sane(v),
         Role[n] = "judge" => v.decision = None,
         NEW x, NEW s, Followed(v, x, n, u, s), NEW e, NEW t, Edge(n, u, s, e, t),
         NEW w, w = After(x, e)
  PROVE  Followed(v, w, n, u, t)
<1>1. Moves(v, x, n) /\ Standing(x, n, s) /\ Sane(x)
  BY DEF Followed, Moves
<1>2. /\ s \notin {"decided", "failed", "settled"}
      /\ t = "decided" => s = "done" /\ Role[n] = "judge"
      /\ s \in Paid => t \in Paid
  BY DEF Edge, Paid
<1>3. x.decision = v.decision
  BY <1>2 DEF Followed
<1>4. Taken(x, w, n, u, s, t)
  BY <1>1, <1>2, <1>3, EdgeTaken
<1>5. Moves(v, w, n)
  <2>1. Moves(x, w, n)
    BY <1>4 DEF Taken
  <2> QED BY <1>1, <2>1 DEF Moves, Alike
<1>6. w.totals = IF t \in Paid THEN Replay!Billed(v.totals, Costed(u)) ELSE v.totals
  <2>1. x.totals = IF s \in Paid THEN Replay!Billed(v.totals, Costed(u)) ELSE v.totals
    BY DEF Followed
  <2>2. w.totals = IF t \in Paid /\ s \notin Paid
                   THEN Replay!Billed(x.totals, Costed(u)) ELSE x.totals
    BY <1>4 DEF Taken
  <2>3. CASE s \in Paid
    BY <1>2, <2>1, <2>2, <2>3
  <2>4. CASE s \notin Paid /\ t \in Paid
    BY <2>1, <2>2, <2>4
  <2>5. CASE s \notin Paid /\ t \notin Paid
    BY <2>1, <2>2, <2>5
  <2> QED BY <2>3, <2>4, <2>5
<1>7. w.decision = IF t = "decided" THEN Artifact("output", n) ELSE v.decision
  BY <1>3, <1>4 DEF Taken
<1> QED BY <1>4, <1>5, <1>6, <1>7 DEF Followed, Taken

(* Each event has the number after that of the one before.                 *)
LEMMA NumberedAfter ==
  ASSUME NEW v, Sane(v), NEW e, NEW w, w = After(v, e), Sane(w)
  PROVE  w.seq = v.seq + 1
<1> DEFINE a == Replay!Applied(v, e)
<1>1. w = [a EXCEPT !.seq = v.seq + 1] \/ w = [v EXCEPT !.rejected = TRUE]
  BY DEF After, Replay!FoldFrame
<1> HIDE DEF a
<1>2. w # [v EXCEPT !.rejected = TRUE]
  BY DEF Sane, IsRecord, ViewFields
<1>3. w = [a EXCEPT !.seq = v.seq + 1] /\ "seq" \in DOMAIN w
  BY <1>1, <1>2 DEF Sane, IsRecord, ViewFields
<1>4. DOMAIN w = DOMAIN a
  BY <1>3
<1> QED BY <1>3, <1>4

(* So every prefix of the chain leads to its stage.                        *)
LEMMA FollowAll ==
  ASSUME NEW n \in Nodes, NEW u \in Usage, NEW j \in Seq(Events),
         NEW v, v = Replay!Fold(j), Sane(v), v.seq = Len(j),
         Role[n] = "judge" => v.decision = None,
         NEW events, NEW stages, Chain(n, u, events, stages),
         stages[1] \in {"fresh", "open"}, Standing(v, n, stages[1]),
         NEW k \in 0..Len(events),
         NEW w, w = Replay!Fold(j \o SubSeq(events, 1, k))
  PROVE  Followed(v, w, n, u, stages[k + 1]) /\ w.seq = Len(j) + k
<1> DEFINE At(i) == Replay!Fold(j \o SubSeq(events, 1, i))
           Good(i) == Followed(v, At(i), n, u, stages[i + 1]) /\ At(i).seq = Len(j) + i
           Bad == {i \in 0..Len(events) : ~Good(i)}
<1>1. Len(events) \in Nat /\ events \in Seq(NodeLevelEvents) /\ events \in Seq(Events)
  BY DEF Chain, Events
<1>2. SUFFICES ASSUME Bad # {} PROVE FALSE
  OBVIOUS
<1>3. PICK i \in Bad : \A h \in Bad : i <= h
  <2>1. Bad \in SUBSET (0..Len(events))
    OBVIOUS
  <2> HIDE DEF Bad
  <2> QED BY <1>1, <1>2, <2>1, LeastNumber
<1>4. i \in 0..Len(events) /\ ~Good(i)
  BY <1>3
<1>5. CASE i = 0
  <2>1. j \o SubSeq(events, 1, 0) = j
    BY <1>1
  <2>2. At(0) = v
    BY <2>1
  <2>3. Len(j) + 0 = Len(j) /\ 0 + 1 = 1
    OBVIOUS
  <2>4. Followed(v, v, n, u, stages[1])
    BY FollowNone
  <2> HIDE DEF At
  <2> QED BY <1>4, <1>5, <2>2, <2>3, <2>4
<1>6. CASE i # 0
  <2> DEFINE h == i - 1
  <2>1. h \in 0..Len(events) /\ ~(i <= h) /\ i = h + 1 /\ i \in 1..Len(events) /\ h \in Nat
    BY <1>1, <1>4, <1>6
  <2>2. Good(h)
    BY <1>3, <2>1
  <2>3. Edge(n, u, stages[i], events[i], stages[i + 1])
    BY <2>1 DEF Chain
  <2> DEFINE a == j \o SubSeq(events, 1, h)
             b == j \o SubSeq(events, 1, i)
  <2>4. a \in Seq(Events) /\ events[i] \in Events /\ Len(a) = Len(j) + h /\ b = Append(a, events[i])
    <3>1. SubSeq(events, 1, h) \in Seq(Events) /\ Len(SubSeq(events, 1, h)) = h
      BY <1>1, <2>1
    <3>2. SubSeq(events, 1, i) = Append(SubSeq(events, 1, h), events[i])
      BY <1>1, <2>1
    <3>3. events[i] \in Events
      BY <1>1, <2>1
    <3> QED BY <3>1, <3>2, <3>3
  <2> HIDE DEF a, b, h
  <2>5. Replay!Fold(b)
          = Replay!FoldFrame(Replay!Fold(a), [seq |-> Len(a) + 1, event |-> events[i]])
    BY <2>4, FoldOne
  <2>6. At(i) = Replay!Fold(b) /\ At(h) = Replay!Fold(a)
    BY DEF a, b
  <2> HIDE DEF At
  <2>7. At(h).seq = Len(a)
    BY <2>2, <2>4
  <2>8. At(i) = After(At(h), events[i])
    BY <2>5, <2>6, <2>7 DEF After
  <2>9. Followed(v, At(h), n, u, stages[i])
    BY <2>1, <2>2
  <2>10. Followed(v, At(i), n, u, stages[i + 1])
    BY <2>3, <2>8, <2>9, FollowOne
  <2>11. At(i).seq = Len(j) + i
    <3>1. Len(a) + 1 = Len(j) + i
      BY <2>1, <2>4
    <3>2. Sane(At(h)) /\ Sane(At(i))
      BY <2>9, <2>10 DEF Followed, Moves
    <3>3. At(i).seq = At(h).seq + 1
      BY <2>8, <3>2, NumberedAfter
    <3> QED BY <2>7, <3>1, <3>3
  <2> QED BY <1>4, <2>10, <2>11
<1> QED BY <1>5, <1>6

-----------------------------------------------------------------------------
(* The segments of a node as chains of events.                             *)

(* The segment takes the node from stage s to stage t, and bills its       *)
(* dispatch, once, only if t is past the bill.                             *)
LeadsBy(n, u, s, events, t, stages) ==
  /\ Chain(n, u, events, stages)
  /\ stages[1] = s
  /\ stages[Len(events) + 1] = t
  /\ \A i \in 1..(Len(events) + 1) : stages[i] \in Paid => t \in Paid

Leads(n, u, s, events, t) == \E stages : LeadsBy(n, u, s, events, t, stages)

(* The empty segment.                                                      *)
LEMMA LeadsNone ==
  ASSUME NEW n \in Nodes, NEW u, NEW s
  PROVE  Leads(n, u, s, << >>, s)
<1> DEFINE stages == <<s>>
<1>1. Len(<< >>) = 0 /\ stages[1] = s /\ << >> \in Seq(NodeLevelEvents)
  OBVIOUS
<1>2. Chain(n, u, << >>, stages)
  BY <1>1 DEF Chain
<1> HIDE DEF stages
<1>3. LeadsBy(n, u, s, << >>, s, stages)
  BY <1>1, <1>2 DEF LeadsBy
<1> QED BY <1>3 DEF Leads

(* A segment of one event.                                                 *)
LEMMA LeadsOne ==
  ASSUME NEW n \in Nodes, NEW u, NEW s, NEW e \in NodeLevelEvents, NEW t, Edge(n, u, s, e, t)
  PROVE  Leads(n, u, s, <<e>>, t)
<1> DEFINE stages == <<s, t>>
           events == <<e>>
<1>1. /\ Len(events) = 1 /\ events[1] = e /\ events \in Seq(NodeLevelEvents)
      /\ stages[1] = s /\ stages[2] = t
  OBVIOUS
<1>2. s \in Paid => t \in Paid
  BY DEF Edge, Paid
<1> HIDE DEF stages, events
<1>3. Chain(n, u, events, stages)
  BY <1>1 DEF Chain
<1>4. LeadsBy(n, u, s, events, t, stages)
  BY <1>1, <1>2, <1>3 DEF LeadsBy
<1> QED BY <1>4 DEF Leads, events

(* Two segments, one after the other.                                      *)
LEMMA LeadsConcat ==
  ASSUME NEW n \in Nodes, NEW u, NEW s, NEW a, NEW r, NEW b, NEW t,
         Leads(n, u, s, a, r), Leads(n, u, r, b, t)
  PROVE  Leads(n, u, s, a \o b, t)
<1>1. PICK x : LeadsBy(n, u, s, a, r, x)
  BY DEF Leads
<1>2. PICK y : LeadsBy(n, u, r, b, t, y)
  BY DEF Leads
<1> DEFINE c == a \o b
           z == [i \in 1..(Len(c) + 1) |-> IF i <= Len(a) + 1 THEN x[i] ELSE y[i - Len(a)]]
<1>3. a \in Seq(NodeLevelEvents) /\ b \in Seq(NodeLevelEvents)
  BY <1>1, <1>2 DEF LeadsBy, Chain
<1>4. /\ c \in Seq(NodeLevelEvents) /\ Len(c) = Len(a) + Len(b)
      /\ Len(a) \in Nat /\ Len(b) \in Nat
      /\ \A i \in 1..Len(a) : c[i] = a[i]
      /\ \A i \in 1..Len(b) : c[Len(a) + i] = b[i]
  BY <1>3
<1>5. x[Len(a) + 1] = r /\ y[1] = r /\ x[1] = s /\ y[Len(b) + 1] = t
  BY <1>1, <1>2 DEF LeadsBy
<1>6. /\ \A i \in 1..(Len(a) + 1) : z[i] = x[i]
      /\ \A i \in 1..(Len(b) + 1) : z[Len(a) + i] = y[i]
  <2>1. \A i \in 1..(Len(a) + 1) : i \in 1..(Len(c) + 1) /\ i <= Len(a) + 1
    BY <1>4
  <2>2. ASSUME NEW i \in 1..(Len(b) + 1) PROVE z[Len(a) + i] = y[i]
    <3>1. Len(a) + i \in 1..(Len(c) + 1) /\ (Len(a) + i) - Len(a) = i
      BY <1>4
    <3>2. CASE i = 1
      BY <1>4, <1>5, <3>1, <3>2
    <3>3. CASE i # 1
      <4>1. ~(Len(a) + i <= Len(a) + 1)
        BY <1>4, <3>3
      <4> QED BY <3>1, <4>1
    <3> QED BY <3>2, <3>3
  <2> QED BY <2>1, <2>2
<1> HIDE DEF c, z
<1>7. ASSUME NEW i \in 1..Len(c) PROVE Edge(n, u, z[i], c[i], z[i + 1])
  <2>1. CASE i <= Len(a)
    <3>1. i \in 1..Len(a) /\ i \in 1..(Len(a) + 1) /\ i + 1 \in 1..(Len(a) + 1)
      BY <1>4, <2>1
    <3>2. Edge(n, u, x[i], a[i], x[i + 1])
      BY <1>1, <3>1 DEF LeadsBy, Chain
    <3> QED BY <1>4, <1>6, <3>1, <3>2
  <2>2. CASE ~(i <= Len(a))
    <3> DEFINE h == i - Len(a)
    <3>1. /\ h \in 1..Len(b) /\ h \in 1..(Len(b) + 1) /\ h + 1 \in 1..(Len(b) + 1)
          /\ i = Len(a) + h /\ i + 1 = Len(a) + (h + 1)
      BY <1>4, <2>2
    <3>2. Edge(n, u, y[h], b[h], y[h + 1])
      BY <1>2, <3>1 DEF LeadsBy, Chain
    <3> HIDE DEF h
    <3>3. z[Len(a) + h] = y[h] /\ z[Len(a) + (h + 1)] = y[h + 1] /\ c[Len(a) + h] = b[h]
      BY <1>4, <1>6, <3>1
    <3> QED BY <3>1, <3>2, <3>3
  <2> QED BY <2>1, <2>2
<1>8. Chain(n, u, c, z)
  BY <1>4, <1>7 DEF Chain
<1>9. z[1] = s /\ z[Len(c) + 1] = t
  <2>1. 1 \in 1..(Len(a) + 1) /\ Len(b) + 1 \in 1..(Len(b) + 1)
        /\ Len(c) + 1 = Len(a) + (Len(b) + 1)
    BY <1>4
  <2> QED BY <1>5, <1>6, <2>1
<1>10. ASSUME NEW i \in 1..(Len(c) + 1), z[i] \in Paid PROVE t \in Paid
  <2>1. CASE i <= Len(a) + 1
    <3>1. i \in 1..(Len(a) + 1) /\ 1 \in 1..(Len(b) + 1)
      BY <1>4, <2>1
    <3>2. x[i] \in Paid
      BY <1>6, <1>10, <3>1
    <3>3. r \in Paid
      BY <1>1, <3>1, <3>2 DEF LeadsBy
    <3> QED BY <1>2, <1>5, <3>1, <3>3 DEF LeadsBy
  <2>2. CASE ~(i <= Len(a) + 1)
    <3> DEFINE h == i - Len(a)
    <3>1. h \in 1..(Len(b) + 1) /\ i = Len(a) + h
      BY <1>4, <2>2
    <3> HIDE DEF h
    <3>2. y[h] \in Paid
      BY <1>6, <1>10, <3>1
    <3> QED BY <1>2, <3>1, <3>2 DEF LeadsBy
  <2> QED BY <2>1, <2>2
<1>11. LeadsBy(n, u, s, c, t, z)
  BY <1>8, <1>9, <1>10 DEF LeadsBy
<1> QED BY <1>11 DEF Leads, c

(* What the segments of the actions lead to.                               *)
LEMMA LeadsEarly ==
  ASSUME NEW n \in Nodes, NEW u
  PROVE  /\ \A reason \in FailureReasons :
              /\ Leads(n, u, "fresh", <<NodeFailed(n, reason)>>, "failed")
              /\ Leads(n, u, "asked", <<NodeFailed(n, reason)>>, "failed")
              /\ reason # "cancelled" => Leads(n, u, "open", <<NodeFailed(n, reason)>>, "failed")
              /\ Leads(n, u, "closed", <<NodeFailed(n, reason)>>, "settled")
              /\ Leads(n, u, "answered", <<NodeFailed(n, reason)>>, "settled")
         /\ Leads(n, u, "fresh", Prologue(n) \o <<ModelDispatched(n)>>, "open")
         /\ Leads(n, u, "fresh",
                  Prologue(n) \o <<BudgetRejected(n), NodeFailed(n, "budget_rejected")>>,
                  "failed")
<1>1. ASSUME NEW reason \in FailureReasons,
             NEW s \in {"fresh", "asked", "open", "answered", "closed"},
             reason = "cancelled" => s # "open"
      PROVE  Leads(n, u, s, <<NodeFailed(n, reason)>>,
                   IF s \in Paid THEN "settled" ELSE "failed")
  <2> DEFINE t == IF s \in Paid THEN "settled" ELSE "failed"
             e == NodeFailed(n, reason)
  <2>1. e \in NodeLevelEvents
    BY EventTypes
  <2>2. \E why \in FailureReasons :
          e = NodeFailed(n, why) /\ (why = "cancelled" => s \notin {"open", "told"})
    BY <1>1
  <2> HIDE DEF e
  <2>3. Edge(n, u, s, e, t)
    BY <2>2 DEF Edge
  <2> HIDE DEF t
  <2>4. Leads(n, u, s, <<e>>, t)
    BY <2>1, <2>3, LeadsOne
  <2> QED BY <2>4 DEF e, t
<1>2. Leads(n, u, "fresh", Prologue(n), "asked")
  <2>1. /\ Edge(n, u, "fresh", NodeStarted(n), "started")
        /\ Edge(n, u, "started", ArtifactWritten("request", n), "asked")
    BY DEF Edge
  <2>2. NodeStarted(n) \in NodeLevelEvents /\ ArtifactWritten("request", n) \in NodeLevelEvents
    BY EventTypes
  <2>3. /\ Leads(n, u, "fresh", <<NodeStarted(n)>>, "started")
        /\ Leads(n, u, "started", <<ArtifactWritten("request", n)>>, "asked")
    BY <2>1, <2>2, LeadsOne
  <2>4. Prologue(n) = <<NodeStarted(n)>> \o <<ArtifactWritten("request", n)>>
    BY DEF Prologue
  <2> QED BY <2>3, <2>4, LeadsConcat
<1>3. /\ Leads(n, u, "asked", <<ModelDispatched(n)>>, "open")
      /\ Leads(n, u, "asked", <<BudgetRejected(n)>>, "asked")
  <2>1. /\ Edge(n, u, "asked", ModelDispatched(n), "open")
        /\ Edge(n, u, "asked", BudgetRejected(n), "asked")
    BY DEF Edge
  <2> QED BY <2>1, EventTypes, LeadsOne
<1>4. Leads(n, u, "asked", <<NodeFailed(n, "budget_rejected")>>, "failed")
  BY <1>1 DEF FailureReasons, Paid
<1>5. Leads(n, u, "asked", <<BudgetRejected(n), NodeFailed(n, "budget_rejected")>>, "failed")
  <2>1. <<BudgetRejected(n), NodeFailed(n, "budget_rejected")>>
          = <<BudgetRejected(n)>> \o <<NodeFailed(n, "budget_rejected")>>
    OBVIOUS
  <2> QED BY <1>3, <1>4, <2>1, LeadsConcat
<1>6. Leads(n, u, "fresh", Prologue(n) \o <<ModelDispatched(n)>>, "open")
  BY <1>2, <1>3, LeadsConcat
<1>7. Leads(n, u, "fresh",
            Prologue(n) \o <<BudgetRejected(n), NodeFailed(n, "budget_rejected")>>, "failed")
  BY <1>2, <1>5, LeadsConcat
<1>8. "closed" \in Paid /\ "answered" \in Paid
      /\ "fresh" \notin Paid /\ "asked" \notin Paid /\ "open" \notin Paid
  BY DEF Paid
<1> QED BY <1>1, <1>6, <1>7, <1>8

(* And the segments of the answers.                                        *)
LEMMA LeadsNotes ==
  ASSUME NEW n \in Nodes, NEW u \in Usage
  PROVE  /\ \A s \in {"open", "told", "answered"} :
              /\ Leads(n, u, s, <<ArtifactWritten("receipt", n)>>, s)
              /\ Leads(n, u, s, Receipt(n), s)
         /\ Leads(n, u, "open", <<ArtifactWritten("output", n)>>, "told")
         /\ Leads(n, u, "open", Billing(n, u), "answered")
         /\ \A s \in {"open", "told"}, reason \in {"timeout", "protocol", "cancelled"},
               source \in {"provider", "ceiling", "mixed"} :
              (reason = "cancelled" => source = "ceiling") /\ (source = "ceiling" => u = Ceiling[n])
                => Leads(n, u, s, <<ModelFailed(n, reason, u, source)>>, "closed")
<1>1. ASSUME NEW s \in {"open", "told", "answered"}
      PROVE  Leads(n, u, s, <<ArtifactWritten("receipt", n)>>, s)
  <2>1. Edge(n, u, s, ArtifactWritten("receipt", n), s)
    BY DEF Edge
  <2> QED BY <2>1, EventTypes, LeadsOne
<1>2. ASSUME NEW s \in {"open", "told", "answered"} PROVE Leads(n, u, s, Receipt(n), s)
  <2>1. CASE LiveBackend
    BY <1>1, <2>1 DEF Receipt
  <2>2. CASE ~LiveBackend
    BY <2>2, LeadsNone DEF Receipt
  <2> QED BY <2>1, <2>2
<1>3. Leads(n, u, "open", <<ArtifactWritten("output", n)>>, "told")
  <2>1. Edge(n, u, "open", ArtifactWritten("output", n), "told")
    BY DEF Edge
  <2> QED BY <2>1, EventTypes, LeadsOne
<1>4. Leads(n, u, "told", <<ModelCompleted(n, u)>>, "answered")
  <2>1. Edge(n, u, "told", ModelCompleted(n, u), "answered")
    BY DEF Edge
  <2> QED BY <2>1, BillingEventTypes, LeadsOne
<1>5. Leads(n, u, "open", Billing(n, u), "answered")
  <2> DEFINE out == <<ArtifactWritten("output", n)>>
             done == <<ModelCompleted(n, u)>>
  <2>1. Billing(n, u) = (out \o done) \o Receipt(n)
    BY DEF Billing
  <2> HIDE DEF out, done
  <2>2. Leads(n, u, "open", out \o done, "answered")
    BY <1>3, <1>4, LeadsConcat DEF out, done
  <2>3. Leads(n, u, "answered", Receipt(n), "answered")
    BY <1>2
  <2> QED BY <2>1, <2>2, <2>3, LeadsConcat
<1>6. ASSUME NEW s \in {"open", "told"}, NEW reason \in {"timeout", "protocol", "cancelled"},
             NEW source \in {"provider", "ceiling", "mixed"},
             reason = "cancelled" => source = "ceiling", source = "ceiling" => u = Ceiling[n]
      PROVE  Leads(n, u, s, <<ModelFailed(n, reason, u, source)>>, "closed")
  <2> DEFINE e == ModelFailed(n, reason, u, source)
  <2>1. e \in NodeLevelEvents
    BY BillingEventTypes
  <2>2. \E why \in {"timeout", "protocol", "cancelled"}, from \in {"provider", "ceiling", "mixed"} :
          /\ e = ModelFailed(n, why, u, from)
          /\ why = "cancelled" => from = "ceiling"
          /\ from = "ceiling" => u = Ceiling[n]
    BY <1>6
  <2> HIDE DEF e
  <2>3. Edge(n, u, s, e, "closed")
    BY <2>2 DEF Edge
  <2>4. Leads(n, u, s, <<e>>, "closed")
    BY <2>1, <2>3, LeadsOne
  <2> QED BY <2>4 DEF e
<1> QED BY <1>1, <1>2, <1>3, <1>5, <1>6

-----------------------------------------------------------------------------
(* What a step of a node tells the reader of the journal.                  *)

(* Every text has an encoding: a response, an error, a decision.           *)
Encodable == Texts \subseteq {"plain"} /\ "unencodable" \notin Verdicts

(* The stage in which the node's coroutine ends its step.                  *)
Arrives(next, t) ==
  \/ next = "inflight" /\ t = "open"
  \/ next = "completed" /\ t \in {"done", "decided"}
  \/ next = "failed" /\ (t \in {"failed", "settled"} \/ engineAbort)

(* The whole segment is written, or its node is torn down on the way; the  *)
(* ledger has committed what the whole segment would have told.            *)
RecountsBy(n, u, s, events, t) ==
  /\ Leads(n, u, s, events, t)
  /\ s = IF task[n] = "waiting" THEN "fresh" ELSE "open"
  /\ ledger'.committed = IF t \in Paid THEN Replay!Billed(ledger.committed, Costed(u))
                         ELSE ledger.committed
  /\ \/ /\ Written(events) /\ UNCHANGED raised
        /\ (decided' <=> decided \/ t = "decided")
        /\ \E next : task' = [task EXCEPT ![n] = next] /\ Arrives(next, t)
     \/ SegmentFails(n, events)

Recounts(n) ==
  /\ phase = "running" /\ UNCHANGED << phase, documents >>
  /\ task[n] \in {"waiting", "inflight"}
  /\ \E u, s, events, t : u \in Usage /\ RecountsBy(n, u, s, events, t)

(* A settled dispatch is billed as the validator bills it.                 *)
LEMMA SettledBills ==
  ASSUME ledger \in Ledger, NEW n \in Nodes, NEW u \in Usage
  PROVE  /\ Settled(n, u).committed = Replay!Billed(ledger.committed, Costed(u))
         /\ Release(ledger, ReservationFor(Ceiling[n])).committed = ledger.committed
         /\ Reserve(ledger, ReservationFor(Ceiling[n])).committed = ledger.committed
BY DEF Settled, Commit, Release, Reserve, Replay!Billed, Costed, Ledger

(* The step writes a segment, or tries to.                                 *)
Writes(n, u, s, events, t, next) ==
  /\ phase = "running" /\ phase' = phase /\ documents' = documents
  /\ \/ task[n] = "waiting" /\ s = "fresh"
     \/ task[n] = "inflight" /\ s = "open"
  /\ Leads(n, u, s, events, t)
  /\ t \in Paid => ledger'.committed = Replay!Billed(ledger.committed, Costed(u))
  /\ t \notin Paid => ledger'.committed = ledger.committed
  /\ Segment(n, events, next) /\ Arrives(next, t)
  /\ Written(events) => (decided' <=> decided \/ t = "decided")

(* Such a step recounts itself, wherever its segment fails.                *)
LEMMA SegmentRecounts ==
  ASSUME NEW n \in Nodes, NEW u \in Usage, NEW s, NEW events, NEW t, NEW next,
         Writes(n, u, s, events, t, next)
  PROVE  Recounts(n)
<1>1. RecountsBy(n, u, s, events, t)
  BY DEF RecountsBy, Segment, Writes
<1> QED BY <1>1 DEF Recounts, Writes

(* The steps of a node that waits: blamed, dispatched, rejected, cancelled. *)
LEMMA WaitingRecounts ==
  ASSUME TypeOK, NEW n \in Nodes,
         FailDependency(n) \/ Dispatch(n) \/ RejectDispatch(n) \/ CancelWaiting(n)
  PROVE  Recounts(n)
<1>1. /\ phase = "running" /\ phase' = phase /\ documents' = documents /\ decided' = decided
      /\ task[n] = "waiting"
  BY DEF FailDependency, Dispatch, RejectDispatch, CancelWaiting, PastBarrier, ControlVars
<1>2. ledger \in Ledger /\ Ceiling[n] \in Usage
  BY ReservationType DEF TypeOK
<1> DEFINE u == Ceiling[n]
<1>3. /\ "failed" \notin Paid /\ "open" \notin Paid /\ "fresh" \notin Paid
      /\ "dependency_failed" \in FailureReasons /\ "cancelled" \in FailureReasons
  BY DEF Paid, FailureReasons
<1>4. CASE FailDependency(n)
  <2> DEFINE events == <<NodeFailed(n, "dependency_failed")>>
  <2>1. Segment(n, events, "failed") /\ UNCHANGED ledger
    BY <1>4 DEF FailDependency
  <2>2. Leads(n, u, "fresh", events, "failed")
    BY <1>3, LeadsEarly
  <2>3. Arrives("failed", "failed")
    BY DEF Arrives
  <2> HIDE DEF events, u
  <2>4. Writes(n, u, "fresh", events, "failed", "failed")
    BY <1>1, <1>3, <2>1, <2>2, <2>3 DEF Writes
  <2> QED BY <1>2, <2>4, SegmentRecounts DEF u
<1>5. CASE Dispatch(n)
  <2> DEFINE events == Prologue(n) \o <<ModelDispatched(n)>>
  <2>1. Segment(n, events, "inflight")
    BY <1>5 DEF Dispatch
  <2>2. Leads(n, u, "fresh", events, "open")
    BY LeadsEarly
  <2>3. ledger'.committed = ledger.committed
    BY <1>2, <1>5, SettledBills DEF Dispatch
  <2>4. Arrives("inflight", "open")
    BY DEF Arrives
  <2> HIDE DEF events, u
  <2>5. Writes(n, u, "fresh", events, "open", "inflight")
    BY <1>1, <1>3, <2>1, <2>2, <2>3, <2>4 DEF Writes
  <2> QED BY <1>2, <2>5, SegmentRecounts DEF u
<1>6. CASE RejectDispatch(n)
  <2> DEFINE events == Prologue(n) \o <<BudgetRejected(n), NodeFailed(n, "budget_rejected")>>
  <2>1. Segment(n, events, "failed") /\ UNCHANGED ledger
    BY <1>6 DEF RejectDispatch
  <2>2. Leads(n, u, "fresh", events, "failed")
    BY LeadsEarly
  <2>3. Arrives("failed", "failed")
    BY DEF Arrives
  <2> HIDE DEF events, u
  <2>4. Writes(n, u, "fresh", events, "failed", "failed")
    BY <1>1, <1>3, <2>1, <2>2, <2>3 DEF Writes
  <2> QED BY <1>2, <2>4, SegmentRecounts DEF u
<1>7. CASE CancelWaiting(n)
  <2> DEFINE events == NodeCancelled(n)
             t == IF engineAbort THEN "fresh" ELSE "failed"
  <2>1. Segment(n, events, "failed") /\ UNCHANGED ledger
    BY <1>7 DEF CancelWaiting
  <2>2. Leads(n, u, "fresh", events, t)
    BY <1>3, LeadsEarly, LeadsNone DEF NodeCancelled
  <2>3. Arrives("failed", t) /\ t \notin Paid /\ t # "decided"
    BY <1>3 DEF Arrives
  <2> HIDE DEF events, u, t
  <2>4. Writes(n, u, "fresh", events, t, "failed")
    BY <1>1, <2>1, <2>2, <2>3 DEF Writes
  <2> QED BY <1>2, <2>4, SegmentRecounts DEF u
<1> QED BY <1>4, <1>5, <1>6, <1>7

(* How an answered node is closed.                                         *)
LEMMA LeadsClosing ==
  ASSUME NEW n \in Nodes, NEW u \in Usage, NEW verdict \in {"valid", "invalid"}, NEW closing,
         closing \in {Closing(n, verdict), <<NodeFailed(n, "budget_exceeded")>>}
  PROVE  /\ Len(closing) \in Nat
         /\ \E t :
              /\ Leads(n, u, "answered", closing, t) /\ t \in Paid
              /\ Arrives(IF closing[Len(closing)].type = "node.failed" THEN "failed"
                         ELSE "completed", t)
              /\ Len(closing) > 0 /\ Len(closing) \in Nat
              /\ t = "decided" <=> Role[n] = "judge" /\ closing[1].type = "node.completed"
<1> DEFINE failed(why) == <<NodeFailed(n, why)>>
           one == <<NodeCompleted(n)>>
           two == <<NodeCompleted(n), DecisionRecorded(n)>>
           done == NodeCompleted(n)
           dec == DecisionRecorded(n)
<1>1. /\ done.type = "node.completed" /\ dec.type = "decision.recorded"
      /\ \A why : NodeFailed(n, why).type = "node.failed"
  BY DEF NodeCompleted, DecisionRecorded, NodeFailed
<1>2. \/ \E why \in FailureReasons : closing = failed(why)
      \/ closing = one /\ Role[n] # "judge"
      \/ closing = two /\ Role[n] = "judge"
  <2>1. \/ Closing(n, verdict) = failed("invalid_decision")
        \/ Closing(n, verdict) = one /\ Role[n] # "judge"
        \/ Closing(n, verdict) = two /\ Role[n] = "judge"
    BY DEF Closing
  <2>2. "invalid_decision" \in FailureReasons /\ "budget_exceeded" \in FailureReasons
    BY DEF FailureReasons
  <2>3. closing = Closing(n, verdict) \/ closing = failed("budget_exceeded")
    OBVIOUS
  <2> HIDE DEF one, two, failed
  <2> QED BY <2>1, <2>2, <2>3
<1>3. ASSUME NEW why \in FailureReasons, closing = failed(why)
      PROVE  /\ Leads(n, u, "answered", closing, "settled")
             /\ Len(closing) = 1 /\ closing[1].type = "node.failed"
  BY <1>1, <1>3, LeadsEarly
<1>4. Leads(n, u, "answered", one, "done")
  <2>1. Edge(n, u, "answered", done, "done") /\ done \in NodeLevelEvents
    BY EventTypes DEF Edge
  <2> HIDE DEF done
  <2>2. Leads(n, u, "answered", <<done>>, "done")
    BY <2>1, LeadsOne
  <2> QED BY <2>2 DEF done
<1>5. Role[n] = "judge" => Leads(n, u, "answered", two, "decided")
  <2> HAVE Role[n] = "judge"
  <2>1. Edge(n, u, "done", dec, "decided") /\ dec \in NodeLevelEvents
    BY EventTypes DEF Edge
  <2> HIDE DEF dec
  <2>2. Leads(n, u, "done", <<dec>>, "decided")
    BY <2>1, LeadsOne
  <2>3. two = one \o <<dec>>
    BY DEF dec
  <2> HIDE DEF one, two
  <2> QED BY <1>4, <2>2, <2>3, LeadsConcat
<1>6. /\ Len(one) = 1 /\ one[1] = done
      /\ Len(two) = 2 /\ two[1] = done /\ two[2] = dec
  OBVIOUS
<1> HIDE DEF done, dec
<1>7. \A x \in {one, two} : /\ Len(x) \in Nat /\ Len(x) > 0
                             /\ x[1].type = "node.completed"
                             /\ x[Len(x)].type # "node.failed"
  <2> HIDE DEF one, two
  <2> QED BY <1>1, <1>6
<1>8. /\ "settled" \in Paid /\ "done" \in Paid /\ "decided" \in Paid
      /\ Arrives("failed", "settled") /\ Arrives("completed", "done")
      /\ Arrives("completed", "decided")
  BY DEF Paid, Arrives
<1>9. CASE \E why \in FailureReasons : closing = failed(why)
  <2>1. PICK why \in FailureReasons : closing = failed(why)
    BY <1>9
  <2> HIDE DEF failed
  <2> QED BY <1>3, <1>8, <2>1
<1> HIDE DEF one, two
<1>10. CASE closing = one /\ Role[n] # "judge"
  <2>1. /\ Len(closing) \in Nat /\ Len(closing) > 0
        /\ closing[1].type = "node.completed" /\ closing[Len(closing)].type # "node.failed"
    BY <1>10, <1>7
  <2>2. Leads(n, u, "answered", closing, "done")
    BY <1>4, <1>10
  <2> QED BY <1>8, <1>10, <2>1, <2>2
<1>11. CASE closing = two /\ Role[n] = "judge"
  <2>1. /\ Len(closing) \in Nat /\ Len(closing) > 0
        /\ closing[1].type = "node.completed" /\ closing[Len(closing)].type # "node.failed"
    BY <1>11, <1>7
  <2>2. Leads(n, u, "answered", closing, "decided")
    BY <1>5, <1>11
  <2> QED BY <1>8, <1>11, <2>1, <2>2
<1> QED BY <1>2, <1>9, <1>10, <1>11

(* An answer within the limit, with or without a decision.                 *)
LEMMA CompleteRecounts ==
  ASSUME TypeOK, Encodable, NEW n \in Nodes, NEW u \in Usage, NEW verdict \in Verdicts,
         Complete(n, u, verdict)
  PROVE  Recounts(n)
<1> DEFINE closing == IF BreachedBy(n, u) THEN <<NodeFailed(n, "budget_exceeded")>>
                      ELSE Closing(n, verdict)
           next == IF closing[Len(closing)].type = "node.failed" THEN "failed"
                   ELSE "completed"
           billing == Billing(n, u)
           events == billing \o closing
           recorded == Len(journal') - Len(journal)
<1>1. /\ Inflight(n)
      /\ ledger' = Settled(n, u)
      /\ Segment(n, events, next)
      /\ decided' = (decided \/ (/\ Role[n] = "judge"
                                 /\ closing[1].type = "node.completed"
                                 /\ recorded > Len(billing)))
      /\ UNCHANGED ControlVars
  BY DEF Complete, CommitUsage
<1>2. verdict \in {"valid", "invalid"}
  BY BackendAssumption DEF Encodable
<1>3. closing \in {Closing(n, verdict), <<NodeFailed(n, "budget_exceeded")>>}
  OBVIOUS
<1>4. billing \in Seq(NodeLevelEvents) /\ closing \in Seq(NodeLevelEvents)
  BY SegmentTypes, BillingSegmentTypes DEF FailureReasons
<1> HIDE DEF closing
<1>5. PICK t :
        /\ Leads(n, u, "answered", closing, t) /\ t \in Paid
        /\ Arrives(next, t) /\ Len(closing) > 0
        /\ t = "decided" <=> Role[n] = "judge" /\ closing[1].type = "node.completed"
  BY <1>2, <1>3, LeadsClosing
<1>6. Leads(n, u, "open", events, t)
  BY <1>5, LeadsNotes, LeadsConcat
<1>7. ASSUME Written(events) PROVE (decided' <=> decided \/ t = "decided")
  <2>1. journal \in Seq(Events) /\ billing \in Seq(Events) /\ closing \in Seq(Events)
    BY <1>4 DEF TypeOK, Events
  <2>2. journal' = journal \o (billing \o closing)
    BY <1>7 DEF Written
  <2> HIDE DEF billing
  <2>3. Len(journal') = Len(journal) + (Len(billing) + Len(closing))
    BY <2>1, <2>2
  <2>4. Len(journal) \in Nat /\ Len(billing) \in Nat /\ Len(closing) \in Nat
    BY <2>1
  <2>5. recorded > Len(billing)
    BY <1>5, <2>3, <2>4
  <2> HIDE DEF recorded
  <2> QED BY <1>1, <1>5, <2>5
<1>8. ledger'.committed = Replay!Billed(ledger.committed, Costed(u))
  BY <1>1, SettledBills DEF TypeOK
<1>9. /\ phase = "running" /\ UNCHANGED << phase, documents >> /\ task[n] = "inflight"
  BY <1>1 DEF Inflight, ControlVars
<1> HIDE DEF events, next
<1>10. Writes(n, u, "open", events, t, next)
  BY <1>1, <1>5, <1>6, <1>7, <1>8, <1>9 DEF Writes
<1> QED BY <1>10, SegmentRecounts

(* Every answer of the backend.                                            *)
LEMMA AnswersRecount ==
  ASSUME TypeOK, Encodable, NEW n \in Nodes, BackendAnswers(n)
  PROVE  Recounts(n)
<1>1. PICK u \in Reported, text \in Texts :
        \/ text = "plain" /\ \E verdict \in Verdicts : Complete(n, u, verdict)
        \/ text = "unencodable" /\ CompleteUnencodable(n, u)
        \/ OverLimit(n, u, text)
  BY DEF BackendAnswers
<1>2. u \in Usage /\ text # "unencodable" /\ ledger \in Ledger
  BY BackendAssumption DEF Encodable, TypeOK
<1>3. CASE \E verdict \in Verdicts : Complete(n, u, verdict)
  BY <1>2, <1>3, CompleteRecounts
<1>4. CASE OverLimit(n, u, text)
  <2>1. /\ phase = "running" /\ phase' = phase /\ documents' = documents /\ decided' = decided
        /\ task[n] = "inflight"
    BY <1>4 DEF OverLimit, Inflight, ControlVars
  <2>2. CASE LiveBackend
    <3> DEFINE a == <<ArtifactWritten("output", n)>>
               b == <<ArtifactWritten("receipt", n)>>
               c == <<ModelFailed(n, "protocol", u, "provider")>>
               d == <<NodeFailed(n, "backend_error")>>
               events == << ArtifactWritten("output", n), ArtifactWritten("receipt", n),
                            ModelFailed(n, "protocol", u, "provider"),
                            NodeFailed(n, "backend_error") >>
    <3>1. Segment(n, events, "failed") /\ ledger' = Settled(n, u)
      BY <1>4, <2>2 DEF OverLimit, CommitUsage
    <3>2. events = ((a \o b) \o c) \o d
      OBVIOUS
    <3>3. /\ Leads(n, u, "open", a, "told") /\ Leads(n, u, "told", b, "told")
          /\ Leads(n, u, "told", c, "closed")
      BY <1>2, LeadsNotes
    <3>4. Leads(n, u, "closed", d, "settled")
      BY LeadsEarly DEF FailureReasons
    <3>5. "settled" \in Paid /\ Arrives("failed", "settled")
      BY DEF Paid, Arrives
    <3>6. ledger'.committed = Replay!Billed(ledger.committed, Costed(u))
      BY <1>2, <3>1, SettledBills
    <3> HIDE DEF events, a, b, c, d
    <3>7. Leads(n, u, "open", a \o b, "told")
      BY <3>3, LeadsConcat
    <3>8. Leads(n, u, "open", (a \o b) \o c, "closed")
      BY <3>3, <3>7, LeadsConcat
    <3>9. Leads(n, u, "open", events, "settled")
      BY <3>2, <3>4, <3>8, LeadsConcat
    <3>10. Writes(n, u, "open", events, "settled", "failed")
      BY <2>1, <3>1, <3>5, <3>6, <3>9 DEF Writes
    <3> QED BY <1>2, <3>10, SegmentRecounts
  <2>3. CASE ~LiveBackend
    <3> DEFINE events == <<NodeFailed(n, "backend_error")>>
    <3>1. Segment(n, events, "failed") /\ ledger' = Release(ledger, ReservationFor(Ceiling[n]))
      BY <1>4, <2>3 DEF OverLimit, ReleaseReservation
    <3>2. Leads(n, u, "open", events, "failed")
      BY LeadsEarly DEF FailureReasons
    <3>3. "failed" \notin Paid /\ Arrives("failed", "failed")
      BY DEF Paid, Arrives
    <3>4. ledger'.committed = ledger.committed
      BY <1>2, <3>1, SettledBills
    <3> HIDE DEF events
    <3>5. Writes(n, u, "open", events, "failed", "failed")
      BY <2>1, <3>1, <3>2, <3>3, <3>4 DEF Writes
    <3> QED BY <1>2, <3>5, SegmentRecounts
  <2> QED BY <2>2, <2>3
<1> QED BY <1>1, <1>2, <1>3, <1>4

(* Every failure of the backend, billed or not.                            *)
LEMMA FailuresRecount ==
  ASSUME TypeOK, Encodable, NEW n \in Nodes, BackendFails(n)
  PROVE  Recounts(n)
<1>1. PICK text \in Texts :
        \/ FailFree(n, "backend_error", Receipt(n), text)
        \/ FailFree(n, "unexpected_error", << >>, text)
        \/ \E known \in PartialUsages : FailBilled(n, known, text)
  BY DEF BackendFails
<1>2. text = "plain" /\ ledger \in Ledger /\ Ceiling[n] \in Usage
  BY ReservationType DEF Encodable, TypeOK
<1>3. ASSUME NEW reason \in FailureReasons \ {"cancelled"}, NEW receipt,
             Leads(n, Ceiling[n], "open", receipt, "open"), FailFree(n, reason, receipt, text)
      PROVE  Recounts(n)
  <2> DEFINE u == Ceiling[n]
             events == receipt \o <<NodeFailed(n, reason)>>
  <2>1. /\ phase = "running" /\ phase' = phase /\ documents' = documents /\ decided' = decided
        /\ task[n] = "inflight"
        /\ Segment(n, events, "failed")
        /\ ledger' = Release(ledger, ReservationFor(Ceiling[n]))
    BY <1>2, <1>3 DEF FailFree, ReleaseReservation, Inflight, ControlVars
  <2>2. Leads(n, u, "open", <<NodeFailed(n, reason)>>, "failed")
    BY LeadsEarly
  <2>3. Leads(n, u, "open", events, "failed")
    BY <1>3, <2>2, LeadsConcat
  <2>4. "failed" \notin Paid /\ Arrives("failed", "failed")
    BY DEF Paid, Arrives
  <2>5. ledger'.committed = ledger.committed
    BY <1>2, <2>1, SettledBills
  <2> HIDE DEF events
  <2>6. Writes(n, u, "open", events, "failed", "failed")
    BY <2>1, <2>3, <2>4, <2>5 DEF Writes
  <2> QED BY <1>2, <2>6, SegmentRecounts
<1>4. ASSUME NEW known \in PartialUsages, FailBilled(n, known, text) PROVE Recounts(n)
  <2> DEFINE u == BilledUsage(n, known)
             a == <<ArtifactWritten("receipt", n)>>
             b == <<ModelFailed(n, "timeout", u, UsageSource(known))>>
             c == <<NodeFailed(n, "backend_error")>>
             events == a \o << ModelFailed(n, "timeout", u, UsageSource(known)),
                               NodeFailed(n, "backend_error") >>
  <2>1. /\ phase = "running" /\ phase' = phase /\ documents' = documents /\ decided' = decided
        /\ task[n] = "inflight"
        /\ Segment(n, events, "failed")
        /\ ledger' = Settled(n, u)
    BY <1>2, <1>4 DEF FailBilled, CommitUsage, Inflight, ControlVars
  <2>2. u \in Usage /\ UsageSource(known) \in {"provider", "ceiling", "mixed"}
    BY BilledUsageType
  <2>3. UsageSource(known) = "ceiling" => u = Ceiling[n]
    <3> HAVE UsageSource(known) = "ceiling"
    <3>1. known.input = None /\ known.output = None
      BY DEF UsageSource
    <3>2. u = [input |-> Ceiling[n].input, output |-> Ceiling[n].output]
      BY <3>1 DEF BilledUsage
    <3> QED BY <1>2, <3>2 DEF Usage
  <2>4. events = a \o (b \o c)
    OBVIOUS
  <2>5. ledger'.committed = Replay!Billed(ledger.committed, Costed(u))
    BY <1>2, <2>1, <2>2, SettledBills
  <2> HIDE DEF u
  <2>6. Leads(n, u, "open", a, "open") /\ Leads(n, u, "open", b, "closed")
    BY <2>2, <2>3, LeadsNotes
  <2>7. Leads(n, u, "closed", c, "settled")
    BY LeadsEarly DEF FailureReasons
  <2>8. "settled" \in Paid /\ Arrives("failed", "settled")
    BY DEF Paid, Arrives
  <2> HIDE DEF events, a, b, c
  <2>9. Leads(n, u, "open", events, "settled")
    BY <2>4, <2>6, <2>7, LeadsConcat
  <2>10. Writes(n, u, "open", events, "settled", "failed")
    BY <2>1, <2>5, <2>8, <2>9 DEF Writes
  <2> QED BY <2>2, <2>10, SegmentRecounts
<1>5. /\ Leads(n, Ceiling[n], "open", Receipt(n), "open")
      /\ Leads(n, Ceiling[n], "open", << >>, "open")
  BY <1>2, LeadsNotes, LeadsNone
<1>6. "backend_error" \in FailureReasons \ {"cancelled"}
      /\ "unexpected_error" \in FailureReasons \ {"cancelled"}
  BY DEF FailureReasons
<1> QED BY <1>1, <1>3, <1>4, <1>5, <1>6

(* A dispatch cancelled in flight is billed at its ceiling.                *)
LEMMA CancelRecounts ==
  ASSUME TypeOK, NEW n \in Nodes, CancelInflight(n)
  PROVE  Recounts(n)
<1> DEFINE u == Ceiling[n]
           a == <<ModelFailed(n, "cancelled", u, "ceiling")>>
           b == NodeCancelled(n)
           events == a \o b
           t == IF engineAbort THEN "closed" ELSE "settled"
<1>1. /\ phase = "running" /\ phase' = phase /\ documents' = documents /\ decided' = decided
      /\ task[n] = "inflight"
      /\ Segment(n, events, "failed")
      /\ ledger' = Settled(n, u)
  BY DEF CancelInflight, CommitUsage
<1>2. u \in Usage /\ ledger \in Ledger
  BY ReservationType DEF TypeOK
<1>3. Leads(n, u, "open", a, "closed")
  BY <1>2, LeadsNotes
<1>4. Leads(n, u, "closed", b, t)
  BY LeadsEarly, LeadsNone DEF NodeCancelled, FailureReasons
<1>5. t \in Paid /\ Arrives("failed", t) /\ t # "decided"
  BY DEF Paid, Arrives
<1>6. ledger'.committed = Replay!Billed(ledger.committed, Costed(u))
  BY <1>1, <1>2, SettledBills
<1> HIDE DEF u, a, b, t
<1>7. Leads(n, u, "open", events, t)
  BY <1>3, <1>4, LeadsConcat
<1> HIDE DEF events
<1>8. Writes(n, u, "open", events, t, "failed")
  BY <1>1, <1>5, <1>6, <1>7 DEF Writes
<1> QED BY <1>2, <1>8, SegmentRecounts

(* Every step of a node recounts itself.                                   *)
LEMMA NodeRecounts ==
  ASSUME TypeOK, Encodable, NEW n \in Nodes, NodeStep(n)
  PROVE  Recounts(n)
BY WaitingRecounts, AnswersRecount, FailuresRecount, CancelRecounts DEF NodeStep

-----------------------------------------------------------------------------
(* The journal of a run and the view of its reader.                        *)

OneJudge == \A m, n \in Nodes : Role[m] = "judge" /\ Role[n] = "judge" => m = n

(* The absent value is none of those that may be present.                  *)
AbsentIsApart == None \notin Artifacts /\ None # "node failure"

(* What the view says of the coroutine.                                    *)
StandsIn(v, n) ==
  /\ task[n] = "waiting" => Standing(v, n, "fresh")
  /\ task[n] = "inflight" => Standing(v, n, "open")
  /\ task[n] = "completed" => Standing(v, n, "done")
  /\ task[n] = "failed" /\ raised = {} => Standing(v, n, "failed")

(* While the run is under way its journal can be read up to the end, and   *)
(* tells of each coroutine what it is doing.                               *)
Reads ==
  /\ Sane(View) /\ View.seq = Len(journal)
  /\ \A n \in Nodes : StandsIn(View, n)
  /\ \A n \in Nodes : Role[n] = "judge" /\ ~Ended(n) => View.decision = None
  /\ raised = {} => (decided <=> View.decision # None)

(* A node's events leave the other nodes where they stand.                 *)
LEMMA OthersStand ==
  ASSUME NEW n, NEW v, NEW w, NEW m \in Nodes \ {n}, Moves(v, w, n),
         NEW s \in {"fresh", "open", "done", "failed"}, Standing(v, m, s)
  PROVE  Standing(w, m, s)
<1>1. Alike(v, w, m)
  BY DEF Moves
<1> QED BY <1>1 DEF Standing, Alike, Mine, Running, Opened

(* What is claimed and what is committed, dimension by dimension.          *)
Within(claimed, committed) ==
  /\ claimed.calls <= committed.calls /\ claimed.input <= committed.input
  /\ claimed.output <= committed.output /\ claimed.cost <= committed.cost

(* The same, said of the fields of the record.                             *)
LEMMA WithinEach ==
  ASSUME NEW claimed \in BudgetTotals, NEW committed
  PROVE  Within(claimed, committed) <=> \A d \in DOMAIN claimed : claimed[d] <= committed[d]
<1>1. DOMAIN claimed = {"calls", "input", "output", "cost"}
  BY DEF BudgetTotals
<1> QED BY <1>1 DEF Within

(* A bill keeps what is claimed within what is committed.                  *)
LEMMA BillsWithin ==
  ASSUME NEW a \in BudgetTotals, NEW b \in BudgetTotals, Within(a, b), NEW u \in Usage
  PROVE  /\ Replay!Billed(b, Costed(u)) \in BudgetTotals
         /\ Within(a, Replay!Billed(b, Costed(u)))
         /\ Within(Replay!Billed(a, Costed(u)), Replay!Billed(b, Costed(u)))
<1>1. /\ DispatchCost(u) \in Nat /\ u.input \in Nat /\ u.output \in Nat
      /\ a.calls \in Nat /\ a.input \in Nat /\ a.output \in Nat /\ a.cost \in Nat
      /\ b.calls \in Nat /\ b.input \in Nat /\ b.output \in Nat /\ b.cost \in Nat
  BY DispatchCostType DEF Usage, BudgetTotals
<1> QED BY <1>1 DEF Replay!Billed, Costed, Within, BudgetTotals

(* The journal after a node's step, and the stage it has reached.          *)
LEMMA NodeFollows ==
  ASSUME TypeOK, Reads, NEW n \in Nodes, task[n] \in {"waiting", "inflight"},
         NEW u \in Usage, NEW s, NEW events, NEW t, RecountsBy(n, u, s, events, t),
         NEW w, w = View'
  PROVE  /\ Written(events) => Followed(View, w, n, u, t) /\ w.seq = Len(journal')
         /\ SegmentFails(n, events) =>
              \E r : /\ Followed(View, w, n, u, r) /\ (r \in Paid => t \in Paid)
                     /\ w.seq = Len(journal')
<1> DEFINE v == View
<1>1. PICK stages : LeadsBy(n, u, s, events, t, stages)
  BY DEF RecountsBy, Leads
<1>2. /\ Chain(n, u, events, stages) /\ stages[1] = s /\ stages[Len(events) + 1] = t
      /\ \A i \in 1..(Len(events) + 1) : stages[i] \in Paid => t \in Paid
  BY <1>1 DEF LeadsBy
<1>3. s \in {"fresh", "open"} /\ Standing(v, n, s)
  BY DEF RecountsBy, Reads, StandsIn
<1>4. Role[n] = "judge" => v.decision = None
  BY DEF Reads, Ended
<1>5. /\ v = Replay!Fold(journal) /\ Sane(v) /\ v.seq = Len(journal)
      /\ journal \in Seq(Events)
  BY DEF Reads, View, TypeOK
<1>6. events \in Seq(NodeLevelEvents) /\ events \in Seq(Events) /\ Len(events) \in Nat
  BY <1>2 DEF Chain, Events
<1>7. w = Replay!Fold(journal')
  BY DEF View
<1> HIDE DEF v
<1>8. ASSUME NEW k \in 0..Len(events), journal' = journal \o SubSeq(events, 1, k)
      PROVE  Followed(v, w, n, u, stages[k + 1]) /\ w.seq = Len(journal) + k
  BY <1>2, <1>3, <1>4, <1>5, <1>7, <1>8, FollowAll
<1>9. ASSUME NEW k \in 0..Len(events), journal' = journal \o SubSeq(events, 1, k)
      PROVE  Len(journal') = Len(journal) + k
  <2>1. SubSeq(events, 1, k) \in Seq(Events) /\ Len(SubSeq(events, 1, k)) = k
    BY <1>6
  <2> QED BY <1>5, <1>9, <2>1
<1>10. CASE Written(events)
  <2>1. Len(events) \in 0..Len(events) /\ SubSeq(events, 1, Len(events)) = events
    BY <1>6
  <2>2. journal' = journal \o SubSeq(events, 1, Len(events))
    BY <1>10, <2>1 DEF Written
  <2> QED BY <1>2, <1>8, <1>9, <1>10, <2>1, <2>2 DEF v
<1>11. ASSUME SegmentFails(n, events)
       PROVE  \E r : /\ Followed(View, w, n, u, r) /\ (r \in Paid => t \in Paid)
                     /\ w.seq = Len(journal')
  <2>1. PICK k \in DOMAIN events, fault \in StorageFaults : FailsAt(events, k, fault)
    BY <1>11 DEF SegmentFails
  <2> DEFINE h == k - 1
  <2>2. h \in 0..Len(events) /\ h + 1 \in 1..(Len(events) + 1)
    BY <1>6
  <2>3. journal' = journal \o SubSeq(events, 1, h)
    BY <2>1 DEF FailsAt
  <2> HIDE DEF h
  <2>4. Followed(v, w, n, u, stages[h + 1]) /\ w.seq = Len(journal')
    BY <1>8, <1>9, <2>2, <2>3
  <2>5. stages[h + 1] \in Paid => t \in Paid
    BY <1>2, <2>2
  <2> QED BY <2>4, <2>5 DEF v
<1> QED BY <1>10, <1>11

(* So the journal can still be read.                                       *)
LEMMA NodeReads ==
  ASSUME TypeOK, BreachShows, OneJudge, AbsentIsApart, Reads, NEW n \in Nodes, Recounts(n)
  PROVE  Reads'
<1>1. task[n] \in {"waiting", "inflight"}
  BY DEF Recounts
<1>2. PICK u, s, events, t : u \in Usage /\ RecountsBy(n, u, s, events, t)
  BY DEF Recounts
<1> DEFINE v == View
           w == View'
<1>3. ASSUME NEW r, NEW next, Followed(v, w, n, u, r), w.seq = Len(journal'),
             task' = [task EXCEPT ![n] = next],
             raised' # {} \/ raised' = raised,
             (next = "failed" /\ raised' # {}) \/ Arrives(next, r),
             raised' # {} \/ (decided' <=> decided \/ r = "decided")
      PROVE  Reads'
  <2>1. Moves(v, w, n) /\ Sane(w) /\ Standing(w, n, r)
    BY <1>3 DEF Followed, Moves
  <2>2. /\ task'[n] = next
        /\ \A m \in Nodes \ {n} : task'[m] = task[m]
    BY <1>3 DEF TypeOK
  <2>3. \A m \in Nodes : StandsIn(v, m)
    BY DEF Reads
  <2>4. ASSUME NEW m \in Nodes \ {n}
        PROVE  /\ task'[m] = "waiting" => Standing(w, m, "fresh")
               /\ task'[m] = "inflight" => Standing(w, m, "open")
               /\ task'[m] = "completed" => Standing(w, m, "done")
               /\ task'[m] = "failed" /\ raised' = {} => Standing(w, m, "failed")
    <3>1. /\ task[m] = "waiting" => Standing(v, m, "fresh")
          /\ task[m] = "inflight" => Standing(v, m, "open")
          /\ task[m] = "completed" => Standing(v, m, "done")
          /\ task[m] = "failed" /\ raised = {} => Standing(v, m, "failed")
      BY <2>3 DEF StandsIn
    <3>2. \A a \in {"fresh", "open", "done", "failed"} : Standing(v, m, a) => Standing(w, m, a)
      BY <2>1, OthersStand
    <3> HIDE DEF v, w
    <3> QED BY <1>3, <2>2, <3>1, <3>2
  <2>5. /\ next = "waiting" => Standing(w, n, "fresh")
        /\ next = "inflight" => Standing(w, n, "open")
        /\ next = "completed" => Standing(w, n, "done")
        /\ next = "failed" /\ raised' = {} => Standing(w, n, "failed")
    <3>1. r \in {"done", "decided"} => Standing(w, n, "done")
      BY <2>1 DEF Standing
    <3>2. r \in {"failed", "settled"} => Standing(w, n, "failed")
      BY <2>1 DEF Standing
    <3>3. engineAbort => raised # {}
      BY DEF BreachShows
    <3> HIDE DEF v, w
    <3> QED BY <1>3, <2>1, <3>1, <3>2, <3>3 DEF Arrives
  <2>6. \A m \in Nodes : StandsIn(View, m)'
    <3> SUFFICES ASSUME NEW m \in Nodes PROVE StandsIn(View, m)'
      OBVIOUS
    <3>1. CASE m = n
      BY <2>2, <2>5, <3>1 DEF StandsIn
    <3>2. CASE m # n
      BY <2>4, <3>2 DEF StandsIn
    <3> QED BY <3>1, <3>2
  <2>7. w.decision = IF r = "decided" THEN Artifact("output", n) ELSE v.decision
    BY <1>3 DEF Followed
  <2>8. Artifact("output", n) # None
    <3>1. Artifact("output", n) \in Artifacts
      BY DEF Artifacts, Artifact
    <3> QED BY <3>1 DEF AbsentIsApart
  <2>9. ASSUME NEW m \in Nodes, Role[m] = "judge", ~Ended(m)' PROVE w.decision = None
    <3>1. task'[m] \notin {"completed", "failed"}
      BY <2>9 DEF Ended
    <3>2. ~Ended(m)
      BY <1>1, <2>2, <3>1 DEF Ended
    <3>3. v.decision = None
      BY <2>9, <3>2 DEF Reads
    <3>4. r # "decided"
      <4>1. CASE m = n
        <5>1. next = "inflight"
          BY <1>3, <2>2, <3>1, <4>1 DEF Arrives
        <5> QED BY <1>3, <5>1 DEF Arrives
      <4>2. CASE m # n
        <5>1. Role[n] # "judge"
          BY <2>9, <4>2 DEF OneJudge
        <5> QED BY <2>1, <5>1 DEF Standing
      <4> QED BY <4>1, <4>2
    <3> QED BY <2>7, <3>3, <3>4
  <2>10. raised' = {} => (decided' <=> w.decision # None)
    <3> HAVE raised' = {}
    <3>1. raised = {} /\ (decided' <=> decided \/ r = "decided")
      BY <1>3
    <3>2. decided <=> v.decision # None
      BY <3>1 DEF Reads
    <3> HIDE DEF v, w
    <3> QED BY <2>7, <2>8, <3>1, <3>2
  <2> QED BY <1>3, <2>1, <2>6, <2>9, <2>10 DEF Reads
<1>4. /\ Written(events) => Followed(v, w, n, u, t) /\ w.seq = Len(journal')
      /\ SegmentFails(n, events) =>
           \E r : /\ Followed(v, w, n, u, r) /\ (r \in Paid => t \in Paid)
                  /\ w.seq = Len(journal')
  BY <1>1, <1>2, NodeFollows
<1> HIDE DEF v, w
<1>5. CASE SegmentFails(n, events)
  <2>1. PICK r : Followed(v, w, n, u, r) /\ w.seq = Len(journal')
    BY <1>4, <1>5
  <2>2. task' = [task EXCEPT ![n] = "failed"] /\ raised' # {}
    BY <1>5 DEF SegmentFails
  <2> QED BY <1>3, <2>1, <2>2
<1>6. CASE ~SegmentFails(n, events)
  <2>1. /\ Written(events) /\ raised' = raised
        /\ (decided' <=> decided \/ t = "decided")
    BY <1>2, <1>6 DEF RecountsBy
  <2>2. PICK next : task' = [task EXCEPT ![n] = next] /\ Arrives(next, t)
    BY <1>2, <1>6 DEF RecountsBy
  <2> QED BY <1>3, <1>4, <2>1, <2>2
<1> QED BY <1>5, <1>6

(* And accounts for the spending of the ledger.                            *)
LEMMA NodeAccounts ==
  ASSUME TypeOK, TypeOK', Reads, JournalAccountsForSpending, NEW n \in Nodes, Recounts(n)
  PROVE  JournalAccountsForSpending'
<1> DEFINE a == View.totals
           b == ledger.committed
           c == View'.totals
           d == ledger'.committed
<1>1. task[n] \in {"waiting", "inflight"}
  BY DEF Recounts
<1>2. PICK u, s, events, t : u \in Usage /\ RecountsBy(n, u, s, events, t)
  BY DEF Recounts
<1>3. a \in BudgetTotals /\ b \in BudgetTotals /\ Totals(ledger) = b
  BY DEF Reads, Sane, TypeOK, Ledger, Totals
<1>4. d \in BudgetTotals /\ Totals(ledger)' = d
  BY DEF TypeOK, Ledger, Totals
<1>5. Within(a, b) /\ (raised = {} => a = b)
  BY <1>3, WithinEach DEF JournalAccountsForSpending
<1>6. \/ Written(events) /\ raised' = raised
      \/ SegmentFails(n, events) /\ raised' # {}
  <2>1. SegmentFails(n, events) => raised' # {}
    BY DEF SegmentFails
  <2> QED BY <1>2, <2>1 DEF RecountsBy
<1>7. PICK r : /\ Followed(View, View', n, u, r) /\ (r \in Paid => t \in Paid)
               /\ raised' # {} \/ (r = t /\ raised' = raised)
  BY <1>1, <1>2, <1>6, NodeFollows
<1>8. c = IF r \in Paid THEN Replay!Billed(a, Costed(u)) ELSE a
  BY <1>7 DEF Followed
<1>9. d = IF t \in Paid THEN Replay!Billed(b, Costed(u)) ELSE b
  BY <1>2 DEF RecountsBy
<1>10. c \in BudgetTotals
  BY <1>7 DEF Followed, Moves, Sane
<1> HIDE DEF a, b, c, d
<1>11. Within(c, d)
  BY <1>2, <1>3, <1>5, <1>7, <1>8, <1>9, BillsWithin
<1>12. raised' = {} => c = d
  BY <1>5, <1>7, <1>8, <1>9
<1>13. \A x \in DOMAIN c : c[x] <= d[x]
  BY <1>10, <1>11, WithinEach
<1>14. c = View'.totals
  BY DEF c
<1> QED BY <1>4, <1>12, <1>13, <1>14 DEF JournalAccountsForSpending

-----------------------------------------------------------------------------
(* The file and the journal.                                               *)

Quiet(frames) == \A i \in DOMAIN frames : frames[i].event.type # "run.finished"

Whole == file = Replay!Frames(0, journal)

(* The frames of a journal and of what is appended to it.                  *)
LEMMA FramesConcat ==
  ASSUME NEW S, NEW a \in Seq(S), NEW b \in Seq(S)
  PROVE  Replay!Frames(0, a) \o Replay!Frames(Len(a), b) = Replay!Frames(0, a \o b)
<1> DEFINE x == Replay!Frames(0, a)
           y == Replay!Frames(Len(a), b)
           z == Replay!Frames(0, a \o b)
           F == [seq : Nat, event : S]
<1>1. /\ a \o b \in Seq(S)
      /\ Len(a) \in Nat /\ Len(b) \in Nat /\ Len(a \o b) = Len(a) + Len(b)
      /\ DOMAIN a = 1..Len(a) /\ DOMAIN b = 1..Len(b)
      /\ DOMAIN (a \o b) = 1..(Len(a) + Len(b))
      /\ \A i \in 1..Len(a) : (a \o b)[i] = a[i]
      /\ \A i \in 1..Len(b) : (a \o b)[Len(a) + i] = b[i]
  OBVIOUS
<1>2. x \in Seq(F) /\ y \in Seq(F) /\ z \in Seq(F)
  BY <1>1, FramesType
<1>3. /\ DOMAIN x = 1..Len(a)
      /\ \A i \in 1..Len(a) : x[i] = [seq |-> 0 + i, event |-> a[i]]
  BY <1>1 DEF Replay!Frames
<1>4. /\ DOMAIN y = 1..Len(b)
      /\ \A i \in 1..Len(b) : y[i] = [seq |-> Len(a) + i, event |-> b[i]]
  BY <1>1 DEF Replay!Frames
<1> DEFINE ab == a \o b
<1>5. /\ DOMAIN z = 1..(Len(a) + Len(b))
      /\ \A i \in 1..(Len(a) + Len(b)) : z[i] = [seq |-> 0 + i, event |-> ab[i]]
  <2>1. DOMAIN ab = 1..(Len(a) + Len(b)) /\ z = Replay!Frames(0, ab)
    BY <1>1
  <2> HIDE DEF ab
  <2> QED BY <2>1 DEF Replay!Frames
<1>6. /\ \A i \in 1..Len(a) : ab[i] = a[i]
      /\ \A i \in 1..Len(b) : ab[Len(a) + i] = b[i]
  BY <1>1
<1> HIDE DEF x, y, z, ab
<1>7. Len(x) = Len(a) /\ Len(y) = Len(b) /\ Len(z) = Len(a) + Len(b)
  BY <1>1, <1>2, <1>3, <1>4, <1>5
<1>8. /\ x \o y \in Seq(F) /\ Len(x \o y) = Len(a) + Len(b)
      /\ \A i \in 1..Len(a) : (x \o y)[i] = x[i]
      /\ \A i \in 1..Len(b) : (x \o y)[Len(a) + i] = y[i]
  BY <1>2, <1>7
<1> DEFINE xy == x \o y
<1>9. ASSUME NEW i \in 1..(Len(a) + Len(b)) PROVE xy[i] = z[i]
  <2>1. CASE i <= Len(a)
    <3>1. i \in 1..Len(a)
      BY <1>1, <2>1
    <3> QED BY <1>3, <1>5, <1>6, <1>8, <3>1
  <2>2. CASE ~(i <= Len(a))
    <3> DEFINE h == i - Len(a)
    <3>1. h \in 1..Len(b) /\ i = Len(a) + h /\ 0 + (Len(a) + h) = Len(a) + h
      BY <1>1, <2>2
    <3> HIDE DEF h
    <3>2. xy[i] = y[h] /\ y[h] = [seq |-> Len(a) + h, event |-> b[h]]
      BY <1>4, <1>8, <3>1
    <3>3. z[i] = [seq |-> 0 + i, event |-> ab[i]] /\ ab[i] = b[h]
      BY <1>5, <1>6, <3>1
    <3> QED BY <3>1, <3>2, <3>3
  <2> QED BY <2>1, <2>2
<1>10. xy \in Seq(F) /\ Len(xy) = Len(a) + Len(b)
  BY <1>8
<1> HIDE DEF xy
<1>11. xy = z
  BY <1>2, <1>7, <1>9, <1>10
<1> QED BY <1>11 DEF xy, x, y, z

(* Frames without a terminal event, appended to such frames.               *)
LEMMA QuietConcat ==
  ASSUME NEW f \in Seq(FileFrames), Quiet(f), NEW k \in Nat, NEW events \in Seq(Events),
         \A i \in DOMAIN events : events[i].type # "run.finished"
  PROVE  /\ f \o Replay!Frames(k, events) \in Seq(FileFrames)
         /\ Quiet(f \o Replay!Frames(k, events))
<1> DEFINE g == Replay!Frames(k, events)
<1>1. g \in Seq(FileFrames)
  BY FramesType DEF FileFrames
<1>2. /\ DOMAIN g = DOMAIN events
      /\ \A i \in DOMAIN events : g[i] = [seq |-> k + i, event |-> events[i]]
  BY DEF Replay!Frames
<1> HIDE DEF g
<1>3. \A i \in DOMAIN g : g[i].event.type # "run.finished"
  BY <1>2
<1> DEFINE h == f \o g
<1>4. /\ h \in Seq(FileFrames) /\ Len(h) = Len(f) + Len(g)
      /\ Len(f) \in Nat /\ Len(g) \in Nat
      /\ DOMAIN f = 1..Len(f) /\ DOMAIN g = 1..Len(g) /\ DOMAIN h = 1..Len(h)
      /\ \A i \in 1..Len(f) : h[i] = f[i]
      /\ \A i \in 1..Len(g) : h[Len(f) + i] = g[i]
  BY <1>1
<1> HIDE DEF h
<1>5. ASSUME NEW i \in DOMAIN h PROVE h[i].event.type # "run.finished"
  <2>1. CASE i <= Len(f)
    <3>1. i \in DOMAIN f /\ h[i] = f[i]
      BY <1>4, <2>1
    <3> QED BY <3>1 DEF Quiet
  <2>2. CASE ~(i <= Len(f))
    <3>1. i - Len(f) \in DOMAIN g /\ i = Len(f) + (i - Len(f))
      BY <1>4, <2>2
    <3>2. h[i] = g[i - Len(f)]
      BY <1>4, <3>1
    <3> QED BY <1>3, <3>1, <3>2
  <2> QED BY <2>1, <2>2
<1>6. Quiet(h)
  BY <1>5 DEF Quiet
<1> QED BY <1>4, <1>6 DEF h, g

(* A node's step keeps the file quiet, and while no coroutine has raised   *)
(* the file is the journal, line by line.                                  *)
LEMMA NodeFiles ==
  ASSUME TypeOK, Quiet(file), raised = {} => Whole, NEW n \in Nodes, Recounts(n)
  PROVE  Quiet(file') /\ (raised' = {} => Whole')
<1>1. PICK u, s, events, t : u \in Usage /\ RecountsBy(n, u, s, events, t)
  BY DEF Recounts
<1>2. events \in Seq(NodeLevelEvents)
  BY <1>1 DEF RecountsBy, Leads, LeadsBy, Chain
<1>3. /\ journal \in Seq(Events) /\ file \in Seq(FileFrames) /\ Len(journal) \in Nat
      /\ events \in Seq(Events)
  BY <1>2 DEF TypeOK, Events, FileFrames
<1>4. \A e \in NodeLevelEvents : e.type # "run.finished"
  BY DEF NodeLevelEvents
<1>5. CASE Written(events) /\ raised' = raised
  <2>1. journal' = journal \o events /\ file' = file \o Replay!Frames(Len(journal), events)
    BY <1>5 DEF Written
  <2>2. \A i \in DOMAIN events : events[i].type # "run.finished"
    BY <1>2, <1>4
  <2>3. Quiet(file')
    BY <1>3, <2>1, <2>2, QuietConcat
  <2>4. raised' = {} => Whole'
    BY <1>3, <1>5, <2>1, FramesConcat DEF Whole
  <2> QED BY <2>3, <2>4
<1>6. CASE SegmentFails(n, events)
  <2>1. PICK k \in DOMAIN events, fault \in StorageFaults : FailsAt(events, k, fault)
    BY <1>6 DEF SegmentFails
  <2>2. raised' # {}
    BY <1>6 DEF SegmentFails
  <2> DEFINE done == SubSeq(events, 1, k - 1)
             left == IF fault = "kept" THEN <<events[k]>> ELSE << >>
  <2>3. done \in Seq(NodeLevelEvents) /\ left \in Seq(NodeLevelEvents)
    BY <1>2
  <2>4. /\ done \in Seq(Events) /\ left \in Seq(Events)
        /\ \A i \in DOMAIN done : done[i].type # "run.finished"
        /\ \A i \in DOMAIN left : left[i].type # "run.finished"
    <3> HIDE DEF done, left
    <3> QED BY <1>4, <2>3 DEF Events
  <2>5. file' = (file \o Replay!Frames(Len(journal), done))
                   \o Replay!Frames(Len(journal) + k - 1, left)
    BY <2>1 DEF FailsAt
  <2>6. Len(journal) + k - 1 \in Nat
    BY <1>2, <1>3
  <2> HIDE DEF done, left
  <2>7. /\ file \o Replay!Frames(Len(journal), done) \in Seq(FileFrames)
        /\ Quiet(file \o Replay!Frames(Len(journal), done))
    BY <1>3, <2>4, QuietConcat
  <2>8. Quiet(file')
    BY <2>4, <2>5, <2>6, <2>7, QuietConcat
  <2> QED BY <2>2, <2>8
<1> QED BY <1>1, <1>5, <1>6 DEF RecountsBy

-----------------------------------------------------------------------------
(* The first event and the last.                                           *)

(* The validator's finite sets are those of the plan.                      *)
LEMMA ReplaySets == \A S : Replay!Cardinality(S) = Cardinality(S)
BY DEF Replay!Cardinality, Cardinality, Replay!IsFiniteSet, IsFiniteSet

(* The view before the first event.                                        *)
LEMMA FoldEmpty == Replay!Fold(<< >>) = Replay!EmptyView
<1> DEFINE frames == Replay!Frames(0, << >>)
<1>1. << >> \in Seq(Events)
  OBVIOUS
<1>2. frames \in Seq(FileFrames)
  BY <1>1, FramesType DEF FileFrames
<1>3. DOMAIN frames = {}
  BY DEF Replay!Frames
<1> HIDE DEF frames
<1>4. frames = << >>
  BY <1>2, <1>3
<1> QED BY <1>4, FoldNone DEF Replay!Fold, frames

(* The run is created: its reader sees a run under way and no node.        *)
LEMMA CreatedFolds ==
  ASSUME Nodes # {}, NEW v, v = Replay!Fold(<<RunCreated>>)
  PROVE  /\ Sane(v) /\ v.seq = 1 /\ v.totals = Replay!ZeroTotals /\ v.decision = None
         /\ \A n \in Nodes : Standing(v, n, "fresh")
<1> DEFINE e == RunCreated
           z == Replay!EmptyView
           frame == [seq |-> 1, event |-> e]
<1>1. e \in Events /\ e.type = "run.created" /\ << >> \in Seq(Events)
  BY DEF RunCreated, Events, RunLevelEvents
<1>2. <<e>> = Append(<< >>, e) /\ Len(<< >>) + 1 = 1
  OBVIOUS
<1>3. v = Replay!FoldFrame(z, frame)
  <2> HIDE DEF e, z
  <2>1. Replay!Fold(<<e>>) = Replay!FoldFrame(Replay!Fold(<< >>), [seq |-> Len(<< >>) + 1, event |-> e])
    BY <1>1, <1>2, FoldOne
  <2> QED BY <1>2, <2>1, FoldEmpty DEF e, z
<1>4. Cardinality(Nodes) \in Nat /\ Cardinality(Nodes) # 0
  BY PlanAssumption, FS_CardinalityType, FS_EmptySet
<1>5. z.status = "created" /\ z.rejected = FALSE /\ z.seq = 0
  BY DEF Replay!EmptyView
<1> HIDE DEF z
<1>6. Replay!Accepts(z, e)
  <2>1. Cardinality(Nodes) >= 1
    BY <1>4
  <2> HIDE DEF e
  <2> QED BY <1>1, <1>5, <2>1 DEF Replay!Accepts
<1>7. frame.seq = z.seq + 1 /\ frame.event = e /\ ~z.rejected
  BY <1>5
<1> HIDE DEF e
<1>8. Replay!Applied(z, e) = [z EXCEPT !.status = "running"]
  BY <1>1 DEF Replay!Applied
<1>9. v = [[z EXCEPT !.status = "running"] EXCEPT !.seq = 1]
  <2>1. v = [Replay!Applied(z, frame.event) EXCEPT !.seq = frame.seq]
    BY <1>3, <1>6, <1>7 DEF Replay!FoldFrame
  <2> QED BY <1>7, <1>8, <2>1
<1>10. /\ IsRecord(v, ViewFields) /\ v.rejected = FALSE /\ v.status = "running" /\ v.seq = 1
       /\ v.nodes = << >> /\ v.open = << >> /\ v.ops = {}
       /\ v.totals = Replay!ZeroTotals /\ v.decision = None
  BY <1>9 DEF z, Replay!EmptyView, IsRecord, ViewFields
<1>11. DOMAIN v.nodes = {} /\ DOMAIN v.open = {} /\ IsFunction(v.nodes) /\ IsFunction(v.open)
  BY <1>10 DEF IsFunction
<1>12. Replay!ZeroTotals \in BudgetTotals
  BY DEF Replay!ZeroTotals, BudgetTotals
<1>13. Sane(v)
  BY <1>10, <1>11, <1>12 DEF Sane
<1>14. \A n \in Nodes : Standing(v, n, "fresh")
  BY <1>10, <1>11 DEF Standing, Opened
<1> QED BY <1>10, <1>13, <1>14

(* When every node has ended by its outcome, the journal tells of a        *)
(* failure exactly if one has failed.                                      *)
LEMMA FailuresTold ==
  ASSUME TypeOK, BreachShows, Told, raised = {}, AllEnded
  PROVE  AnyFailure <=> \E n \in Nodes : task[n] = "failed"
<1>1. ASSUME NEW n \in Nodes, task[n] = "failed" PROVE AnyFailure
  <2>1. "node.failed" \in NodeEvents(n)
    BY <1>1 DEF Told, ToldOf, BreachShows
  <2> QED BY <2>1 DEF NodeEvents, AnyFailure
<1>2. ASSUME AnyFailure PROVE \E n \in Nodes : task[n] = "failed"
  <2>1. PICK i \in DOMAIN journal : journal[i].type = "node.failed"
    BY <1>2 DEF AnyFailure
  <2>2. journal[i] \in Events
    BY DEF TypeOK
  <2>3. journal[i].node \in Nodes
    BY <2>1, <2>2 DEF Events, NodeLevelEvents, RunLevelEvents
  <2>4. "node.failed" \in NodeEvents(journal[i].node)
    BY <2>1 DEF NodeEvents
  <2>5. task[journal[i].node] \in {"completed", "failed"}
    BY <2>3 DEF AllEnded, Ended
  <2>6. task[journal[i].node] # "completed"
    BY <2>3, <2>4 DEF Told, ToldOf
  <2> QED BY <2>3, <2>5, <2>6
<1> QED BY <1>1, <1>2

(* The terminal event, without its wording.                                *)
LEMMA TerminalEvent ==
  ASSUME None # "node failure"
  PROVE  /\ RunFinished.type = "run.finished"
         /\ RunFinished.status = IF AnyFailure THEN "failed" ELSE "completed"
         /\ RunFinished.reason = None <=> ~AnyFailure
         /\ RunFinished.totals = Totals(ledger)
<1> DEFINE why == IF AnyFailure THEN "node failure" ELSE None
           e == [ type |-> "run.finished",
                  status |-> IF AnyFailure THEN "failed" ELSE "completed",
                  reason |-> why, totals |-> Totals(ledger) ]
<1>1. RunFinished = e
  BY Zenon DEF RunFinished
<1>2. why = None <=> ~AnyFailure
  BY Zenon
<1> HIDE DEF why
<1>3. /\ e.type = "run.finished" /\ e.reason = why /\ e.totals = Totals(ledger)
      /\ e.status = IF AnyFailure THEN "failed" ELSE "completed"
  OBVIOUS
<1> HIDE DEF e
<1> QED BY <1>1, <1>2, <1>3

(* The terminal event of a run whose nodes have all ended is accepted, says *)
(* what the reader knows and changes neither totals nor decision.          *)
LEMMA FinishedFolds ==
  ASSUME TypeOK, BreachShows, Told, AbsentIsApart, Reads, JournalAccountsForSpending,
         raised = {}, AllEnded, NEW w, w = Replay!Fold(Append(journal, RunFinished))
  PROVE  /\ w.rejected = FALSE /\ w.status \in {"completed", "failed"}
         /\ w.totals = View.totals /\ w.decision = View.decision
<1> DEFINE v == View
           e == RunFinished
<1>1. /\ e.type = "run.finished" /\ e.totals = Totals(ledger)
      /\ e.status = IF AnyFailure THEN "failed" ELSE "completed"
      /\ e.reason = None <=> ~AnyFailure
  BY TerminalEvent DEF AbsentIsApart
<1>2. e \in Events /\ journal \in Seq(Events)
  BY RunEventTypes DEF TypeOK
<1>3. Sane(v) /\ v.seq = Len(journal) /\ v = Replay!Fold(journal)
  BY DEF Reads, View
<1>4. \A n \in Nodes : /\ task[n] \in {"completed", "failed"}
                       /\ task[n] = "completed" => Standing(v, n, "done")
                       /\ task[n] = "failed" => Standing(v, n, "failed")
  BY DEF Reads, StandsIn, AllEnded, Ended
<1>5. AnyFailure <=> \E n \in Nodes : task[n] = "failed"
  BY FailuresTold
<1>6. v.totals = ledger.committed /\ Totals(ledger) = ledger.committed
  BY DEF JournalAccountsForSpending, Totals
<1>7. ~AnyFailure => ~Breached(ledger)
  BY DEF BreachShows
<1> HIDE DEF v, e
<1>8. DOMAIN v.nodes = Nodes
  <2>1. \A n \in Nodes : n \in DOMAIN v.nodes
    BY <1>4 DEF Standing
  <2> QED BY <1>3, <2>1 DEF Sane
<1>9. /\ Replay!NodesWith(v, "completed") = {n \in Nodes : task[n] = "completed"}
      /\ Replay!NodesWith(v, "failed") = {n \in Nodes : task[n] = "failed"}
  <2>1. \A n \in Nodes : v.nodes[n].status = task[n]
    BY <1>4 DEF Standing
  <2> QED BY <1>8, <2>1 DEF Replay!NodesWith
<1>10. ~AnyFailure => DOMAIN v.open = {}
  <2> HAVE ~AnyFailure
  <2>1. \A n \in Nodes : <<n, n>> \notin DOMAIN v.open
    BY <1>4, <1>5 DEF Standing, Opened
  <2> QED BY <1>3, <2>1 DEF Sane
<1>11. ~AnyFailure => /\ v.totals.calls <= MaxCalls
                      /\ v.totals.input + v.totals.output <= MaxTotalTokens
                      /\ v.totals.cost <= MaxCostMicrousd
  <2> HAVE ~AnyFailure
  <2>1. v.totals \in BudgetTotals
    BY <1>3 DEF Sane
  <2> QED BY <1>6, <1>7, <2>1, BudgetAssumption DEF Breached, BudgetTotals
<1>12. Replay!Cardinality(DOMAIN v.nodes) = Cardinality(Nodes)
  BY <1>8, ReplaySets
<1>13. Replay!AcceptsRunFinished(v, e)
  BY <1>1, <1>4, <1>5, <1>6, <1>8, <1>9, <1>10, <1>11, <1>12 DEF Replay!AcceptsRunFinished
<1>14. Replay!Accepts(v, e)
  BY <1>1, <1>3, <1>13, RuleOf
<1>15. w = After(v, e)
  <2>1. Replay!Fold(Append(journal, e))
          = Replay!FoldFrame(Replay!Fold(journal), [seq |-> Len(journal) + 1, event |-> e])
    BY <1>2, FoldOne
  <2> QED BY <1>3, <2>1 DEF After, e
<1>16. w = [[v EXCEPT !.status = e.status] EXCEPT !.seq = v.seq + 1]
  <2>1. After(v, e) = [Replay!Applied(v, e) EXCEPT !.seq = v.seq + 1]
    BY <1>3, <1>14, AfterAccepted
  <2>2. Replay!Applied(v, e) = [v EXCEPT !.status = e.status]
    BY <1>1 DEF Replay!Applied
  <2> QED BY <1>15, <2>1, <2>2
<1>17. /\ w.rejected = v.rejected /\ w.status = e.status /\ w.totals = v.totals
       /\ w.decision = v.decision
  BY <1>3, <1>16 DEF Sane, IsRecord, ViewFields
<1>18. v.rejected = FALSE
  BY <1>3 DEF Sane
<1> QED BY <1>1, <1>17, <1>18 DEF v

-----------------------------------------------------------------------------
(* The journal and its file, over a run.                                   *)

(* The three properties, and what they rest on: until the terminal event   *)
(* the view can be read, the file holds none, and it is the journal while  *)
(* no coroutine has raised.                                                *)
Narrates ==
  /\ phase = "created" =>
       /\ journal = << >> /\ file = << >> /\ raised = {} /\ ~decided
       /\ \A n \in Nodes : task[n] = "waiting"
  /\ phase = "running" => Reads /\ Quiet(file) /\ (raised = {} => Whole)
  /\ JournalReplays /\ JournalAccountsForSpending /\ TerminalFileReplays

(* A read journal is a valid prefix.                                       *)
LEMMA ReadsReplay ==
  ASSUME NEW j \in Seq(Events), NEW v, v = Replay!Fold(j), v.rejected = FALSE, j # << >>
  PROVE  /\ Replay!ReplaysPartially(Replay!Frames(0, j))
         /\ v.status \in {"completed", "failed"} => Replay!Replays(Replay!Frames(0, j))
<1>1. DOMAIN Replay!Frames(0, j) = DOMAIN j
  BY DEF Replay!Frames
<1>2. 1 \in DOMAIN j /\ DOMAIN << >> = {}
  OBVIOUS
<1>3. Replay!Frames(0, j) # << >>
  BY <1>1, <1>2
<1> QED BY <1>3 DEF Replay!Fold, Replay!ReplaysPartially, Replay!Replays

(* A run-level event that is not appended reaches the file or not.         *)
LEMMA RunEventFails ==
  ASSUME TypeOK, NEW e \in Events, NEW fault, FailsAt(<<e>>, 1, fault)
  PROVE  /\ journal' = journal
         /\ file' = file \/ file' = file \o Replay!Frames(Len(journal), <<e>>)
<1>1. journal \in Seq(Events) /\ file \in Seq(FileFrames) /\ Len(journal) \in Nat
  BY DEF TypeOK, FileFrames
<1>2. SubSeq(<<e>>, 1, 1 - 1) = << >> /\ <<e>>[1] = e /\ Len(journal) + 1 - 1 = Len(journal)
  BY <1>1
<1>3. /\ Replay!Frames(Len(journal), << >>) = << >>
      /\ Replay!Frames(Len(journal), <<e>>) \in Seq(FileFrames)
  <2>1. << >> \in Seq(Events) /\ <<e>> \in Seq(Events)
    OBVIOUS
  <2>2. /\ Replay!Frames(Len(journal), << >>) \in Seq(FileFrames)
        /\ Replay!Frames(Len(journal), <<e>>) \in Seq(FileFrames)
    BY <1>1, <2>1, FramesType DEF FileFrames
  <2>3. DOMAIN Replay!Frames(Len(journal), << >>) = {}
    BY DEF Replay!Frames
  <2> QED BY <2>2, <2>3
<1>4. /\ journal' = journal \o << >>
      /\ \/ file' = (file \o << >>) \o << >>
         \/ file' = (file \o << >>) \o Replay!Frames(Len(journal), <<e>>)
  BY <1>2, <1>3 DEF FailsAt
<1> DEFINE line == Replay!Frames(Len(journal), <<e>>)
<1> HIDE DEF line
<1>5. journal \o << >> = journal /\ (file \o << >>) \o << >> = file
  BY <1>1
<1>6. (file \o << >>) \o line = file \o line
  BY <1>1
<1> QED BY <1>4, <1>5, <1>6 DEF line

(* The run opens.                                                          *)
LEMMA OpenNarrates ==
  ASSUME TypeOK, Nodes # {}, Narrates, Open
  PROVE  Narrates'
<1>1. /\ phase = "created"
      /\ journal = << >> /\ file = << >>
      /\ raised = {} /\ raised' = raised /\ decided = FALSE /\ decided' = decided
      /\ ledger' = ledger /\ task' = task /\ \A n \in Nodes : task[n] = "waiting"
  BY DEF Open, Narrates, TypeOK
<1>2. RunCreated \in Events /\ RunCreated.type = "run.created"
  BY RunEventTypes DEF RunCreated
<1>3. << >> \in Seq(Events) /\ <<RunCreated>> \in Seq(Events) /\ << >> \in Seq(FileFrames)
      /\ Len(<<RunCreated>>) = 1 /\ Len(<< >>) = 0 /\ <<RunCreated>>[1] = RunCreated
  BY <1>2
<1>4. Quiet(Replay!Frames(0, <<RunCreated>>))
  BY <1>2, <1>3 DEF Quiet, Replay!Frames
<1>5. Replay!ZeroTotals = Totals(ledger)
  <2>1. View = Replay!EmptyView /\ View.totals = Replay!ZeroTotals
    BY <1>1, FoldEmpty DEF View, Replay!EmptyView
  <2> QED BY <1>1, <2>1 DEF Narrates, JournalAccountsForSpending
<1>6. CASE Written(<<RunCreated>>) /\ phase' = "running"
  <2>1. journal' = <<RunCreated>> /\ file' = Replay!Frames(0, <<RunCreated>>)
    <3>1. Replay!Frames(0, <<RunCreated>>) \in Seq(FileFrames)
      BY <1>3, FramesType DEF FileFrames
    <3>2. journal' = << >> \o <<RunCreated>> /\ file' = << >> \o Replay!Frames(0, <<RunCreated>>)
      BY <1>1, <1>3, <1>6 DEF Written
    <3> QED BY <1>2, <3>1, <3>2
  <2> DEFINE w == View'
  <2>2. w = Replay!Fold(<<RunCreated>>)
    BY <2>1 DEF View
  <2> HIDE DEF w
  <2>3. /\ Sane(w) /\ w.seq = 1 /\ w.totals = Replay!ZeroTotals /\ w.decision = None
        /\ \A n \in Nodes : Standing(w, n, "fresh")
    BY <2>2, CreatedFolds
  <2>4. Reads'
    <3>1. \A n \in Nodes : task'[n] = "waiting" /\ task'[n] # "inflight"
                           /\ task'[n] # "completed" /\ task'[n] # "failed"
      BY <1>1
    <3> QED BY <1>1, <1>3, <2>1, <2>3, <3>1 DEF Reads, StandsIn, w
  <2>5. JournalReplays'
    <3>1. w.rejected = FALSE
      BY <2>3 DEF Sane
    <3>2. Replay!ReplaysPartially(Replay!Frames(0, <<RunCreated>>))
      BY <1>3, <2>2, <3>1, ReadsReplay
    <3> QED BY <1>6, <2>1, <3>2 DEF JournalReplays, Concluded
  <2>6. JournalAccountsForSpending'
    <3>1. Totals(ledger)' = Totals(ledger)
      BY <1>1 DEF Totals
    <3>2. w.totals \in BudgetTotals
      BY <2>3 DEF Sane
    <3>3. w.totals = Totals(ledger)'
      BY <1>5, <2>3, <3>1
    <3>4. \A d \in DOMAIN w.totals : w.totals[d] <= w.totals[d]
      BY <3>2 DEF BudgetTotals
    <3> QED BY <3>3, <3>4 DEF JournalAccountsForSpending, w
  <2>7. TerminalFileReplays'
    BY <1>4, <2>1 DEF TerminalFileReplays, Quiet
  <2> QED BY <1>1, <1>4, <1>6, <2>1, <2>4, <2>5, <2>6, <2>7 DEF Narrates, Concluded, Whole
<1>7. CASE phase' = "raised" /\ \E fault \in StorageFaults : FailsAt(<<RunCreated>>, 1, fault)
  <2>1. journal' = journal /\ (file' = file \/ file' = file \o Replay!Frames(Len(journal), <<RunCreated>>))
    BY <1>2, <1>7, RunEventFails
  <2>2. Quiet(file')
    <3>1. Replay!Frames(0, <<RunCreated>>) \in Seq(FileFrames)
      BY <1>3, FramesType DEF FileFrames
    <3>2. file' = << >> \/ file' = Replay!Frames(0, <<RunCreated>>)
      BY <1>1, <1>3, <2>1, <3>1
    <3> QED BY <1>4, <3>2 DEF Quiet
  <2>3. View' = View /\ Totals(ledger)' = Totals(ledger)
    BY <1>1, <2>1 DEF View, Totals
  <2>4. TerminalFileReplays'
    BY <2>2 DEF TerminalFileReplays, Quiet
  <2>5. JournalReplays'
    BY <1>1, <1>7, <2>1 DEF JournalReplays, Concluded
  <2>6. JournalAccountsForSpending'
    BY <1>1, <2>3 DEF Narrates, JournalAccountsForSpending
  <2> QED BY <1>7, <2>4, <2>5, <2>6 DEF Narrates, Concluded
<1> QED BY <1>6, <1>7 DEF Open

(* A node takes a step.                                                    *)
LEMMA NodeNarrates ==
  ASSUME TypeOK, TypeOK', Encodable, OneJudge, AbsentIsApart, BreachShows, Narrates,
         NEW n \in Nodes, NodeStep(n)
  PROVE  Narrates'
<1>1. Recounts(n)
  BY NodeRecounts
<1>2. phase = "running" /\ phase' = phase
  BY <1>1 DEF Recounts
<1>3. Reads /\ Quiet(file) /\ (raised = {} => Whole) /\ JournalAccountsForSpending
  BY <1>2 DEF Narrates
<1>4. Reads'
  BY <1>1, <1>3, NodeReads
<1>5. JournalAccountsForSpending'
  BY <1>1, <1>3, NodeAccounts
<1>6. Quiet(file') /\ (raised' = {} => Whole')
  BY <1>1, <1>3, NodeFiles
<1>7. JournalReplays'
  <2> DEFINE w == View'  j == journal'
  <2>1. w.rejected = FALSE /\ w = Replay!Fold(j) /\ j \in Seq(Events)
    BY <1>4 DEF Reads, Sane, View, TypeOK
  <2> HIDE DEF w, j
  <2>2. j # << >> => Replay!ReplaysPartially(Replay!Frames(0, j))
    BY <2>1, ReadsReplay
  <2> QED BY <1>2, <2>2 DEF JournalReplays, Concluded, j
<1>8. TerminalFileReplays'
  BY <1>6 DEF TerminalFileReplays, Quiet
<1> QED BY <1>2, <1>4, <1>5, <1>6, <1>7, <1>8 DEF Narrates, Concluded, Quiet

(* The run finishes, or its terminal event cannot be written.              *)
LEMMA FinishNarrates ==
  ASSUME TypeOK, AbsentIsApart, BreachShows, Told, Narrates, Finish
  PROVE  Narrates'
<1> DEFINE e == RunFinished
           j == Append(journal, e)
           w == Replay!Fold(j)
<1>1. /\ phase = "running" /\ raised = {} /\ raised' = raised /\ AllEnded
      /\ ledger' = ledger
  BY DEF Finish
<1>2. Reads /\ Quiet(file) /\ Whole /\ JournalAccountsForSpending
  BY <1>1 DEF Narrates
<1>3. /\ w.rejected = FALSE /\ w.status \in {"completed", "failed"}
      /\ w.totals = View.totals
  BY <1>1, <1>2, FinishedFolds
<1>4. e \in Events /\ journal \in Seq(Events)
  BY RunEventTypes DEF TypeOK
<1> HIDE DEF e, w
<1>5. <<e>> \in Seq(Events) /\ j \in Seq(Events) /\ j # << >> /\ journal \o <<e>> = j
  BY <1>4
<1>6. file \o Replay!Frames(Len(journal), <<e>>) = Replay!Frames(0, j)
  BY <1>2, <1>4, <1>5, FramesConcat DEF Whole
<1> HIDE DEF j
<1>7. w = Replay!Fold(j)
  BY DEF w
<1>8. Replay!ReplaysPartially(Replay!Frames(0, j)) /\ Replay!Replays(Replay!Frames(0, j))
  BY <1>3, <1>5, <1>7, ReadsReplay
<1>9. Totals(ledger)' = Totals(ledger)
  BY <1>1 DEF Totals
<1>10. CASE Written(<<e>>) /\ phase' = "finished"
  <2>1. journal' = j /\ file' = Replay!Frames(0, j)
    BY <1>5, <1>6, <1>10 DEF Written
  <2>2. View' = w
    BY <1>7, <2>1 DEF View
  <2>3. JournalReplays' /\ TerminalFileReplays'
    BY <1>8, <2>1 DEF JournalReplays, TerminalFileReplays
  <2>4. JournalAccountsForSpending'
    BY <1>1, <1>2, <1>3, <1>9, <2>2 DEF JournalAccountsForSpending
  <2> QED BY <1>10, <2>3, <2>4 DEF Narrates
<1>11. CASE phase' = "raised" /\ \E fault \in StorageFaults : FailsAt(<<e>>, 1, fault)
  <2>1. journal' = journal /\ (file' = file \/ file' = Replay!Frames(0, j))
    BY <1>4, <1>6, <1>11, RunEventFails
  <2>2. View' = View
    BY <2>1 DEF View
  <2>3. JournalReplays'
    BY <1>11, <2>1 DEF Narrates, JournalReplays, Concluded
  <2>4. TerminalFileReplays'
    BY <1>2, <1>8, <2>1 DEF TerminalFileReplays, Quiet
  <2>5. JournalAccountsForSpending'
    BY <1>1, <1>2, <1>9, <2>2 DEF JournalAccountsForSpending
  <2> QED BY <1>11, <2>3, <2>4, <2>5 DEF Narrates, Concluded
<1> QED BY <1>10, <1>11 DEF Finish, e

(* The steps that write no event.                                          *)
LEMMA ClosingNarrates ==
  ASSUME Narrates, Unwind \/ WriteReport \/ WriteDecision
  PROVE  Narrates'
<1>1. /\ journal' = journal /\ file' = file /\ ledger' = ledger /\ raised' = raised
      /\ phase' \notin {"created", "running"}
      /\ Concluded' => Concluded
  BY DEF Unwind, WriteReport, WriteDecision, Concluded
<1>2. View' = View /\ Totals(ledger)' = Totals(ledger)
  BY <1>1 DEF View, Totals
<1>3. JournalReplays /\ JournalAccountsForSpending /\ TerminalFileReplays
  BY DEF Narrates
<1>4. JournalReplays' /\ JournalAccountsForSpending' /\ TerminalFileReplays'
  BY <1>1, <1>2, <1>3 DEF JournalReplays, JournalAccountsForSpending, TerminalFileReplays
<1> QED BY <1>1, <1>4 DEF Narrates

(* And those that only look at the group.                                  *)
LEMMA GroupNarrates ==
  ASSUME Narrates, AbortGroup \/ OwnerCancel \/ UNCHANGED vars
  PROVE  Narrates'
<1>1. /\ journal' = journal /\ file' = file /\ ledger' = ledger /\ raised' = raised
      /\ decided' = decided /\ task' = task /\ phase' = phase
  BY DEF AbortGroup, OwnerCancel, vars
<1>2. View' = View /\ Totals(ledger)' = Totals(ledger)
  BY <1>1 DEF View, Totals
<1>3. Reads => Reads'
  BY <1>1, <1>2 DEF Reads, StandsIn, Ended
<1>4. JournalReplays' /\ JournalAccountsForSpending' /\ TerminalFileReplays'
  BY <1>1, <1>2 DEF Narrates, JournalReplays, JournalAccountsForSpending,
                    TerminalFileReplays, Concluded
<1>5. Whole' <=> Whole
  BY <1>1 DEF Whole
<1> QED BY <1>1, <1>2, <1>3, <1>4, <1>5 DEF Narrates

(* Whatever is cancelled, breached or fails to be written, a run whose     *)
(* texts can be encoded narrates itself.  The plan has one judge, as the   *)
(* validator demands.                                                      *)
THEOREM RunNarrates ==
  ASSUME Encodable, OneJudge, AbsentIsApart, Nodes # {}
  PROVE  Spec => []Narrates
<1>1. Init => Narrates
  <2> HAVE Init
  <2>1. View = Replay!EmptyView
    BY FoldEmpty DEF Init, View
  <2>2. View.totals = Totals(ledger) /\ View.decision = None
    BY <2>1 DEF Init, Replay!EmptyView, Replay!ZeroTotals, EmptyLedger, Totals
  <2>3. Totals(ledger) = [calls |-> 0, input |-> 0, output |-> 0, cost |-> 0]
    BY DEF Init, EmptyLedger, Totals
  <2>4. JournalAccountsForSpending
    BY <2>2, <2>3 DEF JournalAccountsForSpending
  <2>5. JournalReplays /\ TerminalFileReplays
    BY DEF Init, JournalReplays, TerminalFileReplays, Concluded
  <2> QED BY <2>4, <2>5 DEF Init, Narrates
<1>2. /\ TypeOK /\ TypeOK' /\ BreachShows /\ Told
      /\ Narrates /\ [Next]_vars
      => Narrates'
  BY OpenNarrates, NodeNarrates, FinishNarrates, ClosingNarrates, GroupNarrates DEF Next
<1>3. Spec => []BreachShows
  <2>1. Init => BreachShows
    BY BudgetAssumption DEF Init, BreachShows, EmptyLedger, Breached, CompletedWithinCaps,
                            Recorded
  <2>2. TypeOK /\ BreachShows /\ [Next]_vars => BreachShows'
    BY StepShows
  <2> QED BY <2>1, <2>2, TypeCorrect, PTL DEF Spec
<1> QED BY <1>1, <1>2, <1>3, TypeCorrect, JournalTells, PTL DEF Spec

(* The executor's journal is at every moment a valid prefix, and a         *)
(* complete history once the run is finished.                              *)
THEOREM ReplayKept ==
  ASSUME Encodable, OneJudge, AbsentIsApart, Nodes # {}
  PROVE  Spec => []JournalReplays
<1>1. Narrates => JournalReplays
  BY DEF Narrates
<1> QED BY <1>1, RunNarrates, PTL

(* It never claims spending the ledger did not commit, and while no node   *)
(* was torn down by a failed write it accounts for all of it.              *)
THEOREM AccountsKept ==
  ASSUME Encodable, OneJudge, AbsentIsApart, Nodes # {}
  PROVE  Spec => []JournalAccountsForSpending
<1>1. Narrates => JournalAccountsForSpending
  BY DEF Narrates
<1> QED BY <1>1, RunNarrates, PTL

(* A file with a terminal event can be replayed, whatever writes failed.   *)
THEOREM TerminalFilesKept ==
  ASSUME Encodable, OneJudge, AbsentIsApart, Nodes # {}
  PROVE  Spec => []TerminalFileReplays
<1>1. Narrates => TerminalFileReplays
  BY DEF Narrates
<1> QED BY <1>1, RunNarrates, PTL

(* The roles the plan gives its nodes are those the run gives them.        *)
Casts(plan) == \A n \in plan.nodes : Role[n.id] = n.role

(* All three hold in every run of a plan the validator accepts: it has one *)
(* judge, and so it has a node.                                            *)
COROLLARY AcceptedPlansNarrate ==
  ASSUME Encodable, AbsentIsApart,
         NEW plan, NEW routes, Plans!IsPlan(plan), Plans!Valid(plan, routes),
         Executes(plan), Casts(plan)
  PROVE  Spec => [](JournalReplays /\ JournalAccountsForSpending /\ TerminalFileReplays)
<1>1. IsFiniteSet(Plans!NodesIn(plan, "judge"))
  BY FS_Subset, PlanSets DEF Plans!IsPlan, Plans!NodesIn
<1>2. PICK j : Plans!NodesIn(plan, "judge") = {j}
  BY <1>1, OneMember, PlanSets DEF Plans!Valid, Plans!Topology
<1>3. j \in plan.nodes /\ \A n \in plan.nodes : n.role = "judge" => n = j
  BY <1>2 DEF Plans!NodesIn
<1>4. OneJudge /\ Nodes # {}
  BY <1>3 DEF Executes, Casts, Plans!Ids, OneJudge
<1>5. Narrates => JournalReplays /\ JournalAccountsForSpending /\ TerminalFileReplays
  BY DEF Narrates
<1> QED BY <1>4, <1>5, RunNarrates, PTL

-----------------------------------------------------------------------------
(* The documents, whatever can be encoded.                                 *)

(* A view as the fold builds it, rejected or not.                          *)
Folded(v) ==
  /\ IsRecord(v, ViewFields) /\ v.rejected \in BOOLEAN
  /\ \A m \in DOMAIN v.nodes : IsRecord(v.nodes[m], NodeFields)

(* What a turn of the loop may do to it.                                   *)
Turn(v, e, w) ==
  /\ Folded(w)
  /\ v.rejected => w.rejected
  /\ w.decision = v.decision \/ (e.type = "decision.recorded" /\ w.decision = e.source)
  /\ e.type = "decision.recorded" => w.rejected \/ w.decision = e.source
  /\ e.type = "node.completed" =>
       w.rejected \/ Replay!NodeOf(w, e.node).status = "completed"
  /\ e.type = "node.failed" =>
       w.rejected \/ Replay!NodeOf(v, e.node).status # "completed"

(* A view with another record for a node.                                  *)
LEMMA FoldedNode ==
  ASSUME NEW v, Folded(v), NEW n, NEW r, IsRecord(r, NodeFields),
         NEW w, w = Replay!WithNode(v, n, r)
  PROVE  /\ Folded(w) /\ w.rejected = v.rejected /\ w.decision = v.decision
         /\ Replay!NodeOf(w, n) = r
<1> DEFINE d == [m \in DOMAIN v.nodes \cup {n} |-> IF m = n THEN r ELSE v.nodes[m]]
<1>1. /\ DOMAIN d = DOMAIN v.nodes \cup {n} /\ d[n] = r
      /\ \A m \in DOMAIN v.nodes : m # n => d[m] = v.nodes[m]
  OBVIOUS
<1>2. w = [v EXCEPT !.nodes = d]
  BY DEF Replay!WithNode
<1> HIDE DEF d
<1>3. /\ IsRecord(w, ViewFields) /\ w.nodes = d
      /\ w.rejected = v.rejected /\ w.decision = v.decision
  BY <1>2 DEF Folded, IsRecord, ViewFields
<1>4. \A m \in DOMAIN d : IsRecord(d[m], NodeFields)
  BY <1>1 DEF Folded
<1> QED BY <1>1, <1>3, <1>4 DEF Folded, Replay!NodeOf

(* A turn that rejects the event.                                          *)
LEMMA TurnRejects ==
  ASSUME NEW v, Folded(v), NEW e, NEW w, w = [v EXCEPT !.rejected = TRUE]
  PROVE  Turn(v, e, w)
<1>1. /\ IsRecord(w, ViewFields) /\ w.rejected = TRUE
      /\ w.nodes = v.nodes /\ w.decision = v.decision
  BY DEF Folded, IsRecord, ViewFields
<1> QED BY <1>1 DEF Folded, Turn

(* What an event does when it is accepted.                                 *)
LEMMA FoldedEffect ==
  ASSUME NEW v, Folded(v), NEW e \in Events, NEW w, w = Replay!Applied(v, e)
  PROVE  /\ Folded(w) /\ w.rejected = v.rejected
         /\ e.type # "decision.recorded" => w.decision = v.decision
         /\ e.type = "decision.recorded" => w.decision = e.source
         /\ e.type = "node.completed" => Replay!NodeOf(w, e.node).status = "completed"
<1> DEFINE x == Replay!NodeOf(v, e.node)
<1>1. IsRecord(x, NodeFields)
  BY UntrackedNode DEF Replay!NodeOf, Folded
<1> HIDE DEF x
<1>2. CASE e.type = "run.created"
  <2>1. w = [v EXCEPT !.status = "running"]
    BY <1>2 DEF Replay!Applied
  <2> QED BY <1>2, <2>1 DEF Folded, IsRecord, ViewFields
<1>3. CASE e.type = "run.finished"
  <2>1. w = [v EXCEPT !.status = e.status]
    BY <1>3, EffectOf
  <2> QED BY <1>3, <2>1 DEF Folded, IsRecord, ViewFields
<1>4. CASE e.type = "node.started"
  <2> DEFINE r == [x EXCEPT !.status = "running", !.role = e.role]
  <2>1. w = Replay!WithNode(v, e.node, r)
    BY <1>4, EffectOf DEF x
  <2>2. IsRecord(r, NodeFields)
    BY <1>1 DEF IsRecord, NodeFields
  <2> HIDE DEF r
  <2> QED BY <1>4, <2>1, <2>2, FoldedNode
<1>5. CASE e.type = "artifact.written"
  <2>1. w = [v EXCEPT !.artifacts = @ \cup {e.artifact}]
    BY <1>5, EffectOf
  <2> QED BY <1>5, <2>1 DEF Folded, IsRecord, ViewFields
<1>6. CASE e.type = "budget.rejected"
  BY <1>6, EffectOf
<1>7. CASE e.type = "model.dispatched"
  <2> DEFINE o == [ k \in DOMAIN v.open \cup {<<e.node, e.op>>} |->
                      IF k = <<e.node, e.op>> THEN e.reserved ELSE v.open[k] ]
  <2> DEFINE p == v.ops \cup {e.op}
  <2>1. w = [[v EXCEPT !.ops = p] EXCEPT !.open = o]
    BY <1>7, EffectOf
  <2> HIDE DEF o, p
  <2>2. /\ IsRecord(w, ViewFields) /\ w.nodes = v.nodes
        /\ w.rejected = v.rejected /\ w.decision = v.decision
    BY <2>1 DEF Folded, IsRecord, ViewFields
  <2> QED BY <1>7, <2>2 DEF Folded
<1>8. ASSUME NEW r, IsRecord(r, NodeFields), w = Replay!BilledTo(v, e, r),
             e.type \notin {"decision.recorded", "node.completed"}
      PROVE  Folded(w) /\ w.rejected = v.rejected /\ w.decision = v.decision
  <2> DEFINE s == [r EXCEPT !.calls = @ + 1]
             u == Replay!WithNode(v, e.node, s)
             o == Replay!Without(v.open, <<e.node, e.op>>)
             t == Replay!Billed(v.totals, e.usage)
  <2>1. w = [[u EXCEPT !.open = o] EXCEPT !.totals = t]
    BY <1>8 DEF Replay!BilledTo
  <2>2. IsRecord(s, NodeFields)
    BY <1>8 DEF IsRecord, NodeFields
  <2> HIDE DEF s, o, t
  <2>3. Folded(u) /\ u.rejected = v.rejected /\ u.decision = v.decision
    BY <2>2, FoldedNode
  <2> HIDE DEF u
  <2>4. /\ IsRecord(w, ViewFields) /\ w.nodes = u.nodes
        /\ w.rejected = u.rejected /\ w.decision = u.decision
    BY <2>1, <2>3 DEF Folded, IsRecord, ViewFields
  <2> QED BY <2>3, <2>4 DEF Folded
<1>9. CASE e.type = "model.completed"
  <2> DEFINE r == [x EXCEPT !.lastOutput = e.output]
  <2>1. w = Replay!BilledTo(v, e, r)
    BY <1>9, EffectOf DEF x
  <2>2. IsRecord(r, NodeFields)
    BY <1>1 DEF IsRecord, NodeFields
  <2> HIDE DEF r
  <2> QED BY <1>8, <1>9, <2>1, <2>2
<1>10. CASE e.type = "model.failed"
  <2>1. w = Replay!BilledTo(v, e, x)
    BY <1>10, EffectOf DEF x
  <2> QED BY <1>1, <1>8, <1>10, <2>1
<1>11. CASE e.type = "node.completed"
  <2> DEFINE r == [x EXCEPT !.status = "completed", !.output = e.output]
  <2>1. w = Replay!WithNode(v, e.node, r)
    BY <1>11, EffectOf DEF x
  <2>2. IsRecord(r, NodeFields) /\ r.status = "completed"
    BY <1>1 DEF IsRecord, NodeFields
  <2> HIDE DEF r
  <2> QED BY <1>11, <2>1, <2>2, FoldedNode
<1>12. CASE e.type = "node.failed"
  <2> DEFINE r == [x EXCEPT !.status = "failed"]
  <2>1. w = Replay!WithNode(v, e.node, r)
    BY <1>12, EffectOf DEF x
  <2>2. IsRecord(r, NodeFields)
    BY <1>1 DEF IsRecord, NodeFields
  <2> HIDE DEF r
  <2> QED BY <1>12, <2>1, <2>2, FoldedNode
<1>13. CASE e.type = "decision.recorded"
  <2>1. w = [v EXCEPT !.decision = e.source]
    BY <1>13, EffectOf
  <2> QED BY <1>13, <2>1 DEF Folded, IsRecord, ViewFields
<1>14. e.type \in {"run.created", "run.finished", "node.started", "artifact.written",
                   "budget.rejected", "model.dispatched", "model.completed",
                   "model.failed", "node.completed", "node.failed", "decision.recorded"}
  BY DEF Events, NodeLevelEvents, RunLevelEvents
<1> QED BY <1>2, <1>3, <1>4, <1>5, <1>6, <1>7, <1>9, <1>10, <1>11, <1>12, <1>13, <1>14

(* Every turn is one of these.                                             *)
LEMMA TurnTaken ==
  ASSUME NEW v, Folded(v), NEW e \in Events, NEW k
  PROVE  Turn(v, e, Replay!FoldFrame(v, [seq |-> k, event |-> e]))
<1> DEFINE frame == [seq |-> k, event |-> e]
           w == Replay!FoldFrame(v, frame)
           z == Replay!Applied(v, e)
<1>1. frame.seq = k /\ frame.event = e
  OBVIOUS
<1> HIDE DEF frame
<1>2. CASE ~v.rejected /\ frame.seq = v.seq + 1 /\ Replay!Accepts(v, e)
  <2>1. w = [z EXCEPT !.seq = k]
    BY <1>1, <1>2 DEF Replay!FoldFrame
  <2>2. /\ Folded(z) /\ z.rejected = v.rejected
        /\ e.type # "decision.recorded" => z.decision = v.decision
        /\ e.type = "decision.recorded" => z.decision = e.source
        /\ e.type = "node.completed" => Replay!NodeOf(z, e.node).status = "completed"
    BY FoldedEffect
  <2>3. e.type = "node.failed" => Replay!NodeOf(v, e.node).status # "completed"
    <3> HAVE e.type = "node.failed"
    <3>1. Replay!AcceptsNodeFailed(v, e)
      BY <1>2 DEF Replay!Accepts, Replay!AcceptsNodeEvent
    <3> QED BY <3>1 DEF Replay!AcceptsNodeFailed, Replay!NodeTransitions
  <2> HIDE DEF z, w
  <2>4. /\ Folded(w) /\ w.rejected = z.rejected /\ w.decision = z.decision
        /\ w.nodes = z.nodes
    BY <2>1, <2>2 DEF Folded, IsRecord, ViewFields
  <2>5. Replay!NodeOf(w, e.node) = Replay!NodeOf(z, e.node)
    BY <2>4 DEF Replay!NodeOf
  <2>6. Turn(v, e, w)
    BY <2>2, <2>3, <2>4, <2>5 DEF Turn
  <2> QED BY <2>6 DEF w, frame
<1>3. CASE ~(~v.rejected /\ frame.seq = v.seq + 1 /\ Replay!Accepts(v, e))
  <2>1. w = [v EXCEPT !.rejected = TRUE]
    BY <1>1, <1>3 DEF Replay!FoldFrame
  <2> HIDE DEF w
  <2>2. Turn(v, e, w)
    BY <2>1, TurnRejects
  <2> QED BY <2>2 DEF w, frame
<1> QED BY <1>2, <1>3

(* The fold of a journal, turn by turn.                                    *)
LEMMA FoldTurns ==
  ASSUME NEW j \in Seq(Events)
  PROVE  \E g : /\ g[0].decision = None /\ Replay!Fold(j) = g[Len(j)]
                /\ \A i \in 1..Len(j) : Turn(g[i - 1], j[i], g[i])
<1> DEFINE frames == Replay!Frames(0, j)
           N == Len(j)
<1>1. N \in Nat /\ DOMAIN j = 1..N /\ \A i \in 1..N : j[i] \in Events
  OBVIOUS
<1>2. /\ Len(frames) = N
      /\ \A i \in 1..N : frames[i] = [seq |-> 0 + i, event |-> j[i]]
  <2>1. frames \in Seq(FileFrames)
    BY FramesType DEF FileFrames
  <2>2. DOMAIN frames = 1..N
    BY <1>1 DEF Replay!Frames
  <2>3. \A i \in 1..N : frames[i] = [seq |-> 0 + i, event |-> j[i]]
    BY <1>1 DEF Replay!Frames
  <2> HIDE DEF frames, N
  <2> QED BY <1>1, <2>1, <2>2, <2>3
<1> HIDE DEF frames, N
<1>3. PICK g : Viewing(g, frames, N) /\ Replay!FoldFrames(frames) = g[N]
  BY <1>1, <1>2, FoldIsLast
<1>4. /\ g[0] = Replay!EmptyView
      /\ \A i \in 1..N : g[i] = Replay!FoldFrame(g[i - 1], frames[i])
  BY <1>1, <1>3, ViewingSteps
<1>5. Folded(g[0]) /\ g[0].decision = None
  <2> DEFINE z == Replay!EmptyView
  <2>1. z.rejected = FALSE /\ z.nodes = << >> /\ z.decision = None
    BY DEF Replay!EmptyView
  <2>2. IsRecord(z, ViewFields)
    BY DEF Replay!EmptyView, IsRecord, ViewFields
  <2>3. DOMAIN << >> = {}
    OBVIOUS
  <2> HIDE DEF z
  <2>4. Folded(z)
    BY <2>1, <2>2, <2>3 DEF Folded
  <2> QED BY <1>4, <2>1, <2>4 DEF z
<1>6. ASSUME NEW i \in 1..N, Folded(g[i - 1]) PROVE Turn(g[i - 1], j[i], g[i])
  <2>1. g[i] = Replay!FoldFrame(g[i - 1], [seq |-> 0 + i, event |-> j[i]])
    BY <1>2, <1>4
  <2>2. j[i] \in Events
    BY <1>1
  <2> QED BY <1>6, <2>1, <2>2, TurnTaken
<1> DEFINE Good == {i \in 0..N : Folded(g[i])}
<1>7. \A i \in 0..N : i \in Good
  <2>1. 0 \in Good
    BY <1>1, <1>5
  <2>2. ASSUME NEW i \in Good, i < N PROVE i + 1 \in Good
    <3>1. i + 1 \in 1..N /\ (i + 1) - 1 = i /\ i + 1 \in 0..N /\ Folded(g[i])
      BY <1>1, <2>2
    <3>2. Turn(g[(i + 1) - 1], j[i + 1], g[i + 1])
      BY <1>6, <3>1
    <3> QED BY <3>1, <3>2 DEF Turn
  <2>3. Good \in SUBSET (0..N)
    OBVIOUS
  <2> HIDE DEF Good
  <2> QED BY <1>1, <2>1, <2>2, <2>3, Onwards
<1>8. \A i \in 1..N : Turn(g[i - 1], j[i], g[i])
  <2> TAKE i \in 1..N
  <2>1. i - 1 \in 0..N
    BY <1>1
  <2> QED BY <1>6, <1>7, <2>1
<1>9. Replay!Fold(j) = g[N]
  BY <1>3 DEF Replay!Fold, frames
<1> QED BY <1>5, <1>8, <1>9 DEF N

(* A journal records a decision.                                           *)
Decides(j) == \E i \in DOMAIN j : j[i].type = "decision.recorded"

(* A journal completes a node and fails it at once.                        *)
Stuck(j) ==
  \E i \in DOMAIN j :
    /\ i + 1 \in DOMAIN j
    /\ j[i].type = "node.completed" /\ j[i + 1].type = "node.failed"
    /\ j[i + 1].node = j[i].node

(* A rejected view stays rejected.                                         *)
LEMMA RejectionLasts ==
  ASSUME NEW j \in Seq(Events), NEW g,
         \A i \in 1..Len(j) : Turn(g[i - 1], j[i], g[i]),
         NEW a \in 0..Len(j), g[a].rejected
  PROVE  \A i \in a..Len(j) : g[i].rejected
<1> DEFINE N == Len(j)
           Good == {i \in 0..N : g[i].rejected}
<1>1. N \in Nat /\ Good \in SUBSET (0..N) /\ a \in Good
  OBVIOUS
<1>2. ASSUME NEW i \in Good, i < N PROVE i + 1 \in Good
  <2>1. i + 1 \in 1..N /\ (i + 1) - 1 = i /\ i + 1 \in 0..N /\ g[i].rejected
    BY <1>1, <1>2
  <2>2. Turn(g[(i + 1) - 1], j[i + 1], g[i + 1])
    BY <2>1
  <2> QED BY <2>1, <2>2 DEF Turn
<1>3. \A i \in Good : i < N => i + 1 \in Good
  BY <1>2
<1> HIDE DEF Good
<1>4. \A i \in a..N : i \in Good
  BY <1>1, <1>3, Onwards
<1> QED BY <1>4 DEF Good

(* What the reader of a journal knows of a decision.                       *)
LEMMA DecisionFolds ==
  ASSUME NEW j \in Seq(Events)
  PROVE  /\ ~Decides(j) => Replay!Fold(j).decision = None
         /\ AbsentIsApart /\ Decides(j)
              => Replay!Fold(j).rejected \/ Replay!Fold(j).decision # None
<1> DEFINE N == Len(j)
<1>1. N \in Nat /\ DOMAIN j = 1..N /\ \A i \in 1..N : j[i] \in Events
  OBVIOUS
<1>2. PICK g : /\ g[0].decision = None /\ Replay!Fold(j) = g[N]
               /\ \A i \in 1..N : Turn(g[i - 1], j[i], g[i])
  BY FoldTurns
<1> HIDE DEF N
<1>3. ASSUME ~Decides(j) PROVE g[N].decision = None
  <2> DEFINE Good == {i \in 0..N : g[i].decision = None}
  <2>1. Good \in SUBSET (0..N) /\ 0 \in Good
    BY <1>1, <1>2
  <2>2. ASSUME NEW i \in Good, i < N PROVE i + 1 \in Good
    <3>1. i + 1 \in 1..N /\ (i + 1) - 1 = i /\ i + 1 \in 0..N /\ g[i].decision = None
      BY <1>1, <2>2
    <3>2. Turn(g[(i + 1) - 1], j[i + 1], g[i + 1])
      BY <1>2, <3>1
    <3>3. j[i + 1].type # "decision.recorded"
      BY <1>1, <1>3, <3>1 DEF Decides
    <3> QED BY <3>1, <3>2, <3>3 DEF Turn
  <2> HIDE DEF Good
  <2>3. \A i \in 0..N : i \in Good
    BY <1>1, <2>1, <2>2, Onwards
  <2>4. N \in 0..N
    BY <1>1
  <2> QED BY <2>3, <2>4 DEF Good
<1>4. ASSUME AbsentIsApart, Decides(j) PROVE g[N].rejected \/ g[N].decision # None
  <2> DEFINE Good == {i \in 0..N : g[i].rejected \/ g[i].decision # None}
  <2>1. \A i \in 1..N : j[i].type = "decision.recorded" => j[i].source # None
    <3>1. \A e \in Events : e.type = "decision.recorded" => e.source \in Artifacts
      BY DEF Events, NodeLevelEvents, RunLevelEvents
    <3> QED BY <1>1, <1>4, <3>1 DEF AbsentIsApart
  <2>2. PICK a \in 1..N : j[a].type = "decision.recorded"
    BY <1>1, <1>4 DEF Decides
  <2>3. Good \in SUBSET (0..N) /\ a \in Good
    <3>1. Turn(g[a - 1], j[a], g[a]) /\ a \in 0..N
      BY <1>1, <1>2
    <3> QED BY <2>1, <2>2, <3>1 DEF Turn
  <2>4. ASSUME NEW i \in Good, i < N PROVE i + 1 \in Good
    <3>1. /\ i + 1 \in 1..N /\ (i + 1) - 1 = i /\ i + 1 \in 0..N
          /\ g[i].rejected \/ g[i].decision # None
      BY <1>1, <2>4
    <3>2. Turn(g[(i + 1) - 1], j[i + 1], g[i + 1])
      BY <1>2, <3>1
    <3> QED BY <2>1, <3>1, <3>2 DEF Turn
  <2> HIDE DEF Good
  <2>5. \A i \in a..N : i \in Good
    BY <1>1, <2>3, <2>4, Onwards
  <2>6. N \in a..N
    BY <1>1
  <2> QED BY <2>5, <2>6 DEF Good
<1> QED BY <1>2, <1>3, <1>4

(* A node that fails right after it has completed: nobody replays that.    *)
LEMMA StuckIsRejected ==
  ASSUME NEW j \in Seq(Events), Stuck(j)
  PROVE  Replay!Fold(j).rejected
<1> DEFINE N == Len(j)
<1>1. N \in Nat /\ DOMAIN j = 1..N
  OBVIOUS
<1>2. PICK g : /\ Replay!Fold(j) = g[N]
               /\ \A i \in 1..N : Turn(g[i - 1], j[i], g[i])
  BY FoldTurns
<1>3. PICK i \in 1..N : /\ i + 1 \in 1..N
                        /\ j[i].type = "node.completed" /\ j[i + 1].type = "node.failed"
                        /\ j[i + 1].node = j[i].node
  BY <1>1 DEF Stuck
<1>4. Turn(g[i - 1], j[i], g[i]) /\ Turn(g[(i + 1) - 1], j[i + 1], g[i + 1]) /\ (i + 1) - 1 = i
  BY <1>1, <1>2, <1>3
<1>5. g[i + 1].rejected
  BY <1>3, <1>4 DEF Turn
<1>6. i + 1 \in 0..N /\ N \in (i + 1)..N
  BY <1>1, <1>3
<1> QED BY <1>2, <1>5, <1>6, RejectionLasts

(* Journals in a row decide, and get stuck, where their parts do.          *)
LEMMA DecidesConcat ==
  ASSUME NEW a \in Seq(Events), NEW b \in Seq(Events)
  PROVE  /\ a \o b \in Seq(Events)
         /\ Decides(a \o b) <=> Decides(a) \/ Decides(b)
         /\ Stuck(a) \/ Stuck(b) => Stuck(a \o b)
<1> DEFINE c == a \o b
<1>1. /\ c \in Seq(Events) /\ Len(c) = Len(a) + Len(b)
      /\ Len(a) \in Nat /\ Len(b) \in Nat
      /\ DOMAIN a = 1..Len(a) /\ DOMAIN b = 1..Len(b) /\ DOMAIN c = 1..Len(c)
      /\ \A i \in 1..Len(a) : c[i] = a[i]
      /\ \A i \in 1..Len(b) : c[Len(a) + i] = b[i]
  OBVIOUS
<1> HIDE DEF c
<1>2. \A i \in DOMAIN a : i \in DOMAIN c /\ c[i] = a[i]
  BY <1>1
<1>3. \A i \in DOMAIN b : Len(a) + i \in DOMAIN c /\ c[Len(a) + i] = b[i]
  BY <1>1
<1>4. \A i \in DOMAIN c : \/ i \in DOMAIN a
                          \/ i - Len(a) \in DOMAIN b /\ c[i] = b[i - Len(a)]
  <2> TAKE i \in DOMAIN c
  <2>1. CASE i <= Len(a)
    BY <1>1, <2>1
  <2>2. CASE ~(i <= Len(a))
    <3>1. i - Len(a) \in 1..Len(b) /\ Len(a) + (i - Len(a)) = i
      BY <1>1, <2>2
    <3> QED BY <1>1, <3>1
  <2> QED BY <2>1, <2>2
<1>5. Decides(c) <=> Decides(a) \/ Decides(b)
  BY <1>2, <1>3, <1>4 DEF Decides
<1>6. Stuck(a) => Stuck(c)
  BY <1>2 DEF Stuck
<1>7. ASSUME Stuck(b) PROVE Stuck(c)
  <2>1. PICK i \in DOMAIN b : /\ i + 1 \in DOMAIN b
                              /\ b[i].type = "node.completed" /\ b[i + 1].type = "node.failed"
                              /\ b[i + 1].node = b[i].node
    BY <1>7 DEF Stuck
  <2>2. (Len(a) + i) + 1 = Len(a) + (i + 1)
    BY <1>1
  <2> QED BY <1>3, <2>1, <2>2 DEF Stuck
<1> QED BY <1>1, <1>5, <1>6, <1>7 DEF c

(* A segment of a node that records no decision.                           *)
Silent(events) == events \in Seq(NodeLevelEvents) /\ ~Decides(events)

LEMMA SilentConcat ==
  ASSUME NEW a, NEW b, Silent(a), Silent(b)
  PROVE  Silent(a \o b)
<1>1. a \in Seq(NodeLevelEvents) /\ b \in Seq(NodeLevelEvents)
  BY DEF Silent
<1>2. a \in Seq(Events) /\ b \in Seq(Events) /\ a \o b \in Seq(NodeLevelEvents)
  BY <1>1 DEF Events
<1> QED BY <1>2, DecidesConcat DEF Silent

(* Of one event, or of two.                                                *)
LEMMA SilentFew ==
  ASSUME NEW e \in NodeLevelEvents, e.type # "decision.recorded"
  PROVE  /\ Silent(<<e>>)
         /\ \A d \in NodeLevelEvents : d.type # "decision.recorded" => Silent(<<e, d>>)
<1>1. ASSUME NEW d \in NodeLevelEvents, d.type # "decision.recorded" PROVE Silent(<<d>>)
  BY <1>1 DEF Silent, Decides
<1>2. ASSUME NEW d \in NodeLevelEvents, d.type # "decision.recorded" PROVE Silent(<<e, d>>)
  <2>1. Silent(<<e>> \o <<d>>)
    BY <1>1, <1>2, SilentConcat
  <2> QED BY <2>1, Juxtaposed
<1> QED BY <1>1, <1>2

(* All segments but the judge's last.                                      *)
LEMMA SilentSegments ==
  ASSUME NEW n \in Nodes
  PROVE  /\ \A reason \in FailureReasons : Silent(<<NodeFailed(n, reason)>>)
         /\ Silent(Receipt(n)) /\ Silent(<< >>) /\ Silent(Prologue(n))
         /\ Silent(<<ArtifactWritten("receipt", n)>>)
         /\ Silent(<<ModelDispatched(n)>>)
         /\ Silent(<<BudgetRejected(n), NodeFailed(n, "budget_rejected")>>)
         /\ Silent(<<NodeCompleted(n)>>)
         /\ Silent(<<NodeCompleted(n), NodeFailed(n, "unexpected_error")>>)
         /\ Silent(NodeCancelled(n))
<1>1. /\ NodeStarted(n).type # "decision.recorded"
      /\ \A what : ArtifactWritten(what, n).type # "decision.recorded"
      /\ BudgetRejected(n).type # "decision.recorded"
      /\ ModelDispatched(n).type # "decision.recorded"
      /\ NodeCompleted(n).type # "decision.recorded"
      /\ \A reason : NodeFailed(n, reason).type # "decision.recorded"
  BY DEF NodeStarted, ArtifactWritten, BudgetRejected, ModelDispatched, NodeCompleted,
         NodeFailed
<1>2. \A reason \in FailureReasons : Silent(<<NodeFailed(n, reason)>>)
  BY <1>1, EventTypes, SilentFew
<1>3. Silent(<<ArtifactWritten("receipt", n)>>)
  BY <1>1, EventTypes, SilentFew
<1>4. Silent(<< >>)
  BY DEF Silent, Decides
<1>5. Silent(Receipt(n))
  BY <1>3, <1>4 DEF Receipt
<1>6. Silent(Prologue(n))
  BY <1>1, EventTypes, SilentFew DEF Prologue
<1>7. Silent(<<ModelDispatched(n)>>) /\ Silent(<<NodeCompleted(n)>>)
  BY <1>1, EventTypes, SilentFew
<1>8. /\ Silent(<<BudgetRejected(n), NodeFailed(n, "budget_rejected")>>)
      /\ Silent(<<NodeCompleted(n), NodeFailed(n, "unexpected_error")>>)
  BY <1>1, EventTypes, SilentFew DEF FailureReasons
<1>9. Silent(NodeCancelled(n))
  BY <1>2, <1>4 DEF NodeCancelled, FailureReasons
<1> QED BY <1>2, <1>3, <1>4, <1>5, <1>6, <1>7, <1>8, <1>9

(* Bills record no decision either.                                        *)
LEMMA SilentBills ==
  ASSUME NEW n \in Nodes, NEW u \in Usage
  PROVE  /\ Silent(Billing(n, u))
         /\ \A reason \in {"timeout", "protocol", "cancelled"},
               source \in {"provider", "ceiling", "mixed"} :
              /\ Silent(<<ModelFailed(n, reason, u, source)>>)
              /\ Silent(<<ModelFailed(n, reason, u, source), NodeFailed(n, "backend_error")>>)
         /\ Silent(<<ArtifactWritten("output", n), ArtifactWritten("receipt", n)>>)
<1>1. /\ ModelCompleted(n, u).type # "decision.recorded"
      /\ \A reason, source : ModelFailed(n, reason, u, source).type # "decision.recorded"
      /\ \A what : ArtifactWritten(what, n).type # "decision.recorded"
      /\ NodeFailed(n, "backend_error").type # "decision.recorded"
  BY DEF ModelCompleted, ModelFailed, ArtifactWritten, NodeFailed
<1>2. NodeFailed(n, "backend_error") \in NodeLevelEvents
  BY EventTypes DEF FailureReasons
<1>3. Silent(<<ArtifactWritten("output", n), ModelCompleted(n, u)>>)
  BY <1>1, EventTypes, BillingEventTypes, SilentFew
<1>4. Silent(Billing(n, u))
  BY <1>3, SilentSegments, SilentConcat DEF Billing
<1>5. ASSUME NEW reason \in {"timeout", "protocol", "cancelled"},
             NEW source \in {"provider", "ceiling", "mixed"}
      PROVE  /\ Silent(<<ModelFailed(n, reason, u, source)>>)
             /\ Silent(<<ModelFailed(n, reason, u, source), NodeFailed(n, "backend_error")>>)
  BY <1>1, <1>2, BillingEventTypes, SilentFew
<1>6. Silent(<<ArtifactWritten("output", n), ArtifactWritten("receipt", n)>>)
  BY <1>1, EventTypes, SilentFew
<1> QED BY <1>4, <1>5, <1>6

(* A step that does not raise writes its whole segment, and the executor   *)
(* has a decision from it if it records one, or gets stuck before it does. *)
Publishes(n) ==
  /\ phase = "running" /\ UNCHANGED << phase, documents >>
  /\ raised' = {} =>
       /\ raised = {}
       /\ \E events \in Seq(Events) :
            /\ Written(events)
            /\ \/ ~Decides(events) /\ decided' = decided
               \/ decided' = TRUE /\ (Decides(events) \/ Stuck(events))

(* A segment that records no decision.                                     *)
LEMMA SilentPublishes ==
  ASSUME NEW n \in Nodes, NEW events, Silent(events), NEW next,
         Segment(n, events, next) \/ SegmentEscapes(n, events),
         phase = "running", UNCHANGED << phase, documents, decided >>
  PROVE  Publishes(n)
<1>1. events \in Seq(Events) /\ ~Decides(events)
  BY DEF Silent, Events
<1>2. raised' = {} => raised = {} /\ Written(events)
  BY DEF Segment, SegmentEscapes, SegmentFails
<1> QED BY <1>1, <1>2 DEF Publishes

(* The length of two sequences in a row.                                   *)
LEMMA LengthsAdd ==
  ASSUME NEW S, NEW a \in Seq(S), NEW b \in Seq(S)
  PROVE  Len(a \o b) = Len(a) + Len(b)
OBVIOUS

(* The answer of a node, with what the judge decides by it.                *)
LEMMA AnswerPublishes ==
  ASSUME TypeOK, NEW n \in Nodes, NEW usage \in Usage, NEW verdict \in Verdicts,
         Complete(n, usage, verdict)
  PROVE  Publishes(n)
<1> DEFINE closing == IF BreachedBy(n, usage) THEN <<NodeFailed(n, "budget_exceeded")>>
                      ELSE Closing(n, verdict)
           next == IF closing[Len(closing)].type = "node.failed" THEN "failed"
                   ELSE "completed"
           billing == Billing(n, usage)
           events == billing \o closing
           parsed == /\ Role[n] = "judge" /\ closing[1].type = "node.completed"
                     /\ Len(journal') - Len(journal) > Len(billing)
<1>1. /\ phase = "running" /\ UNCHANGED << phase, documents >>
      /\ Segment(n, events, next)
      /\ decided' = (decided \/ parsed)
  BY DEF Complete, Inflight, ControlVars
<1>2. Silent(billing)
  BY SilentBills
<1>3. billing \in Seq(NodeLevelEvents) /\ Len(billing) \in Nat
  BY <1>2 DEF Silent
<1>4. CASE closing = <<NodeFailed(n, "budget_exceeded")>>
           \/ closing = <<NodeFailed(n, "invalid_decision")>>
  <2>1. Silent(closing)
    BY <1>4, SilentSegments DEF FailureReasons
  <2>2. closing[1].type # "node.completed"
    BY <1>4 DEF NodeFailed
  <2>3. decided' = decided
    BY <1>1, <2>2 DEF TypeOK
  <2> HIDE DEF closing, next, billing
  <2>4. Silent(events)
    BY <1>2, <2>1, SilentConcat
  <2> HIDE DEF events
  <2> QED BY <1>1, <2>3, <2>4, SilentPublishes
<1>5. CASE closing = <<NodeCompleted(n)>> /\ Role[n] # "judge"
  <2>1. Silent(closing)
    BY <1>5, SilentSegments
  <2>2. decided' = decided
    BY <1>1, <1>5 DEF TypeOK
  <2> HIDE DEF closing, next, billing
  <2>3. Silent(events)
    BY <1>2, <2>1, SilentConcat
  <2> HIDE DEF events
  <2> QED BY <1>1, <2>2, <2>3, SilentPublishes
<1>6. ASSUME NEW e \in NodeLevelEvents, closing = <<NodeCompleted(n), e>>, Role[n] = "judge",
             Decides(closing) \/ Stuck(closing)
      PROVE  Publishes(n)
  <2> DEFINE pair == <<NodeCompleted(n), e>>
  <2>1. /\ pair \in Seq(NodeLevelEvents) /\ Len(pair) = 2
        /\ pair[1].type = "node.completed"
    BY EventTypes DEF NodeCompleted
  <2> HIDE DEF pair
  <2>2. /\ closing \in Seq(NodeLevelEvents) /\ Len(closing) = 2
        /\ closing[1].type = "node.completed"
    <3> HIDE DEF closing
    <3> QED BY <1>6, <2>1 DEF pair
  <2> HIDE DEF closing, next, billing
  <2>3. events \in Seq(Events) /\ (Decides(events) \/ Stuck(events))
    <3>1. billing \in Seq(Events) /\ closing \in Seq(Events)
      BY <1>3, <2>2 DEF Events
    <3> QED BY <1>6, <3>1, DecidesConcat
  <2>4. Len(events) = Len(billing) + 2
    <3>1. Len(billing \o closing) = Len(billing) + Len(closing)
      BY <1>3, <2>2, LengthsAdd
    <3> QED BY <2>2, <3>1
  <2> HIDE DEF events
  <2>5. ASSUME raised' = {} PROVE raised = {} /\ Written(events)
    BY <1>1, <2>5 DEF Segment, SegmentFails
  <2>6. ASSUME Written(events) PROVE decided' = TRUE
    <3>1. journal \in Seq(Events) /\ journal' = journal \o events
      BY <2>6 DEF TypeOK, Written
    <3>2. Len(journal') = Len(journal) + Len(events) /\ Len(journal) \in Nat
      BY <2>3, <3>1
    <3>3. Len(journal') - Len(journal) > Len(billing)
      BY <1>3, <2>4, <3>2
    <3> QED BY <1>1, <1>6, <2>2, <3>3
  <2> QED BY <1>1, <2>3, <2>5, <2>6 DEF Publishes
<1>7. CASE closing = <<NodeCompleted(n), NodeFailed(n, "unexpected_error")>> /\ Role[n] = "judge"
  <2>1. NodeFailed(n, "unexpected_error") \in NodeLevelEvents
    BY EventTypes DEF FailureReasons
  <2>2. Stuck(closing)
    <3> DEFINE s == <<NodeCompleted(n), NodeFailed(n, "unexpected_error")>>
    <3>1. 1 \in DOMAIN s /\ 1 + 1 \in DOMAIN s /\ s[1] = NodeCompleted(n)
          /\ s[1 + 1] = NodeFailed(n, "unexpected_error")
      OBVIOUS
    <3> HIDE DEF s
    <3>2. Stuck(s)
      BY <3>1 DEF Stuck, NodeCompleted, NodeFailed
    <3> QED BY <1>7, <3>2 DEF s
  <2> HIDE DEF closing
  <2> QED BY <1>6, <1>7, <2>1, <2>2
<1>8. CASE closing = <<NodeCompleted(n), DecisionRecorded(n)>> /\ Role[n] = "judge"
  <2>1. DecisionRecorded(n) \in NodeLevelEvents
    BY EventTypes
  <2>2. Decides(closing)
    <3>1. 2 \in DOMAIN closing /\ closing[2] = DecisionRecorded(n)
      BY <1>8
    <3> QED BY <3>1 DEF Decides, DecisionRecorded
  <2> HIDE DEF closing
  <2> QED BY <1>6, <1>8, <2>1, <2>2
<1>9. \/ closing = <<NodeFailed(n, "budget_exceeded")>>
      \/ closing = <<NodeFailed(n, "invalid_decision")>>
      \/ closing = <<NodeCompleted(n)>> /\ Role[n] # "judge"
      \/ closing = <<NodeCompleted(n), NodeFailed(n, "unexpected_error")>> /\ Role[n] = "judge"
      \/ closing = <<NodeCompleted(n), DecisionRecorded(n)>> /\ Role[n] = "judge"
  BY BackendAssumption DEF Closing
<1> QED BY <1>4, <1>5, <1>7, <1>8, <1>9

(* Every answer of a backend.                                              *)
LEMMA AnswersPublish ==
  ASSUME TypeOK, NEW n \in Nodes, BackendAnswers(n)
  PROVE  Publishes(n)
<1>1. PICK usage \in Reported, text \in Texts :
        \/ text = "plain" /\ \E verdict \in Verdicts : Complete(n, usage, verdict)
        \/ text = "unencodable" /\ CompleteUnencodable(n, usage)
        \/ OverLimit(n, usage, text)
  BY DEF BackendAnswers
<1>2. usage \in Usage
  BY BackendAssumption
<1>3. CASE \E verdict \in Verdicts : Complete(n, usage, verdict)
  BY <1>2, <1>3, AnswerPublishes
<1>4. CASE CompleteUnencodable(n, usage)
  <2>1. Silent(<<NodeFailed(n, "unexpected_error")>>)
    BY SilentSegments DEF FailureReasons
  <2> QED BY <1>4, <2>1, SilentPublishes DEF CompleteUnencodable, Inflight, ControlVars
<1>5. CASE OverLimit(n, usage, text)
  <2>1. phase = "running" /\ UNCHANGED << phase, documents, decided >>
    BY <1>5 DEF OverLimit, Inflight, ControlVars
  <2>2. CASE LiveBackend
    <3> DEFINE bill == << ArtifactWritten("output", n), ArtifactWritten("receipt", n) >>
               said == << ModelFailed(n, "protocol", usage, "provider"),
                          NodeFailed(n, "backend_error") >>
               events == << ArtifactWritten("output", n), ArtifactWritten("receipt", n),
                            ModelFailed(n, "protocol", usage, "provider"),
                            NodeFailed(n, "backend_error") >>
    <3>1. Segment(n, events, "failed")
      BY <1>5, <2>2 DEF OverLimit
    <3>2. events = bill \o said
      BY JuxtaposedPairs
    <3>3. Silent(bill) /\ Silent(said)
      BY <1>2, SilentBills
    <3> HIDE DEF bill, said, events
    <3>4. Silent(events)
      BY <3>2, <3>3, SilentConcat
    <3> QED BY <2>1, <3>1, <3>4, SilentPublishes
  <2>3. CASE ~LiveBackend
    <3>1. Segment(n, <<NodeFailed(n, "backend_error")>>, "failed")
      BY <1>5, <2>3 DEF OverLimit
    <3>2. Silent(<<NodeFailed(n, "backend_error")>>)
      BY SilentSegments DEF FailureReasons
    <3> QED BY <2>1, <3>1, <3>2, SilentPublishes
  <2> QED BY <2>2, <2>3
<1> QED BY <1>1, <1>3, <1>4, <1>5

(* Every way a backend fails.                                              *)
LEMMA FailuresPublish ==
  ASSUME TypeOK, NEW n \in Nodes, BackendFails(n)
  PROVE  Publishes(n)
<1>1. PICK text \in Texts :
        \/ FailFree(n, "backend_error", Receipt(n), text)
        \/ FailFree(n, "unexpected_error", << >>, text)
        \/ \E known \in PartialUsages : FailBilled(n, known, text)
  BY DEF BackendFails
<1>2. ASSUME NEW reason \in FailureReasons, NEW receipt, Silent(receipt),
             FailFree(n, reason, receipt, text)
      PROVE  Publishes(n)
  <2> DEFINE events == receipt \o <<NodeFailed(n, reason)>>
  <2>1. /\ phase = "running" /\ UNCHANGED << phase, documents, decided >>
        /\ Segment(n, events, "failed") \/ SegmentEscapes(n, receipt)
    BY <1>2 DEF FailFree, Inflight, ControlVars
  <2>2. Silent(events)
    BY <1>2, SilentSegments, SilentConcat
  <2> HIDE DEF events
  <2> QED BY <1>2, <2>1, <2>2, SilentPublishes
<1>3. ASSUME NEW known \in PartialUsages, FailBilled(n, known, text)
      PROVE  Publishes(n)
  <2> DEFINE usage == BilledUsage(n, known)
             close == IF text = "plain"
                      THEN << ModelFailed(n, "timeout", usage, UsageSource(known)),
                              NodeFailed(n, "backend_error") >>
                      ELSE << NodeFailed(n, "unexpected_error") >>
             receipt == <<ArtifactWritten("receipt", n)>>
             events == receipt \o close
  <2>1. usage \in Usage /\ UsageSource(known) \in {"provider", "ceiling", "mixed"}
    BY BilledUsageType
  <2>2. /\ phase = "running" /\ UNCHANGED << phase, documents, decided >>
        /\ Segment(n, events, "failed")
    BY <1>3 DEF FailBilled, Inflight, ControlVars
  <2>3. Silent(receipt) /\ Silent(close)
    <3> HIDE DEF usage
    <3> QED BY <2>1, SilentBills, SilentSegments DEF FailureReasons
  <2> HIDE DEF close, receipt
  <2>4. Silent(events)
    BY <2>3, SilentConcat
  <2> HIDE DEF events
  <2> QED BY <2>2, <2>4, SilentPublishes
<1> QED BY <1>1, <1>2, <1>3, SilentSegments DEF FailureReasons

(* Every step of a node.                                                   *)
LEMMA NodePublishes ==
  ASSUME TypeOK, NEW n \in Nodes, NodeStep(n)
  PROVE  Publishes(n)
<1>1. CASE FailDependency(n)
  <2>1. Silent(<<NodeFailed(n, "dependency_failed")>>)
    BY SilentSegments DEF FailureReasons
  <2> QED BY <1>1, <2>1, SilentPublishes DEF FailDependency, PastBarrier, ControlVars
<1>2. CASE Dispatch(n)
  <2> DEFINE events == Prologue(n) \o <<ModelDispatched(n)>>
  <2>1. Silent(events)
    BY SilentSegments, SilentConcat
  <2>2. /\ Segment(n, events, "inflight") /\ phase = "running"
        /\ UNCHANGED << phase, documents, decided >>
    BY <1>2 DEF Dispatch, PastBarrier, ControlVars
  <2> HIDE DEF events
  <2> QED BY <2>1, <2>2, SilentPublishes
<1>3. CASE RejectDispatch(n)
  <2> DEFINE events == Prologue(n) \o <<BudgetRejected(n), NodeFailed(n, "budget_rejected")>>
  <2>1. Silent(events)
    BY SilentSegments, SilentConcat
  <2>2. /\ Segment(n, events, "failed") /\ phase = "running"
        /\ UNCHANGED << phase, documents, decided >>
    BY <1>3 DEF RejectDispatch, PastBarrier, ControlVars
  <2> HIDE DEF events
  <2> QED BY <2>1, <2>2, SilentPublishes
<1>4. CASE BackendAnswers(n)
  BY <1>4, AnswersPublish
<1>5. CASE BackendFails(n)
  BY <1>5, FailuresPublish
<1>6. CASE CancelWaiting(n)
  <2>1. Silent(NodeCancelled(n))
    BY SilentSegments
  <2> QED BY <1>6, <2>1, SilentPublishes DEF CancelWaiting
<1>7. CASE CancelInflight(n)
  <2> DEFINE billed == <<ModelFailed(n, "cancelled", Ceiling[n], "ceiling")>>
             events == billed \o NodeCancelled(n)
  <2>1. Silent(billed)
    BY ReservationType, SilentBills
  <2>2. /\ Segment(n, events, "failed") /\ phase = "running"
        /\ UNCHANGED << phase, documents, decided >>
    BY <1>7 DEF CancelInflight
  <2> HIDE DEF billed
  <2>3. Silent(events)
    BY <2>1, SilentSegments, SilentConcat
  <2> HIDE DEF events
  <2> QED BY <2>2, <2>3, SilentPublishes
<1> QED BY <1>1, <1>2, <1>3, <1>4, <1>5, <1>6, <1>7 DEF NodeStep

(* While nothing has raised, the file is the journal, and the executor has *)
(* a decision that its journal records, or that gets it stuck.             *)
Agrees ==
  /\ Whole
  /\ Decides(journal) => decided
  /\ decided => Decides(journal) \/ Stuck(journal)

(* The property, and what it rests on: documents are derived of a run that *)
(* nothing raised out of, once the journal has been replayed.              *)
Derived ==
  /\ DocumentsMatchFile
  /\ phase \in {"created", "running", "finished"} => documents = {}
  /\ Concluded => raised = {}
  /\ phase = "reported" => documents = {"report"} /\ View.decision # None
  /\ phase # "raised" /\ raised = {} => Agrees

(* Events that are written keep file and journal together.                 *)
LEMMA WritingAgrees ==
  ASSUME TypeOK, Agrees, NEW events \in Seq(Events), Written(events),
         \/ ~Decides(events) /\ decided' = decided
         \/ decided' = TRUE /\ (Decides(events) \/ Stuck(events))
  PROVE  Agrees'
<1>1. journal \in Seq(Events)
  BY DEF TypeOK
<1>2. journal' = journal \o events /\ file' = Replay!Frames(0, journal \o events)
  BY <1>1, FramesConcat DEF Agrees, Whole, Written
<1>3. /\ Decides(journal \o events) <=> Decides(journal) \/ Decides(events)
      /\ Stuck(journal) \/ Stuck(events) => Stuck(journal \o events)
  BY <1>1, DecidesConcat
<1>4. Decides(journal') => decided'
  BY <1>2, <1>3 DEF Agrees
<1>5. decided' => Decides(journal') \/ Stuck(journal')
  BY <1>2, <1>3 DEF Agrees
<1>6. (Decides(journal)' <=> Decides(journal')) /\ (Stuck(journal)' <=> Stuck(journal'))
  BY DEF Decides, Stuck
<1> QED BY <1>2, <1>4, <1>5, <1>6 DEF Agrees, Whole

(* So do the first event and the last.                                     *)
LEMMA RunEventsAgree ==
  ASSUME TypeOK, Derived, Open \/ Finish
  PROVE  Derived'
<1>1. /\ phase \in {"created", "running"} /\ documents' = {}
      /\ raised' = raised /\ decided' = decided
  BY DEF Open, Finish, Derived
<1>2. \/ phase' = "raised"
      \/ phase' = "running" /\ Written(<<RunCreated>>)
      \/ phase' = "finished" /\ raised = {} /\ Written(<<RunFinished>>)
  BY DEF Open, Finish
<1>3. ASSUME NEW e \in {RunCreated, RunFinished}, Written(<<e>>), raised = {} PROVE Agrees'
  <2>1. <<e>> \in Seq(Events) /\ DOMAIN <<e>> = {1} /\ <<e>>[1] = e
    BY RunEventTypes
  <2>2. e.type # "decision.recorded"
    <3>1. RunCreated.type = "run.created" /\ RunFinished.type = "run.finished"
      BY DEF RunCreated, RunFinished
    <3> QED BY <3>1
  <2>3. ~Decides(<<e>>)
    BY <2>1, <2>2 DEF Decides
  <2> QED BY <1>1, <1>3, <2>1, <2>3, WritingAgrees DEF Derived
<1>4. DocumentsMatchFile'
  BY <1>1, <1>2 DEF DocumentsMatchFile
<1> QED BY <1>1, <1>2, <1>3, <1>4 DEF Derived, Concluded

(* A node takes a step.                                                    *)
LEMMA NodeAgrees ==
  ASSUME TypeOK, Derived, NEW n \in Nodes, NodeStep(n)
  PROVE  Derived'
<1>1. Publishes(n)
  BY NodePublishes
<1>2. phase' = "running" /\ documents' = {}
  BY <1>1 DEF Publishes, Derived
<1>3. raised' = {} => Agrees'
  BY <1>1, WritingAgrees DEF Publishes, Derived
<1>4. DocumentsMatchFile'
  BY <1>2 DEF DocumentsMatchFile
<1> QED BY <1>2, <1>3, <1>4 DEF Derived, Concluded

(* The documents are written: a journal that is stuck on a decision never  *)
(* gets that far, for its fold is rejected.                                *)
LEMMA ReportAgrees ==
  ASSUME TypeOK, AbsentIsApart, Derived, WriteReport \/ WriteDecision
  PROVE  Derived'
<1>1. /\ journal' = journal /\ file' = file /\ raised' = raised /\ decided' = decided
      /\ phase \in {"finished", "reported"}
  BY DEF WriteReport, WriteDecision
<1>2. View' = View /\ (Decides(journal)' <=> Decides(journal)) /\ (Stuck(journal)' <=> Stuck(journal))
  BY <1>1 DEF View, Decides, Stuck
<1>3. raised = {} /\ Agrees /\ Agrees'
  BY <1>1, <1>2 DEF Derived, Concluded, Agrees, Whole
<1>4. CASE WriteReport
  <2>1. phase = "finished" /\ documents = {}
    BY <1>4 DEF WriteReport, Derived
  <2>2. CASE phase' = "raised" /\ documents' = documents
    <3>1. DocumentsMatchFile'
      BY <2>1, <2>2 DEF DocumentsMatchFile
    <3> QED BY <2>1, <2>2, <3>1 DEF Derived, Concluded
  <2>3. CASE /\ Replay!Replays(Replay!Frames(0, journal))
             /\ documents' = documents \cup {"report"}
             /\ phase' = IF decided THEN "reported" ELSE "returned"
    <3>1. ~View.rejected
      BY <2>3 DEF Replay!Replays, Replay!ReplaysPartially, View, Replay!Fold
    <3>2. ~Stuck(journal)
      BY <3>1, StuckIsRejected DEF TypeOK, View
    <3>3. decided <=> View.decision # None
      BY <1>3, <3>1, <3>2, DecisionFolds DEF Agrees, TypeOK, View
    <3>4. file = Replay!Frames(0, journal) /\ Replay!Replays(file)
      BY <1>3, <2>3 DEF Agrees, Whole
    <3>5. documents' = {"report"}
      BY <2>1, <2>3
    <3>6. DocumentsMatchFile'
      BY <1>1, <1>2, <2>3, <3>3, <3>4, <3>5 DEF DocumentsMatchFile
    <3> QED BY <1>1, <1>2, <1>3, <2>3, <3>3, <3>5, <3>6 DEF Derived, Concluded
  <2> QED BY <1>4, <2>2, <2>3 DEF WriteReport
<1>5. CASE WriteDecision
  <2>1. phase = "reported" /\ documents = {"report"} /\ View.decision # None
    BY <1>5 DEF WriteDecision, Derived
  <2>2. /\ phase' \in {"returned", "raised"}
        /\ documents' = {"report", "decision"} \/ (documents' = {"report"} /\ phase' = "raised")
    BY <1>5, <2>1 DEF WriteDecision
  <2>3. DocumentsMatchFile'
    BY <1>1, <1>2, <2>1, <2>2 DEF DocumentsMatchFile, Derived
  <2> QED BY <1>1, <1>3, <2>2, <2>3 DEF Derived, Concluded
<1> QED BY <1>4, <1>5

(* The steps that leave journal and documents alone.                       *)
LEMMA OthersAgree ==
  ASSUME Derived, AbortGroup \/ OwnerCancel \/ Unwind \/ UNCHANGED vars
  PROVE  Derived'
<1>1. /\ journal' = journal /\ file' = file /\ raised' = raised /\ decided' = decided
      /\ documents' = documents
      /\ phase' = phase \/ (phase = "running" /\ phase' = "raised")
  BY DEF AbortGroup, OwnerCancel, Unwind, vars
<1>2. View' = View /\ (Decides(journal)' <=> Decides(journal)) /\ (Stuck(journal)' <=> Stuck(journal))
  BY <1>1 DEF View, Decides, Stuck
<1>3. Agrees' <=> Agrees
  BY <1>1, <1>2 DEF Agrees, Whole
<1>4. DocumentsMatchFile'
  BY <1>1, <1>2 DEF DocumentsMatchFile, Derived
<1> QED BY <1>1, <1>2, <1>3, <1>4 DEF Derived, Concluded

(* The report and the decision are derived from the events of the file,    *)
(* and the decision is published exactly if the journal records one: of    *)
(* every plan, and even if texts have no encoding.                         *)
THEOREM DocumentsKept ==
  ASSUME AbsentIsApart
  PROVE  Spec => []DocumentsMatchFile
<1>1. Init => Derived
  <2> HAVE Init
  <2>1. << >> \in Seq(Events) /\ 0 \in Nat
    OBVIOUS
  <2>2. Replay!Frames(0, << >>) \in Seq(FileFrames)
    BY <2>1, FramesType DEF FileFrames
  <2>3. DOMAIN Replay!Frames(0, << >>) = {}
    BY DEF Replay!Frames
  <2>4. Replay!Frames(0, << >>) = << >>
    BY <2>2, <2>3
  <2>5. Agrees
    BY <2>4 DEF Init, Agrees, Whole, Decides
  <2>6. DocumentsMatchFile
    BY DEF Init, DocumentsMatchFile
  <2> QED BY <2>5, <2>6 DEF Init, Derived, Concluded
<1>2. TypeOK /\ Derived /\ [Next]_vars => Derived'
  BY RunEventsAgree, NodeAgrees, ReportAgrees, OthersAgree DEF Next
<1>3. Derived => DocumentsMatchFile
  BY DEF Derived
<1> QED BY <1>1, <1>2, <1>3, TypeCorrect, PTL DEF Spec
==============================================================================
