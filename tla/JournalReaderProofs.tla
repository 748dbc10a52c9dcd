-------------------------- MODULE JournalReaderProofs --------------------------
(***************************************************************************)
(* Theorems about reading a journal of unknown origin: what the fold has   *)
(* not rejected is true, for any alphabet of events and any length.        *)
(***************************************************************************)
EXTENDS JournalReader, FiniteSetsExt, SequenceTheorems, FunctionTheorems,
        FiniteSetTheorems, WellFoundedInduction, TLAPS

-----------------------------------------------------------------------------
(* The sum of a function over a finite set, as MapThenSumSet computes it:  *)
(* it does not depend on the order in which elements are chosen.           *)

Picked(s) == CHOOSE x \in s : TRUE

(* g holds the sum of f over each subset of S.                             *)
Summing(g, f, S) ==
  g = [s \in SUBSET S |-> IF s = {} THEN 0 ELSE f[Picked(s)] + g[s \ {Picked(s)}]]

SumOf(f, S) == (CHOOSE g : Summing(g, f, S))[S]

(* Of the subsets of a finite set that lack a property one is minimal.     *)
LEMMA MinimalSubset ==
  ASSUME NEW S, IsFiniteSet(S), NEW Bad \in SUBSET (SUBSET S), Bad # {}
  PROVE  \E A \in Bad : \A B \in SUBSET A : B # A => B \notin Bad
<1>1. IsWellFoundedOn(StrictSubsetOrdering(S), SUBSET S)
  BY FS_StrictSubsetOrderingWellFounded, FS_FiniteSubsetsOfFinite
<1>2. PICK A \in Bad : \A B \in Bad : ~(<< B, A >> \in StrictSubsetOrdering(S))
  BY <1>1, WFMin
<1> QED BY <1>2 DEF StrictSubsetOrdering

(* Two functions that agree on a set have the same sum over it, whatever   *)
(* else their sums are taken over.                                         *)
LEMMA SummingAgree ==
  ASSUME NEW S, NEW T, NEW f, NEW h, NEW g, NEW k, IsFiniteSet(S),
         Summing(g, f, S), Summing(k, h, T),
         NEW C, C \subseteq S, C \subseteq T, \A x \in C : f[x] = h[x]
  PROVE  g[C] = k[C]
<1> DEFINE Bad == {A \in SUBSET S : A \subseteq C /\ g[A] # k[A]}
<1> SUFFICES ASSUME Bad # {} PROVE FALSE
  OBVIOUS
<1>1. PICK A \in Bad : \A B \in SUBSET A : B # A => B \notin Bad
  <2> HIDE DEF Bad
  <2>1. Bad \in SUBSET (SUBSET S)
    BY DEF Bad
  <2> QED BY <2>1, MinimalSubset
<1>2. /\ g[A] = IF A = {} THEN 0 ELSE f[Picked(A)] + g[A \ {Picked(A)}]
      /\ k[A] = IF A = {} THEN 0 ELSE h[Picked(A)] + k[A \ {Picked(A)}]
  BY DEF Summing
<1>3. A # {}
  BY <1>2
<1>4. Picked(A) \in A
  BY <1>3 DEF Picked
<1>5. g[A \ {Picked(A)}] = k[A \ {Picked(A)}]
  BY <1>1, <1>4
<1> QED BY <1>2, <1>3, <1>4, <1>5

(* Sums exist.                                                             *)
LEMMA SummingExists ==
  ASSUME NEW S, IsFiniteSet(S), NEW f
  PROVE  \E g : Summing(g, f, S)
<1> DEFINE Bad == {A \in SUBSET S : ~ \E g : Summing(g, f, A)}
<1> SUFFICES ASSUME Bad # {} PROVE FALSE
  OBVIOUS
<1>1. PICK A \in Bad : \A B \in SUBSET A : B # A => B \notin Bad
  <2>1. Bad \in SUBSET (SUBSET S)
    OBVIOUS
  <2> HIDE DEF Bad
  <2> QED BY <2>1, MinimalSubset
<1>2. ASSUME NEW B \in SUBSET A, B # A
      PROVE  Summing(CHOOSE g : Summing(g, f, B), f, B)
  BY <1>1, <1>2
<1>3. \A B \in SUBSET A : IsFiniteSet(B)
  BY FS_Subset
<1>4. ASSUME NEW B \in SUBSET A, B # A, B # {}
      PROVE  SumOf(f, B) = f[Picked(B)] + SumOf(f, B \ {Picked(B)})
  <2> DEFINE x == Picked(B)
             g == CHOOSE i : Summing(i, f, B)
             k == CHOOSE i : Summing(i, f, B \ {x})
  <2>1. x \in B
    BY <1>4 DEF Picked
  <2>2. Summing(g, f, B) /\ Summing(k, f, B \ {x})
    BY <1>2, <1>4, <2>1
  <2>3. g[B] = f[x] + g[B \ {x}]
    BY <1>4, <2>2 DEF Summing
  <2>4. g[B \ {x}] = k[B \ {x}]
    <3> HIDE DEF g, k, x
    <3> QED BY <1>3, <2>1, <2>2, SummingAgree
  <2> QED BY <2>3, <2>4 DEF SumOf
<1>5. SumOf(f, {}) = 0 \/ A = {}
  <2> SUFFICES ASSUME A # {} PROVE SumOf(f, {}) = 0
    OBVIOUS
  <2>1. Summing(CHOOSE g : Summing(g, f, {}), f, {})
    BY <1>2
  <2> QED BY <2>1 DEF Summing, SumOf
<1> DEFINE sum == [s \in SUBSET A |->
                     IF s = {} THEN 0
                     ELSE IF s = A THEN f[Picked(A)] + SumOf(f, A \ {Picked(A)})
                     ELSE SumOf(f, s)]
<1>6. Summing(sum, f, A)
  <2> SUFFICES ASSUME NEW s \in SUBSET A, s # {}
               PROVE  sum[s] = f[Picked(s)] + sum[s \ {Picked(s)}]
    BY DEF Summing
  <2>1. Picked(s) \in s
    BY DEF Picked
  <2>2. sum[s \ {Picked(s)}] = SumOf(f, s \ {Picked(s)})
    BY <1>5, <2>1
  <2>3. sum[s] = f[Picked(s)] + SumOf(f, s \ {Picked(s)})
    BY <1>4
  <2> QED BY <2>2, <2>3
<1> QED BY <1>6

(* The function that a sum is taken from.                                  *)
LEMMA SummingChosen ==
  ASSUME NEW S, IsFiniteSet(S), NEW f
  PROVE  Summing(CHOOSE g : Summing(g, f, S), f, S)
BY SummingExists

(* Any function that sums over the subsets of S gives that sum.            *)
LEMMA SumUnique ==
  ASSUME NEW S, IsFiniteSet(S), NEW f, NEW g, Summing(g, f, S)
  PROVE  g[S] = SumOf(f, S)
<1> DEFINE h == CHOOSE i : Summing(i, f, S)
<1>1. Summing(h, f, S)
  BY SummingChosen
<1> HIDE DEF h
<1>2. g[S] = h[S]
  BY <1>1, SummingAgree
<1> QED BY <1>2 DEF h, SumOf

(* The sum over no elements.                                               *)
LEMMA SumEmpty ==
  ASSUME NEW f
  PROVE  SumOf(f, {}) = 0
BY SummingChosen, FS_EmptySet DEF Summing, SumOf

(* Functions that agree on a set have one sum over it.                     *)
LEMMA SumAgree ==
  ASSUME NEW S, IsFiniteSet(S), NEW f, NEW h, \A x \in S : f[x] = h[x]
  PROVE  SumOf(f, S) = SumOf(h, S)
BY SummingChosen, SummingAgree DEF SumOf

(* Taking out the element that is chosen first.                            *)
LEMMA SumPicked ==
  ASSUME NEW S, IsFiniteSet(S), NEW f, S # {}
  PROVE  SumOf(f, S) = f[Picked(S)] + SumOf(f, S \ {Picked(S)})
<1> DEFINE g == CHOOSE i : Summing(i, f, S)
           k == CHOOSE i : Summing(i, f, S \ {Picked(S)})
<1>1. Picked(S) \in S /\ IsFiniteSet(S \ {Picked(S)})
  BY FS_RemoveElement DEF Picked
<1>2. Summing(g, f, S) /\ Summing(k, f, S \ {Picked(S)})
  BY <1>1, SummingChosen
<1>3. g[S] = f[Picked(S)] + g[S \ {Picked(S)}]
  BY <1>2 DEF Summing
<1>4. g[S \ {Picked(S)}] = k[S \ {Picked(S)}]
  <2> HIDE DEF g, k
  <2> QED BY <1>1, <1>2, SummingAgree
<1> QED BY <1>3, <1>4 DEF SumOf

(* A sum of integers is an integer.                                        *)
LEMMA SumType ==
  ASSUME NEW S, IsFiniteSet(S), NEW f, \A x \in S : f[x] \in Int
  PROVE  SumOf(f, S) \in Int
<1> DEFINE Bad == {A \in SUBSET S : SumOf(f, A) \notin Int}
<1> SUFFICES ASSUME Bad # {} PROVE FALSE
  OBVIOUS
<1>1. PICK A \in Bad : \A B \in SUBSET A : B # A => B \notin Bad
  <2>1. Bad \in SUBSET (SUBSET S)
    OBVIOUS
  <2> HIDE DEF Bad
  <2> QED BY <2>1, MinimalSubset
<1>2. A # {}
  BY SumEmpty
<1>3. Picked(A) \in A
  BY <1>2 DEF Picked
<1>4. SumOf(f, A) = f[Picked(A)] + SumOf(f, A \ {Picked(A)})
  BY <1>2, SumPicked, FS_Subset
<1>5. SumOf(f, A \ {Picked(A)}) \in Int
  BY <1>1, <1>3
<1> QED BY <1>3, <1>4, <1>5

(* Any element can be taken out of a sum.                                  *)
LEMMA SumRemove ==
  ASSUME NEW S, IsFiniteSet(S), NEW f, \A x \in S : f[x] \in Int, NEW y \in S
  PROVE  SumOf(f, S) = f[y] + SumOf(f, S \ {y})
<1> DEFINE Bad == {A \in SUBSET S : \E z \in A : SumOf(f, A) # f[z] + SumOf(f, A \ {z})}
<1> SUFFICES ASSUME Bad # {} PROVE FALSE
  OBVIOUS
<1>1. PICK A \in Bad : \A B \in SUBSET A : B # A => B \notin Bad
  <2>1. Bad \in SUBSET (SUBSET S)
    OBVIOUS
  <2> HIDE DEF Bad
  <2> QED BY <2>1, MinimalSubset
<1>2. PICK z \in A : SumOf(f, A) # f[z] + SumOf(f, A \ {z})
  OBVIOUS
<1> DEFINE x == Picked(A)
<1>3. x \in A /\ \A B \in SUBSET A : IsFiniteSet(B)
  BY FS_Subset DEF Picked
<1>4. SumOf(f, A) = f[x] + SumOf(f, A \ {x})
  BY <1>3, SumPicked
<1>5. x # z
  BY <1>2, <1>4
<1>6. /\ SumOf(f, A \ {x}) = f[z] + SumOf(f, (A \ {x}) \ {z})
      /\ SumOf(f, A \ {z}) = f[x] + SumOf(f, (A \ {z}) \ {x})
  <2>1. A \ {x} \notin Bad /\ A \ {z} \notin Bad
    BY <1>1, <1>3
  <2>2. z \in A \ {x} /\ x \in A \ {z} /\ A \ {x} \in SUBSET S /\ A \ {z} \in SUBSET S
    BY <1>3, <1>5
  <2> QED BY <2>1, <2>2
<1>7. (A \ {x}) \ {z} = (A \ {z}) \ {x}
  OBVIOUS
<1>8. SumOf(f, (A \ {x}) \ {z}) \in Int /\ f[x] \in Int /\ f[z] \in Int
  <2>1. (A \ {x}) \ {z} \in SUBSET A
    OBVIOUS
  <2>2. \A t \in (A \ {x}) \ {z} : f[t] \in Int
    OBVIOUS
  <2> QED BY <1>3, <2>1, <2>2, SumType
<1>9. SumOf(f, A) = f[z] + SumOf(f, A \ {z})
  <2> HIDE DEF x, Bad
  <2>1. SumOf(f, A) = f[x] + (f[z] + SumOf(f, (A \ {x}) \ {z}))
    BY <1>4, <1>6
  <2>2. SumOf(f, A \ {z}) = f[x] + SumOf(f, (A \ {x}) \ {z})
    BY <1>6, <1>7
  <2> QED BY <1>8, <2>1, <2>2
<1> QED BY <1>2, <1>9

(* An element more.                                                        *)
LEMMA SumAdd ==
  ASSUME NEW S, IsFiniteSet(S), NEW f, NEW y, y \notin S, \A x \in S \cup {y} : f[x] \in Int
  PROVE  SumOf(f, S \cup {y}) = f[y] + SumOf(f, S)
<1>1. IsFiniteSet(S \cup {y}) /\ (S \cup {y}) \ {y} = S
  BY FS_AddElement
<1> QED BY <1>1, SumRemove

-----------------------------------------------------------------------------
(* What the fold reads. *)

ReadTypes == EventTypes \cup {"run.finished"}

NodeTypes ==
  {"node.started", "artifact.written", "budget.rejected", "model.dispatched",
   "model.completed", "model.failed", "node.completed", "node.failed"}

Bills == [calls : Nat, input : Int, output : Int, cost : Int]

Finished == [type : {"run.finished"}, status : {"completed", "failed", "running"},
             reason : {Unset, "node failure"}, totals : Bills]

FramesRead == [seq : Nat, event : Alphabet \cup Finished]

-----------------------------------------------------------------------------
(* The inductive invariant, by what the state of the fold says of the      *)
(* frames.                                                                 *)

ViewFields == {"rejected", "seq", "status", "nodes", "open", "ops", "artifacts",
               "totals", "decision"}
NodeFields == {"status", "calls", "role", "lastOutput", "output"}

IsRecord(r, fields) == r = [f \in fields |-> r[f]]

IsFunction(f) == f = [x \in DOMAIN f |-> f[x]]

Shaped ==
  /\ IsRecord(view, ViewFields)
  /\ view.rejected \in BOOLEAN
  /\ view.seq \in Nat
  /\ view.totals \in Bills
  /\ IsFunction(view.nodes) /\ IsFunction(view.open)
  /\ \A n \in DOMAIN view.nodes : IsRecord(view.nodes[n], NodeFields)
  /\ frames \in Seq(FramesRead)
  /\ view.seq = Len(frames)

(* The run has ended with the last frame or not at all.                    *)
Ended ==
  /\ view.status \in {"created", "running", "completed", "failed"}
  /\ view.status = "created" <=> DOMAIN frames = {}
  /\ Of("run.created") \subseteq {1}
  /\ view.status \in {"created", "running"} => Of("run.finished") = {}
  /\ view.status \in {"completed", "failed"} =>
       /\ Of("run.finished") \subseteq {Len(frames)}
       /\ \A n \in DOMAIN view.nodes : view.nodes[n].status \in {"completed", "failed"}
  /\ view.status = "completed" =>
       /\ \A n \in DOMAIN view.nodes : view.nodes[n].status = "completed"
       /\ Cardinality(DOMAIN view.nodes) = ExpectedNodes
       /\ DOMAIN view.open = {}
       /\ view.totals.calls <= CapCalls
       /\ view.totals.input + view.totals.output <= CapTokens
       /\ view.totals.cost <= CapCost

(* The status of a node is what its frames say.                            *)
TrackedNode(n) ==
  /\ view.nodes[n].status \in {"running", "completed", "failed"}
  /\ view.nodes[n].status = "running" => TerminalOf(n) = {}
  /\ view.nodes[n].status \in {"running", "completed"} =>
       \E s \in Of("node.started") :
         Event(s).node = n /\ Event(s).role = view.nodes[n].role
  /\ view.nodes[n].status = "completed" =>
       /\ view.nodes[n].output # Unset
       /\ \E t \in Of("node.completed") :
            TerminalOf(n) = {t} /\ Event(t).output = view.nodes[n].output
  /\ view.nodes[n].status = "failed" =>
       \E t \in Of("node.failed") : TerminalOf(n) = {t}

(* A node is tracked from its first frame on.                              *)
Tracked ==
  /\ IsFiniteSet(DOMAIN view.nodes)
  /\ \A i \in DOMAIN frames : Event(i).type \in NodeTypes => Event(i).node \in DOMAIN view.nodes
  /\ \A n \in DOMAIN view.nodes : TrackedNode(n)

(* No frame of a node follows its terminal one.                            *)
Silent ==
  \A t, i \in DOMAIN frames :
    /\ Event(t).type \in {"node.completed", "node.failed"}
    /\ Event(i).type \in NodeTypes /\ Event(i).node = Event(t).node
    => i <= t

(* Dispatches are told apart by their ids, each bill closes one, and the   *)
(* fold keeps those that none has closed.                                  *)
Dispatches ==
  /\ \A i \in Of("model.dispatched") : Event(i).op \in view.ops
  /\ \A i, j \in Of("model.dispatched") : Event(i).op = Event(j).op => i = j
  /\ \A c \in Closings : \E i \in DOMAIN frames : Opens(i, c)
  /\ \A b, c \in Closings : Event(b).op = Event(c).op => b = c
  /\ \A i \in Of("model.dispatched") :
       \/ \E c \in Closings : Opens(i, c)
       \/ /\ << Event(i).node, Event(i).op >> \in DOMAIN view.open
          /\ view.open[<< Event(i).node, Event(i).op >>] = Event(i).reserved
  /\ \A k \in DOMAIN view.open : \E i \in Of("model.dispatched") :
       /\ k = << Event(i).node, Event(i).op >>
       /\ \A c \in Closings : Event(c).op # Event(i).op

InputOf == [i \in DOMAIN frames |-> Event(i).usage.input]
OutputOf == [i \in DOMAIN frames |-> Event(i).usage.output]
CostOf == [i \in DOMAIN frames |-> Event(i).usage.cost]

(* The totals are the sum over the bills.                                  *)
Summed ==
  /\ view.totals.calls = Cardinality(Closings)
  /\ view.totals.input = SumOf(InputOf, Closings)
  /\ view.totals.output = SumOf(OutputOf, Closings)
  /\ view.totals.cost = SumOf(CostOf, Closings)

(* The second half is CancellationIsBilled's.                              *)
Cancelled ==
  /\ \A c \in Of("model.failed") : Event(c).reason = "cancelled" =>
       \E i \in DOMAIN frames :
         /\ Opens(i, c)
         /\ Event(c).usage.input + Event(c).usage.output = Event(i).reserved.tokens
         /\ Event(c).usage.cost = Event(i).reserved.cost
  /\ \A f \in Of("node.failed") : Event(f).reason = "cancelled" =>
       \A i \in Of("model.dispatched") :
         Event(i).node = Event(f).node => \E c \in Closings : Opens(i, c) /\ c < f

(* The last output of a node is that of its last answered call.            *)
LastCall(n, out, c) ==
  /\ c \in Of("model.completed") /\ Event(c).node = n /\ Event(c).output = out
  /\ \A b \in Of("model.completed") : Event(b).node = n => b <= c

Answered ==
  /\ \A n \in DOMAIN view.nodes :
       \/ \E c \in DOMAIN frames : LastCall(n, view.nodes[n].lastOutput, c)
       \/ /\ view.nodes[n].lastOutput = Unset
          /\ \A b \in Of("model.completed") : Event(b).node # n
  /\ \A i \in Of("node.completed") :
       \E c \in DOMAIN frames : c < i /\ LastCall(Event(i).node, Event(i).output, c)

(* There is one decision at most, and a judge made it.                     *)
Judged ==
  /\ view.decision = Unset => Of("decision.recorded") = {}
  /\ view.decision # Unset => \E d \in DOMAIN frames : Of("decision.recorded") = {d}
  /\ \A d \in Of("decision.recorded") : \E i \in Of("node.completed") :
       /\ i < d /\ Event(i).output = Event(d).source
       /\ \E s \in Of("node.started") :
            Event(s).node = Event(i).node /\ Event(s).role = "judge"

Believed ==
  Ended /\ Tracked /\ Silent /\ Dispatches /\ Summed /\ Cancelled /\ Answered /\ Judged

RInv == Shaped /\ Believed

-----------------------------------------------------------------------------
(* One frame more.                                                         *)

Folding(e) ==
  /\ Accepts(view, e)
  /\ view' = [Applied(view, e) EXCEPT !.seq = view.seq + 1]

Growing(e) ==
  /\ Folding(e)
  /\ frames' = Append(frames, [seq |-> view.seq + 1, event |-> e])

Rejecting == view' = [view EXCEPT !.rejected = TRUE] /\ frames' = frames

(* What a frame more, the n-th, is to the sets of frames.                  *)
Grown(e, n) ==
  /\ n \in Nat /\ n \notin DOMAIN frames /\ n = Len(frames) + 1
  /\ DOMAIN frames = {} => n = 1
  /\ DOMAIN frames' = DOMAIN frames \cup {n} /\ Len(frames') = n
  /\ \A i \in DOMAIN frames : i \in Nat /\ i < n /\ Event(i)' = Event(i)
  /\ Event(n)' = e
  /\ \A t : Of(t) \subseteq DOMAIN frames /\ Of(t)' = Of(t) \cup {i \in {n} : e.type = t}

(* The fields of the view that a frame leaves alone.                       *)
Keeping(fields) ==
  \A f \in {"rejected", "status", "nodes", "open", "ops", "totals", "decision"} \ fields :
    view'[f] = view[f]

(* The nodes but for the one of the frame.                                 *)
Updating(n) ==
  /\ DOMAIN view'.nodes = DOMAIN view.nodes \cup {n}
  /\ \A m \in DOMAIN view.nodes : m # n => view'.nodes[m] = view.nodes[m]

Closing(e) ==
  LET k == << e.node, e.op >> IN
  /\ k \in DOMAIN view.open
  /\ DOMAIN view'.open = DOMAIN view.open \ {k}
  /\ \A j \in DOMAIN view.open \ {k} : view'.open[j] = view.open[j]
  /\ view'.totals = Billed(view.totals, e.usage)
  /\ e.usage.input \in Int /\ e.usage.output \in Int /\ e.usage.cost \in Int

Running(n) == n \in DOMAIN view.nodes /\ view.nodes[n].status = "running"

Created(e) ==
  e.type = "run.created" =>
    Keeping({"status"}) /\ view.status = "created" /\ view'.status = "running"

Started(e) ==
  e.type = "node.started" =>
    /\ Keeping({"nodes"}) /\ Updating(e.node)
    /\ e.node \notin DOMAIN view.nodes
    /\ view'.nodes[e.node].status = "running"
    /\ view'.nodes[e.node].role = e.role
    /\ view'.nodes[e.node].lastOutput = Unset

Noted(e) ==
  e.type \in {"artifact.written", "budget.rejected"} => Keeping({}) /\ Running(e.node)

Dispatched(e) ==
  e.type = "model.dispatched" =>
    /\ Keeping({"ops", "open"}) /\ Running(e.node)
    /\ e.op \notin view.ops /\ view'.ops = view.ops \cup {e.op}
    /\ DOMAIN view'.open = DOMAIN view.open \cup {<< e.node, e.op >>}
    /\ view'.open[<< e.node, e.op >>] = e.reserved
    /\ \A k \in DOMAIN view.open :
         k # << e.node, e.op >> => view'.open[k] = view.open[k]

Answering(e) ==
  e.type = "model.completed" =>
    /\ Keeping({"nodes", "open", "totals"}) /\ Running(e.node)
    /\ Updating(e.node) /\ Closing(e)
    /\ view'.nodes[e.node].status = view.nodes[e.node].status
    /\ view'.nodes[e.node].role = view.nodes[e.node].role
    /\ view'.nodes[e.node].output = view.nodes[e.node].output
    /\ view'.nodes[e.node].lastOutput = e.output

Failing(e) ==
  e.type = "model.failed" =>
    /\ Keeping({"nodes", "open", "totals"}) /\ Running(e.node)
    /\ Updating(e.node) /\ Closing(e)
    /\ view'.nodes[e.node].status = view.nodes[e.node].status
    /\ view'.nodes[e.node].role = view.nodes[e.node].role
    /\ view'.nodes[e.node].output = view.nodes[e.node].output
    /\ view'.nodes[e.node].lastOutput = view.nodes[e.node].lastOutput
    /\ e.reason = "cancelled" =>
         /\ e.usage.input + e.usage.output = view.open[<< e.node, e.op >>].tokens
         /\ e.usage.cost = view.open[<< e.node, e.op >>].cost

NodeCompleted(e) ==
  e.type = "node.completed" =>
    /\ Keeping({"nodes"}) /\ Running(e.node) /\ Updating(e.node)
    /\ OpenOps(view, e.node) = {}
    /\ e.output = view.nodes[e.node].lastOutput /\ e.output # Unset
    /\ view'.nodes[e.node].status = "completed"
    /\ view'.nodes[e.node].output = e.output
    /\ view'.nodes[e.node].role = view.nodes[e.node].role
    /\ view'.nodes[e.node].lastOutput = e.output

NodeFailed(e) ==
  e.type = "node.failed" =>
    /\ Keeping({"nodes"}) /\ Updating(e.node)
    /\ e.node \in DOMAIN view.nodes => Running(e.node)
    /\ e.reason = "cancelled" => OpenOps(view, e.node) = {}
    /\ view'.nodes[e.node].status = "failed"
    /\ e.node \in DOMAIN view.nodes =>
         view'.nodes[e.node].lastOutput = view.nodes[e.node].lastOutput
    /\ e.node \notin DOMAIN view.nodes => view'.nodes[e.node].lastOutput = Unset

Decided(e) ==
  e.type = "decision.recorded" =>
    Keeping({"decision"}) /\ AcceptsDecision(view, e) /\ view'.decision = e.source

RunFinished(e) ==
  e.type = "run.finished" =>
    Keeping({"status"}) /\ AcceptsRunFinished(view, e) /\ view'.status = e.status

(* What the fold makes of the frame, event by event.                       *)
Folded(e) ==
  /\ e.type \in ReadTypes
  /\ view.status \notin {"completed", "failed"}
  /\ (e.type = "run.created") <=> (view.status = "created")
  /\ Created(e) /\ Started(e) /\ Noted(e) /\ Dispatched(e) /\ Answering(e)
  /\ Failing(e) /\ NodeCompleted(e) /\ NodeFailed(e) /\ Decided(e) /\ RunFinished(e)

(* What an event carries.                                                  *)
LEMMA Typed ==
  ASSUME NEW e \in Alphabet \cup Finished
  PROVE  /\ e.type \in ReadTypes
         /\ e.type \in {"model.completed", "model.failed"} =>
              e.usage.input \in Int /\ e.usage.output \in Int /\ e.usage.cost \in Int
         /\ e.type = "node.completed" => e.output # Unset
<1>1. CASE e \in Alphabet
  BY <1>1, ReaderAssumption DEF ReadTypes
<1>2. CASE e \in Finished
  BY <1>2 DEF Finished, ReadTypes
<1> QED BY <1>1, <1>2

(* An accepted frame is appended: what was read before stays as it was.    *)
LEMMA Grows ==
  ASSUME Shaped, NEW e \in Alphabet \cup Finished, Growing(e), NEW n, n = Len(frames) + 1
  PROVE  Grown(e, n)
<1>1. Len(frames) \in Nat /\ DOMAIN frames = 1 .. Len(frames)
  BY DEF Shaped
<1>2. /\ Len(frames') = n /\ DOMAIN frames' = 1 .. n
      /\ \A i \in 1 .. Len(frames) : frames'[i] = frames[i]
      /\ frames'[n] = [seq |-> view.seq + 1, event |-> e]
  <2>1. frames \in Seq(FramesRead) /\ [seq |-> view.seq + 1, event |-> e] \in FramesRead
    BY DEF Shaped, FramesRead
  <2> QED BY <2>1, AppendProperties DEF Growing
<1>3. /\ n \in Nat /\ n \notin DOMAIN frames 
      /\ DOMAIN frames = {} => n = 1
      /\ DOMAIN frames' = DOMAIN frames \cup {n} /\ Len(frames') = n
      /\ \A i \in DOMAIN frames : i \in Nat /\ i < n
  BY <1>1, <1>2
<1>4. \A i \in DOMAIN frames : Event(i)' = Event(i)
  BY <1>1, <1>2 DEF Event
<1>5. Event(n)' = e
  BY <1>2 DEF Event
<1>6. ASSUME NEW t
      PROVE  Of(t) \subseteq DOMAIN frames /\ Of(t)' = Of(t) \cup {i \in {n} : e.type = t}
  BY <1>3, <1>4, <1>5 DEF Of
<1> QED BY <1>3, <1>4, <1>5, <1>6 DEF Grown

(* Of a frame that the fold accepts, and of its event.                     *)
LEMMA Accepting ==
  ASSUME Shaped, Ended, Tracked, NEW e \in Alphabet \cup Finished, Folding(e)
  PROVE  Folded(e)
<1>1. /\ e.type \in ReadTypes
      /\ e.type \in {"model.completed", "model.failed"} =>
           e.usage.input \in Int /\ e.usage.output \in Int /\ e.usage.cost \in Int
      /\ e.type = "node.completed" => e.output # Unset
  BY Typed
<1>2. /\ view.status \notin {"completed", "failed"}
      /\ (e.type = "run.created") <=> (view.status = "created")
      /\ e.type = "decision.recorded" => AcceptsDecision(view, e)
      /\ e.type = "run.finished" => AcceptsRunFinished(view, e)
      /\ e.type \in NodeTypes => AcceptsNodeEvent(view, e)
  BY DEF Folding, Accepts, NodeTypes
<1>3. view' = [Applied(view, e) EXCEPT !.seq = view.seq + 1]
  BY DEF Folding
<1>4. view = [f \in ViewFields |-> view[f]]
  BY DEF Shaped, IsRecord, IsFunction
<1>5. Running(e.node) => NodeOf(view, e.node) = view.nodes[e.node]
  BY DEF Running, NodeOf
<1>6. RunningNode(view, e) => Running(e.node)
  BY DEF RunningNode, Running, NodeOf, Untracked
<1>7. \A n \in DOMAIN view.nodes :
        /\ view.nodes[n] = [f \in NodeFields |-> view.nodes[n][f]]
        /\ view.nodes[n].status \in {"running", "completed", "failed"}
  BY DEF Shaped, IsRecord, Tracked, TrackedNode
<1>8. /\ view.nodes = [n \in DOMAIN view.nodes |-> view.nodes[n]]
      /\ view.open = [k \in DOMAIN view.open |-> view.open[k]]
  BY DEF Shaped, IsRecord, IsFunction
<1>created. Created(e)
  <2> SUFFICES ASSUME e.type = "run.created" PROVE Created(e)
    BY DEF Created
  <2>1. Applied(view, e) = [view EXCEPT !.status = "running"]
    BY DEF Applied
  <2> QED BY <1>2, <1>3, <1>4, <2>1 DEF Created, Keeping, ViewFields
<1>started. Started(e)
  <2> SUFFICES ASSUME e.type = "node.started" PROVE Started(e)
    BY DEF Started
  <2>1. Applied(view, e) = WithNode(view, e.node,
          [NodeOf(view, e.node) EXCEPT !.status = "running", !.role = e.role])
    BY DEF Applied
  <2>2. "running" \in NodeTransitions(NodeOf(view, e.node).status)
    BY <1>2 DEF AcceptsNodeEvent, NodeTypes
  <2>3. e.node \notin DOMAIN view.nodes
    BY <1>7, <2>2 DEF NodeTransitions, NodeOf
  <2>4. NodeOf(view, e.node) = Untracked
    BY <2>3 DEF NodeOf
  <2>5. /\ view'.nodes = [m \in DOMAIN view.nodes \cup {e.node} |->
             IF m = e.node THEN [Untracked EXCEPT !.status = "running", !.role = e.role]
             ELSE view.nodes[m]]
        /\ Keeping({"nodes"})
    BY ZenonT(60), <1>3, <1>4, <2>1, <2>4 DEF WithNode, Keeping, ViewFields
  <2>6. Updating(e.node)
    BY <2>5 DEF Updating
  <2>7. /\ view'.nodes[e.node].status = "running"
        /\ view'.nodes[e.node].role = e.role
        /\ view'.nodes[e.node].lastOutput = Unset
    BY <2>5 DEF Untracked
  <2> QED BY <2>3, <2>5, <2>6, <2>7 DEF Started
<1>noted. Noted(e)
  <2> SUFFICES ASSUME e.type \in {"artifact.written", "budget.rejected"} PROVE Noted(e)
    BY DEF Noted
  <2>1. RunningNode(view, e)
    BY <1>2 DEF AcceptsNodeEvent, NodeTypes
  <2>2. CASE e.type = "artifact.written"
    <3>1. Applied(view, e) = [view EXCEPT !.artifacts = @ \cup {e.artifact}]
      BY <2>2 DEF Applied
    <3> QED BY <1>3, <1>4, <1>6, <2>1, <3>1 DEF Noted, Keeping, ViewFields
  <2>3. CASE e.type = "budget.rejected"
    <3>1. Applied(view, e) = view
      BY <2>3 DEF Applied
    <3> QED BY <1>3, <1>4, <1>6, <2>1, <3>1 DEF Noted, Keeping, ViewFields
  <2> QED BY <2>2, <2>3
<1>dispatched. Dispatched(e)
  <2> SUFFICES ASSUME e.type = "model.dispatched" PROVE Dispatched(e)
    BY DEF Dispatched
  <2>1. AcceptsDispatch(view, e)
    BY <1>2 DEF AcceptsNodeEvent, NodeTypes
  <2>2. Applied(view, e) =
          [ view EXCEPT !.ops = @ \cup {e.op},
                    !.open = [ k \in DOMAIN view.open \cup {<<e.node, e.op>>} |->
                                 IF k = <<e.node, e.op>> THEN e.reserved
                                 ELSE view.open[k] ] ]
    BY DEF Applied
  <2>3. /\ view'.ops = view.ops \cup {e.op}
        /\ view'.open = [ k \in DOMAIN view.open \cup {<<e.node, e.op>>} |->
                            IF k = <<e.node, e.op>> THEN e.reserved ELSE view.open[k] ]
        /\ Keeping({"ops", "open"})
    BY <1>3, <1>4, <2>2 DEF Keeping, ViewFields
  <2> QED BY <1>6, <2>1, <2>3 DEF Dispatched, AcceptsDispatch
<1>billed. ASSUME e.type \in {"model.completed", "model.failed"}, NEW r,
                  r = [f \in NodeFields |-> r[f]],
                  Running(e.node), << e.node, e.op >> \in DOMAIN view.open,
                  Applied(view, e) = BilledTo(view, e, r)
           PROVE  /\ Keeping({"nodes", "open", "totals"}) /\ Updating(e.node) /\ Closing(e)
                  /\ view'.nodes[e.node].status = r.status
                  /\ view'.nodes[e.node].role = r.role
                  /\ view'.nodes[e.node].output = r.output
                  /\ view'.nodes[e.node].lastOutput = r.lastOutput
  <2>1. /\ view'.nodes = [m \in DOMAIN view.nodes \cup {e.node} |->
             IF m = e.node THEN [r EXCEPT !.calls = @ + 1] ELSE view.nodes[m]]
        /\ view'.open = Without(view.open, <<e.node, e.op>>)
        /\ view'.totals = Billed(view.totals, e.usage)
        /\ Keeping({"nodes", "open", "totals"})
    BY <1>3, <1>4, <1>billed DEF BilledTo, WithNode, Keeping, ViewFields
  <2>2. Updating(e.node)
    BY <2>1 DEF Updating
  <2>3. view'.nodes[e.node] = [r EXCEPT !.calls = @ + 1]
    BY <2>1
  <2>4. Closing(e)
    BY <1>1, <1>billed, <2>1 DEF Closing, Without
  <2> QED BY <1>billed, <2>1, <2>2, <2>3, <2>4 DEF NodeFields
<1>answering. Answering(e)
  <2> SUFFICES ASSUME e.type = "model.completed" PROVE Answering(e)
    BY DEF Answering
  <2>1. AcceptsModelCompleted(view, e)
    BY <1>2 DEF AcceptsNodeEvent, NodeTypes
  <2>2. Running(e.node) /\ << e.node, e.op >> \in DOMAIN view.open
    BY <1>6, <2>1 DEF AcceptsModelCompleted
  <2> DEFINE r == [NodeOf(view, e.node) EXCEPT !.lastOutput = e.output]
  <2>3. Applied(view, e) = BilledTo(view, e, r)
    BY DEF Applied
  <2>4. /\ r = [f \in NodeFields |-> r[f]]
        /\ r.status = view.nodes[e.node].status /\ r.role = view.nodes[e.node].role
        /\ r.output = view.nodes[e.node].output /\ r.lastOutput = e.output
    BY <1>5, <1>7, <2>2 DEF NodeFields, Running
  <2> HIDE DEF r
  <2> QED BY <1>billed, <2>2, <2>3, <2>4 DEF Answering
<1>failing. Failing(e)
  <2> SUFFICES ASSUME e.type = "model.failed" PROVE Failing(e)
    BY DEF Failing
  <2>1. AcceptsModelFailed(view, e)
    BY <1>2 DEF AcceptsNodeEvent, NodeTypes
  <2>2. Running(e.node) /\ << e.node, e.op >> \in DOMAIN view.open
    BY <1>6, <2>1 DEF AcceptsModelFailed
  <2> DEFINE r == NodeOf(view, e.node)
  <2>3. Applied(view, e) = BilledTo(view, e, r)
    BY DEF Applied
  <2>4. r = [f \in NodeFields |-> r[f]] /\ r = view.nodes[e.node]
    BY <1>5, <1>7, <2>2 DEF Running
  <2> HIDE DEF r
  <2>5. e.reason = "cancelled" =>
          /\ e.usage.input + e.usage.output = view.open[<< e.node, e.op >>].tokens
          /\ e.usage.cost = view.open[<< e.node, e.op >>].cost
    BY <2>1 DEF AcceptsModelFailed
  <2> QED BY <1>billed, <2>2, <2>3, <2>4, <2>5 DEF Failing
<1>completed. NodeCompleted(e)
  <2> SUFFICES ASSUME e.type = "node.completed" PROVE NodeCompleted(e)
    BY DEF NodeCompleted
  <2>1. AcceptsNodeCompleted(view, e)
    BY <1>2 DEF AcceptsNodeEvent, NodeTypes
  <2>2. Running(e.node)
    BY <1>7, <2>1 DEF AcceptsNodeCompleted, NodeTransitions, NodeOf, Untracked, Running
  <2> DEFINE r == [NodeOf(view, e.node) EXCEPT !.status = "completed", !.output = e.output]
  <2>3. Applied(view, e) = WithNode(view, e.node, r)
    BY DEF Applied
  <2>4. /\ r.status = "completed" /\ r.output = e.output
        /\ r.role = view.nodes[e.node].role
        /\ r.lastOutput = view.nodes[e.node].lastOutput
    BY <1>5, <1>7, <2>2 DEF NodeFields, Running
  <2>5. OpenOps(view, e.node) = {} /\ e.output = view.nodes[e.node].lastOutput
    BY <1>5, <2>1, <2>2 DEF AcceptsNodeCompleted
  <2> HIDE DEF r
  <2>6. /\ view'.nodes = [m \in DOMAIN view.nodes \cup {e.node} |->
             IF m = e.node THEN r ELSE view.nodes[m]]
        /\ Keeping({"nodes"})
    BY <1>3, <1>4, <2>3 DEF WithNode, Keeping, ViewFields
  <2>7. Updating(e.node) /\ view'.nodes[e.node] = r
    BY <2>6 DEF Updating
  <2> QED BY <1>1, <2>2, <2>4, <2>5, <2>6, <2>7 DEF NodeCompleted
<1>failed. NodeFailed(e)
  <2> SUFFICES ASSUME e.type = "node.failed" PROVE NodeFailed(e)
    BY DEF NodeFailed
  <2>1. AcceptsNodeFailed(view, e)
    BY <1>2 DEF AcceptsNodeEvent, NodeTypes
  <2>2. e.node \in DOMAIN view.nodes => Running(e.node)
    BY <1>7, <2>1 DEF AcceptsNodeFailed, NodeTransitions, NodeOf, Running
  <2> DEFINE r == [NodeOf(view, e.node) EXCEPT !.status = "failed"]
  <2>3. Applied(view, e) = WithNode(view, e.node, r)
    BY DEF Applied
  <2>4. /\ r.status = "failed"
        /\ e.node \in DOMAIN view.nodes => r.lastOutput = view.nodes[e.node].lastOutput
        /\ e.node \notin DOMAIN view.nodes => r.lastOutput = Unset
    BY <1>7 DEF NodeFields, NodeOf, Untracked
  <2>5. e.reason = "cancelled" => OpenOps(view, e.node) = {}
    BY <2>1 DEF AcceptsNodeFailed
  <2> HIDE DEF r
  <2>6. /\ view'.nodes = [m \in DOMAIN view.nodes \cup {e.node} |->
             IF m = e.node THEN r ELSE view.nodes[m]]
        /\ Keeping({"nodes"})
    BY <1>3, <1>4, <2>3 DEF WithNode, Keeping, ViewFields
  <2>7. Updating(e.node) /\ view'.nodes[e.node] = r
    BY <2>6 DEF Updating
  <2> QED BY <2>2, <2>4, <2>5, <2>6, <2>7 DEF NodeFailed
<1>decided. Decided(e)
  <2> SUFFICES ASSUME e.type = "decision.recorded" PROVE Decided(e)
    BY DEF Decided
  <2>1. Applied(view, e) = [view EXCEPT !.decision = e.source]
    BY DEF Applied
  <2> QED BY <1>2, <1>3, <1>4, <2>1 DEF Decided, Keeping, ViewFields
<1>finished. RunFinished(e)
  <2> SUFFICES ASSUME e.type = "run.finished" PROVE RunFinished(e)
    BY DEF RunFinished
  <2>1. Applied(view, e) = [view EXCEPT !.status = e.status]
    BY DEF Applied
  <2> QED BY <1>2, <1>3, <1>4, <2>1 DEF RunFinished, Keeping, ViewFields
<1> QED
  BY <1>1, <1>2, <1>created, <1>started, <1>noted, <1>dispatched, <1>answering, <1>failing,
     <1>completed, <1>failed, <1>decided, <1>finished DEF Folded

-----------------------------------------------------------------------------
(* Each part of the invariant is kept by an accepted frame.                *)

(* The view keeps its shape, and counts the frames.                        *)
LEMMA ShapedKept ==
  ASSUME Shaped, NEW e \in Alphabet \cup Finished, Growing(e), Tracked, Ended
  PROVE  Shaped'
<1>1. Folded(e)
  BY Accepting DEF Growing
<1>2. view' = [Applied(view, e) EXCEPT !.seq = view.seq + 1]
  BY DEF Growing, Folding
<1>3. /\ view = [f \in ViewFields |-> view[f]] /\ view.rejected \in BOOLEAN
      /\ view.nodes = [n \in DOMAIN view.nodes |-> view.nodes[n]]
      /\ view.open = [k \in DOMAIN view.open |-> view.open[k]]
      /\ \A n \in DOMAIN view.nodes : view.nodes[n] = [f \in NodeFields |-> view.nodes[n][f]]
      /\ view.seq = Len(frames) /\ frames \in Seq(FramesRead) /\ view.totals \in Bills
  BY DEF Shaped, IsRecord, IsFunction
<1>4. frames' \in Seq(FramesRead) /\ Len(frames') = Len(frames) + 1
  <2>1. [seq |-> view.seq + 1, event |-> e] \in FramesRead
    BY <1>3 DEF FramesRead
  <2> QED BY <1>3, <2>1, AppendProperties DEF Growing
<1> DEFINE Fine(v) ==
             /\ v = [f \in ViewFields |-> v[f]] /\ v.rejected \in BOOLEAN
             /\ v.nodes = [n \in DOMAIN v.nodes |-> v.nodes[n]]
             /\ v.open = [k \in DOMAIN v.open |-> v.open[k]]
             /\ \A n \in DOMAIN v.nodes : v.nodes[n] = [f \in NodeFields |-> v.nodes[n][f]]
<1>5. Fine(view)
  BY <1>3
<1>6. ASSUME NEW r, r = [f \in NodeFields |-> r[f]]
      PROVE  Fine(WithNode(view, e.node, r))
  <2> DEFINE w == WithNode(view, e.node, r)
  <2>1. /\ w = [f \in ViewFields |-> w[f]] /\ w.rejected = view.rejected
        /\ w.open = view.open
        /\ w.nodes = [m \in DOMAIN view.nodes \cup {e.node} |->
                        IF m = e.node THEN r ELSE view.nodes[m]]
    BY <1>3 DEF WithNode, ViewFields
  <2> HIDE DEF w
  <2>2. w.nodes = [m \in DOMAIN w.nodes |-> w.nodes[m]]
    BY <2>1
  <2>3. \A m \in DOMAIN w.nodes : w.nodes[m] = [f \in NodeFields |-> w.nodes[m][f]]
    <3> TAKE m \in DOMAIN w.nodes
    <3>1. \/ w.nodes[m] = r
          \/ m \in DOMAIN view.nodes /\ w.nodes[m] = view.nodes[m]
      BY <2>1
    <3> QED BY <1>3, <1>6, <3>1
  <2>4. Fine(w)
    BY <1>3, <2>1, <2>2, <2>3
  <2> QED BY <2>4 DEF w
<1>7. NodeOf(view, e.node) = [f \in NodeFields |-> NodeOf(view, e.node)[f]]
  BY <1>3 DEF NodeOf, Untracked, NodeFields
<1>8. Fine(Applied(view, e))
  <2>0. e.type \in ReadTypes
    BY <1>1 DEF Folded
  <2>1. CASE e.type \in {"node.started", "node.completed", "node.failed"}
    <3>1. PICK r : r = [f \in NodeFields |-> r[f]] /\ Applied(view, e) = WithNode(view, e.node, r)
      <4>1. CASE e.type = "node.started"
        BY <1>7, <4>1 DEF Applied, NodeFields
      <4>2. CASE e.type = "node.completed"
        BY <1>7, <4>2 DEF Applied, NodeFields
      <4>3. CASE e.type = "node.failed"
        BY <1>7, <4>3 DEF Applied, NodeFields
      <4> QED BY <2>1, <4>1, <4>2, <4>3
    <3> HIDE DEF Fine
    <3> QED BY <1>6, <3>1
  <2>2. CASE e.type \in {"model.completed", "model.failed"}
    <3>1. PICK r : r = [f \in NodeFields |-> r[f]] /\ Applied(view, e) = BilledTo(view, e, r)
      <4>1. CASE e.type = "model.completed"
        BY <1>7, <4>1 DEF Applied, NodeFields
      <4>2. CASE e.type = "model.failed"
        BY <1>7, <4>2 DEF Applied, NodeFields
      <4> QED BY <2>2, <4>1, <4>2
    <3> DEFINE w == WithNode(view, e.node, [r EXCEPT !.calls = @ + 1])
    <3>2. Fine(w)
      BY <1>6, <3>1 DEF NodeFields
    <3>3. Applied(view, e) =
            [w EXCEPT !.open = Without(view.open, << e.node, e.op >>),
                      !.totals = Billed(view.totals, e.usage)]
      BY <3>1 DEF BilledTo
    <3> HIDE DEF w
    <3> DEFINE o == Without(view.open, << e.node, e.op >>)
    <3>4. o = [k \in DOMAIN o |-> o[k]]
      BY DEF Without
    <3> DEFINE u == Applied(view, e)
    <3> HIDE DEF o
    <3>5. u = [w EXCEPT !.open = o, !.totals = Billed(view.totals, e.usage)]
      BY <3>3 DEF o
    <3> HIDE DEF u
    <3>6. /\ u = [f \in ViewFields |-> u[f]] /\ u.rejected = w.rejected
          /\ u.nodes = w.nodes /\ u.open = o
      BY <3>2, <3>5 DEF ViewFields
    <3>7. Fine(u)
      BY SMTT(30), <3>2, <3>4, <3>6
    <3> QED BY <3>7 DEF u
  <2>3. CASE e.type \in {"run.created", "artifact.written", "budget.rejected", "model.dispatched",
                         "decision.recorded", "run.finished"}
    <3>1. CASE e.type = "model.dispatched"
      <4> DEFINE o == [ k \in DOMAIN view.open \cup {<<e.node, e.op>>} |->
                                 IF k = <<e.node, e.op>> THEN e.reserved ELSE view.open[k] ]
      <4>1. o = [k \in DOMAIN o |-> o[k]]
        OBVIOUS
      <4>2. Applied(view, e) = [view EXCEPT !.ops = @ \cup {e.op}, !.open = o]
        BY <3>1 DEF Applied
      <4> DEFINE u == Applied(view, e)
      <4> HIDE DEF o, u
      <4>3. /\ u = [f \in ViewFields |-> u[f]] /\ u.rejected = view.rejected
            /\ u.nodes = view.nodes /\ u.open = o
        BY <1>5, <4>2 DEF ViewFields, u
      <4>4. Fine(u)
        BY ZenonT(60), <1>5, <4>1, <4>3
      <4> QED BY <4>4 DEF u
    <3>2. CASE e.type = "run.created"
      BY <1>5, <3>2 DEF Applied, ViewFields
    <3>3. CASE e.type = "artifact.written"
      BY ZenonT(60), <1>5, <3>3 DEF Applied, ViewFields
    <3>4. CASE e.type = "budget.rejected"
      BY <1>5, <3>4 DEF Applied
    <3>5. CASE e.type = "decision.recorded"
      BY <1>5, <3>5 DEF Applied, ViewFields
    <3>6. CASE e.type = "run.finished"
      BY <1>5, <3>6 DEF Applied, ViewFields
    <3> QED BY <2>3, <3>1, <3>2, <3>3, <3>4, <3>5, <3>6
  <2> QED BY <2>0, <2>1, <2>2, <2>3 DEF ReadTypes, EventTypes
<1>9. Fine(view') /\ view'.seq = view.seq + 1
  <2> DEFINE w == Applied(view, e)
  <2>1. Fine(w)
    BY <1>8
  <2>2. view' = [w EXCEPT !.seq = view.seq + 1]
    BY <1>2
  <2> HIDE DEF w
  <2>3. /\ view' = [f \in ViewFields |-> view'[f]] /\ view'.rejected = w.rejected
        /\ view'.nodes = w.nodes /\ view'.open = w.open /\ view'.seq = view.seq + 1
    BY <2>1, <2>2 DEF ViewFields
  <2> QED BY SMTT(30), <2>1, <2>3
<1>10. view'.totals \in Bills
  <2>1. CASE e.type \in {"model.completed", "model.failed"}
    <3>1. Closing(e)
      BY <1>1, <2>1 DEF Folded, Answering, Failing
    <3>2. /\ view.totals.calls \in Nat /\ view.totals.input \in Int
          /\ view.totals.output \in Int /\ view.totals.cost \in Int
      BY <1>3 DEF Bills
    <3> QED BY <3>1, <3>2 DEF Closing, Billed, Bills
  <2>2. CASE e.type \notin {"model.completed", "model.failed"}
    <3>1. view'.totals = view.totals
      BY <1>1, <2>2 DEF Folded, Keeping, Created, Started, Noted, Dispatched,
         NodeCompleted, NodeFailed, Decided, RunFinished, ReadTypes, EventTypes
    <3> QED BY <1>3, <3>1
  <2> QED BY <2>1, <2>2
<1> QED BY <1>3, <1>4, <1>9, <1>10 DEF Shaped, IsRecord, IsFunction

(* What a frame leaves alone, field by field.                              *)
LEMMA Untouched ==
  ASSUME NEW e, Folded(e)
  PROVE  /\ e.type \notin {"run.created", "run.finished"} => view'.status = view.status
         /\ e.type \in {"run.created", "run.finished", "artifact.written", "budget.rejected",
                        "model.dispatched", "decision.recorded"} => view'.nodes = view.nodes
         /\ e.type \notin {"model.dispatched", "model.completed", "model.failed"} =>
              view'.open = view.open
         /\ e.type # "model.dispatched" => view'.ops = view.ops
         /\ e.type \notin {"model.completed", "model.failed"} => view'.totals = view.totals
         /\ e.type # "decision.recorded" => view'.decision = view.decision
         /\ view'.rejected = view.rejected
<1>1. e.type \in ReadTypes
  BY DEF Folded
<1>2. CASE e.type = "run.created"
  BY <1>2 DEF Folded, Created, Keeping
<1>3. CASE e.type = "node.started"
  BY <1>3 DEF Folded, Started, Keeping
<1>4. CASE e.type \in {"artifact.written", "budget.rejected"}
  BY <1>4 DEF Folded, Noted, Keeping
<1>5. CASE e.type = "model.dispatched"
  BY <1>5 DEF Folded, Dispatched, Keeping
<1>6. CASE e.type = "model.completed"
  BY <1>6 DEF Folded, Answering, Keeping
<1>7. CASE e.type = "model.failed"
  BY <1>7 DEF Folded, Failing, Keeping
<1>8. CASE e.type = "node.completed"
  BY <1>8 DEF Folded, NodeCompleted, Keeping
<1>9. CASE e.type = "node.failed"
  BY <1>9 DEF Folded, NodeFailed, Keeping
<1>10. CASE e.type = "decision.recorded"
  BY <1>10 DEF Folded, Decided, Keeping
<1>11. CASE e.type = "run.finished"
  BY <1>11 DEF Folded, RunFinished, Keeping
<1> QED
  BY <1>1, <1>2, <1>3, <1>4, <1>5, <1>6, <1>7, <1>8, <1>9, <1>10, <1>11
     DEF ReadTypes, EventTypes

(* What a frame adds to the sets of frames that the properties speak of.   *)
Counted(e, n) ==
  /\ Closings \subseteq DOMAIN frames
  /\ Closings' = Closings \cup {i \in {n} : e.type \in {"model.completed", "model.failed"}}
  /\ \A i, c \in DOMAIN frames : Opens(i, c)' = Opens(i, c)
  /\ \A i : Opens(i, n)' <=>
       /\ i \in Of("model.dispatched")
       /\ Event(i).node = e.node /\ Event(i).op = e.op
  /\ \A c \in DOMAIN frames : ~ Opens(n, c)'
  /\ \A m : TerminalOf(m) \subseteq DOMAIN frames
  /\ \A m : TerminalOf(m)' =
       TerminalOf(m) \cup {i \in {n} : e.type \in {"node.completed", "node.failed"} /\ e.node = m}

(* How the sets of events that the properties speak of grow.               *)
LEMMA Counts ==
  ASSUME NEW e, NEW n, Grown(e, n)
  PROVE  Counted(e, n)
<1>1. /\ n \in Nat /\ n \notin DOMAIN frames
      /\ \A i \in DOMAIN frames : i \in Nat /\ i < n /\ Event(i)' = Event(i)
      /\ Event(n)' = e
      /\ DOMAIN frames' = DOMAIN frames \cup {n}
      /\ \A t : Of(t) \subseteq DOMAIN frames /\ Of(t)' = Of(t) \cup {i \in {n} : e.type = t}
  BY DEF Grown
<1>2. /\ Closings \subseteq DOMAIN frames
      /\ Closings' = Closings \cup {i \in {n} : e.type \in {"model.completed", "model.failed"}}
  BY <1>1 DEF Closings
<1>3. \A i, c \in DOMAIN frames : Opens(i, c)' = Opens(i, c)
  BY <1>1 DEF Opens
<1>4. \A i : Opens(i, n)' <=>
        /\ i \in Of("model.dispatched")
        /\ Event(i).node = e.node /\ Event(i).op = e.op
  BY <1>1 DEF Opens
<1>5. \A c \in DOMAIN frames : ~ Opens(n, c)'
  BY <1>1 DEF Opens
<1>6. ASSUME NEW m
      PROVE  /\ TerminalOf(m) \subseteq DOMAIN frames
             /\ TerminalOf(m)' = TerminalOf(m) \cup
                  {i \in {n} : e.type \in {"node.completed", "node.failed"} /\ e.node = m}
  BY <1>1 DEF TerminalOf
<1> QED BY <1>2, <1>3, <1>4, <1>5, <1>6 DEF Counted

(* A run is created once, first, and finished at most once, last.          *)
LEMMA EndedKept ==
  ASSUME Ended, NEW e, NEW n, Grown(e, n), Folded(e)
  PROVE  Ended'
<1>1. /\ Of("run.created")' = Of("run.created") \cup {i \in {n} : e.type = "run.created"}
      /\ Of("run.finished")' = Of("run.finished") \cup {i \in {n} : e.type = "run.finished"}
      /\ n \in DOMAIN frames' /\ Len(frames') = n
      /\ DOMAIN frames = {} => n = 1
  BY DEF Grown
<1>2. /\ view.status \in {"created", "running"}
      /\ (e.type = "run.created") <=> (view.status = "created")
  BY DEF Folded, Ended
<1>3. CASE e.type = "run.created"
  <2>1. view'.status = "running" /\ view.status = "created"
    BY <1>3 DEF Folded, Created
  <2>2. DOMAIN frames = {} /\ Of("run.created") \subseteq {1} /\ Of("run.finished") = {}
    BY <2>1 DEF Ended
  <2>3. /\ Of("run.created")' \subseteq {1} /\ Of("run.finished")' = {}
        /\ DOMAIN frames' # {}
    BY <1>1, <1>3, <2>2
  <2> QED BY <2>1, <2>3 DEF Ended
<1>4. CASE e.type = "run.finished"
  <2>1. AcceptsRunFinished(view, e) /\ view'.status = e.status
    BY <1>4 DEF Folded, RunFinished
  <2>2. view'.nodes = view.nodes /\ view'.open = view.open /\ view'.totals = view.totals
    BY <1>4, Untouched
  <2>3. /\ view'.status \in {"completed", "failed"}
        /\ \A m \in DOMAIN view.nodes : view.nodes[m].status \in {"completed", "failed"}
    BY <2>1 DEF AcceptsRunFinished, NodesWith
  <2>4. view'.status = "completed" =>
          /\ \A m \in DOMAIN view.nodes : view.nodes[m].status = "completed"
          /\ Cardinality(DOMAIN view.nodes) = ExpectedNodes
          /\ DOMAIN view.open = {}
          /\ view.totals.calls <= CapCalls
          /\ view.totals.input + view.totals.output <= CapTokens
          /\ view.totals.cost <= CapCost
    BY <2>1, <2>3 DEF AcceptsRunFinished, NodesWith
  <2>5. Of("run.finished")' = {n} /\ Of("run.created")' \subseteq {1}
    BY <1>1, <1>2, <1>4 DEF Ended
  <2>6. DOMAIN frames' # {} /\ Len(frames') = n
    BY <1>1
  <2> QED BY <2>2, <2>3, <2>4, <2>5, <2>6 DEF Ended
<1>5. CASE e.type \notin {"run.created", "run.finished"}
  <2>1. view'.status = view.status
    BY <1>5, Untouched
  <2>2. Of("run.created") \subseteq {1} /\ Of("run.finished") = {}
    BY <1>2 DEF Ended
  <2>3. /\ Of("run.created")' \subseteq {1} /\ Of("run.finished")' = {}
        /\ DOMAIN frames' # {}
    BY <1>1, <1>5, <2>2
  <2> QED BY <1>2, <1>5, <2>1, <2>3 DEF Ended
<1> QED BY <1>3, <1>4, <1>5

(* A frame of a node comes before the terminal one of that node.           *)
LEMMA StillOpen ==
  ASSUME Tracked, NEW e, NEW n, Grown(e, n), Folded(e), e.type \in NodeTypes
  PROVE  /\ TerminalOf(e.node) = {}
         /\ e.node \in DOMAIN view.nodes => Running(e.node)
         /\ e.node \notin DOMAIN view.nodes =>
              \A i \in DOMAIN frames : Event(i).type \in NodeTypes => Event(i).node # e.node
<1>1. e.node \in DOMAIN view.nodes => Running(e.node)
  <2>1. CASE e.type = "node.started"
    BY <2>1 DEF Folded, Started
  <2>2. CASE e.type \in {"artifact.written", "budget.rejected"}
    BY <2>2 DEF Folded, Noted
  <2>3. CASE e.type = "model.dispatched"
    BY <2>3 DEF Folded, Dispatched
  <2>4. CASE e.type = "model.completed"
    BY <2>4 DEF Folded, Answering
  <2>5. CASE e.type = "model.failed"
    BY <2>5 DEF Folded, Failing
  <2>6. CASE e.type = "node.completed"
    BY <2>6 DEF Folded, NodeCompleted
  <2>7. CASE e.type = "node.failed"
    BY <2>7 DEF Folded, NodeFailed
  <2> QED BY <2>1, <2>2, <2>3, <2>4, <2>5, <2>6, <2>7 DEF NodeTypes
<1>2. e.node \notin DOMAIN view.nodes =>
        \A i \in DOMAIN frames : Event(i).type \in NodeTypes => Event(i).node # e.node
  BY DEF Tracked
<1>3. TerminalOf(e.node) \subseteq DOMAIN frames
  BY Counts DEF Counted
<1>4. \A i \in TerminalOf(e.node) : Event(i).type \in NodeTypes /\ Event(i).node = e.node
  BY DEF TerminalOf, Of, NodeTypes
<1>5. e.node \in DOMAIN view.nodes => TerminalOf(e.node) = {}
  BY <1>1 DEF Tracked, TrackedNode, Running
<1> QED BY <1>1, <1>2, <1>3, <1>4, <1>5

(* The status of a node is what its frames say.                            *)
LEMMA TrackedKept ==
  ASSUME Tracked, NEW e, NEW n, Grown(e, n), Folded(e)
  PROVE  Tracked'
<1>1. /\ DOMAIN frames' = DOMAIN frames \cup {n} /\ Event(n)' = e /\ n \notin DOMAIN frames
      /\ \A i \in DOMAIN frames : Event(i)' = Event(i)
      /\ \A t : Of(t) \subseteq DOMAIN frames /\ Of(t)' = Of(t) \cup {i \in {n} : e.type = t}
  BY DEF Grown
<1>2. \A m : TerminalOf(m)' = TerminalOf(m) \cup
        {i \in {n} : e.type \in {"node.completed", "node.failed"} /\ e.node = m}
  BY Counts DEF Counted
<1>3. /\ IsFiniteSet(DOMAIN view.nodes)
      /\ \A i \in DOMAIN frames : Event(i).type \in NodeTypes => Event(i).node \in DOMAIN view.nodes
      /\ \A m \in DOMAIN view.nodes : TrackedNode(m)
  BY DEF Tracked
<1>4. ASSUME NEW m, TrackedNode(m), view'.nodes[m] = view.nodes[m],
             TerminalOf(m)' = TerminalOf(m)
      PROVE  TrackedNode(m)'
  BY <1>1, <1>4 DEF TrackedNode
<1>5. CASE e.type \notin NodeTypes
  <2>1. view'.nodes = view.nodes
    BY <1>5, Untouched DEF Folded, ReadTypes, EventTypes, NodeTypes
  <2>2. \A m : TerminalOf(m)' = TerminalOf(m)
    BY <1>2, <1>5 DEF NodeTypes
  <2>3. \A m \in DOMAIN view.nodes : TrackedNode(m)'
    BY <1>3, <1>4, <2>1, <2>2
  <2>4. \A i \in DOMAIN frames' :
          Event(i)'.type \in NodeTypes => Event(i)'.node \in DOMAIN view.nodes
    BY <1>1, <1>3, <1>5
  <2> QED BY <1>3, <2>1, <2>3, <2>4 DEF Tracked
<1>6. CASE e.type \in NodeTypes
  <2>1. /\ TerminalOf(e.node) = {}
        /\ e.node \in DOMAIN view.nodes => Running(e.node)
    BY <1>6, StillOpen
  <2>2. /\ DOMAIN view'.nodes = DOMAIN view.nodes \cup {e.node}
        /\ \A m \in DOMAIN view.nodes : m # e.node => view'.nodes[m] = view.nodes[m]
    <3>1. CASE e.type = "node.started"
      BY <3>1 DEF Folded, Started, Updating
    <3>2. CASE e.type \in {"artifact.written", "budget.rejected"}
      BY <3>2, Untouched DEF Folded, Noted, Running
    <3>3. CASE e.type = "model.dispatched"
      BY <3>3, Untouched DEF Folded, Dispatched, Running
    <3>4. CASE e.type = "model.completed"
      BY <3>4 DEF Folded, Answering, Updating
    <3>5. CASE e.type = "model.failed"
      BY <3>5 DEF Folded, Failing, Updating
    <3>6. CASE e.type = "node.completed"
      BY <3>6 DEF Folded, NodeCompleted, Updating
    <3>7. CASE e.type = "node.failed"
      BY <3>7 DEF Folded, NodeFailed, Updating
    <3> QED BY <1>6, <3>1, <3>2, <3>3, <3>4, <3>5, <3>6, <3>7 DEF NodeTypes
  <2>3. ASSUME NEW m \in DOMAIN view.nodes, m # e.node
        PROVE  TrackedNode(m)'
    BY <1>2, <1>3, <1>4, <2>2, <2>3
  <2>4. e.node \in DOMAIN view.nodes =>
          \E s \in Of("node.started") :
            Event(s).node = e.node /\ Event(s).role = view.nodes[e.node].role
    BY <1>3, <2>1 DEF TrackedNode, Running
  <2>5. TrackedNode(e.node)'
    <3>1. CASE e.type = "node.started"
      <4>1. view'.nodes[e.node].status = "running" /\ view'.nodes[e.node].role = e.role
        BY <3>1 DEF Folded, Started
      <4>2. TerminalOf(e.node)' = {}
        BY <1>2, <2>1, <3>1
      <4>3. n \in Of("node.started")'
        BY <1>1, <3>1
      <4> QED BY <1>1, <4>1, <4>2, <4>3 DEF TrackedNode
    <3>2. CASE e.type \in {"artifact.written", "budget.rejected"}
      <4>1. view'.nodes = view.nodes /\ e.node \in DOMAIN view.nodes
        BY <3>2, Untouched DEF Folded, Noted, Running
      <4> QED BY <1>2, <1>3, <1>4, <3>2, <4>1
    <3>3. CASE e.type = "model.dispatched"
      <4>1. view'.nodes = view.nodes /\ e.node \in DOMAIN view.nodes
        BY <3>3, Untouched DEF Folded, Dispatched, Running
      <4> QED BY <1>2, <1>3, <1>4, <3>3, <4>1
    <3>4. CASE e.type \in {"model.completed", "model.failed"}
      <4>1. /\ e.node \in DOMAIN view.nodes /\ view.nodes[e.node].status = "running"
            /\ view'.nodes[e.node].status = view.nodes[e.node].status
            /\ view'.nodes[e.node].role = view.nodes[e.node].role
        BY <3>4 DEF Folded, Answering, Failing, Running
      <4>2. TerminalOf(e.node)' = {}
        BY <1>2, <2>1, <3>4
      <4> QED BY <1>1, <2>4, <4>1, <4>2 DEF TrackedNode
    <3>5. CASE e.type = "node.completed"
      <4>1. /\ e.node \in DOMAIN view.nodes /\ e.output # Unset
            /\ view'.nodes[e.node].status = "completed"
            /\ view'.nodes[e.node].output = e.output
            /\ view'.nodes[e.node].role = view.nodes[e.node].role
        BY <3>5 DEF Folded, NodeCompleted, Running
      <4>2. TerminalOf(e.node)' = {n} /\ n \in Of("node.completed")'
        BY <1>1, <1>2, <2>1, <3>5
      <4> QED BY <1>1, <2>4, <4>1, <4>2 DEF TrackedNode
    <3>6. CASE e.type = "node.failed"
      <4>1. view'.nodes[e.node].status = "failed"
        BY <3>6 DEF Folded, NodeFailed
      <4>2. TerminalOf(e.node)' = {n} /\ n \in Of("node.failed")'
        BY <1>1, <1>2, <2>1, <3>6
      <4> QED BY <4>1, <4>2 DEF TrackedNode
    <3> QED BY <1>6, <3>1, <3>2, <3>3, <3>4, <3>5, <3>6 DEF NodeTypes
  <2>6. \A m \in DOMAIN view'.nodes : TrackedNode(m)'
    BY <2>2, <2>3, <2>5
  <2>7. \A i \in DOMAIN frames' :
          Event(i)'.type \in NodeTypes => Event(i)'.node \in DOMAIN view'.nodes
    BY <1>1, <1>3, <2>2
  <2>8. IsFiniteSet(DOMAIN view'.nodes)
    BY <1>3, <2>2, FS_AddElement
  <2> QED BY <2>6, <2>7, <2>8 DEF Tracked
<1> QED BY <1>5, <1>6

(* No frame of a node follows its terminal one.                            *)
LEMMA SilentKept ==
  ASSUME Tracked, Silent, NEW e, NEW n, Grown(e, n), Folded(e)
  PROVE  Silent'
<1>1. /\ DOMAIN frames' = DOMAIN frames \cup {n} /\ Event(n)' = e /\ n \in Nat
      /\ \A i \in DOMAIN frames : i \in Nat /\ i < n /\ Event(i)' = Event(i)
  BY DEF Grown
<1>2. ASSUME NEW t \in DOMAIN frames, e.type \in NodeTypes,
             Event(t).type \in {"node.completed", "node.failed"}
      PROVE  Event(t).node # e.node
  <2>1. t \in TerminalOf(Event(t).node)
    BY <1>2 DEF TerminalOf, Of
  <2> QED BY <1>2, <2>1, StillOpen
<1> SUFFICES ASSUME NEW t \in DOMAIN frames', NEW i \in DOMAIN frames',
                    Event(t)'.type \in {"node.completed", "node.failed"},
                    Event(i)'.type \in NodeTypes, Event(i)'.node = Event(t)'.node
             PROVE  i <= t
  BY DEF Silent
<1>3. CASE t = n
  BY <1>1, <1>3
<1>4. CASE t \in DOMAIN frames /\ i = n
  BY <1>1, <1>2, <1>4
<1>5. CASE t \in DOMAIN frames /\ i \in DOMAIN frames
  BY <1>1, <1>5 DEF Silent
<1> QED BY <1>1, <1>3, <1>4, <1>5

(* A call is dispatched once and closed at most once, later.               *)
LEMMA DispatchesKept ==
  ASSUME Tracked, Dispatches, NEW e, NEW n, Grown(e, n), Folded(e)
  PROVE  Dispatches'
<1>1. /\ DOMAIN frames' = DOMAIN frames \cup {n} /\ Event(n)' = e /\ n \notin DOMAIN frames
      /\ \A i \in DOMAIN frames : Event(i)' = Event(i)
      /\ Of("model.dispatched") \subseteq DOMAIN frames
      /\ Of("model.dispatched")' =
           Of("model.dispatched") \cup {i \in {n} : e.type = "model.dispatched"}
  BY DEF Grown
<1>2. /\ Closings \subseteq DOMAIN frames
      /\ Closings' = Closings \cup {i \in {n} : e.type \in {"model.completed", "model.failed"}}
      /\ \A i, c \in DOMAIN frames : Opens(i, c)' = Opens(i, c)
      /\ \A i : Opens(i, n)' <=>
           /\ i \in Of("model.dispatched")
           /\ Event(i).node = e.node /\ Event(i).op = e.op
  BY Counts DEF Counted
<1>3. /\ \A i \in Of("model.dispatched") : Event(i).op \in view.ops
      /\ \A i, j \in Of("model.dispatched") : Event(i).op = Event(j).op => i = j
      /\ \A c \in Closings : \E i \in DOMAIN frames : Opens(i, c)
      /\ \A b, c \in Closings : Event(b).op = Event(c).op => b = c
  BY DEF Dispatches
<1>4. \A c \in Closings : Event(c).op \in view.ops
  BY <1>2, <1>3 DEF Opens
<1>5. /\ \A i \in Of("model.dispatched") :
           \/ \E c \in Closings : Opens(i, c)
           \/ /\ << Event(i).node, Event(i).op >> \in DOMAIN view.open
              /\ view.open[<< Event(i).node, Event(i).op >>] = Event(i).reserved
      /\ \A k \in DOMAIN view.open : \E i \in Of("model.dispatched") :
           /\ k = << Event(i).node, Event(i).op >>
           /\ \A c \in Closings : Event(c).op # Event(i).op
  BY DEF Dispatches
<1>6. CASE e.type = "model.dispatched"
  <2>1. /\ e.op \notin view.ops /\ view'.ops = view.ops \cup {e.op}
        /\ DOMAIN view'.open = DOMAIN view.open \cup {<< e.node, e.op >>}
        /\ view'.open[<< e.node, e.op >>] = e.reserved
        /\ \A k \in DOMAIN view.open :
             k # << e.node, e.op >> => view'.open[k] = view.open[k]
    BY <1>6 DEF Folded, Dispatched
  <2>2. Closings' = Closings /\ Of("model.dispatched")' = Of("model.dispatched") \cup {n}
    BY <1>1, <1>2, <1>6
  <2>3. \A i \in Of("model.dispatched")' : Event(i)'.op \in view'.ops
    BY <1>1, <1>3, <2>1, <2>2
  <2>4. \A i, j \in Of("model.dispatched")' : Event(i)'.op = Event(j)'.op => i = j
    BY <1>1, <1>3, <2>1, <2>2
  <2>5. \A c \in Closings' : \E i \in DOMAIN frames' : Opens(i, c)'
    BY <1>1, <1>2, <1>3, <2>2
  <2>6. \A b, c \in Closings' : Event(b)'.op = Event(c)'.op => b = c
    BY <1>1, <1>2, <1>3, <2>2
  <2>7. ASSUME NEW i \in Of("model.dispatched")'
        PROVE  \/ \E c \in Closings' : Opens(i, c)'
               \/ /\ << Event(i)'.node, Event(i)'.op >> \in DOMAIN view'.open
                  /\ view'.open[<< Event(i)'.node, Event(i)'.op >>] = Event(i)'.reserved
    <3>1. CASE i = n
      BY <1>1, <2>1, <3>1
    <3>2. CASE i \in Of("model.dispatched") /\ \E c \in Closings : Opens(i, c)
      BY <1>1, <1>2, <2>2, <3>2
    <3>3. CASE /\ i \in Of("model.dispatched")
               /\ << Event(i).node, Event(i).op >> \in DOMAIN view.open
               /\ view.open[<< Event(i).node, Event(i).op >>] = Event(i).reserved
      <4>1. << Event(i).node, Event(i).op >> # << e.node, e.op >>
        BY <1>3, <2>1, <3>3
      <4> QED BY <1>1, <2>1, <3>3, <4>1
    <3> QED BY <1>5, <2>2, <2>7, <3>1, <3>2, <3>3
  <2>8. ASSUME NEW k \in DOMAIN view'.open
        PROVE  \E i \in Of("model.dispatched")' :
                 /\ k = << Event(i)'.node, Event(i)'.op >>
                 /\ \A c \in Closings' : Event(c)'.op # Event(i)'.op
    <3>1. CASE k = << e.node, e.op >>
      BY <1>1, <1>2, <1>4, <2>1, <2>2, <3>1
    <3>2. CASE k \in DOMAIN view.open
      <4>1. PICK i \in Of("model.dispatched") :
              /\ k = << Event(i).node, Event(i).op >>
              /\ \A c \in Closings : Event(c).op # Event(i).op
        BY <1>5, <3>2
      <4> QED BY <1>1, <1>2, <2>2, <4>1
    <3> QED BY <2>1, <2>8, <3>1, <3>2
  <2> QED BY <2>3, <2>4, <2>5, <2>6, <2>7, <2>8 DEF Dispatches
<1>7. CASE e.type \in {"model.completed", "model.failed"}
  <2>1. /\ << e.node, e.op >> \in DOMAIN view.open
        /\ DOMAIN view'.open = DOMAIN view.open \ {<< e.node, e.op >>}
        /\ \A j \in DOMAIN view.open \ {<< e.node, e.op >>} : view'.open[j] = view.open[j]
    BY <1>7 DEF Folded, Answering, Failing, Closing
  <2>2. /\ Closings' = Closings \cup {n} /\ view'.ops = view.ops
        /\ Of("model.dispatched")' = Of("model.dispatched")
    BY <1>1, <1>2, <1>7, Untouched
  <2>3. PICK d \in Of("model.dispatched") :
          /\ << e.node, e.op >> = << Event(d).node, Event(d).op >>
          /\ \A c \in Closings : Event(c).op # Event(d).op
    BY <1>5, <2>1
  <2>4. Opens(d, n)' /\ Event(d).op = e.op
    BY <1>2, <2>3
  <2>5. \A i \in Of("model.dispatched")' : Event(i)'.op \in view'.ops
    BY <1>1, <1>3, <2>2
  <2>6. \A i, j \in Of("model.dispatched")' : Event(i)'.op = Event(j)'.op => i = j
    BY <1>1, <1>3, <2>2
  <2>7. \A c \in Closings' : \E i \in DOMAIN frames' : Opens(i, c)'
    BY <1>1, <1>2, <1>3, <2>2, <2>4
  <2>8. \A b, c \in Closings' : Event(b)'.op = Event(c)'.op => b = c
    BY <1>1, <1>2, <1>3, <2>2, <2>3, <2>4
  <2>9. ASSUME NEW i \in Of("model.dispatched")
        PROVE  \/ \E c \in Closings' : Opens(i, c)'
               \/ /\ << Event(i)'.node, Event(i)'.op >> \in DOMAIN view'.open
                  /\ view'.open[<< Event(i)'.node, Event(i)'.op >>] = Event(i)'.reserved
    <3>1. CASE << Event(i).node, Event(i).op >> = << e.node, e.op >>
      BY <1>2, <2>2, <3>1
    <3>2. CASE \E c \in Closings : Opens(i, c)
      BY <1>1, <1>2, <2>2, <3>2
    <3>3. CASE /\ << Event(i).node, Event(i).op >> # << e.node, e.op >>
               /\ << Event(i).node, Event(i).op >> \in DOMAIN view.open
               /\ view.open[<< Event(i).node, Event(i).op >>] = Event(i).reserved
      BY <1>1, <2>1, <3>3
    <3> QED BY <1>5, <3>1, <3>2, <3>3
  <2>10. ASSUME NEW k \in DOMAIN view'.open
         PROVE  \E i \in Of("model.dispatched")' :
                  /\ k = << Event(i)'.node, Event(i)'.op >>
                  /\ \A c \in Closings' : Event(c)'.op # Event(i)'.op
    <3>1. k \in DOMAIN view.open /\ k # << e.node, e.op >>
      BY <2>1, <2>10
    <3>2. PICK i \in Of("model.dispatched") :
            /\ k = << Event(i).node, Event(i).op >>
            /\ \A c \in Closings : Event(c).op # Event(i).op
      BY <1>5, <3>1
    <3>3. Event(i).op # e.op
      BY <1>3, <2>3, <2>4, <3>1, <3>2
    <3> QED BY <1>1, <1>2, <2>2, <3>2, <3>3
  <2> QED BY <2>2, <2>5, <2>6, <2>7, <2>8, <2>9, <2>10 DEF Dispatches
<1>8. CASE e.type \notin {"model.dispatched", "model.completed", "model.failed"}
  <2>1. view'.open = view.open /\ view'.ops = view.ops
    BY <1>8, Untouched
  <2>2. Closings' = Closings /\ Of("model.dispatched")' = Of("model.dispatched")
    BY <1>1, <1>2, <1>8
  <2>3. \A i \in Of("model.dispatched") : Event(i)'.op \in view'.ops
    BY <1>1, <1>3, <2>1
  <2>4. \A i, j \in Of("model.dispatched") : Event(i)'.op = Event(j)'.op => i = j
    BY <1>1, <1>3
  <2>5. \A c \in Closings : \E i \in DOMAIN frames' : Opens(i, c)'
    BY <1>1, <1>2, <1>3
  <2>6. \A b, c \in Closings : Event(b)'.op = Event(c)'.op => b = c
    BY <1>1, <1>2, <1>3
  <2>7. \A i \in Of("model.dispatched") :
          \/ \E c \in Closings : Opens(i, c)'
          \/ /\ << Event(i)'.node, Event(i)'.op >> \in DOMAIN view'.open
             /\ view'.open[<< Event(i)'.node, Event(i)'.op >>] = Event(i)'.reserved
    BY <1>1, <1>2, <1>5, <2>1
  <2>8. \A k \in DOMAIN view'.open : \E i \in Of("model.dispatched") :
          /\ k = << Event(i)'.node, Event(i)'.op >>
          /\ \A c \in Closings : Event(c)'.op # Event(i)'.op
    BY <1>1, <1>2, <1>5, <2>1
  <2> QED BY <2>2, <2>3, <2>4, <2>5, <2>6, <2>7, <2>8 DEF Dispatches
<1> QED BY <1>6, <1>7, <1>8

(* The closing frames are finitely many and bill integers.                 *)
LEMMA Billing ==
  ASSUME Shaped
  PROVE  /\ IsFiniteSet(Closings) /\ Closings \subseteq DOMAIN frames
         /\ \A c \in Closings :
              InputOf[c] \in Int /\ OutputOf[c] \in Int /\ CostOf[c] \in Int
<1>1. /\ Len(frames) \in Nat /\ DOMAIN frames = 1 .. Len(frames)
      /\ \A i \in DOMAIN frames : frames[i] \in FramesRead
  BY DEF Shaped
<1>2. Closings \subseteq DOMAIN frames
  BY DEF Closings, Of
<1>3. IsFiniteSet(Closings)
  <2>1. IsFiniteSet(1 .. Len(frames))
    BY <1>1, FS_Interval
  <2> QED BY <1>1, <1>2, <2>1, FS_Subset
<1>4. ASSUME NEW c \in Closings
      PROVE  InputOf[c] \in Int /\ OutputOf[c] \in Int /\ CostOf[c] \in Int
  <2>1. Event(c) \in Alphabet \cup Finished
    BY <1>1, <1>2 DEF Event, FramesRead
  <2>2. Event(c).type \in {"model.completed", "model.failed"}
    BY DEF Closings, Of
  <2>3. /\ Event(c).usage.input \in Int /\ Event(c).usage.output \in Int
        /\ Event(c).usage.cost \in Int
    BY <2>1, <2>2, Typed
  <2> QED BY <1>2, <2>3 DEF InputOf, OutputOf, CostOf
<1> QED BY <1>2, <1>3, <1>4

(* The totals grow by the bill of the call that is closed.                 *)
LEMMA SummedKept ==
  ASSUME Shaped, Summed, NEW e, NEW n, Grown(e, n), Folded(e)
  PROVE  Summed'
<1>1. /\ DOMAIN frames' = DOMAIN frames \cup {n} /\ Event(n)' = e /\ n \notin DOMAIN frames
      /\ \A i \in DOMAIN frames : Event(i)' = Event(i)
  BY DEF Grown
<1>2. Closings' = Closings \cup {i \in {n} : e.type \in {"model.completed", "model.failed"}}
  BY Counts DEF Counted
<1>3. /\ IsFiniteSet(Closings) /\ Closings \subseteq DOMAIN frames
      /\ \A c \in Closings :
           InputOf[c] \in Int /\ OutputOf[c] \in Int /\ CostOf[c] \in Int
  BY Billing
<1>4. \A c \in Closings :
        InputOf'[c] = InputOf[c] /\ OutputOf'[c] = OutputOf[c] /\ CostOf'[c] = CostOf[c]
  BY <1>1, <1>3 DEF InputOf, OutputOf, CostOf
<1>5. /\ SumOf(InputOf', Closings) = SumOf(InputOf, Closings)
      /\ SumOf(OutputOf', Closings) = SumOf(OutputOf, Closings)
      /\ SumOf(CostOf', Closings) = SumOf(CostOf, Closings)
  BY <1>3, <1>4, SumAgree
<1>6. CASE e.type \in {"model.completed", "model.failed"}
  <2>1. /\ view'.totals = Billed(view.totals, e.usage)
        /\ e.usage.input \in Int /\ e.usage.output \in Int /\ e.usage.cost \in Int
    BY <1>6 DEF Folded, Answering, Failing, Closing
  <2>2. Closings' = Closings \cup {n} /\ n \notin Closings
    BY <1>1, <1>2, <1>3, <1>6
  <2>3. /\ InputOf'[n] = e.usage.input /\ OutputOf'[n] = e.usage.output
        /\ CostOf'[n] = e.usage.cost
    BY <1>1 DEF InputOf, OutputOf, CostOf
  <2>4. /\ SumOf(InputOf', Closings \cup {n}) = e.usage.input + SumOf(InputOf', Closings)
        /\ SumOf(OutputOf', Closings \cup {n}) = e.usage.output + SumOf(OutputOf', Closings)
        /\ SumOf(CostOf', Closings \cup {n}) = e.usage.cost + SumOf(CostOf', Closings)
    BY <1>3, <1>4, <2>1, <2>2, <2>3, SumAdd
  <2>5. /\ SumOf(InputOf, Closings) \in Int /\ SumOf(OutputOf, Closings) \in Int
        /\ SumOf(CostOf, Closings) \in Int
    BY <1>3, SumType
  <2>6. Cardinality(Closings \cup {n}) = Cardinality(Closings) + 1
    BY <1>3, <2>2, FS_AddElement
  <2> QED BY <1>5, <2>1, <2>2, <2>4, <2>5, <2>6 DEF Summed, Billed
<1>7. CASE e.type \notin {"model.completed", "model.failed"}
  <2>1. view'.totals = view.totals /\ Closings' = Closings
    BY <1>2, <1>7, Untouched
  <2> QED BY <1>5, <2>1 DEF Summed
<1> QED BY <1>6, <1>7

(* A cancelled call is billed what it reserved, before its node ends.      *)
LEMMA CancelledKept ==
  ASSUME Tracked, Dispatches, Cancelled, NEW e, NEW n, Grown(e, n), Folded(e)
  PROVE  Cancelled'
<1>1. /\ DOMAIN frames' = DOMAIN frames \cup {n} /\ Event(n)' = e /\ n \notin DOMAIN frames
      /\ \A i \in DOMAIN frames : i < n /\ Event(i)' = Event(i)
      /\ \A t : Of(t) \subseteq DOMAIN frames /\ Of(t)' = Of(t) \cup {i \in {n} : e.type = t}
  BY DEF Grown
<1>2. /\ Closings \subseteq DOMAIN frames /\ Closings \subseteq Closings'
      /\ \A i, c \in DOMAIN frames : Opens(i, c)' = Opens(i, c)
      /\ \A i : Opens(i, n)' <=>
           /\ i \in Of("model.dispatched")
           /\ Event(i).node = e.node /\ Event(i).op = e.op
  BY Counts DEF Counted
<1>3. /\ \A i \in Of("model.dispatched") :
           \/ \E c \in Closings : Opens(i, c)
           \/ /\ << Event(i).node, Event(i).op >> \in DOMAIN view.open
              /\ view.open[<< Event(i).node, Event(i).op >>] = Event(i).reserved
      /\ \A k \in DOMAIN view.open : \E i \in Of("model.dispatched") :
           /\ k = << Event(i).node, Event(i).op >>
           /\ \A c \in Closings : Event(c).op # Event(i).op
  BY DEF Dispatches
<1>4. ASSUME NEW c \in Of("model.failed")', Event(c)'.reason = "cancelled"
      PROVE  \E i \in DOMAIN frames' :
               /\ Opens(i, c)'
               /\ Event(c)'.usage.input + Event(c)'.usage.output = Event(i)'.reserved.tokens
               /\ Event(c)'.usage.cost = Event(i)'.reserved.cost
  <2>1. CASE c \in Of("model.failed")
    BY <1>1, <1>2, <1>4, <2>1 DEF Cancelled
  <2>2. CASE c = n
    <3>1. e.type = "model.failed" /\ e.reason = "cancelled"
      BY <1>1, <1>4, <2>2
    <3>2. /\ << e.node, e.op >> \in DOMAIN view.open
          /\ e.usage.input + e.usage.output = view.open[<< e.node, e.op >>].tokens
          /\ e.usage.cost = view.open[<< e.node, e.op >>].cost
      BY <3>1 DEF Folded, Failing, Closing
    <3>3. PICK i \in Of("model.dispatched") :
            /\ << e.node, e.op >> = << Event(i).node, Event(i).op >>
            /\ \A b \in Closings : Event(b).op # Event(i).op
      BY <1>3, <3>2
    <3>4. ~ \E b \in Closings : Opens(i, b)
      BY <3>3 DEF Opens
    <3>5. view.open[<< e.node, e.op >>] = Event(i).reserved
      BY <1>3, <3>3, <3>4
    <3>6. Opens(i, n)' /\ i \in DOMAIN frames /\ i \in DOMAIN frames'
      BY <1>1, <1>2, <3>3
    <3> QED BY <1>1, <2>2, <3>2, <3>5, <3>6
  <2> QED BY <1>1, <1>4, <2>1, <2>2
<1>5. ASSUME NEW f \in Of("node.failed")', Event(f)'.reason = "cancelled",
             NEW i \in Of("model.dispatched")', Event(i)'.node = Event(f)'.node
      PROVE  \E c \in Closings' : Opens(i, c)' /\ c < f
  <2>1. CASE f \in Of("node.failed") /\ i \in Of("model.dispatched")
    <3>1. PICK c \in Closings : Opens(i, c) /\ c < f
      BY <1>1, <1>5, <2>1 DEF Cancelled
    <3> QED BY <1>1, <1>2, <2>1, <3>1
  <2>2. CASE f \in Of("node.failed") /\ i = n
    <3>1. e.type = "model.dispatched" /\ Event(f).node = e.node
      BY <1>1, <1>5, <2>2
    <3>2. f \in TerminalOf(e.node)
      BY <2>2, <3>1 DEF TerminalOf
    <3> QED BY <3>1, <3>2, StillOpen DEF NodeTypes
  <2>3. CASE f = n
    <3>1. e.type = "node.failed" /\ e.reason = "cancelled"
      BY <1>1, <1>5, <2>3
    <3>2. OpenOps(view, e.node) = {}
      BY <3>1 DEF Folded, NodeFailed
    <3>3. i \in Of("model.dispatched") /\ Event(i).node = e.node
      BY <1>1, <1>5, <2>3, <3>1
    <3>4. << Event(i).node, Event(i).op >> \notin DOMAIN view.open
      BY <3>2, <3>3 DEF OpenOps
    <3>5. PICK c \in Closings : Opens(i, c)
      BY <1>3, <3>3, <3>4
    <3> QED BY <1>1, <1>2, <2>3, <3>3, <3>5
  <2> QED BY <1>1, <1>5, <2>1, <2>2, <2>3
<1> QED BY <1>4, <1>5 DEF Cancelled

(* The output of a completed node is that of its last call.                *)
LEMMA AnsweredKept ==
  ASSUME Tracked, Answered, NEW e, NEW n, Grown(e, n), Folded(e)
  PROVE  Answered'
<1>1. /\ DOMAIN frames' = DOMAIN frames \cup {n} /\ Event(n)' = e /\ n \notin DOMAIN frames
      /\ \A i \in DOMAIN frames : i \in Nat /\ i < n /\ Event(i)' = Event(i)
      /\ \A t : Of(t) \subseteq DOMAIN frames /\ Of(t)' = Of(t) \cup {i \in {n} : e.type = t}
      /\ n \in Nat
  BY DEF Grown
<1> DEFINE Last(m) ==
             \/ \E c \in DOMAIN frames : LastCall(m, view.nodes[m].lastOutput, c)
             \/ /\ view.nodes[m].lastOutput = Unset
                /\ \A b \in Of("model.completed") : Event(b).node # m
<1>2. \A m \in DOMAIN view.nodes : Last(m)
  BY DEF Answered
<1>3. ASSUME NEW m, NEW out, NEW c \in DOMAIN frames, LastCall(m, out, c),
             e.type = "model.completed" => e.node # m
      PROVE  LastCall(m, out, c)'
  BY <1>1, <1>3 DEF LastCall
<1>4. ASSUME NEW m, view'.nodes[m].lastOutput = view.nodes[m].lastOutput, Last(m),
             e.type = "model.completed" => e.node # m
      PROVE  Last(m)'
  <2>1. CASE \E c \in DOMAIN frames : LastCall(m, view.nodes[m].lastOutput, c)
    <3>1. PICK c \in DOMAIN frames : LastCall(m, view.nodes[m].lastOutput, c)
      BY <2>1
    <3>2. LastCall(m, view.nodes[m].lastOutput, c)'
      BY <1>1, <1>4, <3>1 DEF LastCall
    <3> QED BY <1>1, <3>2
  <2>2. CASE /\ view.nodes[m].lastOutput = Unset
             /\ \A b \in Of("model.completed") : Event(b).node # m
    BY <1>1, <1>4, <2>2
  <2> QED BY <1>4, <2>1, <2>2
<1>5. ASSUME NEW m \in DOMAIN view'.nodes
      PROVE  Last(m)'
  <2>0. e.type \in ReadTypes
    BY DEF Folded
  <2>1. CASE m \in DOMAIN view.nodes /\ m # e.node
    <3>1. view'.nodes[m] = view.nodes[m]
      BY <2>0, <2>1, Untouched DEF Folded, Started, Answering, Failing, NodeCompleted,
         NodeFailed, Updating, ReadTypes, EventTypes
    <3> QED BY <1>2, <1>4, <2>1, <3>1
  <2>2. CASE m = e.node /\ e.type = "model.completed"
    <3>1. view'.nodes[m].lastOutput = e.output
      BY <2>2 DEF Folded, Answering
    <3>2. LastCall(m, e.output, n)'
      BY <1>1, <2>2 DEF LastCall
    <3> QED BY <1>1, <3>1, <3>2
  <2>3. CASE m = e.node /\ e.type \in NodeTypes \ {"model.completed"} /\ m \in DOMAIN view.nodes
    <3>1. Running(m)
      BY <2>3, StillOpen
    <3>2. view'.nodes[m].lastOutput = view.nodes[m].lastOutput
      BY <2>3, Untouched DEF Folded, Started, Failing, NodeCompleted, NodeFailed, NodeTypes
    <3> QED BY <1>2, <1>4, <2>3, <3>2
  <2>4. CASE m = e.node /\ e.type \in NodeTypes \ {"model.completed"} /\ m \notin DOMAIN view.nodes
    <3>1. \A b \in Of("model.completed") : Event(b).node # m
      BY <2>4, <1>1, StillOpen DEF Of, NodeTypes
    <3>2. view'.nodes[m].lastOutput = Unset
      BY <2>4, Untouched DEF Folded, Started, Noted, Dispatched, Failing, NodeCompleted,
         NodeFailed, NodeTypes, Running
    <3> QED BY <1>1, <2>4, <3>1, <3>2
  <2>5. CASE e.type \notin NodeTypes
    <3>1. view'.nodes = view.nodes
      BY <2>0, <2>5, Untouched DEF ReadTypes, EventTypes, NodeTypes
    <3> QED BY <1>2, <1>4, <2>5, <3>1 DEF NodeTypes
  <2>6. m \in DOMAIN view.nodes \/ m = e.node
    BY <2>0, Untouched DEF Folded, Started, Answering, Failing, NodeCompleted,
       NodeFailed, Updating, ReadTypes, EventTypes
  <2> QED BY <2>1, <2>2, <2>3, <2>4, <2>5, <2>6
<1>6. ASSUME NEW i \in Of("node.completed")'
      PROVE  (\E c \in DOMAIN frames : c < i /\ LastCall(Event(i).node, Event(i).output, c))'
  <2>1. CASE i = n
    <3>1. e.type = "node.completed"
      BY <1>1, <1>6, <2>1
    <3>2. /\ e.node \in DOMAIN view.nodes
          /\ e.output = view.nodes[e.node].lastOutput /\ e.output # Unset
      BY <3>1 DEF Folded, NodeCompleted, Running
    <3>3. PICK c \in DOMAIN frames : LastCall(e.node, e.output, c)
      BY <1>2, <3>2
    <3>4. LastCall(e.node, e.output, c)'
      BY <1>3, <3>1, <3>3
    <3>5. LastCall(Event(i).node, Event(i).output, c)'
      BY <1>1, <2>1, <3>4 DEF LastCall
    <3> QED BY <1>1, <2>1, <3>5
  <2>2. CASE i \in Of("node.completed")
    <3>1. PICK c \in DOMAIN frames : c < i /\ LastCall(Event(i).node, Event(i).output, c)
      BY <2>2 DEF Answered
    <3>2. i \in TerminalOf(Event(i).node)
      BY <2>2 DEF TerminalOf
    <3>3. e.type = "model.completed" => e.node # Event(i).node
      BY <3>2, StillOpen DEF NodeTypes
    <3> DEFINE m == Event(i).node
               out == Event(i).output
    <3>4. LastCall(m, out, c) /\ (e.type = "model.completed" => e.node # m)
      BY <3>1, <3>3
    <3>5. Event(i)' = Event(i)
      BY <1>1, <2>2
    <3>6. /\ c \in Of("model.completed")' /\ Event(c)'.node = m /\ Event(c)'.output = out
          /\ \A b \in Of("model.completed")' : Event(b)'.node = m => b <= c
      BY <1>1, <3>4 DEF LastCall
    <3>7. LastCall(Event(i).node, Event(i).output, c)'
      BY <3>5, <3>6 DEF LastCall
    <3> QED BY <1>1, <2>2, <3>1, <3>7
  <2> QED BY <1>1, <1>6, <2>1, <2>2
<1> QED BY <1>5, <1>6 DEF Answered

(* The decision is the output of a judge that has completed.               *)
LEMMA JudgedKept ==
  ASSUME Tracked, Judged, NEW e, NEW n, Grown(e, n), Folded(e)
  PROVE  Judged'
<1>1. /\ DOMAIN frames' = DOMAIN frames \cup {n} /\ Event(n)' = e /\ n \notin DOMAIN frames
      /\ \A i \in DOMAIN frames : i < n /\ Event(i)' = Event(i)
      /\ \A t : Of(t) \subseteq DOMAIN frames /\ Of(t)' = Of(t) \cup {i \in {n} : e.type = t}
  BY DEF Grown
<1> DEFINE ByJudge(d, source) == \E i \in Of("node.completed") :
             /\ i < d /\ Event(i).output = source
             /\ \E s \in Of("node.started") :
                  Event(s).node = Event(i).node /\ Event(s).role = "judge"
<1>2. ASSUME NEW d, NEW source, ByJudge(d, source)
      PROVE  ByJudge(d, source)'
  BY <1>1, <1>2
<1>3. CASE e.type = "decision.recorded"
  <2>1. /\ view.decision = Unset /\ view'.decision = e.source
        /\ \E m \in DOMAIN view.nodes :
             /\ view.nodes[m].status = "completed"
             /\ view.nodes[m].role = "judge" /\ view.nodes[m].output = e.source
    BY <1>3 DEF Folded, Decided, AcceptsDecision, NodesWith
  <2>2. PICK m \in DOMAIN view.nodes :
          /\ view.nodes[m].status = "completed"
          /\ view.nodes[m].role = "judge" /\ view.nodes[m].output = e.source
    BY <2>1
  <2>3. TrackedNode(m)
    BY DEF Tracked
  <2>4. PICK t \in Of("node.completed") : TerminalOf(m) = {t} /\ Event(t).output = e.source
    BY <2>2, <2>3 DEF TrackedNode
  <2>5. Event(t).node = m
    BY <2>4 DEF TerminalOf
  <2>6. PICK s \in Of("node.started") : Event(s).node = m /\ Event(s).role = "judge"
    BY <2>2, <2>3 DEF TrackedNode
  <2>7. ByJudge(n, e.source)
    BY <1>1, <2>4, <2>5, <2>6
  <2>8. e.source # Unset
    BY <2>2, <2>3 DEF TrackedNode
  <2>9. Of("decision.recorded")' = {n}
    BY <1>1, <1>3, <2>1 DEF Judged
  <2>10. ByJudge(n, e.source)'
    BY <1>2, <2>7
  <2> QED BY <1>1, <2>1, <2>8, <2>9, <2>10 DEF Judged
<1>4. CASE e.type # "decision.recorded"
  <2>1. view'.decision = view.decision /\ Of("decision.recorded")' = Of("decision.recorded")
    BY <1>1, <1>4, Untouched
  <2>2. \A d \in Of("decision.recorded") : ByJudge(d, Event(d).source)
    BY DEF Judged
  <2>3. ASSUME NEW d \in Of("decision.recorded")
        PROVE  ByJudge(d, Event(d).source)'
    <3>1. PICK source : source = Event(d).source
      OBVIOUS
    <3>2. ByJudge(d, source)' /\ Event(d)' = Event(d)
      BY <1>1, <1>2, <2>2, <3>1
    <3> QED BY <3>1, <3>2
  <2>5. /\ view'.decision = Unset => Of("decision.recorded")' = {}
        /\ view'.decision # Unset => \E d \in DOMAIN frames' : Of("decision.recorded")' = {d}
    BY <1>1, <2>1 DEF Judged
  <2> QED BY <2>1, <2>3, <2>5 DEF Judged
<1> QED BY <1>3, <1>4

-----------------------------------------------------------------------------
(* A step reads a frame that the fold accepts, or ends the fold.           *)

(* The three ways a step can go.                                           *)
LEMMA Reading ==
  ASSUME Shaped, Ended, Tracked, ReaderNext
  PROVE  Rejecting \/ \E e \in Alphabet \cup Finished : Growing(e)
<1>1. /\ view.rejected \in BOOLEAN /\ view.seq \in Nat /\ view.totals \in Bills
      /\ view = [f \in ViewFields |-> view[f]]
  BY DEF Shaped, IsRecord
<1>2. ASSUME NEW frame, Read(frame), ~ (frame.seq = view.seq + 1 /\ Accepts(view, frame.event))
      PROVE  Rejecting
  <2>1. view' = [view EXCEPT !.rejected = TRUE]
    BY <1>2 DEF Read, FoldFrame
  <2>2. view'.rejected = TRUE
    BY <1>1, <2>1 DEF ViewFields
  <2>3. frames' = frames
    BY <1>2, <2>2 DEF Read
  <2> QED BY <2>1, <2>3 DEF Rejecting
<1>3. ASSUME NEW e \in Alphabet \cup Finished, Read([seq |-> view.seq + 1, event |-> e]),
             Accepts(view, e)
      PROVE  Growing(e)
  <2> DEFINE frame == [seq |-> view.seq + 1, event |-> e]
  <2>1. /\ view.rejected = FALSE /\ view' = FoldFrame(view, frame)
        /\ frames' = IF view'.rejected THEN frames ELSE Append(frames, frame)
    BY <1>1, <1>3 DEF Read
  <2>2. view' = [Applied(view, e) EXCEPT !.seq = view.seq + 1]
    BY <1>3, <2>1 DEF FoldFrame
  <2>3. Folding(e)
    BY <1>3, <2>2 DEF Folding
  <2>4. view'.rejected = FALSE
    BY <2>1, <2>3, Accepting, Untouched
  <2> QED BY <2>1, <2>3, <2>4 DEF Growing
<1>4. ASSUME NEW e \in Alphabet \cup Finished, Read([seq |-> view.seq + 1, event |-> e])
      PROVE  Rejecting \/ Growing(e)
  BY <1>2, <1>3, <1>4
<1>5. CASE ReadOutOfSequence
  <2>1. PICK gap \in {0, 2} :
          Read([seq |-> view.seq + gap, event |-> [type |-> "run.created"]])
    BY <1>5 DEF ReadOutOfSequence
  <2>2. view.seq + gap # view.seq + 1
    BY <1>1
  <2> QED BY <1>2, <2>1, <2>2
<1>6. CASE ReadNext
  <2>1. PICK e \in Alphabet \cup Finishes : Read([seq |-> view.seq + 1, event |-> e])
    BY <1>6 DEF ReadNext
  <2>2. e \in Alphabet \cup Finished
    <3>1. {view.totals, [view.totals EXCEPT !.calls = @ + 1]} \subseteq Bills
      BY <1>1 DEF Bills
    <3> QED BY <3>1 DEF Finishes, Finished
  <2> QED BY <1>4, <2>1, <2>2
<1> QED BY <1>5, <1>6 DEF ReaderNext

(* The end of the fold changes nothing that the invariant speaks of.       *)
LEMMA Alike ==
  ASSUME RInv, Rejecting \/ UNCHANGED readerVars
  PROVE  RInv'
<1>1. frames' = frames /\ view = [f \in ViewFields |-> view[f]] /\ view.rejected \in BOOLEAN
  BY DEF Rejecting, readerVars, RInv, Shaped, IsRecord
<1>2. /\ IsRecord(view', ViewFields) /\ view'.rejected \in BOOLEAN
      /\ view'.seq = view.seq /\ view'.status = view.status /\ view'.nodes = view.nodes
      /\ view'.open = view.open /\ view'.ops = view.ops /\ view'.totals = view.totals
      /\ view'.decision = view.decision
  <2>1. CASE UNCHANGED readerVars
    <3>1. view' = view
      BY <2>1 DEF readerVars
    <3> QED BY <1>1, <3>1 DEF IsRecord
  <2>2. CASE Rejecting
    <3>1. view' = [view EXCEPT !.rejected = TRUE]
      BY <2>2 DEF Rejecting
    <3>2. view'.rejected = TRUE
      BY <1>1, <3>1 DEF ViewFields
    <3> QED BY <1>1, <3>1, <3>2 DEF ViewFields, IsRecord
  <2> QED BY <2>1, <2>2
<1>3. /\ \A i : Event(i)' = Event(i)
      /\ \A t : Of(t)' = Of(t)
      /\ Closings' = Closings
      /\ InputOf' = InputOf /\ OutputOf' = OutputOf /\ CostOf' = CostOf
  BY <1>1 DEF Event, Of, Closings, InputOf, OutputOf, CostOf
<1>4. /\ \A i, c : Opens(i, c)' = Opens(i, c)
      /\ \A m : TerminalOf(m)' = TerminalOf(m)
      /\ \A m, out, c : LastCall(m, out, c)' = LastCall(m, out, c)
  BY <1>1 DEF Opens, TerminalOf, LastCall, Event, Of
<1>5. Shaped'
  <2>1. /\ view.seq \in Nat /\ view.totals \in Bills
        /\ IsFunction(view.nodes) /\ IsFunction(view.open)
        /\ \A n \in DOMAIN view.nodes : IsRecord(view.nodes[n], NodeFields)
        /\ frames \in Seq(FramesRead) /\ view.seq = Len(frames)
    BY DEF RInv, Shaped
  <2> QED BY <1>1, <1>2, <2>1 DEF Shaped
<1>6. Ended'
  BY <1>1, <1>2, <1>3 DEF RInv, Believed, Ended
<1>7. Tracked'
  <2>1. \A m \in DOMAIN view.nodes : TrackedNode(m)' = TrackedNode(m)
    BY <1>2, <1>3, <1>4 DEF TrackedNode
  <2> QED BY <1>1, <1>2, <1>3, <2>1 DEF RInv, Believed, Tracked
<1>8. Silent'
  BY <1>1, <1>3 DEF RInv, Believed, Silent
<1>9. Dispatches'
  BY <1>1, <1>2, <1>3, <1>4 DEF RInv, Believed, Dispatches
<1>10. Summed'
  BY <1>2, <1>3 DEF RInv, Believed, Summed
<1>11. Cancelled'
  BY <1>1, <1>3, <1>4 DEF RInv, Believed, Cancelled
<1>12. Answered'
  <2>1. Answered
    BY DEF RInv, Believed
  <2> QED BY ZenonT(60), <1>1, <1>2, <1>3, <2>1 DEF Answered, LastCall
<1>13. Judged'
  BY <1>1, <1>2, <1>3 DEF RInv, Believed, Judged
<1> QED
  BY <1>5, <1>6, <1>7, <1>8, <1>9, <1>10, <1>11, <1>12, <1>13 DEF RInv, Believed

(* The invariant holds of the journal not yet read.                        *)
LEMMA Initially ==
  ASSUME ReaderInit
  PROVE  RInv
<1>1. frames = << >> /\ view = EmptyView /\ DOMAIN frames = {} /\ Len(frames) = 0
  BY DEF ReaderInit
<1>2. /\ view.status = "created" /\ view.nodes = << >> /\ view.open = << >>
      /\ view.totals = ZeroTotals /\ view.decision = Unset /\ view.seq = 0
      /\ view.rejected = FALSE
  BY <1>1 DEF EmptyView
<1>0. /\ DOMAIN view.nodes = {} /\ DOMAIN view.open = {}
      /\ IsFunction(view.nodes) /\ IsFunction(view.open) /\ IsRecord(view, ViewFields)
  <2>1. \A f : f = << >> => DOMAIN f = {} /\ IsFunction(f)
    BY DEF IsFunction
  <2>2. IsRecord(EmptyView, ViewFields)
    BY DEF IsRecord, EmptyView, ViewFields
  <2> QED BY <1>1, <1>2, <2>1, <2>2
<1>3. (\A t : Of(t) = {}) /\ Closings = {} /\ \A m : TerminalOf(m) = {}
  BY <1>1 DEF Of, Closings, TerminalOf
<1>4. Shaped
  <2>1. frames \in Seq(FramesRead) /\ view.totals \in Bills
    BY <1>1, <1>2 DEF ZeroTotals, Bills
  <2>2. view.rejected \in BOOLEAN
    BY <1>2
  <2>3. view.seq \in Nat /\ view.seq = Len(frames)
    BY <1>1, <1>2
  <2>4. \A n \in DOMAIN view.nodes : IsRecord(view.nodes[n], NodeFields)
    BY <1>0
  <2> QED BY <1>0, <2>1, <2>2, <2>3, <2>4 DEF Shaped
<1>5. Ended
  BY <1>0, <1>1, <1>2, <1>3 DEF Ended
<1>6. Tracked
  BY <1>0, <1>1, <1>2, FS_EmptySet DEF Tracked
<1>7. Silent
  BY <1>1 DEF Silent
<1>8. Dispatches
  BY <1>0, <1>2, <1>3 DEF Dispatches
<1>9. Summed
  BY <1>2, <1>3, FS_EmptySet, SumEmpty DEF Summed, ZeroTotals
<1>10. Cancelled
  BY <1>3 DEF Cancelled
<1>11. Answered
  BY <1>0, <1>2, <1>3 DEF Answered
<1>12. Judged
  BY <1>2, <1>3 DEF Judged
<1> QED
  BY <1>4, <1>5, <1>6, <1>7, <1>8, <1>9, <1>10, <1>11, <1>12 DEF RInv, Believed

(* The invariant is inductive.                                             *)
LEMMA Kept ==
  ASSUME RInv, [ReaderNext]_readerVars
  PROVE  RInv'
<1>1. /\ Shaped /\ Ended /\ Tracked /\ Silent /\ Dispatches /\ Summed /\ Cancelled
      /\ Answered /\ Judged
  BY DEF RInv, Believed
<1>2. CASE Rejecting \/ UNCHANGED readerVars
  BY <1>2, Alike
<1>3. ASSUME NEW e \in Alphabet \cup Finished, Growing(e)
      PROVE  RInv'
  <2>1. PICK n : n = Len(frames) + 1
    OBVIOUS
  <2>2. Grown(e, n)
    BY <1>1, <1>3, <2>1, Grows
  <2>3. Folded(e)
    BY <1>1, <1>3, Accepting DEF Growing
  <2>4. Shaped'
    BY <1>1, <1>3, ShapedKept
  <2>5. Ended' /\ Tracked' /\ Silent'
    BY <1>1, <2>2, <2>3, EndedKept, TrackedKept, SilentKept
  <2>6. Dispatches' /\ Summed' /\ Cancelled'
    BY <1>1, <2>2, <2>3, DispatchesKept, SummedKept, CancelledKept
  <2>7. Answered' /\ Judged'
    BY <1>1, <2>2, <2>3, AnsweredKept, JudgedKept
  <2> QED BY <2>4, <2>5, <2>6, <2>7 DEF RInv, Believed
<1> QED BY <1>1, <1>2, <1>3, Reading

(* What is invariant of the fold of any file.                              *)
THEOREM Invariance == ReaderSpec => []RInv
<1>1. ReaderInit => RInv
  BY Initially
<1>2. RInv /\ [ReaderNext]_readerVars => RInv'
  BY Kept
<1> QED BY <1>1, <1>2, PTL DEF ReaderSpec

-----------------------------------------------------------------------------
(* The sums of the report are those of the property.                       *)

(* The tokens in.                                                          *)
LEMMA InputSum ==
  ASSUME RInv
  PROVE  MapThenSumSet(LAMBDA c : Event(c).usage.input, Closings) = SumOf(InputOf, Closings)
<1>1. IsFiniteSet(Closings) /\ Closings \subseteq DOMAIN frames
  BY Billing DEF RInv
<1> DEFINE Is(g) == g = [s \in SUBSET Closings |->
                           IF s = {} THEN 0
                           ELSE Event(Picked(s)).usage.input + g[s \ {Picked(s)}]]
           h == CHOOSE g : Is(g)
<1>2. MapThenSumSet(LAMBDA c : Event(c).usage.input, Closings) = h[Closings]
  BY DEF MapThenSumSet, MapThenFoldSet, Picked
<1>3. ASSUME NEW s \in SUBSET Closings, s # {}
      PROVE  InputOf[Picked(s)] = Event(Picked(s)).usage.input
  BY <1>1, <1>3 DEF InputOf, Picked
<1>4. \A g : Is(g) <=> Summing(g, InputOf, Closings)
  BY <1>3 DEF Summing
<1>5. Summing(h, InputOf, Closings)
  BY <1>1, <1>4, SummingExists
<1> HIDE DEF h
<1> QED BY <1>1, <1>2, <1>5, SumUnique

(* The tokens out.                                                         *)
LEMMA OutputSum ==
  ASSUME RInv
  PROVE  MapThenSumSet(LAMBDA c : Event(c).usage.output, Closings) = SumOf(OutputOf, Closings)
<1>1. IsFiniteSet(Closings) /\ Closings \subseteq DOMAIN frames
  BY Billing DEF RInv
<1> DEFINE Is(g) == g = [s \in SUBSET Closings |->
                           IF s = {} THEN 0
                           ELSE Event(Picked(s)).usage.output + g[s \ {Picked(s)}]]
           h == CHOOSE g : Is(g)
<1>2. MapThenSumSet(LAMBDA c : Event(c).usage.output, Closings) = h[Closings]
  BY DEF MapThenSumSet, MapThenFoldSet, Picked
<1>3. ASSUME NEW s \in SUBSET Closings, s # {}
      PROVE  OutputOf[Picked(s)] = Event(Picked(s)).usage.output
  BY <1>1, <1>3 DEF OutputOf, Picked
<1>4. \A g : Is(g) <=> Summing(g, OutputOf, Closings)
  BY <1>3 DEF Summing
<1>5. Summing(h, OutputOf, Closings)
  BY <1>1, <1>4, SummingExists
<1> HIDE DEF h
<1> QED BY <1>1, <1>2, <1>5, SumUnique

(* The cost.                                                               *)
LEMMA CostSum ==
  ASSUME RInv
  PROVE  MapThenSumSet(LAMBDA c : Event(c).usage.cost, Closings) = SumOf(CostOf, Closings)
<1>1. IsFiniteSet(Closings) /\ Closings \subseteq DOMAIN frames
  BY Billing DEF RInv
<1> DEFINE Is(g) == g = [s \in SUBSET Closings |->
                           IF s = {} THEN 0
                           ELSE Event(Picked(s)).usage.cost + g[s \ {Picked(s)}]]
           h == CHOOSE g : Is(g)
<1>2. MapThenSumSet(LAMBDA c : Event(c).usage.cost, Closings) = h[Closings]
  BY DEF MapThenSumSet, MapThenFoldSet, Picked
<1>3. ASSUME NEW s \in SUBSET Closings, s # {}
      PROVE  CostOf[Picked(s)] = Event(Picked(s)).usage.cost
  BY <1>1, <1>3 DEF CostOf, Picked
<1>4. \A g : Is(g) <=> Summing(g, CostOf, Closings)
  BY <1>3 DEF Summing
<1>5. Summing(h, CostOf, Closings)
  BY <1>1, <1>4, SummingExists
<1> HIDE DEF h
<1> QED BY <1>1, <1>2, <1>5, SumUnique

-----------------------------------------------------------------------------
(* What a reader may conclude. *)

(* No spending is counted twice or without a dispatch.                     *)
THEOREM SpendingDispatched == ReaderSpec => []SpendingIsDispatched
<1>1. RInv => SpendingIsDispatched
  <2> SUFFICES ASSUME RInv PROVE SpendingIsDispatched
    OBVIOUS
  <2>1. Shaped /\ Dispatches /\ Summed
    BY DEF RInv, Believed
  <2>2. ASSUME NEW c \in Closings
        PROVE  \E i \in DOMAIN frames :
                 /\ Opens(i, c)
                 /\ \A j \in DOMAIN frames : Opens(j, c) => j = i
                 /\ \A b \in Closings : Opens(i, b) => b = c
    <3>1. PICK i \in DOMAIN frames : Opens(i, c)
      BY <2>1 DEF Dispatches
    <3>2. \A j \in DOMAIN frames : Opens(j, c) => j = i
      BY <2>1, <3>1 DEF Dispatches, Opens
    <3>3. ASSUME NEW b \in Closings, Opens(i, b)
          PROVE  b = c
      <4>1. Event(b).op = Event(c).op
        BY <3>1, <3>3 DEF Opens
      <4>2. \A a, d \in Closings : Event(a).op = Event(d).op => a = d
        BY <2>1 DEF Dispatches
      <4> QED BY <4>1, <4>2
    <3> QED BY <3>1, <3>2, <3>3
  <2>3. view.totals =
          [ calls  |-> Cardinality(Closings),
            input  |-> MapThenSumSet(LAMBDA c : Event(c).usage.input, Closings),
            output |-> MapThenSumSet(LAMBDA c : Event(c).usage.output, Closings),
            cost   |-> MapThenSumSet(LAMBDA c : Event(c).usage.cost, Closings) ]
    <3>1. view.totals \in Bills
      BY <2>1 DEF Shaped
    <3>2. view.totals =
            [ calls  |-> Cardinality(Closings), input  |-> SumOf(InputOf, Closings),
              output |-> SumOf(OutputOf, Closings), cost |-> SumOf(CostOf, Closings) ]
      BY <2>1, <3>1 DEF Bills, Summed
    <3> QED BY <3>2, InputSum, OutputSum, CostSum
  <2> QED BY <2>2, <2>3 DEF SpendingIsDispatched
<1> QED BY <1>1, Invariance, PTL

(* A cancelled call is billed at its reservation.                          *)
THEOREM CancellationBilled == ReaderSpec => []CancellationIsBilled
<1>1. RInv => CancellationIsBilled
  BY DEF RInv, Believed, Cancelled, CancellationIsBilled
<1> QED BY <1>1, Invariance, PTL

(* What is accepted as completed did complete, within the caps.            *)
THEOREM CompletedCompleted == ReaderSpec => []CompletedRunCompleted
<1>1. RInv => CompletedRunCompleted
  <2> SUFFICES ASSUME RInv, AcceptedCompleted PROVE CompletedRunCompleted
    BY DEF CompletedRunCompleted
  <2>1. Shaped /\ Ended /\ Tracked /\ Dispatches /\ Answered
    BY DEF RInv, Believed
  <2>2. /\ \A n \in DOMAIN view.nodes : view.nodes[n].status = "completed"
        /\ Cardinality(DOMAIN view.nodes) = ExpectedNodes
        /\ DOMAIN view.open = {}
        /\ view.totals.calls <= CapCalls
        /\ view.totals.input + view.totals.output <= CapTokens
        /\ view.totals.cost <= CapCost
    BY <2>1 DEF AcceptedCompleted, Ended
  <2>3. /\ IsFiniteSet(DOMAIN view.nodes)
        /\ \A i \in DOMAIN frames :
             Event(i).type \in NodeTypes => Event(i).node \in DOMAIN view.nodes
        /\ \A n \in DOMAIN view.nodes : TrackedNode(n)
    BY <2>1 DEF Tracked
  <2>4. \A n \in DOMAIN view.nodes :
          /\ \E t \in Of("node.completed") : TerminalOf(n) = {t}
          /\ \E s \in Of("node.started") : Event(s).node = n
    BY <2>2, <2>3 DEF TrackedNode
  <2>5. Of("node.failed") = {}
    <3> SUFFICES ASSUME NEW i \in Of("node.failed") PROVE FALSE
      OBVIOUS
    <3>1. Event(i).node \in DOMAIN view.nodes /\ Event(i).type = "node.failed"
      BY <2>3 DEF Of, NodeTypes
    <3>2. PICK t \in Of("node.completed") : TerminalOf(Event(i).node) = {t}
      BY <2>4, <3>1
    <3>3. i = t
      BY <3>2 DEF TerminalOf
    <3> QED BY <3>1, <3>2, <3>3 DEF Of
  <2>6. Cardinality(Of("node.completed")) = ExpectedNodes
    <3> DEFINE f == [i \in Of("node.completed") |-> Event(i).node]
    <3>1. \A i \in Of("node.completed") :
            Event(i).node \in DOMAIN view.nodes /\ i \in TerminalOf(Event(i).node)
      BY <2>3 DEF Of, NodeTypes, TerminalOf
    <3>2. f \in [Of("node.completed") -> DOMAIN view.nodes]
      BY <3>1
    <3>3. \A i, j \in Of("node.completed") : f[i] = f[j] => i = j
      BY <2>4, <3>1
    <3>4. \A n \in DOMAIN view.nodes : \E i \in Of("node.completed") : f[i] = n
      BY <2>4 DEF TerminalOf
    <3>5. ExistsBijection(Of("node.completed"), DOMAIN view.nodes)
      <4> HIDE DEF f
      <4> QED BY <3>2, <3>3, <3>4
          DEF ExistsBijection, Bijection, Injection, Surjection, IsInjective
    <3>6. ExistsBijection(DOMAIN view.nodes, Of("node.completed"))
      BY <3>5, Fun_ExistsBijSymmetric
    <3> QED BY <2>2, <2>3, <3>6, FS_Bijection
  <2>7. Cardinality({Event(i).node : i \in Of("node.started")}) = ExpectedNodes
    <3>1. {Event(i).node : i \in Of("node.started")} = DOMAIN view.nodes
      BY <2>3, <2>4 DEF Of, NodeTypes
    <3> QED BY <2>2, <3>1
  <2>8. \A i \in Of("node.completed") : \E c \in Of("model.completed") :
          /\ c < i /\ Event(c).node = Event(i).node /\ Event(c).output = Event(i).output
          /\ \A b \in Of("model.completed") : Event(b).node = Event(i).node => b <= c
    BY <2>1 DEF Answered, LastCall
  <2>9. \A i \in Of("model.dispatched") : \E c \in Closings : Opens(i, c)
    BY <2>1, <2>2 DEF Dispatches
  <2> QED BY <2>2, <2>5, <2>6, <2>7, <2>8, <2>9 DEF CompletedRunCompleted
<1> QED BY <1>1, Invariance, PTL

(* Nothing is heard of a node or of the run after its terminal event.      *)
THEOREM TerminalFinal == ReaderSpec => []TerminalIsFinal
<1>1. RInv => TerminalIsFinal
  <2> SUFFICES ASSUME RInv PROVE TerminalIsFinal
    OBVIOUS
  <2>1. Shaped /\ Ended /\ Tracked /\ Silent
    BY DEF RInv, Believed
  <2>2. /\ Len(frames) \in Nat /\ DOMAIN frames = 1 .. Len(frames)
        /\ \A i \in DOMAIN frames : frames[i] \in FramesRead
    BY <2>1 DEF Shaped
  <2>3. \A i \in DOMAIN frames : Event(i).type \in ReadTypes
    BY <2>2, Typed DEF FramesRead, Event
  <2>4. ASSUME NEW n \in DOMAIN view.nodes, NEW t \in TerminalOf(n),
               NEW i \in DOMAIN frames, i > t,
               Event(i).type \notin {"run.finished", "decision.recorded"}
        PROVE  Event(i).node # n
    <3>1. /\ t \in DOMAIN frames /\ Event(t).node = n
          /\ Event(t).type \in {"node.completed", "node.failed"}
      BY DEF TerminalOf, Of
    <3>2. Event(i).type # "run.created"
      BY <2>1, <2>2, <2>4, <3>1 DEF Ended, Of
    <3>3. Event(i).type \in NodeTypes
      BY <2>3, <2>4, <3>2 DEF ReadTypes, EventTypes, NodeTypes
    <3> QED BY <2>1, <2>2, <2>4, <3>1, <3>3 DEF Silent
  <2>5. ASSUME NEW t \in Of("run.finished")
        PROVE  /\ t = Len(frames)
               /\ \A s \in Of("node.started") : TerminalOf(Event(s).node) # {}
    <3>1. view.status \in {"completed", "failed"}
      BY <2>1 DEF Ended
    <3>2. /\ t = Len(frames)
          /\ \A n \in DOMAIN view.nodes : view.nodes[n].status \in {"completed", "failed"}
      BY <2>1, <3>1 DEF Ended
    <3>3. \A n \in DOMAIN view.nodes : TerminalOf(n) # {}
      BY <2>1, <3>2 DEF Tracked, TrackedNode
    <3>4. \A s \in Of("node.started") : Event(s).node \in DOMAIN view.nodes
      BY <2>1 DEF Tracked, Of, NodeTypes
    <3> QED BY <3>2, <3>3, <3>4
  <2> QED BY <2>4, <2>5 DEF TerminalIsFinal
<1> QED BY <1>1, Invariance, PTL

(* A decision is made once, by a judge that completed.                     *)
THEOREM DecisionJudged == ReaderSpec => []DecisionIsJudged
<1>1. RInv => DecisionIsJudged
  <2> SUFFICES ASSUME RInv PROVE DecisionIsJudged
    OBVIOUS
  <2>1. Judged
    BY DEF RInv, Believed
  <2>2. Of("decision.recorded") = {} \/ \E d : Of("decision.recorded") = {d}
    BY <2>1 DEF Judged
  <2>3. Cardinality(Of("decision.recorded")) <= 1
    BY <2>2, FS_EmptySet, FS_Singleton
  <2> QED BY <2>1, <2>3 DEF Judged, DecisionIsJudged
<1> QED BY <1>1, Invariance, PTL
=============================================================================
