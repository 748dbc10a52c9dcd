------------------------- MODULE ManagedWorktreesProofs -------------------------
(***************************************************************************)
(* Theorems about the lifecycle of a managed worktree, for any nonces,     *)
(* commits, intrusions and deaths.                                         *)
(***************************************************************************)
EXTENDS ManagedWorktrees, FiniteSetTheorems, WellFoundedInduction, TLAPS

StagingOf(n) == << "staging", n >>
QuarantineOf(n) == << "quarantine", n >>

Unplaced == {"none", "removed", "abandoned"}
Early == {"preclaim", "abandoned"}

Ops == {"none", "create", "create_candidate", "acquire_existing", "remove"}

Creating  == {"preclaim", "claim", "publish", "locate", "populate", "settle"}
Acquiring == {"vacant", "abandon", "reconcile", "bind", "recover"}
Removing  == {"retire", "quarantine", "located_aside", "delete", "bury"}

States == Unplaced \cup {"preclaim", "claimed", "ready", "advancing", "removing"}
Locations == {"absent", "staging", "public", "quarantine"}
Steps == {"none", "fresh", "held"} \cup Creating \cup Acquiring \cup Removing

Records ==
  [state : States,
   nonce : Nonces \cup {0},
   location : Locations, sha : Nat]

Sessions == [op : Ops, step : Steps, sha : Nat]

Targets == [Leaves -> Nonces \cup {Absent, Foreign}]
Entries == [head : Int, detached : BOOLEAN]
Registrations == [Leaves -> Entries]
Lookups == {"none", "target", "registration", "again", "done", "refused"}

Types ==
  /\ purpose \in {"candidate", "view"}
  /\ record \in Records
  /\ at \in Targets
  /\ filled \in SUBSET Nonces
  /\ reg \in Registrations
  /\ dirty \in BOOLEAN
  /\ session \in Sessions
  /\ probing \in Lookups
  /\ touched \in BOOLEAN
  /\ refused \in BOOLEAN
  /\ deaths \in Nat

(* The record is one that _parse_record accepts, and names a generation    *)
(* from the first claim on.                                                *)
RecordFits ==
  /\ RecordParses
  /\ record.state = "none" => record = NoRecord
  /\ record.state # "none" => record.nonce \in Nonces

(* The step a session is at fits the record and the call that opened it.   *)
StepFits ==
  /\ session.step = "none" => session = NoSession
  /\ session.step \in {"vacant", "fresh"} => record.state \in Unplaced
  /\ session.step \in {"preclaim", "abandon", "claim"} => record.state = "preclaim"
  /\ session.step \in {"publish", "locate", "populate", "settle", "reconcile"} =>
       record.state = "claimed"
  /\ session.step \in {"populate", "settle"} => record.location = "public"
  /\ session.step \in {"bind", "retire"} => record.state = "ready"
  /\ session.step = "recover" => record.state = "advancing"
  /\ session.step \in {"quarantine", "located_aside"} =>
       record.state = "removing" /\ record.location = "public"
  /\ session.step \in {"delete", "bury"} =>
       record.state = "removing" /\ record.location = "quarantine"
  /\ session.step = "held" => record.state \in {"ready", "advancing"}

(* Which calls belong to which purpose.                                    *)
CallFits ==
  /\ purpose = "view" => session.op \in {"none", "create", "remove"}
  /\ purpose = "view" => record.state # "advancing"
  /\ purpose = "candidate" => session.op # "create"
  /\ session.step = "retire" => session.op \in {"create", "remove"}
  /\ session.step \in {"bind", "reconcile", "recover"} => session.op = "acquire_existing"
  /\ purpose = "view" /\ session.step # "none" /\ record.state \notin Unplaced =>
       record.sha = session.sha

(* What no intrusion changes: a name holds its own generation or nothing   *)
(* of the manager's, Git knows of no staging directory, a quarantine is    *)
(* there during the removal of its generation only, and the staging name   *)
(* is free once the generation has its public one.                         *)
Placed ==
  /\ at[Public] \in {Absent, Foreign, record.nonce}
  /\ \A n \in Nonces :
       /\ at[StagingOf(n)] \in {Absent, Foreign, n}
       /\ at[QuarantineOf(n)] \in {Absent, n}
       /\ reg[StagingOf(n)] = Unregistered
       /\ n # record.nonce \/ record.state # "removing" \/ session.step = "bury" =>
            at[QuarantineOf(n)] = Absent /\ reg[QuarantineOf(n)] = Unregistered
       /\ n = record.nonce /\ (record.location # "staging" \/ session.step = "locate") =>
            at[StagingOf(n)] = Absent

Staged == {n \in Nonces : at[StagingOf(n)] = n}

(* There are no more staging directories than the deaths that the bound    *)
(* allows and one intrusion have left, so there is a nonce to be had.      *)
StagingBounded ==
  /\ Cardinality(Staged \ {record.nonce}) <= MaxAbandoned
  /\ record.state \in Early /\ session.step # "claim" => Cardinality(Staged) <= MaxAbandoned
  /\ \A m, n \in Nonces : at[StagingOf(m)] = Foreign /\ at[StagingOf(n)] = Foreign => m = n
  /\ ~touched => \A n \in Nonces : at[StagingOf(n)] # Foreign

(* As long as nobody has touched it, the target is where the record and    *)
(* the step say, at most one effect ahead.                                 *)
ClaimInPlace ==
  /\ record.state \in Unplaced \cup {"preclaim"} => prove_no_public_target
  /\ session.step = "claim" => at[Staging] = record.nonce
  /\ record.state = "preclaim" \/ (record.state = "claimed" /\ record.location = "staging") =>
       record.nonce \notin filled
  /\ record.state = "claimed" /\ record.location = "staging" =>
       /\ reg[Public] = Unregistered
       /\ ClaimStaged \/ ClaimMoved
       /\ session.step = "locate" => ClaimMoved
  /\ record.state = "claimed" /\ record.location = "public" =>
       /\ at[Public] = record.nonce
       /\ IF record.nonce \in filled THEN reg[Public] = Registered(record.sha)
          ELSE reg[Public] = Unregistered
       /\ session.step = "settle" => record.nonce \in filled

BoundInPlace ==
  record.state \in {"ready", "advancing"} =>
    /\ at[Public] = record.nonce /\ record.nonce \in filled
    /\ reg[Public].detached = TRUE
    /\ purpose = "candidate" =>
         \/ reg[Public] = Registered(record.sha)
         \/ /\ record.state = "advancing"
            /\ reg[Public] = Registered(record.sha + 1) /\ dirty = FALSE

RemovedInPlace ==
  /\ record.state = "removing" /\ record.location = "public" =>
       \/ NotQuarantined /\ session.step # "located_aside"
       \/ Quarantined /\ reg[Public] = Unregistered
  /\ record.state = "removing" /\ record.location = "quarantine" =>
       /\ prove_no_public_target
       /\ prove_discardable_at(Quarantine) \/ Deleted
       /\ session.step = "bury" => Deleted

Untouched == touched = FALSE => ClaimInPlace /\ BoundInPlace /\ RemovedInPlace

IInv ==
  /\ Types /\ RecordFits /\ StepFits /\ CallFits /\ Placed /\ StagingBounded
  /\ Untouched /\ RefusalHasCause

-----------------------------------------------------------------------------

(* The names in the worktrees root are told apart.                         *)
LEMMA Names ==
  /\ Public \in Leaves
  /\ \A n \in Nonces :
       /\ StagingOf(n) \in Leaves /\ QuarantineOf(n) \in Leaves
       /\ StagingOf(n) # Public /\ QuarantineOf(n) # Public
  /\ \A m, n \in Nonces :
       /\ StagingOf(m) # QuarantineOf(n)
       /\ m # n => StagingOf(m) # StagingOf(n) /\ QuarantineOf(m) # QuarantineOf(n)
  /\ \A leaf \in Leaves : \/ leaf = Public
                          \/ \E n \in Nonces : leaf \in {StagingOf(n), QuarantineOf(n)}
  /\ Nonces \subseteq Nat /\ 0 \notin Nonces /\ -1 \notin Nonces
<1>1. \A n \in Nonces : n \in Nat \ {0}
  BY WorktreeAssumption
<1>2. \A n \in Nonces : StagingOf(n) # Public /\ QuarantineOf(n) # Public
  BY <1>1 DEF Public, StagingOf, QuarantineOf
<1>3. \A m, n \in Nonces :
        /\ StagingOf(m) # QuarantineOf(n)
        /\ m # n => StagingOf(m) # StagingOf(n) /\ QuarantineOf(m) # QuarantineOf(n)
  BY DEF StagingOf, QuarantineOf
<1>4. \A leaf \in Leaves : \/ leaf = Public
                          \/ \E n \in Nonces : leaf \in {StagingOf(n), QuarantineOf(n)}
  BY DEF Leaves, Public, StagingOf, QuarantineOf
<1>5. Public \in Leaves /\ \A n \in Nonces : StagingOf(n) \in Leaves /\ QuarantineOf(n) \in Leaves
  BY DEF Leaves, Public, StagingOf, QuarantineOf
<1> QED BY <1>1, <1>2, <1>3, <1>4, <1>5

(* The name of the present generation, now and after a step.              *)
LEMMA Named ==
  /\ Staging = StagingOf(record.nonce) /\ Quarantine = QuarantineOf(record.nonce)
  /\ Staging' = StagingOf(record.nonce') /\ Quarantine' = QuarantineOf(record.nonce')
BY DEF Staging, Quarantine, StagingOf, QuarantineOf

(* A registration is told from none.                                       *)
LEMMA Told ==
  \A sha : /\ Registered(sha) # Unregistered
           /\ Registered(sha).head = sha /\ Registered(sha).detached = TRUE
<1> SUFFICES ASSUME NEW sha PROVE /\ Registered(sha) # Unregistered
                                  /\ Registered(sha).head = sha /\ Registered(sha).detached = TRUE
  OBVIOUS
<1>1. Registered(sha).head = sha /\ Registered(sha).detached = TRUE
  BY DEF Registered
<1>2. Unregistered.detached = FALSE
  BY DEF Unregistered
<1> QED BY <1>1, <1>2

(* The steps, states and locations that the actions mention.               *)
LEMMA Listed ==
  /\ "none" \in Steps /\ "fresh" \in Steps /\ "held" \in Steps
  /\ "preclaim" \in Steps /\ "claim" \in Steps /\ "publish" \in Steps /\ "locate" \in Steps
  /\ "populate" \in Steps /\ "settle" \in Steps /\ "vacant" \in Steps /\ "abandon" \in Steps
  /\ "reconcile" \in Steps /\ "bind" \in Steps /\ "recover" \in Steps /\ "retire" \in Steps
  /\ "quarantine" \in Steps /\ "located_aside" \in Steps /\ "delete" \in Steps /\ "bury" \in Steps
  /\ "preclaim" \in States /\ "abandoned" \in States /\ "claimed" \in States
  /\ "ready" \in States /\ "advancing" \in States /\ "removing" \in States /\ "removed" \in States
  /\ "absent" \in Locations /\ "staging" \in Locations
  /\ "public" \in Locations /\ "quarantine" \in Locations
BY DEF Steps, Creating, Acquiring, Removing, States, Unplaced, Locations

(* What the actions do to a session and to a record has the right type.    *)
LEMMA SessionUpdates ==
  ASSUME Types
  PROVE  /\ NoSession \in Sessions
         /\ \A step \in Steps : [session EXCEPT !.step = step] \in Sessions
         /\ [session EXCEPT !.op = "remove", !.step = "retire"] \in Sessions
         /\ session.sha \in Nat
<1>1. session \in Sessions
  BY DEF Types
<1>2. NoSession \in Sessions
  BY Listed DEF Sessions, NoSession, Ops
<1>3. \A step \in Steps : [session EXCEPT !.step = step] \in Sessions
  BY <1>1 DEF Sessions
<1>4. [session EXCEPT !.op = "remove", !.step = "retire"] \in Sessions
  BY <1>1, Listed DEF Sessions, Ops
<1> QED BY <1>1, <1>2, <1>3, <1>4 DEF Sessions

(* The same of the record.                                                 *)
LEMMA RecordUpdates ==
  ASSUME Types
  PROVE  /\ \A s \in States : [record EXCEPT !.state = s] \in Records
         /\ \A l \in Locations : [record EXCEPT !.location = l] \in Records
         /\ \A s \in States, l \in Locations :
              [record EXCEPT !.state = s, !.location = l] \in Records
         /\ \A s \in States, sha \in Nat :
              [record EXCEPT !.state = s, !.sha = sha] \in Records
         /\ record.sha \in Nat
         /\ record.nonce \in Nonces \cup {0}
<1>1. record \in Records
  BY DEF Types
<1> QED BY <1>1 DEF Records

(* And of what names lead to, and of the registrations.                    *)
LEMMA Placing ==
  /\ \A f \in Targets, leaf \in Leaves, n \in Nonces \cup {Absent, Foreign} :
       [f EXCEPT ![leaf] = n] \in Targets /\ f[leaf] \in Nonces \cup {Absent, Foreign}
  /\ \A f \in Registrations, leaf \in Leaves, entry \in Entries :
       [f EXCEPT ![leaf] = entry] \in Registrations /\ f[leaf] \in Entries
  /\ \A f \in Targets, a, b \in Leaves, m, n \in Nonces \cup {Absent, Foreign} :
       [f EXCEPT ![a] = m, ![b] = n] \in Targets
  /\ \A f \in Registrations, a, b \in Leaves, d, e \in Entries :
       [f EXCEPT ![a] = d, ![b] = e] \in Registrations
  /\ \A f \in Registrations, leaf \in Leaves, sha \in Int :
       [f EXCEPT ![leaf].head = sha] \in Registrations
  /\ \A f \in Registrations, leaf \in Leaves :
       [f EXCEPT ![leaf].detached = FALSE] \in Registrations /\ f[leaf].head \in Int
  /\ Unregistered \in Entries /\ \A sha \in Nat : Registered(sha) \in Entries
<1>1. \A f \in Targets, leaf \in Leaves, n \in Nonces \cup {Absent, Foreign} :
        [f EXCEPT ![leaf] = n] \in Targets /\ f[leaf] \in Nonces \cup {Absent, Foreign}
  BY DEF Targets
<1>2. \A f \in Registrations, leaf \in Leaves, entry \in Entries :
        [f EXCEPT ![leaf] = entry] \in Registrations /\ f[leaf] \in Entries
  BY DEF Registrations
<1>3. \A entry \in Entries, sha \in Int :
        /\ [entry EXCEPT !.head = sha] \in Entries /\ [entry EXCEPT !.detached = FALSE] \in Entries
        /\ entry.head \in Int
  BY DEF Entries
<1>4. Unregistered \in Entries /\ \A sha \in Nat : Registered(sha) \in Entries
  BY DEF Unregistered, Registered, Entries
<1>5. ASSUME NEW f \in Registrations, NEW leaf \in Leaves, NEW sha \in Int
      PROVE  /\ [f EXCEPT ![leaf].head = sha] \in Registrations
             /\ [f EXCEPT ![leaf].detached = FALSE] \in Registrations
  <2>1. /\ [f[leaf] EXCEPT !.head = sha] \in Entries
        /\ [f[leaf] EXCEPT !.detached = FALSE] \in Entries
    <3>1. f[leaf] \in Entries
      BY DEF Registrations
    <3> QED BY <1>3, <3>1
  <2> QED BY <1>2, <2>1
<1>6. ASSUME NEW f \in Registrations, NEW leaf \in Leaves
      PROVE  [f EXCEPT ![leaf].detached = FALSE] \in Registrations /\ f[leaf].head \in Int
  <2>1. f[leaf] \in Entries /\ 0 \in Int
    BY DEF Registrations
  <2> QED BY <1>3, <1>5, <2>1
<1>7. \A f \in Targets, a, b \in Leaves, m, n \in Nonces \cup {Absent, Foreign} :
        [f EXCEPT ![a] = m, ![b] = n] \in Targets
  BY DEF Targets
<1>8. \A f \in Registrations, a, b \in Leaves, d, e \in Entries :
        [f EXCEPT ![a] = d, ![b] = e] \in Registrations
  BY DEF Registrations
<1> QED BY <1>1, <1>2, <1>4, <1>5, <1>6, <1>7, <1>8

(* There is always a nonce left that nothing in the root is named after.   *)
LEMMA FreshNonceExists ==
  ASSUME IInv, record.state \in Unplaced, session.step # "claim"
  PROVE  FreshNonce \in FreshNonces
<1>1. /\ IsFiniteSet(Nonces) /\ Nonces \subseteq Nat
      /\ Cardinality(Nonces) \in Nat /\ MaxAbandoned \in Nat
      /\ Cardinality(Nonces) > MaxAbandoned + 2
  BY WorktreeAssumption, FS_CardinalityType
<1> DEFINE Taken == {n \in Nonces : at[StagingOf(n)] = Foreign}
           Blocked == Staged \cup Taken \cup {record.nonce}
<1>2. IsFiniteSet(Staged) /\ IsFiniteSet(Taken) /\ IsFiniteSet(Staged \ {record.nonce})
  BY <1>1, FS_Subset DEF Staged
<1>3. /\ Cardinality(Staged) \in Nat /\ Cardinality(Taken) \in Nat
      /\ Cardinality(Staged \ {record.nonce}) \in Nat
  BY <1>2, FS_CardinalityType
<1>4. Cardinality(Taken) <= 1
  <2>1. CASE Taken = {}
    BY <2>1, FS_EmptySet
  <2>2. CASE Taken # {}
    <3>1. PICK n \in Taken : TRUE
      BY <2>2
    <3>2. Taken = {n}
      BY <3>1 DEF IInv, StagingBounded
    <3> QED BY <3>2, FS_Singleton
  <2> QED BY <2>1, <2>2
<1>5. /\ IsFiniteSet(Blocked) /\ Cardinality(Blocked) \in Nat
      /\ Cardinality(Blocked) <= MaxAbandoned + 2
  <2> DEFINE Others == Staged \ {record.nonce}
  <2>1. IsFiniteSet(Others \cup Taken) /\ Cardinality(Others \cup Taken) \in Nat
    BY <1>2, FS_Union, FS_CardinalityType
  <2>2. Cardinality(Others \cup Taken) <= MaxAbandoned + 1
    <3>1. Cardinality(Others \cap Taken) \in Nat
      BY <1>2, FS_Subset, FS_CardinalityType
    <3>2. Cardinality(Others \cup Taken)
            = Cardinality(Others) + Cardinality(Taken) - Cardinality(Others \cap Taken)
      BY <1>2, FS_Union
    <3>3. Cardinality(Others) <= MaxAbandoned
      BY DEF IInv, StagingBounded
    <3>4. Cardinality(Others) \in Nat /\ Cardinality(Taken) \in Nat
      BY <1>3
    <3> HIDE DEF Others, Taken
    <3> QED BY <1>1, <1>4, <2>1, <3>1, <3>2, <3>3, <3>4
  <2>3. Blocked = (Others \cup Taken) \cup {record.nonce}
    OBVIOUS
  <2>4. /\ IsFiniteSet((Others \cup Taken) \cup {record.nonce})
        /\ \/ Cardinality((Others \cup Taken) \cup {record.nonce}) = Cardinality(Others \cup Taken)
           \/ Cardinality((Others \cup Taken) \cup {record.nonce}) = Cardinality(Others \cup Taken) + 1
    BY <2>1, FS_AddElement
  <2> HIDE DEF Others, Taken, Blocked
  <2> QED BY <1>1, <2>1, <2>2, <2>3, <2>4
<1>6. PICK n \in Nonces : n \notin Blocked
  <2>1. CASE Nonces \subseteq Blocked
    <3>1. Cardinality(Nonces) <= Cardinality(Blocked)
      BY <1>5, <2>1, FS_Subset
    <3> HIDE DEF Blocked
    <3> QED BY <1>1, <1>5, <3>1
  <2> QED BY <2>1
<1>7. n \in FreshNonces
  <2>1. \A leaf \in Leaves : at[leaf] # n
    <3> SUFFICES ASSUME NEW leaf \in Leaves PROVE at[leaf] # n
      OBVIOUS
    <3>1. CASE leaf = Public
      BY <1>6, <3>1, Names DEF IInv, Placed, Absent, Foreign
    <3>2. ASSUME NEW m \in Nonces, leaf = StagingOf(m) PROVE at[leaf] # n
      BY <1>6, <3>2, Names DEF IInv, Placed, Absent, Foreign, Staged
    <3>3. ASSUME NEW m \in Nonces, leaf = QuarantineOf(m) PROVE at[leaf] # n
      BY <1>6, <3>3, Names DEF IInv, Placed, Absent, Foreign, Unplaced
    <3> QED BY <3>1, <3>2, <3>3, Names
  <2>2. \A leaf \in Leaves : leaf[2] = n => leaf \in {StagingOf(n), QuarantineOf(n)}
    BY Names DEF Leaves, StagingOf, QuarantineOf, Public
  <2>3. /\ at[StagingOf(n)] = Absent /\ reg[StagingOf(n)] = Unregistered
        /\ at[QuarantineOf(n)] = Absent /\ reg[QuarantineOf(n)] = Unregistered
    BY <1>6 DEF IInv, Placed, Staged
  <2> QED BY <1>6, <2>1, <2>2, <2>3 DEF FreshNonces
<1>8. PICK m \in FreshNonces : \A k \in FreshNonces : ~(<< k, m >> \in OpToRel(<, Nat))
  <2>1. FreshNonces \subseteq Nat /\ FreshNonces # {}
    BY <1>1, <1>7 DEF FreshNonces
  <2> QED BY <2>1, NatLessThanWellFounded, WFMin
<1>9. m \in Nat /\ \A k \in FreshNonces : k \in Nat
  BY <1>1 DEF FreshNonces
<1>10. \A k \in FreshNonces : ~(k < m)
  BY <1>8, <1>9, Zenon DEF OpToRel
<1>11. \A k \in FreshNonces : m <= k
  BY <1>9, <1>10
<1> QED BY <1>8, <1>11 DEF FreshNonce

(* Every step keeps the types. *)
LEMMA TypesKept ==
  ASSUME IInv, Next
  PROVE  Types'
<1>1. CASE Calls
  <2>1. PICK op \in {"create", "create_candidate", "acquire_existing"}, sha \in {0, 1} : Open(op, sha)
    BY <1>1 DEF Calls
  <2>2. /\ session' \in {NoSession, [op |-> op, step |-> FirstStep(op), sha |-> sha]}
        /\ refused' \in {TRUE, refused}
        /\ UNCHANGED << record, at, filled, reg, dirty, purpose, probing, touched, deaths >>
    BY <2>1 DEF Open, Refuse, Close, Ghosts
  <2>3. FirstStep(op) \in Steps
    BY DEF FirstStep, Steps, Creating, Acquiring, Removing, IInv, Types, Records, States,
      Unplaced
  <2>4. session' \in Sessions
    BY <2>1, <2>2, <2>3, SessionUpdates DEF Sessions, Ops, IInv
  <2> QED BY <2>2, <2>4 DEF IInv, Types
<1>2. CASE Vacant
  BY <1>2, Listed, SessionUpdates, RecordUpdates DEF Vacant, At, Close, Refuse, Unharmed,
    Ghosts, IInv, Types
<1>3. CASE FreshCreate
  <2>1. FreshNonce \in Nonces
    BY <1>3, FreshNonceExists DEF FreshCreate, At, StepFits, FreshNonces, IInv
  <2>2. session' \in Sessions
    BY <1>3, Listed, SessionUpdates DEF FreshCreate, At, Step, Refuse, Close, IInv
  <2>3. record' \in Records
    BY <1>3, <2>1, Listed, SessionUpdates DEF FreshCreate, Transition, Refuse, Records, IInv,
      Types
  <2>4. filled' \in SUBSET Nonces
    BY <1>3, <2>1 DEF FreshCreate, Refuse, IInv, Types
  <2> QED BY <1>3, <2>1, <2>2, <2>3, <2>4 DEF FreshCreate, At, Ghosts, Touch, Unharmed, Refuse,
    Close, IInv, Types
<1>4. CASE FinishPreclaim
  <2>1. record.nonce \in Nonces
    BY <1>4 DEF FinishPreclaim, At, StepFits, RecordFits, IInv
  <2>2. session' \in Sessions
    BY <1>4, Listed, SessionUpdates DEF FinishPreclaim, At, Step, Refuse, Close, IInv
  <2>3. record' \in Records
    BY <1>4, Listed, RecordUpdates DEF FinishPreclaim, Transition, Refuse, IInv, Types
  <2>4. at' \in Targets
    BY <1>4, <2>1, Placing, Names, Named DEF FinishPreclaim, Refuse, IInv, Types
  <2> QED BY <1>4, <2>1, <2>2, <2>3, <2>4 DEF FinishPreclaim, At, Ghosts, Touch, Unharmed,
    Refuse, Close, IInv, Types
<1>5. CASE AbandonPreclaim
  BY <1>5, Listed, SessionUpdates, RecordUpdates DEF AbandonPreclaim, At, Close, Refuse,
    Transition, Unharmed, Ghosts, IInv, Types
<1>6. CASE Claim
  BY ZenonT(60), <1>6, Listed, SessionUpdates, RecordUpdates DEF Claim, At, Step, Close, Refuse,
    Transition, Unharmed, Ghosts, IInv, Types
<1>7. CASE PublishClaim
  <2>1. record.nonce \in Nonces /\ Staging \in Leaves /\ Public \in Leaves
    BY <1>7, Names, Named DEF PublishClaim, At, StepFits, RecordFits, IInv
  <2>2. session' \in Sessions
    BY <1>7, Listed, SessionUpdates DEF PublishClaim, At, Step, Refuse, Close, IInv
  <2>3. /\ Absent \in Nonces \cup {Absent, Foreign}
        /\ at[Staging] \in Nonces \cup {Absent, Foreign}
    BY <2>1, Placing DEF IInv, Types
  <2>4. at' \in Targets
    BY <1>7, <2>1, <2>3, Placing DEF PublishClaim, Move, Refuse, IInv, Types
  <2> QED BY <1>7, <2>1, <2>2, <2>3, <2>4 DEF PublishClaim, At, Ghosts, Touch, Unharmed,
    Refuse, Close, IInv, Types
<1>8. CASE LocateClaim
  BY <1>8, Listed, SessionUpdates, RecordUpdates DEF LocateClaim, At, Step, Transition,
    Unharmed, Ghosts, IInv, Types
<1>9. CASE Populate
  <2>1. record.nonce \in Nonces
    BY <1>9 DEF Populate, At, StepFits, RecordFits, IInv
  <2>2. session' \in Sessions
    BY <1>9, Listed, SessionUpdates DEF Populate, At, Step, Refuse, Close, IInv
  <2>3. Registered(record.sha) \in Entries
    BY Placing, RecordUpdates DEF IInv
  <2>4. reg' \in Registrations
    BY <1>9, <2>3, Placing, Names DEF Populate, Refuse, IInv, Types
  <2>5. filled' \in SUBSET Nonces /\ dirty' \in BOOLEAN
    BY <1>9, <2>1 DEF Populate, Unharmed, Refuse, IInv, Types
  <2> QED BY <1>9, <2>1, <2>2, <2>3, <2>4, <2>5 DEF Populate, At, Ghosts, Touch, Unharmed,
    Refuse, Close, IInv, Types
<1>10. CASE Settle
  BY <1>10, Listed, SessionUpdates, RecordUpdates DEF Settle, At, Step, Transition, Unharmed,
    Ghosts, IInv, Types
<1>11. CASE Bind
  BY <1>11, Listed, SessionUpdates, RecordUpdates DEF Bind, At, Step, Close, Refuse, Unharmed,
    Ghosts, IInv, Types
<1>12. CASE Reconcile
  BY ZenonT(60), <1>12, Listed, SessionUpdates, RecordUpdates DEF Reconcile, At, Step, Close, Refuse,
    Transition, Unharmed, Ghosts, IInv, Types
<1>13. CASE Recover
  <2>1. session' \in Sessions
    BY <1>13, Listed, SessionUpdates DEF Recover, At, Step, Refuse, Close, IInv
  <2>2. record.sha \in Nat
    BY RecordUpdates DEF IInv
  <2>3. reg[Public].head = record.sha + 1 => reg[Public].head \in Nat
    BY <2>2
  <2>4. \/ record' = record
        \/ record' = [record EXCEPT !.state = "ready"]
        \/ /\ reg[Public].head \in Nat
           /\ record' = [record EXCEPT !.state = "ready", !.sha = reg[Public].head]
    BY <1>13, <2>3 DEF Recover, prove_advanced_commit, prove_one_child, Transition, Refuse
  <2>5. record' \in Records
    BY <2>4, Listed, RecordUpdates DEF IInv, Types
  <2> QED BY <1>13, <2>1, <2>2, <2>3, <2>4, <2>5 DEF Recover, At, Ghosts, Touch, Unharmed,
    Refuse, Close, IInv, Types
<1>14. CASE Retire
  BY ZenonT(60), <1>14, Listed, SessionUpdates, RecordUpdates DEF Retire, At, Step, Close, Refuse,
    Transition, Unharmed, Ghosts, IInv, Types
<1>15. CASE MoveAside
  <2>1. record.nonce \in Nonces /\ Quarantine \in Leaves /\ Public \in Leaves
    BY <1>15, Names, Named DEF MoveAside, At, StepFits, RecordFits, IInv
  <2>2. session' \in Sessions
    BY <1>15, Listed, SessionUpdates DEF MoveAside, At, Step, Refuse, Close, IInv
  <2>3. Absent \in Nonces \cup {Absent, Foreign} /\ at[Public] \in Nonces \cup {Absent, Foreign}
    BY <2>1, Placing DEF IInv, Types
  <2>4. at' \in Targets
    BY SMTT(30), <1>15, <2>1, <2>3, Placing DEF MoveAside, Move, Refuse, IInv, Types
  <2>5. reg[Public] \in Entries
    BY <2>1, Placing DEF IInv, Types
  <2>6. reg' \in Registrations
    BY <1>15, <2>1, <2>5, Placing DEF MoveAside, Refuse, IInv, Types
  <2> QED BY <1>15, <2>1, <2>2, <2>3, <2>4, <2>5, <2>6 DEF MoveAside, At, Ghosts, Touch,
    Unharmed, Refuse, Close, IInv, Types
<1>16. CASE LocateAside
  BY <1>16, Listed, SessionUpdates, RecordUpdates DEF LocateAside, At, Step, Close, Refuse,
    Transition, Unharmed, Ghosts, IInv, Types
<1>17. CASE Delete
  <2>1. record.nonce \in Nonces /\ Quarantine \in Leaves /\ Public \in Leaves
    BY <1>17, Names, Named DEF Delete, At, StepFits, RecordFits, IInv
  <2>2. session' \in Sessions
    BY <1>17, Listed, SessionUpdates DEF Delete, At, Step, Refuse, Close, IInv
  <2>3. Absent \in Nonces \cup {Absent, Foreign} /\ at[Public] \in Nonces \cup {Absent, Foreign}
    BY <2>1, Placing DEF IInv, Types
  <2>4. at' \in Targets
    BY <1>17, <2>1, <2>3, Placing DEF Delete, Move, Refuse, IInv, Types
  <2>5. reg[Public] \in Entries
    BY <2>1, Placing DEF IInv, Types
  <2>6. reg' \in Registrations
    BY <1>17, <2>1, <2>5, Placing DEF Delete, Refuse, IInv, Types
  <2> QED BY <1>17, <2>1, <2>2, <2>3, <2>4, <2>5, <2>6 DEF Delete, At, Ghosts, Touch, Unharmed,
    Refuse, Close, IInv, Types
<1>18. CASE Bury
  BY <1>18, Listed, SessionUpdates, RecordUpdates DEF Bury, At, Step, Close, Transition,
    Unharmed, Ghosts, IInv, Types
<1>19. CASE Remove
  BY <1>19, Listed, SessionUpdates, RecordUpdates DEF Remove, Unharmed, Ghosts, IInv, Types
<1>20. CASE CloseHandle
  BY <1>20, Listed, SessionUpdates, RecordUpdates DEF CloseHandle, Close, Unharmed, Ghosts,
    IInv, Types
<1>21. CASE ProveForUse
  BY <1>21, Listed, SessionUpdates, RecordUpdates DEF ProveForUse, Close, Refuse, Ghosts, IInv,
    Types
<1>22. CASE BeginAdvance
  BY <1>22, Listed, SessionUpdates, RecordUpdates DEF BeginAdvance, Transition, Unharmed,
    Ghosts, IInv, Types
<1>23. CASE Commit
  <2>1. record.sha \in Nat
    BY RecordUpdates DEF IInv
  <2>2. Registered(record.sha + 1) \in Entries
    BY <2>1, Placing
  <2>3. reg' \in Registrations
    BY <1>23, <2>2, Placing, Names DEF Commit, IInv, Types
  <2> QED BY <1>23, <2>1, <2>2, <2>3 DEF Commit, At, Ghosts, Touch, Unharmed, Refuse, Close,
    IInv, Types
<1>24. CASE CompleteAdvance
  <2>1. session' \in Sessions
    BY <1>24, Listed, SessionUpdates DEF Types, CompleteAdvance, At, Step, Refuse, Close, IInv
  <2>2. record.sha \in Nat
    BY RecordUpdates DEF IInv
  <2>3. reg[Public].head = record.sha + 1 => reg[Public].head \in Nat
    BY <2>2
  <2>4. \/ record' = record
        \/ record' = [record EXCEPT !.state = "ready"]
        \/ /\ reg[Public].head \in Nat
           /\ record' = [record EXCEPT !.state = "ready", !.sha = reg[Public].head]
    BY <1>24, <2>3 DEF CompleteAdvance, prove_advanced_commit, prove_one_child, Transition,
      Refuse
  <2>5. record' \in Records
    BY <2>4, Listed, RecordUpdates DEF IInv, Types
  <2> QED BY <1>24, <2>1, <2>2, <2>3, <2>4, <2>5 DEF CompleteAdvance, At, Ghosts, Touch,
    Unharmed, Refuse, Close, IInv, Types
<1>25. CASE Write
  BY <1>25, Listed, SessionUpdates, RecordUpdates DEF Write, Ghosts, IInv, Types
<1>26. CASE Drift
  <2>1. PICK sha \in Commits : reg' = [reg EXCEPT ![Public].head = sha]
    BY <1>26 DEF Drift
  <2>2. sha \in Int
    BY WorktreeAssumption DEF Commits
  <2>3. reg' \in Registrations
    BY <2>1, <2>2, Placing, Names DEF IInv, Types
  <2> QED BY <1>26, <2>1, <2>2, <2>3 DEF Drift, At, Ghosts, Touch, Unharmed, Refuse, Close,
    IInv, Types
<1>27. CASE Probing
  BY <1>27, Listed, SessionUpdates, RecordUpdates DEF Probing, ProbeBegin, Probe, ProbeAgain,
    ProbeSeen, Lookups, IInv, Types
<1>28. CASE Die
  <2>1. deaths' = deaths + 1 /\ session' \in Sessions
    BY <1>28, SessionUpdates DEF Die, Close, IInv
  <2> QED BY <1>28, <2>1 DEF Die, At, Ghosts, Touch, Unharmed, Refuse, Close, IInv, Types
<1>29. CASE Squat
  BY <1>29, Listed, SessionUpdates, RecordUpdates, Placing, Names, Named, WorktreeAssumption
    DEF Squat, Touch, IInv, Types
<1>30. CASE Displace
  <2>1. PICK other \in {Absent, Foreign} : at' = [at EXCEPT ![Public] = other]
    BY <1>30 DEF Displace
  <2>2. at' \in Targets
    BY <2>1, Placing, Names DEF IInv, Types
  <2> QED BY <1>30, <2>1, <2>2 DEF Displace, At, Ghosts, Touch, Unharmed, Refuse, Close, IInv,
    Types
<1>31. CASE Replace
  BY <1>31, Listed, SessionUpdates, RecordUpdates, Placing, Names, Named, WorktreeAssumption
    DEF Replace, Touch, IInv, Types
<1>32. CASE MoveHead
  <2>1. reg' \in Registrations
    BY <1>32, Placing, Names, WorktreeAssumption DEF MoveHead, Commits, IInv, Types
  <2> QED BY <1>32, <2>1 DEF MoveHead, At, Ghosts, Touch, Unharmed, Refuse, Close, IInv, Types
<1>33. CASE LateWrite
  BY <1>33, Listed, SessionUpdates, RecordUpdates DEF LateWrite, Touch, IInv, Types
<1> QED BY <1>1, <1>2, <1>3, <1>4, <1>5, <1>6, <1>7, <1>8, <1>9, <1>10, <1>11, <1>12, <1>13,
  <1>14, <1>15, <1>16, <1>17, <1>18, <1>19, <1>20, <1>21, <1>22, <1>23, <1>24, <1>25, <1>26,
  <1>27, <1>28, <1>29, <1>30, <1>31, <1>32, <1>33 DEF Next, SessionStep, HolderStep, Intrude

(* Every step keeps the record one that parses. *)
LEMMA RecordFitsKept ==
  ASSUME IInv, Next
  PROVE  RecordFits'
<1>1. CASE Calls \/ Vacant
  BY <1>1 DEF Calls, Vacant, Open, At, Close, Refuse, Unharmed, Ghosts, IInv, Types, Records,
    Unplaced, StepFits, RecordFits, RecordParses, NoRecord
<1>2. CASE FreshCreate
  <2>1. FreshNonce \in Nonces
    BY <1>2, FreshNonceExists DEF FreshCreate, At, FreshNonces, IInv, StepFits
  <2> QED BY <1>2, <2>1 DEF FreshCreate, Transition, Refuse, IInv, RecordFits, RecordParses,
    NoRecord
<1>3. CASE FinishPreclaim \/ AbandonPreclaim \/ Claim \/ PublishClaim
  BY <1>3 DEF FinishPreclaim, AbandonPreclaim, Claim, PublishClaim, At, Step, Close, Refuse,
    Transition, Move, Unharmed, Ghosts, IInv, Types, Records, Unplaced, StepFits, RecordFits,
    RecordParses, NoRecord
<1>4. CASE LocateClaim \/ Populate \/ Settle \/ Bind
  BY <1>4 DEF LocateClaim, Populate, Settle, Bind, At, Step, Close, Refuse, Transition,
    Unharmed, Ghosts, IInv, Types, Records, Unplaced, StepFits, RecordFits, RecordParses,
    NoRecord
<1>5. CASE Reconcile
  BY <1>5 DEF Reconcile, ClaimMoved, ClaimPublic, At, Step, Close, Refuse, Transition,
    Unharmed, Ghosts, IInv, Types, Records, Unplaced, StepFits, RecordFits, RecordParses,
    NoRecord
<1>6. CASE Recover
  BY <1>6 DEF Recover, At, Step, Close, Refuse, Transition, Unharmed, Ghosts, IInv, Types,
    Records, Unplaced, StepFits, RecordFits, RecordParses, NoRecord
<1>7. CASE Retire \/ MoveAside
  BY <1>7 DEF Retire, MoveAside, At, Step, Close, Refuse, Transition, Move, Unharmed, Ghosts,
    IInv, Types, Records, Unplaced, StepFits, RecordFits, RecordParses, NoRecord
<1>8. CASE LocateAside \/ Delete \/ Bury \/ Remove
  BY <1>8 DEF LocateAside, Delete, Bury, Remove, Held, At, Step, Close, Refuse, Transition,
    Unharmed, Ghosts, IInv, Types, Records, Unplaced, StepFits, RecordFits, RecordParses,
    NoRecord
<1>9. CASE CloseHandle \/ ProveForUse \/ BeginAdvance \/ Commit
  BY <1>9 DEF CloseHandle, ProveForUse, BeginAdvance, Commit, Held, Close, Refuse, Transition,
    Unharmed, Ghosts, IInv, Types, Records, Unplaced, StepFits, RecordFits, RecordParses,
    NoRecord
<1>10. CASE CompleteAdvance \/ Write \/ Drift \/ Probing
  BY <1>10 DEF CompleteAdvance, Write, Drift, Probing, Held, ProbeBegin, Probe, ProbeAgain,
    Close, Refuse, Transition, Unharmed, Ghosts, IInv, Types, Records, Unplaced, StepFits,
    RecordFits, RecordParses, NoRecord
<1>11. CASE Die \/ Squat \/ Displace \/ Replace
  BY <1>11 DEF Die, Squat, Displace, Replace, Close, Touch, IInv, Types, Records, Unplaced,
    StepFits, RecordFits, RecordParses, NoRecord
<1>12. CASE MoveHead \/ LateWrite
  BY <1>12 DEF MoveHead, LateWrite, Touch, IInv, Types, Records, Unplaced, StepFits,
    RecordFits, RecordParses, NoRecord
<1> QED BY <1>1, <1>2, <1>3, <1>4, <1>5, <1>6, <1>7, <1>8, <1>9, <1>10, <1>11, <1>12 DEF Next,
  SessionStep, HolderStep, Intrude

(* Every step leads to a step that fits. *)
LEMMA StepFitsKept ==
  ASSUME IInv, Next
  PROVE  StepFits'
<1>1. CASE Calls
  BY <1>1, TypesKept DEF Calls, Open, States, Close, Refuse, Ghosts, IInv, Types, Records,
    Sessions, Unplaced, StepFits, RecordFits, NoSession, RecordParses, NoRecord, FirstStep
<1>2. CASE Vacant \/ FreshCreate \/ FinishPreclaim \/ AbandonPreclaim
  BY <1>2 DEF Vacant, FreshCreate, FinishPreclaim, AbandonPreclaim, At, Step, Close, Refuse,
    Transition, Unharmed, Ghosts, IInv, Types, Records, Sessions, Unplaced, StepFits,
    RecordFits, NoSession, RecordParses, NoRecord
<1>3. CASE Claim \/ PublishClaim \/ LocateClaim \/ Populate
  BY <1>3 DEF Claim, PublishClaim, LocateClaim, Populate, ClaimMoved, ClaimPublic, ClaimStaged,
    At, Step, Close, Refuse, Transition, Move, Unharmed, Ghosts, IInv, Types, Records,
    Sessions, Unplaced, StepFits, RecordFits, NoSession, RecordParses, NoRecord
<1>4. CASE Settle \/ Bind \/ Reconcile
  BY <1>4 DEF Settle, Bind, Reconcile, ClaimPublic, At, Step, Close, Refuse, Transition,
    Unharmed, Ghosts, IInv, Types, Records, Sessions, Unplaced, StepFits, RecordFits,
    NoSession, RecordParses, NoRecord
<1>5. CASE Recover
  <2>1. \/ /\ session'.step = "bind" /\ record'.state = "ready"
           /\ record'.nonce = record.nonce /\ record'.location = record.location
        \/ /\ session' = NoSession /\ record' = record /\ at' = at /\ reg' = reg
           /\ filled' = filled
    BY <1>5 DEF Recover, Step, Close, Refuse, Transition, NoSession, IInv, Types, Records,
      Sessions
  <2>2. at' = at /\ reg' = reg
    BY <1>5 DEF Recover, Unharmed, Refuse
  <2> QED BY <1>5, <2>1, <2>2 DEF Recover, At, IInv, NoSession, StepFits
<1>6. CASE Retire \/ MoveAside \/ LocateAside \/ Delete
  BY <1>6 DEF Retire, MoveAside, LocateAside, Delete, At, Step, Close, Refuse, Transition,
    Move, Unharmed, Ghosts, IInv, Types, Records, Sessions, Unplaced, StepFits, RecordFits,
    NoSession, RecordParses, NoRecord
<1>7. CASE Bury
  BY <1>7 DEF Bury, At, Step, Close, Transition, Unharmed, Ghosts, IInv, Types, Records,
    Sessions, Unplaced, StepFits, RecordFits, NoSession, RecordParses, NoRecord
<1>8. CASE Remove
  BY <1>8 DEF Remove, Held, Unharmed, Ghosts, IInv, Types, Records, Sessions, Unplaced,
    StepFits, RecordFits, NoSession, RecordParses, NoRecord
<1>9. CASE CloseHandle \/ ProveForUse
  BY <1>9 DEF CloseHandle, ProveForUse, Held, Close, Refuse, Unharmed, Ghosts, IInv, Types,
    Records, Sessions, Unplaced, StepFits, RecordFits, NoSession, RecordParses, NoRecord
<1>10. CASE BeginAdvance \/ Commit
  BY <1>10 DEF BeginAdvance, Commit, Held, Transition, Unharmed, Ghosts, IInv, Types, Records,
    Sessions, Unplaced, StepFits, RecordFits, NoSession, RecordParses, NoRecord
<1>11. CASE CompleteAdvance
  <2>1. \/ /\ session' = session /\ record'.state = "ready" /\ record'.nonce = record.nonce
           /\ record'.location = record.location
        \/ /\ session' = NoSession /\ record' = record /\ at' = at /\ reg' = reg
           /\ filled' = filled
    BY <1>11 DEF CompleteAdvance, Step, Close, Refuse, Transition, NoSession, IInv, Types,
      Records, Sessions
  <2>2. at' = at /\ reg' = reg
    BY <1>11 DEF CompleteAdvance, Unharmed, Refuse
  <2> QED BY <1>11, <2>1, <2>2 DEF CompleteAdvance, At, Held, IInv, NoSession, StepFits
<1>12. CASE Write \/ Drift \/ Probing \/ Die
  BY <1>12 DEF Write, Drift, Probing, Die, Held, ProbeBegin, Probe, ProbeAgain, Close, Ghosts,
    IInv, Types, Records, Sessions, Unplaced, StepFits, RecordFits, NoSession, RecordParses,
    NoRecord
<1>13. CASE Squat \/ Displace \/ Replace \/ MoveHead
  BY <1>13 DEF Squat, Displace, Replace, MoveHead, Touch, IInv, Types, Records, Sessions,
    Unplaced, StepFits, RecordFits, NoSession, RecordParses, NoRecord
<1>14. CASE LateWrite
  BY <1>14 DEF LateWrite, Touch, IInv, Types, Records, Sessions, Unplaced, StepFits,
    RecordFits, NoSession, RecordParses, NoRecord
<1> QED BY <1>1, <1>2, <1>3, <1>4, <1>5, <1>6, <1>7, <1>8, <1>9, <1>10, <1>11, <1>12, <1>13,
  <1>14 DEF Next, SessionStep, HolderStep, Intrude

(* Every step keeps the calls apart. *)
LEMMA CallFitsKept ==
  ASSUME IInv, Next
  PROVE  CallFits'
<1>1. CASE Calls
  <2>1. PICK op \in {"create", "create_candidate", "acquire_existing"}, sha \in {0, 1} :
          Open(op, sha)
    BY <1>1 DEF Calls
  <2>2. CASE session' = NoSession
    BY <2>1, <2>2 DEF Open, Refuse, Ghosts, NoSession, IInv, CallFits
  <2>3. CASE /\ session' = [op |-> op, step |-> FirstStep(op), sha |-> sha]
             /\ ~Misuse(op, sha) /\ UNCHANGED << record, purpose >>
    <3>1. /\ purpose = "view" => op = "create"
          /\ purpose = "candidate" => op # "create"
      BY <2>1 DEF Open
    <3>2. /\ FirstStep(op) = "retire" => record.state = "ready" /\ op # "acquire_existing"
          /\ FirstStep(op) \in {"bind", "reconcile", "recover"} =>
               op = "acquire_existing" \/ record.state = "advancing"
      BY DEF FirstStep, IInv, Types, Records, States, Unplaced
    <3>3. record.state = "ready" => op # "create_candidate"
      BY <2>3 DEF Misuse
    <3>4. record.state = "advancing" => op = "acquire_existing"
      BY <2>1, <2>3 DEF Open, Misuse, IInv, CallFits, Types
    <3>5. op = "create" /\ record.state \notin Unplaced => record.sha = sha
      BY <2>3 DEF Misuse, Live, Unplaced
    <3> QED BY <2>1, <2>3, <3>1, <3>2, <3>3, <3>4, <3>5 DEF IInv, CallFits, Types
  <2> QED BY <2>1, <2>2, <2>3 DEF Open, Refuse, Close, Ghosts
<1>2. CASE Vacant
  BY <1>2 DEF Vacant, At, Close, Refuse, Unharmed, Ghosts, IInv, Types, Records, Sessions,
    Unplaced, CallFits, StepFits, NoSession
<1>3. CASE FreshCreate \/ FinishPreclaim
  BY <1>3 DEF FreshCreate, FinishPreclaim, At, Step, Close, Refuse, Transition, Unharmed,
    Ghosts, IInv, Types, Records, Sessions, Unplaced, CallFits, StepFits, NoSession
<1>4. CASE AbandonPreclaim \/ Claim \/ PublishClaim \/ LocateClaim
  BY <1>4 DEF AbandonPreclaim, Claim, PublishClaim, LocateClaim, At, Step, Close, Refuse,
    Transition, Move, Unharmed, Ghosts, IInv, Types, Records, Sessions, Unplaced, CallFits,
    StepFits, NoSession
<1>5. CASE Populate \/ Settle \/ Bind \/ Reconcile
  BY <1>5 DEF Populate, Settle, Bind, Reconcile, At, Step, Close, Refuse, Transition, Unharmed,
    Ghosts, IInv, Types, Records, Sessions, Unplaced, CallFits, StepFits, NoSession
<1>6. CASE Recover \/ Retire \/ MoveAside \/ LocateAside
  BY <1>6 DEF Recover, Retire, MoveAside, LocateAside, At, Step, Close, Refuse, Transition,
    Move, Unharmed, Ghosts, IInv, Types, Records, Sessions, Unplaced, CallFits, StepFits,
    NoSession
<1>7. CASE Delete
  BY <1>7 DEF Delete, At, Step, Unharmed, Ghosts, IInv, Types, Records, Sessions, Unplaced,
    CallFits, StepFits, NoSession
<1>8. CASE Bury
  BY <1>8 DEF Bury, At, Step, Close, Transition, Unharmed, Ghosts, IInv, Types, Records,
    Sessions, Unplaced, CallFits, StepFits, NoSession
<1>9. CASE Remove
  BY <1>9 DEF Remove, Held, Unharmed, Ghosts, IInv, Types, Records, Sessions, Unplaced,
    CallFits, StepFits, NoSession
<1>10. CASE CloseHandle
  BY <1>10 DEF CloseHandle, Held, Close, Unharmed, Ghosts, IInv, Types, Records, Sessions,
    Unplaced, CallFits, StepFits, NoSession
<1>11. CASE ProveForUse \/ BeginAdvance \/ Commit \/ CompleteAdvance
  BY <1>11 DEF ProveForUse, BeginAdvance, Commit, CompleteAdvance, Held, Close, Refuse,
    Transition, Unharmed, Ghosts, IInv, Types, Records, Sessions, Unplaced, CallFits, StepFits,
    NoSession
<1>12. CASE Write \/ Drift \/ Probing \/ Die
  BY <1>12 DEF Write, Drift, Probing, Die, Held, ProbeBegin, Probe, ProbeAgain, Close, Ghosts,
    IInv, Types, Records, Sessions, Unplaced, CallFits, StepFits, NoSession, NoRecord
<1>13. CASE Squat \/ Displace \/ Replace \/ MoveHead
  BY <1>13 DEF Squat, Displace, Replace, MoveHead, Touch, IInv, Types, Records, Sessions,
    Unplaced, CallFits, StepFits, NoSession
<1>14. CASE LateWrite
  BY <1>14 DEF LateWrite, Touch, IInv, Types, Records, Sessions, Unplaced, CallFits, StepFits,
    NoSession
<1> QED BY <1>1, <1>2, <1>3, <1>4, <1>5, <1>6, <1>7, <1>8, <1>9, <1>10, <1>11, <1>12, <1>13,
  <1>14 DEF Next, SessionStep, HolderStep, Intrude

(* Every step keeps the names in order. *)
LEMMA PlacedKept ==
  ASSUME IInv, Next
  PROVE  Placed'
<1>1. CASE Calls
  BY <1>1, Names, Named, TypesKept DEF Calls, Open, Misuse, Live, FirstStep, RecordParses,
    Close, Refuse, Ghosts, IInv, Types, Targets, Registrations, NoSession, Unplaced, StepFits,
    RecordFits, Placed, Absent, Foreign
<1>2. CASE Vacant
  BY <1>2, Names, Named DEF Vacant, prove_no_public_target, At, Close, Refuse, Unharmed,
    Ghosts, IInv, Types, Targets, Registrations, NoSession, Unplaced, StepFits, RecordFits,
    RecordParses, Placed, Absent, Foreign
<1>3. CASE FreshCreate
  <2>1. \/ /\ session'.step = "preclaim" /\ record'.state = "preclaim"
           /\ record'.nonce = FreshNonce /\ record'.location = "staging"
        \/ /\ session' = NoSession /\ record' = record /\ at' = at /\ reg' = reg
           /\ filled' = filled
    BY <1>3 DEF FreshCreate, Step, Close, Refuse, Transition, NoSession, IInv, Types, Records,
      Sessions
  <2>2. at' = at /\ reg' = reg
    BY <1>3 DEF FreshCreate, Unharmed, Refuse
  <2>3. CASE session' = NoSession
    BY <1>3, <2>1, <2>2, <2>3 DEF FreshCreate, At, IInv, Types, Targets, NoSession, Unplaced,
      StepFits, RecordFits, RecordParses, Placed, Absent, Foreign
  <2>4. CASE record'.nonce = FreshNonce
    <3>1. record.state \in Unplaced /\ FreshNonce \in FreshNonces
      BY <1>3, FreshNonceExists DEF FreshCreate, At, IInv, StepFits
    <3>2. at[Public] = Absent \/ session' = NoSession
      BY <1>3 DEF FreshCreate, Refuse, Close, prove_no_public_target
    <3>3. \A n \in Nonces : at[QuarantineOf(n)] = Absent /\ reg[QuarantineOf(n)] = Unregistered
      BY <3>1 DEF IInv, Placed, Unplaced
    <3> QED BY <2>1, <2>2, <2>3, <3>2, <3>3 DEF IInv, Placed, NoSession
  <2> QED BY <2>1, <2>3, <2>4
<1>4. CASE FinishPreclaim
  <2>1. \/ /\ session'.step = "claim" /\ record'.state = record.state
           /\ record'.nonce = record.nonce /\ record'.location = record.location
           /\ at' = [at EXCEPT ![Staging] = record.nonce]
        \/ /\ session'.step = "fresh" /\ record'.state = "abandoned"
           /\ record'.nonce = record.nonce /\ record'.location = record.location
           /\ at' = at
        \/ /\ session' = NoSession /\ record' = record /\ at' = at /\ reg' = reg
           /\ filled' = filled
    BY <1>4 DEF FinishPreclaim, Step, Close, Refuse, Transition, NoSession, IInv, Types,
      Records, Sessions
  <2>2. reg' = reg
    BY <1>4 DEF FinishPreclaim, Unharmed, Refuse
  <2> QED BY <1>4, <2>1, <2>2, Names, Named DEF FinishPreclaim, At, PreclaimClear,
    prove_no_public_target, IInv, Types, Targets, NoSession, Unplaced, StepFits, RecordFits,
    RecordParses, Placed, Absent, Foreign
<1>5. CASE AbandonPreclaim
  <2>1. \/ /\ session' = NoSession /\ record'.state = "abandoned"
           /\ record'.nonce = record.nonce /\ record'.location = record.location
        \/ /\ session' = NoSession /\ record' = record /\ at' = at /\ reg' = reg
           /\ filled' = filled
    BY <1>5 DEF AbandonPreclaim, Step, Close, Refuse, Transition, NoSession, IInv, Types,
      Records, Sessions
  <2>2. at' = at /\ reg' = reg
    BY <1>5 DEF AbandonPreclaim, Unharmed, Refuse
  <2> QED BY <1>5, <2>1, <2>2, Names, Named DEF AbandonPreclaim, At, IInv, Types, Targets,
    NoSession, Unplaced, StepFits, RecordFits, RecordParses, Placed, Absent, Foreign
<1>6. CASE Claim
  <2>1. \/ /\ session'.step = "publish" /\ record'.state = "claimed"
           /\ record'.nonce = record.nonce /\ record'.location = record.location
           /\ at[Staging] = record.nonce
        \/ /\ session' = NoSession /\ record' = record /\ at' = at /\ reg' = reg
           /\ filled' = filled
    BY <1>6 DEF Claim, Step, Close, Refuse, Transition, NoSession, IInv, Types, Records,
      Sessions, prove_owned_at
  <2>2. at' = at /\ reg' = reg
    BY <1>6 DEF Claim, Unharmed, Refuse
  <2> QED BY <1>6, <2>1, <2>2, Names, Named DEF Claim, At, IInv, Types, Targets, NoSession,
    Unplaced, StepFits, RecordFits, RecordParses, Placed, Absent, Foreign
<1>7. CASE PublishClaim
  BY <1>7, Names, Named DEF PublishClaim, ClaimStaged, ClaimMoved, ClaimPublic, prove_owned_at,
    StagedClear, Unclaimed, At, Step, Close, Refuse, Move, Unharmed, Ghosts, IInv, Types,
    Targets, Registrations, NoSession, Unplaced, StepFits, RecordFits, RecordParses, Placed,
    Absent, Foreign
<1>8. CASE LocateClaim
  BY <1>8, Names, Named DEF LocateClaim, At, Step, Transition, Unharmed, Ghosts, IInv, Types,
    Targets, Registrations, NoSession, Unplaced, StepFits, RecordFits, RecordParses, Placed,
    Absent, Foreign
<1>9. CASE Populate
  BY <1>9, Names, Named DEF Populate, At, Step, Close, Refuse, Unharmed, Ghosts, IInv, Types,
    Targets, Registrations, NoSession, Unplaced, StepFits, RecordFits, RecordParses, Placed,
    Absent, Foreign
<1>10. CASE Settle
  BY <1>10, Names, Named DEF Settle, At, Step, Transition, Unharmed, Ghosts, IInv, Types,
    Targets, Registrations, NoSession, Unplaced, StepFits, RecordFits, RecordParses, Placed,
    Absent, Foreign
<1>11. CASE Bind
  BY <1>11, Names, Named DEF Bind, At, Step, Close, Refuse, Unharmed, Ghosts, IInv, Types,
    Targets, Registrations, NoSession, Unplaced, StepFits, RecordFits, RecordParses, Placed,
    Absent, Foreign
<1>12. CASE Reconcile
  <2>1. \/ /\ session' = NoSession /\ record'.state = record.state
           /\ record'.nonce = record.nonce /\ record'.location = record.location
           /\ record' = record
        \/ /\ session' = session /\ record'.state = record.state
           /\ record'.nonce = record.nonce /\ record'.location = "public" /\ ClaimMoved
        \/ /\ session'.step = "bind" /\ record'.state = "ready"
           /\ record'.nonce = record.nonce /\ record'.location = record.location
           /\ record.location = "public"
        \/ /\ session' = NoSession /\ record' = record /\ at' = at /\ reg' = reg
           /\ filled' = filled
    BY <1>12 DEF Reconcile, Step, Close, Refuse, Transition, NoSession, IInv, Types, Records,
      Sessions, ClaimPublic
  <2>2. at' = at /\ reg' = reg
    BY <1>12 DEF Reconcile, Unharmed, Refuse
  <2> QED BY <1>12, <2>1, <2>2, Names, Named DEF Reconcile, At, ClaimMoved, prove_owned_at,
    IInv, Types, Targets, NoSession, Unplaced, StepFits, RecordFits, RecordParses, Placed,
    Absent, Foreign
<1>13. CASE Recover
  <2>1. \/ /\ session'.step = "bind" /\ record'.state = "ready"
           /\ record'.nonce = record.nonce /\ record'.location = record.location
        \/ /\ session' = NoSession /\ record' = record /\ at' = at /\ reg' = reg
           /\ filled' = filled
    BY <1>13 DEF Recover, Step, Close, Refuse, Transition, NoSession, IInv, Types, Records,
      Sessions
  <2>2. at' = at /\ reg' = reg
    BY <1>13 DEF Recover, Unharmed, Refuse
  <2> QED BY <1>13, <2>1, <2>2, Names, Named DEF Recover, At, IInv, Types, Targets, NoSession,
    Unplaced, StepFits, RecordFits, RecordParses, Placed, Absent, Foreign
<1>14. CASE Retire
  <2>1. \/ /\ session'.step = "quarantine" /\ record'.state = "removing"
           /\ record'.nonce = record.nonce /\ record'.location = record.location
        \/ /\ session' = NoSession /\ record' = record /\ at' = at /\ reg' = reg
           /\ filled' = filled
    BY <1>14 DEF Retire, Step, Close, Refuse, Transition, NoSession, IInv, Types, Records,
      Sessions
  <2>2. at' = at /\ reg' = reg
    BY <1>14 DEF Retire, Unharmed, Refuse
  <2> QED BY <1>14, <2>1, <2>2, Names, Named DEF Retire, At, IInv, Types, Targets, NoSession,
    Unplaced, StepFits, RecordFits, RecordParses, Placed, Absent, Foreign
<1>15. CASE MoveAside
  <2>1. CASE NotQuarantined /\ at' = [at EXCEPT ![Quarantine] = at[Public], ![Public] = Absent]
    <3>1. /\ at'[Public] = Absent /\ at'[QuarantineOf(record.nonce)] = record.nonce
          /\ \A leaf \in Leaves \ {Public, QuarantineOf(record.nonce)} : at'[leaf] = at[leaf]
          /\ \A leaf \in Leaves \ {Public, QuarantineOf(record.nonce)} : reg'[leaf] = reg[leaf]
          /\ record' = record /\ record.nonce \in Nonces /\ record.state = "removing"
          /\ session'.step = "located_aside"
      BY <1>15, <2>1, Names, Named DEF MoveAside, NotQuarantined, Quarantined,
        prove_discardable_at, prove_owned_at, At, Step, Refuse, Unharmed, IInv, Types, Targets,
        Registrations, Sessions, RecordFits, StepFits
    <3> QED BY ZenonT(60), <3>1, Names DEF IInv, Placed
  <2>2. CASE UNCHANGED << record, at, reg >> /\ session'.step \notin {"locate", "bury"}
    BY <2>2 DEF IInv, Placed
  <2> QED BY <1>15, <2>1, <2>2 DEF MoveAside, Move, Unharmed, Refuse, Close, NoSession, Step,
    IInv, Types, Sessions
<1>16. CASE LocateAside
  <2>1. \/ /\ session'.step = "delete" /\ record'.state = record.state
           /\ record'.nonce = record.nonce /\ record'.location = "quarantine"
        \/ /\ session' = NoSession /\ record' = record /\ at' = at /\ reg' = reg
           /\ filled' = filled
    BY <1>16 DEF LocateAside, Step, Close, Refuse, Transition, NoSession, IInv, Types, Records,
      Sessions
  <2>2. at' = at /\ reg' = reg
    BY <1>16 DEF LocateAside, Unharmed, Refuse
  <2> QED BY <1>16, <2>1, <2>2, Names, Named DEF LocateAside, At, IInv, Types, Targets,
    NoSession, Unplaced, StepFits, RecordFits, RecordParses, Placed, Absent, Foreign
<1>17. CASE Delete
  BY <1>17, Names, Named DEF Delete, Deleted, prove_discardable_at, prove_owned_at,
    registration_is_discardable, At, Step, Unharmed, Ghosts, IInv, Types, Targets,
    Registrations, NoSession, Unplaced, StepFits, RecordFits, RecordParses, Placed, Absent,
    Foreign
<1>18. CASE Bury
  BY <1>18, Names, Named DEF Bury, At, Step, Close, Transition, Unharmed, Ghosts, IInv, Types,
    Targets, Registrations, NoSession, Unplaced, StepFits, RecordFits, RecordParses, Placed,
    Absent, Foreign
<1>19. CASE Remove \/ CloseHandle
  BY <1>19, Names, Named DEF Remove, CloseHandle, Held, Close, Unharmed, Ghosts, IInv, Types,
    Targets, Registrations, NoSession, Unplaced, StepFits, RecordFits, RecordParses, Placed,
    Absent, Foreign
<1>20. CASE ProveForUse
  BY <1>20, Names, Named DEF ProveForUse, Held, Close, Refuse, Ghosts, IInv, Types, Targets,
    Registrations, NoSession, Unplaced, StepFits, RecordFits, RecordParses, Placed, Absent,
    Foreign
<1>21. CASE BeginAdvance
  BY <1>21, Names, Named DEF BeginAdvance, Held, Transition, Unharmed, Ghosts, IInv, Types,
    Targets, Registrations, NoSession, Unplaced, StepFits, RecordFits, RecordParses, Placed,
    Absent, Foreign
<1>22. CASE Commit
  BY <1>22, Names, Named DEF Commit, Held, Ghosts, IInv, Types, Targets, Registrations,
    NoSession, Unplaced, StepFits, RecordFits, RecordParses, Placed, Absent, Foreign
<1>23. CASE CompleteAdvance
  <2>1. \/ /\ session' = session /\ record'.state = "ready" /\ record'.nonce = record.nonce
           /\ record'.location = record.location
        \/ /\ session' = NoSession /\ record' = record /\ at' = at /\ reg' = reg
           /\ filled' = filled
    BY <1>23 DEF CompleteAdvance, Step, Close, Refuse, Transition, NoSession, IInv, Types,
      Records, Sessions
  <2>2. at' = at /\ reg' = reg
    BY <1>23 DEF CompleteAdvance, Unharmed, Refuse
  <2> QED BY <1>23, <2>1, <2>2, Names, Named DEF CompleteAdvance, At, Held, IInv, Types,
    Targets, NoSession, Unplaced, StepFits, RecordFits, RecordParses, Placed, Absent, Foreign
<1>24. CASE Write \/ Drift \/ Probing \/ Die
  BY <1>24, Names, Named DEF Write, Drift, Probing, Die, Held, ProbeBegin, Probe, ProbeAgain,
    ProbeSeen, Close, Ghosts, IInv, Types, Targets, Registrations, NoSession, Unplaced,
    StepFits, RecordFits, RecordParses, Placed, Absent, Foreign
<1>25. CASE Squat \/ Displace \/ Replace \/ MoveHead
  BY <1>25, Names, Named DEF Squat, Displace, Replace, MoveHead, Commits, Touch, IInv, Types,
    Targets, Registrations, NoSession, Unplaced, StepFits, RecordFits, RecordParses, Placed,
    Absent, Foreign
<1>26. CASE LateWrite
  BY <1>26, Names, Named DEF LateWrite, Touch, IInv, Types, Targets, Registrations, NoSession,
    Unplaced, StepFits, RecordFits, RecordParses, Placed, Absent, Foreign
<1> QED BY <1>1, <1>2, <1>3, <1>4, <1>5, <1>6, <1>7, <1>8, <1>9, <1>10, <1>11, <1>12, <1>13,
  <1>14, <1>15, <1>16, <1>17, <1>18, <1>19, <1>20, <1>21, <1>22, <1>23, <1>24, <1>25, <1>26 DEF
  Next, SessionStep, HolderStep, Intrude

(* A step that leaves the staging names alone leaves their number alone.   *)
LEMMA StagingStays ==
  ASSUME IInv, \A n \in Nonces : at'[StagingOf(n)] = at[StagingOf(n)],
         record'.nonce = record.nonce, touched' \in {TRUE, touched},
         record'.state \in Early /\ session'.step # "claim" =>
           record.state \in Early /\ session.step # "claim"
  PROVE  StagingBounded'
<1>1. Staged' = Staged
  BY DEF Staged
<1> QED BY <1>1 DEF IInv, StagingBounded

(* Every step keeps the staging directories few. *)
LEMMA StagingBoundedKept ==
  ASSUME IInv, Next
  PROVE  StagingBounded'
<1>1. CASE Calls
  <2>1. /\ \A n \in Nonces : at'[StagingOf(n)] = at[StagingOf(n)]
        /\ record'.nonce = record.nonce /\ touched' \in {TRUE, touched}
        /\ record'.state \in Early /\ session'.step # "claim" =>
             record.state \in Early /\ session.step # "claim"
    BY <1>1 DEF Calls, Open, Close, Refuse, Ghosts, IInv, StepFits, NoSession, Early, Unplaced,
      Types, Records, Sessions
  <2> QED BY <2>1, StagingStays
<1>2. CASE Vacant
  <2>1. /\ \A n \in Nonces : at'[StagingOf(n)] = at[StagingOf(n)]
        /\ record'.nonce = record.nonce /\ touched' \in {TRUE, touched}
        /\ record'.state \in Early /\ session'.step # "claim" =>
             record.state \in Early /\ session.step # "claim"
    BY <1>2 DEF Vacant, At, Close, Refuse, Unharmed, Ghosts, IInv, StepFits, NoSession, Early,
      Unplaced, Types, Records, Sessions
  <2> QED BY <2>1, StagingStays
<1>3. CASE FreshCreate
  <2>1. \/ UNCHANGED << record, at >> /\ session' = NoSession
        \/ /\ at' = at /\ record'.nonce = FreshNonce /\ record'.state = "preclaim"
           /\ session'.step = "preclaim"
    BY <1>3 DEF FreshCreate, Unharmed, Transition, Step, Refuse, Close, IInv, Types, Sessions
  <2>2. record.state \in Unplaced /\ session.step = "fresh" /\ touched' = touched
    BY <1>3 DEF FreshCreate, At, Ghosts, IInv, StepFits
  <2>3. Staged' = Staged
    BY <2>1 DEF Staged
  <2>4. Cardinality(Staged) <= MaxAbandoned
    <3>1. CASE record.state = "abandoned"
      BY <2>2, <3>1 DEF IInv, StagingBounded, Early
    <3>2. CASE record.state # "abandoned"
      <4>1. record.location = "absent"
        BY <2>2, <3>2 DEF IInv, RecordFits, RecordParses, NoRecord, Unplaced
      <4>2. record.nonce \notin Staged
        BY <4>1, Names DEF IInv, Placed, Staged, Absent
      <4>3. Staged \ {record.nonce} = Staged
        BY <4>2
      <4> QED BY <4>3 DEF IInv, StagingBounded
    <3> QED BY <3>1, <3>2
  <2>5. CASE record' = record
    BY <2>1, <2>2, <2>3, <2>4, <2>5 DEF IInv, StagingBounded
  <2>6. CASE record'.nonce = FreshNonce
    <3>1. FreshNonce \in FreshNonces
      BY <2>2, FreshNonceExists
    <3>2. FreshNonce \notin Staged
      BY <3>1, Names DEF FreshNonces, Staged
    <3>3. Staged \ {FreshNonce} = Staged
      BY <3>2
    <3> QED BY <2>1, <2>2, <2>3, <2>4, <2>6, <3>3 DEF IInv, StagingBounded
  <2> QED BY <2>1, <2>5, <2>6
<1>4. CASE FinishPreclaim
  <2>1. \/ /\ at' = [at EXCEPT ![StagingOf(record.nonce)] = record.nonce]
           /\ at[StagingOf(record.nonce)] = Absent
           /\ session'.step = "claim" /\ record' = record
        \/ at' = at /\ record'.nonce = record.nonce
    BY <1>4, Named DEF FinishPreclaim, Transition, Step, Refuse, Close, IInv, Types, Sessions,
      Records
  <2>2. /\ record.state = "preclaim" /\ record.nonce \in Nonces /\ touched' = touched
        /\ session.step = "preclaim"
    BY <1>4 DEF FinishPreclaim, At, Ghosts, IInv, StepFits, RecordFits
  <2>3. CASE at' = at /\ record'.nonce = record.nonce
    BY <2>2, <2>3, StagingStays DEF Early
  <2>4. CASE at' # at
    <3>1. /\ \A n \in Nonces \ {record.nonce} : at'[StagingOf(n)] = at[StagingOf(n)]
          /\ at'[StagingOf(record.nonce)] = record.nonce
      BY <2>1, <2>2, <2>4, Names DEF IInv, Types, Targets
    <3>2. Staged' \ {record.nonce} = Staged \ {record.nonce}
      BY <3>1 DEF Staged
    <3> QED BY <2>1, <2>2, <2>4, <3>1, <3>2, Names DEF IInv, StagingBounded, Foreign
  <2> QED BY <2>1, <2>3, <2>4
<1>5. CASE AbandonPreclaim
  <2>1. \/ /\ session' = NoSession /\ record'.state = "abandoned"
           /\ record'.nonce = record.nonce /\ record'.location = record.location
        \/ /\ session' = NoSession /\ record' = record /\ at' = at /\ reg' = reg
           /\ filled' = filled
    BY <1>5 DEF AbandonPreclaim, Step, Close, Refuse, Transition, NoSession, IInv, Types,
      Records, Sessions
  <2>2. at' = at /\ reg' = reg /\ touched' = touched
    BY <1>5 DEF AbandonPreclaim, Unharmed, Refuse, At, Ghosts
  <2>3. /\ \A n \in Nonces : at'[StagingOf(n)] = at[StagingOf(n)]
        /\ record'.nonce = record.nonce /\ touched' \in {TRUE, touched}
        /\ record'.state \in Early /\ session'.step # "claim" =>
             record.state \in Early /\ session.step # "claim"
    BY <1>5, <2>1, <2>2 DEF AbandonPreclaim, At, StepFits, IInv, Early, NoSession, Unplaced
  <2> QED BY <2>3, StagingStays
<1>6. CASE Claim
  <2>1. /\ at' = at /\ record'.nonce = record.nonce /\ touched' = touched
        /\ session.step = "claim" /\ record.state = "preclaim"
        /\ \/ record'.state = "claimed"
           \/ record' = record /\ at[StagingOf(record.nonce)] # record.nonce
    <3>1. record \in Records /\ record.nonce \in Nonces
      BY <1>6 DEF Claim, At, IInv, Types, StepFits, RecordFits
    <3>2. /\ at' = at /\ touched' = touched
          /\ session.step = "claim" /\ record.state = "preclaim"
      BY <1>6 DEF Claim, At, Ghosts, Unharmed, Refuse, IInv, StepFits
    <3>3. \/ record' = [record EXCEPT !.state = "claimed"]
          \/ record' = record /\ at[StagingOf(record.nonce)] # record.nonce
      BY <1>6, <3>1, Names, Named DEF Claim, Transition, Refuse, prove_owned_at
    <3> QED BY <3>1, <3>2, <3>3 DEF Records
  <2>2. CASE record'.state = "claimed"
    BY <2>1, <2>2, StagingStays DEF Early
  <2>3. CASE at[StagingOf(record.nonce)] # record.nonce
    <3>1. Staged' = Staged /\ Staged \ {record.nonce} = Staged
      BY <2>1, <2>3 DEF Staged
    <3> QED BY <2>1, <3>1 DEF IInv, StagingBounded
  <2> QED BY <2>1, <2>2, <2>3
<1>7. CASE PublishClaim
  <2>1. /\ record' = record /\ touched' = touched /\ record.state = "claimed"
        /\ record.nonce \in Nonces
        /\ \/ at' = at
           \/ at' = [at EXCEPT ![Public] = at[StagingOf(record.nonce)],
                              ![StagingOf(record.nonce)] = Absent]
    BY <1>7, Named DEF PublishClaim, At, Ghosts, Move, Refuse, IInv, StepFits, RecordFits
  <2>2. /\ \A n \in Nonces \ {record.nonce} : at'[StagingOf(n)] = at[StagingOf(n)]
        /\ at'[StagingOf(record.nonce)] \in {Absent, at[StagingOf(record.nonce)]}
    <3>1. at \in Targets /\ StagingOf(record.nonce) \in Leaves /\ Public \in Leaves
      BY <2>1, Names DEF IInv, Types
    <3>2. StagingOf(record.nonce) # Public /\ \A n \in Nonces : StagingOf(n) # Public
      BY <2>1, Names
    <3>3. \A n \in Nonces \ {record.nonce} : StagingOf(n) # StagingOf(record.nonce)
      BY <2>1, Names
    <3>4. \A n \in Nonces : StagingOf(n) \in Leaves
      BY Names
    <3>5. CASE at' = at
      BY <3>5
    <3>6. CASE at' # at
      BY <2>1, <3>1, <3>2, <3>3, <3>4, <3>6 DEF Targets
    <3> QED BY <3>5, <3>6
  <2>3. Staged' \ {record.nonce} = Staged \ {record.nonce}
    BY <2>2 DEF Staged
  <2> QED BY <2>1, <2>2, <2>3 DEF IInv, StagingBounded, Early, Absent, Foreign
<1>8. CASE LocateClaim \/ Populate \/ Settle \/ Bind
  <2>1. /\ \A n \in Nonces : at'[StagingOf(n)] = at[StagingOf(n)]
        /\ record'.nonce = record.nonce /\ touched' \in {TRUE, touched}
        /\ record'.state \in Early /\ session'.step # "claim" =>
             record.state \in Early /\ session.step # "claim"
    BY <1>8 DEF LocateClaim, Populate, Settle, Bind, At, Step, Close, Refuse, Transition,
      Unharmed, Ghosts, IInv, StepFits, NoSession, Early, Unplaced, Types, Records, Sessions
  <2> QED BY <2>1, StagingStays
<1>9. CASE Reconcile
  <2>1. \/ /\ session' = NoSession /\ record'.state = record.state
           /\ record'.nonce = record.nonce /\ record'.location = record.location
           /\ record' = record
        \/ /\ session' = session /\ record'.state = record.state
           /\ record'.nonce = record.nonce /\ record'.location = "public" /\ ClaimMoved
        \/ /\ session'.step = "bind" /\ record'.state = "ready"
           /\ record'.nonce = record.nonce /\ record'.location = record.location
           /\ record.location = "public"
        \/ /\ session' = NoSession /\ record' = record /\ at' = at /\ reg' = reg
           /\ filled' = filled
    BY <1>9 DEF Reconcile, Step, Close, Refuse, Transition, NoSession, IInv, Types, Records,
      Sessions, ClaimPublic
  <2>2. at' = at /\ reg' = reg /\ touched' = touched
    BY <1>9 DEF Reconcile, Unharmed, Refuse, At, Ghosts
  <2>3. /\ \A n \in Nonces : at'[StagingOf(n)] = at[StagingOf(n)]
        /\ record'.nonce = record.nonce /\ touched' \in {TRUE, touched}
        /\ record'.state \in Early /\ session'.step # "claim" =>
             record.state \in Early /\ session.step # "claim"
    BY <1>9, <2>1, <2>2 DEF Reconcile, At, StepFits, IInv, Early, NoSession, Unplaced
  <2> QED BY <2>3, StagingStays
<1>10. CASE Recover
  <2>1. \/ /\ session'.step = "bind" /\ record'.state = "ready"
           /\ record'.nonce = record.nonce /\ record'.location = record.location
        \/ /\ session' = NoSession /\ record' = record /\ at' = at /\ reg' = reg
           /\ filled' = filled
    BY <1>10 DEF Recover, Step, Close, Refuse, Transition, NoSession, IInv, Types, Records,
      Sessions
  <2>2. at' = at /\ reg' = reg /\ touched' = touched
    BY <1>10 DEF Recover, Unharmed, Refuse, At, Ghosts
  <2>3. /\ \A n \in Nonces : at'[StagingOf(n)] = at[StagingOf(n)]
        /\ record'.nonce = record.nonce /\ touched' \in {TRUE, touched}
        /\ record'.state \in Early /\ session'.step # "claim" =>
             record.state \in Early /\ session.step # "claim"
    BY <1>10, <2>1, <2>2 DEF Recover, At, StepFits, IInv, Early, NoSession, Unplaced
  <2> QED BY <2>3, StagingStays
<1>11. CASE Retire
  <2>1. \/ /\ session'.step = "quarantine" /\ record'.state = "removing"
           /\ record'.nonce = record.nonce /\ record'.location = record.location
        \/ /\ session' = NoSession /\ record' = record /\ at' = at /\ reg' = reg
           /\ filled' = filled
    BY <1>11 DEF Retire, Step, Close, Refuse, Transition, NoSession, IInv, Types, Records,
      Sessions
  <2>2. at' = at /\ reg' = reg /\ touched' = touched
    BY <1>11 DEF Retire, Unharmed, Refuse, At, Ghosts
  <2>3. /\ \A n \in Nonces : at'[StagingOf(n)] = at[StagingOf(n)]
        /\ record'.nonce = record.nonce /\ touched' \in {TRUE, touched}
        /\ record'.state \in Early /\ session'.step # "claim" =>
             record.state \in Early /\ session.step # "claim"
    BY <1>11, <2>1, <2>2 DEF Retire, At, StepFits, IInv, Early, NoSession, Unplaced
  <2> QED BY <2>3, StagingStays
<1>12. CASE MoveAside
  <2>1. /\ \A n \in Nonces : at'[StagingOf(n)] = at[StagingOf(n)]
        /\ record'.nonce = record.nonce /\ touched' \in {TRUE, touched}
        /\ record'.state \in Early /\ session'.step # "claim" =>
             record.state \in Early /\ session.step # "claim"
    BY <1>12, Names, Named DEF MoveAside, At, Step, Close, Refuse, Transition, Move, Unharmed,
      Ghosts, Touch, IInv, StepFits, NoSession, Early, Unplaced, Types, Records, Sessions,
      Targets, RecordFits
  <2> QED BY <2>1, StagingStays
<1>13. CASE LocateAside
  <2>1. \/ /\ session'.step = "delete" /\ record'.state = record.state
           /\ record'.nonce = record.nonce /\ record'.location = "quarantine"
        \/ /\ session' = NoSession /\ record' = record /\ at' = at /\ reg' = reg
           /\ filled' = filled
    BY <1>13 DEF LocateAside, Step, Close, Refuse, Transition, NoSession, IInv, Types, Records,
      Sessions
  <2>2. at' = at /\ reg' = reg /\ touched' = touched
    BY <1>13 DEF LocateAside, Unharmed, Refuse, At, Ghosts
  <2>3. /\ \A n \in Nonces : at'[StagingOf(n)] = at[StagingOf(n)]
        /\ record'.nonce = record.nonce /\ touched' \in {TRUE, touched}
        /\ record'.state \in Early /\ session'.step # "claim" =>
             record.state \in Early /\ session.step # "claim"
    BY <1>13, <2>1, <2>2 DEF LocateAside, At, StepFits, IInv, Early, NoSession, Unplaced
  <2> QED BY <2>3, StagingStays
<1>14. CASE Delete
  <2>1. /\ \A n \in Nonces : at'[StagingOf(n)] = at[StagingOf(n)]
        /\ record'.nonce = record.nonce /\ touched' \in {TRUE, touched}
        /\ record'.state \in Early /\ session'.step # "claim" =>
             record.state \in Early /\ session.step # "claim"
    BY <1>14, Names, Named DEF Delete, At, Step, Close, Refuse, Transition, Move, Unharmed,
      Ghosts, Touch, IInv, StepFits, NoSession, Early, Unplaced, Types, Records, Sessions,
      Targets, RecordFits
  <2> QED BY <2>1, StagingStays
<1>15. CASE Bury \/ Remove \/ CloseHandle \/ ProveForUse
  <2>1. /\ \A n \in Nonces : at'[StagingOf(n)] = at[StagingOf(n)]
        /\ record'.nonce = record.nonce /\ touched' \in {TRUE, touched}
        /\ record'.state \in Early /\ session'.step # "claim" =>
             record.state \in Early /\ session.step # "claim"
    BY <1>15 DEF Bury, Remove, CloseHandle, ProveForUse, Held, At, Step, Close, Refuse,
      Transition, Unharmed, Ghosts, IInv, StepFits, NoSession, Early, Unplaced, Types, Records,
      Sessions
  <2> QED BY <2>1, StagingStays
<1>16. CASE BeginAdvance \/ Commit
  <2>1. /\ \A n \in Nonces : at'[StagingOf(n)] = at[StagingOf(n)]
        /\ record'.nonce = record.nonce /\ touched' \in {TRUE, touched}
        /\ record'.state \in Early /\ session'.step # "claim" =>
             record.state \in Early /\ session.step # "claim"
    BY <1>16 DEF BeginAdvance, Commit, Held, Transition, Unharmed, Ghosts, IInv, StepFits,
      NoSession, Early, Unplaced, Types, Records, Sessions
  <2> QED BY <2>1, StagingStays
<1>17. CASE CompleteAdvance
  <2>1. \/ /\ session' = session /\ record'.state = "ready" /\ record'.nonce = record.nonce
           /\ record'.location = record.location
        \/ /\ session' = NoSession /\ record' = record /\ at' = at /\ reg' = reg
           /\ filled' = filled
    BY <1>17 DEF CompleteAdvance, Step, Close, Refuse, Transition, NoSession, IInv, Types,
      Records, Sessions
  <2>2. at' = at /\ reg' = reg /\ touched' = touched
    BY <1>17 DEF CompleteAdvance, Unharmed, Refuse, At, Ghosts, Held
  <2>3. /\ \A n \in Nonces : at'[StagingOf(n)] = at[StagingOf(n)]
        /\ record'.nonce = record.nonce /\ touched' \in {TRUE, touched}
        /\ record'.state \in Early /\ session'.step # "claim" =>
             record.state \in Early /\ session.step # "claim"
    BY <1>17, <2>1, <2>2 DEF CompleteAdvance, At, StepFits, IInv, Early, NoSession, Unplaced,
      Held
  <2> QED BY <2>3, StagingStays
<1>18. CASE Write \/ Drift \/ Probing
  <2>1. /\ \A n \in Nonces : at'[StagingOf(n)] = at[StagingOf(n)]
        /\ record'.nonce = record.nonce /\ touched' \in {TRUE, touched}
        /\ record'.state \in Early /\ session'.step # "claim" =>
             record.state \in Early /\ session.step # "claim"
    BY <1>18 DEF Write, Drift, Probing, Held, ProbeBegin, Probe, ProbeAgain, Ghosts, IInv,
      StepFits, NoSession, Early, Unplaced, Types, Records, Sessions
  <2> QED BY <2>1, StagingStays
<1>19. CASE Die
  <2>1. /\ UNCHANGED << record, at, touched >>
        /\ session.step = "claim" =>
             Cardinality({n \in Nonces : at[<<"staging", n>>] # Absent}) <= MaxAbandoned
    BY <1>19 DEF Die
  <2>2. CASE session.step = "claim"
    <3> DEFINE Occupied == {n \in Nonces : at[<<"staging", n>>] # Absent}
    <3>1. Staged \subseteq Occupied /\ IsFiniteSet(Occupied)
      BY Names, WorktreeAssumption, FS_Subset DEF Staged, StagingOf, Absent
    <3>2. Cardinality(Staged) <= Cardinality(Occupied)
      BY <3>1, FS_Subset
    <3>3. Cardinality(Occupied) \in Nat /\ Cardinality(Staged) \in Nat /\ MaxAbandoned \in Nat
      BY <3>1, FS_Subset, FS_CardinalityType, WorktreeAssumption
    <3>4. Cardinality(Occupied) <= MaxAbandoned
      BY <2>1, <2>2
    <3>5. Staged' = Staged
      BY <2>1 DEF Staged
    <3> HIDE DEF Occupied
    <3>6. Cardinality(Staged) <= MaxAbandoned
      BY <3>2, <3>3, <3>4
    <3> QED BY <2>1, <3>5, <3>6 DEF IInv, StagingBounded
  <2>3. CASE session.step # "claim"
    BY <2>1, <2>3, StagingStays
  <2> QED BY <2>2, <2>3
<1>20. CASE Squat
  <2>1. /\ \A n \in Nonces : at'[StagingOf(n)] = at[StagingOf(n)]
        /\ record'.nonce = record.nonce /\ touched' \in {TRUE, touched}
        /\ record'.state \in Early /\ session'.step # "claim" =>
             record.state \in Early /\ session.step # "claim"
    BY <1>20, Names, Named DEF Squat, At, Step, Close, Refuse, Transition, Move, Unharmed,
      Ghosts, Touch, IInv, StepFits, NoSession, Early, Unplaced, Types, Records, Sessions,
      Targets, RecordFits
  <2> QED BY <2>1, StagingStays
<1>21. CASE Displace
  <2>1. /\ \A n \in Nonces : at'[StagingOf(n)] = at[StagingOf(n)]
        /\ record'.nonce = record.nonce /\ touched' \in {TRUE, touched}
        /\ record'.state \in Early /\ session'.step # "claim" =>
             record.state \in Early /\ session.step # "claim"
    BY <1>21, Names, Named DEF Displace, At, Step, Close, Refuse, Transition, Move, Unharmed,
      Ghosts, Touch, IInv, StepFits, NoSession, Early, Unplaced, Types, Records, Sessions,
      Targets, RecordFits
  <2> QED BY <2>1, StagingStays
<1>22. CASE Replace
  <2>1. /\ record' = record /\ session' = session /\ touched = FALSE /\ touched' = TRUE
        /\ record.nonce \in Nonces
        /\ at' = [at EXCEPT ![StagingOf(record.nonce)] = Foreign]
    BY <1>22, Named DEF Replace, Touch, IInv, Types, RecordFits, NoRecord
  <2>2. /\ \A n \in Nonces \ {record.nonce} : at'[StagingOf(n)] = at[StagingOf(n)]
        /\ at'[StagingOf(record.nonce)] = Foreign
    BY <2>1, Names DEF IInv, Types, Targets
  <2>3. Staged' = Staged \ {record.nonce}
    <3>1. Foreign # record.nonce
      BY <2>1, Names DEF Foreign
    <3> QED BY <2>2, <3>1 DEF Staged
  <2>4. Staged' \ {record.nonce} = Staged \ {record.nonce}
    BY <2>3
  <2>5. \A n \in Nonces : at'[StagingOf(n)] = Foreign => n = record.nonce
    BY <2>1, <2>2 DEF IInv, StagingBounded
  <2> QED BY <2>1, <2>3, <2>4, <2>5 DEF IInv, StagingBounded
<1>23. CASE MoveHead \/ LateWrite
  <2>1. /\ \A n \in Nonces : at'[StagingOf(n)] = at[StagingOf(n)]
        /\ record'.nonce = record.nonce /\ touched' \in {TRUE, touched}
        /\ record'.state \in Early /\ session'.step # "claim" =>
             record.state \in Early /\ session.step # "claim"
    BY <1>23 DEF MoveHead, LateWrite, Touch, IInv, StepFits, NoSession, Early, Unplaced, Types,
      Records, Sessions
  <2> QED BY <2>1, StagingStays
<1> QED BY <1>1, <1>2, <1>3, <1>4, <1>5, <1>6, <1>7, <1>8, <1>9, <1>10, <1>11, <1>12, <1>13,
  <1>14, <1>15, <1>16, <1>17, <1>18, <1>19, <1>20, <1>21, <1>22, <1>23 DEF Next, SessionStep,
  HolderStep, Intrude

(* A step that interferes with nothing keeps a generation that is being    *)
(* created in place.                                                       *)
LEMMA ClaimInPlaceKept ==
  ASSUME IInv, Next, touched' = FALSE
  PROVE  ClaimInPlace'
<1>1. CASE Calls
  <2>1. PICK op \in {"create", "create_candidate", "acquire_existing"}, sha \in {0, 1} : Open(op, sha)
    BY <1>1 DEF Calls
  <2>2. FirstStep(op) \notin {"claim", "locate", "settle"}
    BY DEF FirstStep, IInv, Types, Records, States, Unplaced
  <2>3. /\ session'.step \notin {"claim", "locate", "settle"}
        /\ UNCHANGED << record, at, filled, reg, purpose, touched >>
    BY <2>1, <2>2 DEF Open, Refuse, Close, NoSession, Ghosts
  <2> QED BY <2>3, Named DEF IInv, Untouched, Unplaced, ClaimInPlace, ClaimStaged, ClaimMoved,
    prove_no_public_target, prove_owned_at
<1>2. CASE Vacant
  <2>1. /\ session' = NoSession
        /\ UNCHANGED << record, at, filled, reg, purpose, touched >>
    BY <1>2 DEF Vacant, At, Refuse, Close, Ghosts
  <2> QED BY <2>1, Named DEF IInv, Untouched, NoSession, Unplaced, ClaimInPlace, ClaimStaged,
    ClaimMoved, prove_no_public_target, prove_owned_at
<1>3. CASE FreshCreate
  <2>1. \/ /\ record' = [state |-> "preclaim", nonce |-> FreshNonce,
                         location |-> "staging", sha |-> session.sha]
           /\ filled' = filled \ {FreshNonce} /\ session' = [session EXCEPT !.step = "preclaim"]
           /\ prove_no_public_target
        \/ session' = NoSession /\ record' = record /\ filled' = filled
    BY <1>3 DEF FreshCreate, Refuse, Close, Transition, Step
  <2>2. at' = at /\ reg' = reg /\ touched' = touched
    BY <1>3 DEF FreshCreate, At, Unharmed, Refuse, Ghosts
  <2>3. CASE session' = NoSession
    BY <2>1, <2>2, <2>3, Named DEF IInv, Untouched, NoSession, Types, Sessions, Unplaced,
      ClaimInPlace, ClaimStaged, ClaimMoved, prove_no_public_target, prove_owned_at
  <2>4. CASE session' # NoSession
    <3>1. /\ record'.state = "preclaim" /\ record'.nonce = FreshNonce
          /\ record'.nonce \notin filled' /\ session'.step = "preclaim"
      BY <2>1, <2>4 DEF IInv, Types, Sessions
    <3> QED BY <2>1, <2>2, <2>4, <3>1 DEF Unplaced, ClaimInPlace, ClaimStaged, ClaimMoved,
      prove_no_public_target, prove_owned_at
  <2> QED BY <2>3, <2>4
<1>4. CASE FinishPreclaim \/ AbandonPreclaim \/ Claim
  BY <1>4, Names, Named DEF FinishPreclaim, AbandonPreclaim, Claim, PreclaimClear,
    prove_no_public_target, prove_owned_at, At, Step, Close, Refuse, Transition, Unharmed,
    Ghosts, IInv, Untouched, StepFits, NoSession, RecordFits, RecordParses, Placed, Types,
    Records, Sessions, Targets, Registrations, Entries, Registered, Unregistered, Absent,
    Foreign, Unplaced, CallFits, ClaimInPlace, ClaimStaged, ClaimMoved
<1>5. CASE PublishClaim
  <2>1. /\ record' = record /\ filled' = filled /\ reg' = reg /\ touched' = touched
        /\ record.state = "claimed" /\ record.nonce \in Nonces
        /\ \/ /\ record.location = "staging"
              /\ at[StagingOf(record.nonce)] = record.nonce
              /\ at' = [at EXCEPT ![Public] = at[StagingOf(record.nonce)],
                                 ![StagingOf(record.nonce)] = Absent]
              /\ session'.step = "locate"
           \/ /\ at' = at /\ session'.step = "locate"
              /\ ClaimMoved \/ ClaimPublic
           \/ at' = at /\ session' = NoSession
    BY <1>5, Named DEF PublishClaim, At, Step, Close, Unharmed, Ghosts, Move, Refuse,
      ClaimStaged, prove_owned_at, IInv, StepFits, RecordFits, Types, Sessions
  <2>2. CASE /\ at' = at
             /\ \/ session'.step = "locate" /\ (ClaimMoved \/ ClaimPublic)
                \/ session' = NoSession
    <3>1. /\ Staging' = Staging /\ ClaimMoved' = ClaimMoved /\ ClaimStaged' = ClaimStaged
          /\ session'.step \in {"locate", "none"}
          /\ session'.step = "locate" /\ record.location = "staging" => ClaimMoved
      BY <2>1, <2>2, Named, Names DEF NoSession, ClaimPublic, ClaimMoved, ClaimStaged,
        prove_owned_at
    <3> QED BY <2>1, <2>2, <3>1 DEF IInv, Untouched, ClaimInPlace, Unplaced
  <2>3. CASE /\ record.location = "staging" /\ session'.step = "locate"
             /\ at' = [at EXCEPT ![Public] = at[StagingOf(record.nonce)],
                                ![StagingOf(record.nonce)] = Absent]
             /\ at[StagingOf(record.nonce)] = record.nonce
    <3>1. /\ at'[Public] = record.nonce /\ at'[StagingOf(record.nonce)] = Absent
          /\ record.nonce # 0
      BY <2>1, <2>3, Names DEF IInv, Types, Targets
    <3> QED BY <2>1, <2>3, <3>1, Named DEF IInv, Untouched, Unplaced, ClaimInPlace,
      ClaimStaged, ClaimMoved, prove_no_public_target, prove_owned_at
  <2> QED BY <2>1, <2>2, <2>3
<1>6. CASE LocateClaim
  BY <1>6, Names, Named DEF LocateClaim, At, Step, Transition, Unharmed, Ghosts, IInv,
    Untouched, StepFits, NoSession, RecordFits, RecordParses, Placed, Types, Records, Sessions,
    Targets, Registrations, Entries, Registered, Unregistered, Absent, Foreign, Unplaced,
    CallFits, ClaimInPlace, ClaimStaged, ClaimMoved, prove_no_public_target, prove_owned_at
<1>7. CASE Populate
  <2>1. /\ record' = record /\ at' = at /\ touched' = touched
        /\ record.state = "claimed" /\ record.location = "public"
        /\ session'.step \in {"settle", "none"}
        /\ \/ /\ filled' = filled \cup {record.nonce}
              /\ reg' = [reg EXCEPT ![Public] = Registered(record.sha)]
           \/ /\ filled' = filled /\ reg' = reg
              /\ reg[Public] = Registered(record.sha) \/ session' = NoSession
    BY <1>7 DEF Populate, At, Step, NoSession, Types, Sessions, Unharmed, Ghosts, Refuse,
      Close, prove_bound_at, registration_is_exact, IInv, StepFits
  <2>2. at'[Public] = record.nonce
    BY <2>1 DEF IInv, Untouched, ClaimInPlace
  <2>3. IF record.nonce \in filled THEN reg[Public] = Registered(record.sha)
        ELSE reg[Public] = Unregistered
    BY <2>1 DEF IInv, Untouched, ClaimInPlace
  <2>4. CASE reg' = reg /\ filled' = filled
    BY <2>1, <2>2, <2>3, <2>4, Told DEF ClaimInPlace, Unplaced, NoSession
  <2>5. CASE filled' = filled \cup {record.nonce} /\ reg' = [reg EXCEPT ![Public] = Registered(record.sha)]
    <3>1. reg'[Public] = Registered(record.sha)
      BY <2>5, Names DEF IInv, Types, Registrations
    <3> QED BY <2>1, <2>2, <2>5, <3>1 DEF ClaimInPlace, Unplaced
  <2> QED BY <2>1, <2>4, <2>5
<1>8. CASE Settle \/ Bind \/ Reconcile
  BY <1>8, Names, Named DEF Settle, Bind, Reconcile, prove_bound_at, prove_owned_at,
    registration_is_exact, ClaimStaged, ClaimMoved, ClaimPublic, Unclaimed, Empty, At, Step,
    Close, Refuse, Transition, Unharmed, Ghosts, IInv, Untouched, StepFits, NoSession,
    RecordFits, RecordParses, Placed, Types, Records, Sessions, Targets, Registrations,
    Entries, Registered, Unregistered, Absent, Foreign, Unplaced, CallFits, ClaimInPlace,
    prove_no_public_target
<1>9. CASE Recover
  <2>1. \/ /\ session'.step = "bind" /\ record'.state = "ready"
           /\ record'.nonce = record.nonce /\ record'.location = record.location
        \/ /\ session' = NoSession /\ record' = record /\ at' = at /\ reg' = reg
           /\ filled' = filled
    BY <1>9 DEF Recover, Step, Close, Refuse, Transition, NoSession, IInv, Types, Records,
      Sessions
  <2>2. /\ at' = at /\ reg' = reg /\ filled' = filled /\ touched' = touched
        /\ record.state = "advancing" /\ session.step \in {"recover", "held"}
    BY <1>9 DEF Recover, At, Unharmed, Refuse, Ghosts, IInv, StepFits
  <2> QED BY <2>1, <2>2 DEF ClaimInPlace, Unplaced, NoSession
<1>10. CASE Retire \/ MoveAside \/ LocateAside \/ Delete
  BY <1>10, Names, Named DEF Retire, MoveAside, LocateAside, Delete, prove_discardable_at,
    prove_owned_at, registration_is_discardable, NotQuarantined, Quarantined, Deleted, At,
    Step, Close, Refuse, Transition, Move, Unharmed, Ghosts, IInv, Untouched, StepFits,
    NoSession, RecordFits, RecordParses, Placed, Types, Records, Sessions, Targets,
    Registrations, Entries, Registered, Unregistered, Absent, Foreign, Unplaced, CallFits,
    ClaimInPlace, ClaimStaged, ClaimMoved, prove_no_public_target
<1>11. CASE Bury
  <2>1. /\ record'.state = "removed" /\ at' = at /\ reg' = reg /\ touched' = touched
        /\ session'.step \in {"fresh", "vacant", "none"}
    BY <1>11 DEF Bury, At, Step, Close, Transition, Unharmed, Ghosts, NoSession, IInv, Types,
      Records, Sessions
  <2>2. record.state = "removing" /\ record.location = "quarantine"
    BY <1>11 DEF Bury, At, IInv, StepFits
  <2>3. prove_no_public_target
    BY <2>1, <2>2 DEF IInv, Untouched, RemovedInPlace
  <2> QED BY <2>1, <2>3 DEF ClaimInPlace, prove_no_public_target
<1>12. CASE Remove
  BY <1>12, Names, Named DEF Remove, Held, Unharmed, Ghosts, IInv, Untouched, StepFits,
    NoSession, RecordFits, RecordParses, Placed, Types, Records, Sessions, Targets,
    Registrations, Entries, Registered, Unregistered, Absent, Foreign, Unplaced, CallFits,
    ClaimInPlace, ClaimStaged, ClaimMoved, prove_no_public_target, prove_owned_at
<1>13. CASE CloseHandle
  BY <1>13, Names, Named DEF CloseHandle, Held, Close, Unharmed, Ghosts, IInv, Untouched,
    StepFits, NoSession, RecordFits, RecordParses, Placed, Types, Records, Sessions, Targets,
    Registrations, Entries, Registered, Unregistered, Absent, Foreign, Unplaced, CallFits,
    ClaimInPlace, ClaimStaged, ClaimMoved, prove_no_public_target, prove_owned_at
<1>14. CASE ProveForUse \/ BeginAdvance
  BY <1>14, Names, Named DEF ProveForUse, BeginAdvance, Held, prove_bound_at, prove_owned_at,
    registration_is_exact, Close, Refuse, Transition, Unharmed, Ghosts, IInv, Untouched,
    StepFits, NoSession, RecordFits, RecordParses, Placed, Types, Records, Sessions, Targets,
    Registrations, Entries, Registered, Unregistered, Absent, Foreign, Unplaced, CallFits,
    ClaimInPlace, ClaimStaged, ClaimMoved, prove_no_public_target
<1>15. CASE Commit
  BY <1>15, Names, Named DEF Commit, Held, prove_bound_at, prove_owned_at,
    registration_is_exact, Ghosts, IInv, Untouched, StepFits, NoSession, RecordFits,
    RecordParses, Placed, Types, Records, Sessions, Targets, Registrations, Entries,
    Registered, Unregistered, Absent, Foreign, Unplaced, CallFits, ClaimInPlace, ClaimStaged,
    ClaimMoved, prove_no_public_target
<1>16. CASE CompleteAdvance
  <2>1. \/ /\ session' = session /\ record'.state = "ready" /\ record'.nonce = record.nonce
           /\ record'.location = record.location
        \/ /\ session' = NoSession /\ record' = record /\ at' = at /\ reg' = reg
           /\ filled' = filled
    BY <1>16 DEF CompleteAdvance, Step, Close, Refuse, Transition, NoSession, IInv, Types,
      Records, Sessions
  <2>2. /\ at' = at /\ reg' = reg /\ filled' = filled /\ touched' = touched
        /\ record.state = "advancing" /\ session.step \in {"recover", "held"}
    BY <1>16 DEF CompleteAdvance, At, Unharmed, Refuse, Ghosts, IInv, StepFits, Held
  <2> QED BY <2>1, <2>2 DEF ClaimInPlace, Unplaced, NoSession
<1>17. CASE Write \/ Drift
  BY <1>17, Names, Named DEF Write, Drift, Held, prove_owned_at, Commits, Ghosts, IInv,
    Untouched, StepFits, NoSession, RecordFits, RecordParses, Placed, Types, Records, Sessions,
    Targets, Registrations, Entries, Registered, Unregistered, Absent, Foreign, Unplaced,
    CallFits, ClaimInPlace, ClaimStaged, ClaimMoved, prove_no_public_target
<1>18. CASE Probing
  <2>1. UNCHANGED << record, at, filled, reg, dirty, purpose, session, touched >>
    BY <1>18 DEF Probing, ProbeBegin, Probe, ProbeAgain
  <2> QED BY <2>1, Named DEF IInv, Untouched, Unplaced, ClaimInPlace, ClaimStaged, ClaimMoved,
    prove_no_public_target, prove_owned_at
<1>19. CASE Die
  BY <1>19, Names, Named DEF Die, Close, IInv, Untouched, StepFits, NoSession, RecordFits,
    RecordParses, Placed, Types, Records, Sessions, Targets, Registrations, Entries,
    Registered, Unregistered, Absent, Foreign, Unplaced, CallFits, ClaimInPlace, ClaimStaged,
    ClaimMoved, prove_no_public_target, prove_owned_at
<1>20. CASE Intrude
  BY <1>20 DEF Intrude, Squat, Displace, Replace, MoveHead, LateWrite, Touch
<1> QED BY <1>1, <1>2, <1>3, <1>4, <1>5, <1>6, <1>7, <1>8, <1>9, <1>10, <1>11, <1>12, <1>13,
  <1>14, <1>15, <1>16, <1>17, <1>18, <1>19, <1>20 DEF Next, SessionStep, HolderStep, Intrude

(* The same of a generation that is bound.                                 *)
LEMMA BoundInPlaceKept ==
  ASSUME IInv, Next, touched' = FALSE
  PROVE  BoundInPlace'
<1>1. CASE Calls
  <2>1. UNCHANGED << record, at, filled, reg, dirty, purpose, touched >>
    BY <1>1 DEF Calls, Open, Refuse, Ghosts
  <2> QED BY <2>1 DEF IInv, Untouched, BoundInPlace
<1>2. CASE Vacant \/ FreshCreate \/ FinishPreclaim \/ AbandonPreclaim
  BY <1>2, Names, Named DEF Vacant, FreshCreate, FinishPreclaim, AbandonPreclaim,
    prove_no_public_target, PreclaimClear, At, Step, Close, Refuse, Transition, Unharmed,
    Ghosts, IInv, Untouched, StepFits, NoSession, RecordFits, RecordParses, Placed, Types,
    Records, Sessions, Targets, Registrations, Entries, Registered, Unregistered, Absent,
    Foreign, Unplaced, CallFits, BoundInPlace
<1>3. CASE Claim \/ PublishClaim \/ LocateClaim \/ Populate
  BY <1>3, Names, Named DEF Claim, PublishClaim, LocateClaim, Populate, prove_owned_at,
    ClaimStaged, ClaimMoved, ClaimPublic, StagedClear, Unclaimed, Empty, prove_bound_at,
    registration_is_exact, At, Step, Close, Refuse, Transition, Move, Unharmed, Ghosts, IInv,
    Untouched, StepFits, NoSession, RecordFits, RecordParses, Placed, Types, Records, Sessions,
    Targets, Registrations, Entries, Registered, Unregistered, Absent, Foreign, Unplaced,
    CallFits, BoundInPlace
<1>4. CASE Settle
  <2>1. /\ UNCHANGED << at, filled, reg, dirty, purpose, touched >>
        /\ record.state = "claimed" /\ record.location = "public"
        /\ \/ /\ record'.state = "ready" /\ record'.nonce = record.nonce
              /\ record'.sha = record.sha /\ session.step = "settle"
           \/ record'.state = record.state /\ (record' = record \/ record.state = "claimed")
    BY <1>4 DEF Settle, At, Step, Transition, Close, Refuse, Unharmed, Ghosts, IInv, Types,
      Records, StepFits, RecordFits
  <2>2. /\ at[Public] = record.nonce /\ record.nonce \in filled
        /\ reg[Public] = Registered(record.sha)
    BY <1>4, <2>1 DEF Settle, At, IInv, Untouched, ClaimInPlace
  <2> QED BY <1>4, <2>1, <2>2 DEF Settle, Transition, BoundInPlace, Registered, IInv, Types,
    Records
<1>5. CASE Bind
  <2>1. UNCHANGED << record, at, filled, reg, dirty, purpose, touched >>
    BY <1>5 DEF Bind, At, Refuse, Unharmed, Ghosts
  <2> QED BY <2>1 DEF IInv, Untouched, BoundInPlace
<1>6. CASE Reconcile
  <2>1. /\ UNCHANGED << at, filled, reg, dirty, purpose, touched >>
        /\ record.state = "claimed"
        /\ \/ /\ record'.state = "ready" /\ record'.nonce = record.nonce
              /\ record'.sha = record.sha /\ record.location = "public" /\ reg[Public] = Registered(record.sha)
           \/ record'.state = record.state /\ (record' = record \/ record.state = "claimed")
    BY <1>6 DEF Reconcile, At, Step, Transition, Close, Refuse, Unharmed, Ghosts, IInv, Types,
      Records, StepFits, ClaimPublic, prove_bound_at, registration_is_exact
  <2>2. CASE record'.state = "ready"
    <3>1. /\ at[Public] = record.nonce /\ record.nonce \in filled
      BY <2>1, <2>2 DEF IInv, Untouched, ClaimInPlace, Registered, Unregistered
    <3>2. reg'[Public] = Registered(record'.sha) /\ reg'[Public].detached = TRUE
      BY <2>1, <2>2, Told
    <3> QED BY <2>1, <2>2, <3>1, <3>2 DEF BoundInPlace
  <2> QED BY <2>1, <2>2 DEF BoundInPlace
<1>7. CASE Recover
  <2>1. /\ UNCHANGED << at, filled, reg, dirty, purpose, touched >>
        /\ record.state = "advancing" /\ record \in Records
        /\ \/ /\ record' = [record EXCEPT !.state = "ready"]
              /\ reg[Public] = Registered(record.sha)
           \/ /\ record' = [record EXCEPT !.state = "ready", !.sha = reg[Public].head]
              /\ reg[Public] = Registered(reg[Public].head)
           \/ record' = record
    BY <1>7 DEF Recover, At, Transition, Refuse, Unharmed, Ghosts, prove_bound_at,
      registration_is_exact, prove_advanced_commit, IInv, Types, StepFits
  <2>2. \/ /\ record'.state = "ready" /\ record'.nonce = record.nonce
           /\ reg'[Public] = Registered(record'.sha)
        \/ record' = record
    BY <2>1 DEF Records
  <2> QED BY <2>1, <2>2 DEF IInv, Untouched, BoundInPlace
<1>8. CASE Retire \/ MoveAside \/ LocateAside \/ Delete
  BY <1>8, Names, Named DEF Retire, MoveAside, LocateAside, Delete, prove_discardable_at,
    prove_owned_at, registration_is_discardable, NotQuarantined, Quarantined, Deleted, At,
    Step, Close, Refuse, Transition, Move, Unharmed, Ghosts, IInv, Untouched, StepFits,
    NoSession, RecordFits, RecordParses, Placed, Types, Records, Sessions, Targets,
    Registrations, Entries, Registered, Unregistered, Absent, Foreign, Unplaced, CallFits,
    BoundInPlace
<1>9. CASE Bury
  BY <1>9, Names, Named DEF Bury, At, Step, Close, Transition, Unharmed, Ghosts, IInv,
    Untouched, StepFits, NoSession, RecordFits, RecordParses, Placed, Types, Records, Sessions,
    Targets, Registrations, Entries, Registered, Unregistered, Absent, Foreign, Unplaced,
    CallFits, BoundInPlace
<1>10. CASE Remove
  BY <1>10, Names, Named DEF Remove, Held, Unharmed, Ghosts, IInv, Untouched, StepFits,
    NoSession, RecordFits, RecordParses, Placed, Types, Records, Sessions, Targets,
    Registrations, Entries, Registered, Unregistered, Absent, Foreign, Unplaced, CallFits,
    BoundInPlace
<1>11. CASE CloseHandle
  BY <1>11, Names, Named DEF CloseHandle, Held, Close, Unharmed, Ghosts, IInv, Untouched,
    StepFits, NoSession, RecordFits, RecordParses, Placed, Types, Records, Sessions, Targets,
    Registrations, Entries, Registered, Unregistered, Absent, Foreign, Unplaced, CallFits,
    BoundInPlace
<1>12. CASE ProveForUse
  BY <1>12, Names, Named DEF ProveForUse, Held, prove_bound_at, prove_owned_at,
    registration_is_exact, Close, Refuse, Ghosts, IInv, Untouched, StepFits, NoSession,
    RecordFits, RecordParses, Placed, Types, Records, Sessions, Targets, Registrations,
    Entries, Registered, Unregistered, Absent, Foreign, Unplaced, CallFits, BoundInPlace
<1>13. CASE BeginAdvance
  BY <1>13, Names, Named DEF BeginAdvance, Held, prove_bound_at, prove_owned_at,
    registration_is_exact, Transition, Unharmed, Ghosts, IInv, Untouched, StepFits, NoSession,
    RecordFits, RecordParses, Placed, Types, Records, Sessions, Targets, Registrations,
    Entries, Registered, Unregistered, Absent, Foreign, Unplaced, CallFits, BoundInPlace
<1>14. CASE Commit
  BY <1>14, Names, Named DEF Commit, Held, prove_bound_at, prove_owned_at,
    registration_is_exact, Ghosts, IInv, Untouched, StepFits, NoSession, RecordFits,
    RecordParses, Placed, Types, Records, Sessions, Targets, Registrations, Entries,
    Registered, Unregistered, Absent, Foreign, Unplaced, CallFits, BoundInPlace
<1>15. CASE CompleteAdvance
  BY <1>15, Names, Named DEF CompleteAdvance, Held, prove_advanced_commit, prove_one_child,
    prove_owned_at, registration_is_exact, Close, Refuse, Transition, Unharmed, Ghosts, IInv,
    Untouched, StepFits, NoSession, RecordFits, RecordParses, Placed, Types, Records, Sessions,
    Targets, Registrations, Entries, Registered, Unregistered, Absent, Foreign, Unplaced,
    CallFits, BoundInPlace
<1>16. CASE Write
  BY <1>16, Names, Named DEF Write, Held, Ghosts, IInv, Untouched, StepFits, NoSession,
    RecordFits, RecordParses, Placed, Types, Records, Sessions, Targets, Registrations,
    Entries, Registered, Unregistered, Absent, Foreign, Unplaced, CallFits, BoundInPlace
<1>17. CASE Drift
  BY <1>17, Names, Named DEF Drift, Held, prove_owned_at, Commits, Ghosts, IInv, Untouched,
    StepFits, NoSession, RecordFits, RecordParses, Placed, Types, Records, Sessions, Targets,
    Registrations, Entries, Registered, Unregistered, Absent, Foreign, Unplaced, CallFits,
    BoundInPlace
<1>18. CASE Probing
  <2>1. UNCHANGED << record, at, filled, reg, dirty, purpose, session, touched >>
    BY <1>18 DEF Probing, ProbeBegin, Probe, ProbeAgain
  <2> QED BY <2>1, Named DEF IInv, Untouched, BoundInPlace
<1>19. CASE Die
  BY <1>19, Names, Named DEF Die, Close, IInv, Untouched, StepFits, NoSession, RecordFits,
    RecordParses, Placed, Types, Records, Sessions, Targets, Registrations, Entries,
    Registered, Unregistered, Absent, Foreign, Unplaced, CallFits, BoundInPlace
<1>20. CASE Intrude
  BY <1>20 DEF Intrude, Squat, Displace, Replace, MoveHead, LateWrite, Touch
<1> QED BY <1>1, <1>2, <1>3, <1>4, <1>5, <1>6, <1>7, <1>8, <1>9, <1>10, <1>11, <1>12, <1>13,
  <1>14, <1>15, <1>16, <1>17, <1>18, <1>19, <1>20 DEF Next, SessionStep, HolderStep, Intrude

(* The same of a generation that is being removed.                         *)
LEMMA RemovedInPlaceKept ==
  ASSUME IInv, Next, touched' = FALSE
  PROVE  RemovedInPlace'
<1>1. CASE Calls \/ Vacant \/ FreshCreate \/ FinishPreclaim
  BY <1>1, Names, Named DEF Calls, Vacant, FreshCreate, FinishPreclaim, Open, Misuse, Live,
    FirstStep, RecordParses, prove_no_public_target, PreclaimClear, At, Step, Close, Refuse,
    Transition, Unharmed, Ghosts, IInv, Untouched, StepFits, NoSession, RecordFits, Placed,
    Types, Records, Sessions, Targets, Registrations, Entries, Registered, Unregistered,
    Absent, Foreign, Unplaced, CallFits, RemovedInPlace, NotQuarantined, Quarantined, Deleted,
    prove_discardable_at, prove_owned_at, registration_is_discardable
<1>2. CASE AbandonPreclaim \/ Claim \/ PublishClaim \/ LocateClaim
  BY <1>2, Names, Named DEF AbandonPreclaim, Claim, PublishClaim, LocateClaim, PreclaimClear,
    prove_no_public_target, prove_owned_at, ClaimStaged, ClaimMoved, ClaimPublic, StagedClear,
    Unclaimed, At, Step, Close, Refuse, Transition, Move, Unharmed, Ghosts, IInv, Untouched,
    StepFits, NoSession, RecordFits, RecordParses, Placed, Types, Records, Sessions, Targets,
    Registrations, Entries, Registered, Unregistered, Absent, Foreign, Unplaced, CallFits,
    RemovedInPlace, NotQuarantined, Quarantined, Deleted, prove_discardable_at,
    registration_is_discardable
<1>3. CASE Populate \/ Settle \/ Bind \/ Reconcile
  BY <1>3, Names, Named DEF Populate, Settle, Bind, Reconcile, Empty, prove_bound_at,
    prove_owned_at, registration_is_exact, ClaimStaged, ClaimMoved, ClaimPublic, Unclaimed, At,
    Step, Close, Refuse, Transition, Unharmed, Ghosts, IInv, Untouched, StepFits, NoSession,
    RecordFits, RecordParses, Placed, Types, Records, Sessions, Targets, Registrations,
    Entries, Registered, Unregistered, Absent, Foreign, Unplaced, CallFits, RemovedInPlace,
    NotQuarantined, Quarantined, Deleted, prove_no_public_target, prove_discardable_at,
    registration_is_discardable
<1>4. CASE Recover
  BY <1>4, Names, Named DEF Recover, prove_advanced_commit, prove_one_child,
    registration_is_discardable, prove_discardable_at, prove_bound_at, prove_owned_at,
    registration_is_exact, At, Step, Close, Refuse, Transition, Unharmed, Ghosts, IInv,
    Untouched, StepFits, NoSession, RecordFits, RecordParses, Placed, Types, Records, Sessions,
    Targets, Registrations, Entries, Registered, Unregistered, Absent, Foreign, Unplaced,
    CallFits, RemovedInPlace, NotQuarantined, Quarantined, Deleted, prove_no_public_target
<1>5. CASE Retire
  BY <1>5, Names, Named DEF Retire, prove_discardable_at, prove_owned_at,
    registration_is_discardable, At, Step, Close, Refuse, Transition, Unharmed, Ghosts, IInv,
    Untouched, StepFits, NoSession, RecordFits, RecordParses, Placed, Types, Records, Sessions,
    Targets, Registrations, Entries, Registered, Unregistered, Absent, Foreign, Unplaced,
    CallFits, RemovedInPlace, NotQuarantined, Quarantined, Deleted, prove_no_public_target
<1>6. CASE MoveAside
  <2>1. /\ record' = record /\ touched' = touched
        /\ record.state = "removing" /\ record.location = "public" /\ record.nonce \in Nonces
    BY <1>6 DEF MoveAside, At, Refuse, Ghosts, IInv, StepFits, RecordFits
  <2>2. CASE /\ NotQuarantined
             /\ at' = [at EXCEPT ![Quarantine] = at[Public], ![Public] = Absent]
             /\ reg' = [reg EXCEPT ![Quarantine] = reg[Public], ![Public] = Unregistered]
    <3>1. /\ at'[Public] = Absent /\ at'[QuarantineOf(record.nonce)] = record.nonce
          /\ reg'[Public] = Unregistered /\ reg'[QuarantineOf(record.nonce)] = reg[Public]
      BY <2>1, <2>2, Names, Named DEF NotQuarantined, prove_discardable_at, prove_owned_at,
        IInv, Types, Targets, Registrations
    <3>2. record.nonce # 0 /\ registration_is_discardable(reg[Public])
      BY <2>2 DEF NotQuarantined, prove_discardable_at, prove_owned_at
    <3> QED BY <2>1, <3>1, <3>2, Named DEF RemovedInPlace, NotQuarantined, Quarantined,
      Deleted, prove_no_public_target, prove_discardable_at, prove_owned_at,
      registration_is_discardable
  <2>3. CASE /\ UNCHANGED << at, reg >>
             /\ session' = NoSession \/ (session'.step = "located_aside" /\ Quarantined)
    <3>1. \/ NotQuarantined
          \/ Quarantined /\ reg[Public] = Unregistered
      BY <2>1 DEF IInv, Untouched, RemovedInPlace
    <3>2. ~(NotQuarantined /\ Quarantined)
      BY Names DEF NotQuarantined, Quarantined, prove_discardable_at, prove_owned_at, Absent
    <3> QED BY <2>1, <2>3, <3>1, <3>2, Named DEF NoSession, RemovedInPlace, NotQuarantined,
      Quarantined, Deleted, prove_no_public_target, prove_discardable_at, prove_owned_at,
      registration_is_discardable
  <2> QED BY <1>6, <2>2, <2>3 DEF MoveAside, Move, Step, Refuse, Close, Unharmed, IInv, Types,
    Sessions
<1>7. CASE LocateAside
  BY <1>7, Names, Named DEF LocateAside, Quarantined, prove_discardable_at, prove_owned_at,
    registration_is_discardable, At, Step, Close, Refuse, Transition, Unharmed, Ghosts, IInv,
    Untouched, StepFits, NoSession, RecordFits, RecordParses, Placed, Types, Records, Sessions,
    Targets, Registrations, Entries, Registered, Unregistered, Absent, Foreign, Unplaced,
    CallFits, RemovedInPlace, NotQuarantined, Deleted, prove_no_public_target
<1>8. CASE Delete
  <2>1. /\ record' = record /\ touched' = touched
        /\ record.state = "removing" /\ record.location = "quarantine" /\ record.nonce \in Nonces
    BY <1>8 DEF Delete, At, Ghosts, IInv, StepFits, RecordFits
  <2>2. prove_no_public_target
    BY <2>1 DEF IInv, Untouched, RemovedInPlace
  <2>3. CASE at' = [at EXCEPT ![Quarantine] = Absent] /\ reg' = [reg EXCEPT ![Quarantine] = Unregistered]
    <3>1. /\ at'[Public] = at[Public] /\ at'[QuarantineOf(record.nonce)] = Absent
          /\ reg'[Public] = reg[Public] /\ reg'[QuarantineOf(record.nonce)] = Unregistered
      BY <2>1, <2>3, Names, Named DEF IInv, Types, Targets, Registrations
    <3> QED BY <2>1, <2>2, <3>1, Named DEF RemovedInPlace, NotQuarantined, Quarantined,
      Deleted, prove_no_public_target, prove_discardable_at, prove_owned_at,
      registration_is_discardable
  <2>4. CASE UNCHANGED << at, reg >> /\ Deleted
    BY <2>1, <2>2, <2>4, Named DEF RemovedInPlace, NotQuarantined, Quarantined, Deleted,
      prove_no_public_target, prove_discardable_at, prove_owned_at, registration_is_discardable
  <2> QED BY <1>8, <2>3, <2>4 DEF Delete, Unharmed
<1>9. CASE Bury \/ Remove \/ CloseHandle \/ ProveForUse
  BY <1>9, Names, Named DEF Bury, Remove, CloseHandle, ProveForUse, Held, prove_bound_at,
    prove_owned_at, registration_is_exact, At, Step, Close, Refuse, Transition, Unharmed,
    Ghosts, IInv, Untouched, StepFits, NoSession, RecordFits, RecordParses, Placed, Types,
    Records, Sessions, Targets, Registrations, Entries, Registered, Unregistered, Absent,
    Foreign, Unplaced, CallFits, RemovedInPlace, NotQuarantined, Quarantined, Deleted,
    prove_no_public_target, prove_discardable_at, registration_is_discardable
<1>10. CASE BeginAdvance \/ Commit \/ CompleteAdvance \/ Write
  BY <1>10, Names, Named DEF BeginAdvance, Commit, CompleteAdvance, Write, Held,
    prove_bound_at, prove_owned_at, registration_is_exact, prove_advanced_commit,
    prove_one_child, Close, Refuse, Transition, Unharmed, Ghosts, IInv, Untouched, StepFits,
    NoSession, RecordFits, RecordParses, Placed, Types, Records, Sessions, Targets,
    Registrations, Entries, Registered, Unregistered, Absent, Foreign, Unplaced, CallFits,
    RemovedInPlace, NotQuarantined, Quarantined, Deleted, prove_no_public_target,
    prove_discardable_at, registration_is_discardable
<1>11. CASE Drift
  BY <1>11, Names, Named DEF Drift, Held, prove_owned_at, Commits, Ghosts, IInv, Untouched,
    StepFits, NoSession, RecordFits, RecordParses, Placed, Types, Records, Sessions, Targets,
    Registrations, Entries, Registered, Unregistered, Absent, Foreign, Unplaced, CallFits,
    RemovedInPlace, NotQuarantined, Quarantined, Deleted, prove_no_public_target,
    prove_discardable_at, registration_is_discardable
<1>12. CASE Probing
  <2>1. UNCHANGED << record, at, filled, reg, dirty, purpose, session, touched >>
    BY <1>12 DEF Probing, ProbeBegin, Probe, ProbeAgain
  <2> QED BY <2>1, Named DEF IInv, Untouched, RemovedInPlace, NotQuarantined, Quarantined,
    Deleted, prove_no_public_target, prove_discardable_at, prove_owned_at,
    registration_is_discardable
<1>13. CASE Die
  BY <1>13, Names, Named DEF Die, Close, IInv, Untouched, StepFits, NoSession, RecordFits,
    RecordParses, Placed, Types, Records, Sessions, Targets, Registrations, Entries,
    Registered, Unregistered, Absent, Foreign, Unplaced, CallFits, RemovedInPlace,
    NotQuarantined, Quarantined, Deleted, prove_no_public_target, prove_discardable_at,
    prove_owned_at, registration_is_discardable
<1>14. CASE Intrude
  BY <1>14 DEF Intrude, Squat, Displace, Replace, MoveHead, LateWrite, Touch
<1> QED BY <1>1, <1>2, <1>3, <1>4, <1>5, <1>6, <1>7, <1>8, <1>9, <1>10, <1>11, <1>12, <1>13,
  <1>14 DEF Next, SessionStep, HolderStep, Intrude

(* An untouched target is not refused. *)
LEMMA NotRefused ==
  ASSUME IInv, Next, touched = FALSE
  PROVE  refused' = refused
<1>1. CASE Calls
  <2>1. PICK op \in {"create", "create_candidate", "acquire_existing"}, sha \in {0, 1} : Open(op, sha)
    BY <1>1 DEF Calls
  <2>2. RecordParses /\ (record = NoRecord => at[Public] = Absent)
    BY DEF IInv, Untouched, RecordFits, ClaimInPlace, NoRecord, Unplaced, prove_no_public_target
  <2> QED BY <2>1, <2>2 DEF Open
<1>2. CASE Vacant \/ FreshCreate \/ FinishPreclaim \/ AbandonPreclaim
  BY <1>2, Names, Named DEF Vacant, FreshCreate, FinishPreclaim, AbandonPreclaim,
    prove_no_public_target, PreclaimClear, At, Step, Close, Refuse, Transition, Unharmed,
    Ghosts, IInv, Untouched, StepFits, NoSession, RecordFits, RecordParses, Placed, Types,
    Records, Sessions, Targets, Registrations, Entries, Registered, Unregistered, Absent,
    Foreign, Unplaced, CallFits, ClaimInPlace, ClaimStaged, ClaimMoved, prove_owned_at,
    BoundInPlace, RemovedInPlace, NotQuarantined, Quarantined, Deleted, prove_discardable_at,
    registration_is_discardable
<1>3. CASE Claim \/ PublishClaim \/ LocateClaim \/ Populate
  BY <1>3, Names, Named DEF Claim, PublishClaim, LocateClaim, Populate, prove_owned_at,
    ClaimStaged, ClaimMoved, ClaimPublic, StagedClear, Unclaimed, Empty, prove_bound_at,
    registration_is_exact, At, Step, Close, Refuse, Transition, Move, Unharmed, Ghosts, IInv,
    Untouched, StepFits, NoSession, RecordFits, RecordParses, Placed, Types, Records, Sessions,
    Targets, Registrations, Entries, Registered, Unregistered, Absent, Foreign, Unplaced,
    CallFits, ClaimInPlace, prove_no_public_target, BoundInPlace, RemovedInPlace,
    NotQuarantined, Quarantined, Deleted, prove_discardable_at, registration_is_discardable
<1>4. CASE Settle
  BY <1>4, Names, Named DEF Settle, At, Step, Transition, Unharmed, Ghosts, IInv, Untouched,
    StepFits, NoSession, RecordFits, RecordParses, Placed, Types, Records, Sessions, Targets,
    Registrations, Entries, Registered, Unregistered, Absent, Foreign, Unplaced, CallFits,
    ClaimInPlace, ClaimStaged, ClaimMoved, prove_no_public_target, prove_owned_at,
    BoundInPlace, RemovedInPlace, NotQuarantined, Quarantined, Deleted, prove_discardable_at,
    registration_is_discardable
<1>5. CASE Bind
  <2>1. record.state = "ready"
    BY <1>5 DEF Bind, At, IInv, StepFits
  <2>2. session.op = "acquire_existing" => purpose = "candidate"
    BY DEF IInv, CallFits, Types
  <2> QED BY <1>5, <2>1, <2>2, Names DEF Bind, At, Unharmed, prove_bound_at, prove_owned_at,
    registration_is_exact, IInv, Untouched, BoundInPlace, CallFits, RecordFits
<1>6. CASE Reconcile \/ Recover \/ Retire \/ MoveAside
  BY <1>6, Names, Named DEF Reconcile, Recover, Retire, MoveAside, ClaimStaged, ClaimMoved,
    ClaimPublic, Unclaimed, Empty, prove_bound_at, prove_owned_at, registration_is_exact,
    prove_advanced_commit, prove_one_child, registration_is_discardable, prove_discardable_at,
    NotQuarantined, Quarantined, At, Step, Close, Refuse, Transition, Move, Unharmed, Ghosts,
    IInv, Untouched, StepFits, NoSession, RecordFits, RecordParses, Placed, Types, Records,
    Sessions, Targets, Registrations, Entries, Registered, Unregistered, Absent, Foreign,
    Unplaced, CallFits, ClaimInPlace, prove_no_public_target, BoundInPlace, RemovedInPlace,
    Deleted
<1>7. CASE LocateAside \/ Delete \/ Bury \/ Remove
  BY <1>7, Names, Named DEF LocateAside, Delete, Bury, Remove, Quarantined,
    prove_discardable_at, prove_owned_at, registration_is_discardable, Deleted, Held, At, Step,
    Close, Refuse, Transition, Unharmed, Ghosts, IInv, Untouched, StepFits, NoSession,
    RecordFits, RecordParses, Placed, Types, Records, Sessions, Targets, Registrations,
    Entries, Registered, Unregistered, Absent, Foreign, Unplaced, CallFits, ClaimInPlace,
    ClaimStaged, ClaimMoved, prove_no_public_target, BoundInPlace, RemovedInPlace,
    NotQuarantined
<1>8. CASE CloseHandle \/ ProveForUse \/ BeginAdvance \/ Commit
  BY <1>8, Names, Named DEF CloseHandle, ProveForUse, BeginAdvance, Commit, Held,
    prove_bound_at, prove_owned_at, registration_is_exact, Close, Refuse, Transition, Unharmed,
    Ghosts, IInv, Untouched, StepFits, NoSession, RecordFits, RecordParses, Placed, Types,
    Records, Sessions, Targets, Registrations, Entries, Registered, Unregistered, Absent,
    Foreign, Unplaced, CallFits, ClaimInPlace, ClaimStaged, ClaimMoved, prove_no_public_target,
    BoundInPlace, RemovedInPlace, NotQuarantined, Quarantined, Deleted, prove_discardable_at,
    registration_is_discardable
<1>9. CASE CompleteAdvance \/ Write \/ Drift \/ Probing
  BY <1>9, Names, Named DEF CompleteAdvance, Write, Drift, Probing, Held,
    prove_advanced_commit, prove_one_child, prove_owned_at, registration_is_exact, Commits,
    ProbeBegin, Probe, ProbeAgain, ProbeSeen, Close, Refuse, Transition, Unharmed, Ghosts,
    IInv, Untouched, StepFits, NoSession, RecordFits, RecordParses, Placed, Types, Records,
    Sessions, Targets, Registrations, Entries, Registered, Unregistered, Absent, Foreign,
    Unplaced, CallFits, ClaimInPlace, ClaimStaged, ClaimMoved, prove_no_public_target,
    BoundInPlace, RemovedInPlace, NotQuarantined, Quarantined, Deleted, prove_discardable_at,
    registration_is_discardable
<1>10. CASE Die \/ Squat \/ Displace \/ Replace
  BY <1>10, Names, Named DEF Die, Squat, Displace, Replace, Close, Touch, IInv, Untouched,
    StepFits, NoSession, RecordFits, RecordParses, Placed, Types, Records, Sessions, Targets,
    Registrations, Entries, Registered, Unregistered, Absent, Foreign, Unplaced, CallFits,
    ClaimInPlace, ClaimStaged, ClaimMoved, prove_no_public_target, prove_owned_at,
    BoundInPlace, RemovedInPlace, NotQuarantined, Quarantined, Deleted, prove_discardable_at,
    registration_is_discardable
<1>11. CASE MoveHead \/ LateWrite
  BY <1>11, Names, Named DEF MoveHead, LateWrite, Commits, Touch, IInv, Untouched, StepFits,
    NoSession, RecordFits, RecordParses, Placed, Types, Records, Sessions, Targets,
    Registrations, Entries, Registered, Unregistered, Absent, Foreign, Unplaced, CallFits,
    ClaimInPlace, ClaimStaged, ClaimMoved, prove_no_public_target, prove_owned_at,
    BoundInPlace, RemovedInPlace, NotQuarantined, Quarantined, Deleted, prove_discardable_at,
    registration_is_discardable
<1> QED BY <1>1, <1>2, <1>3, <1>4, <1>5, <1>6, <1>7, <1>8, <1>9, <1>10, <1>11 DEF Next,
  SessionStep, HolderStep, Intrude

(* Interference is not forgotten. *)
LEMMA TouchedStays ==
  ASSUME Next
  PROVE  touched' \in {TRUE, touched}
<1>1. CASE Calls \/ Vacant \/ FreshCreate \/ FinishPreclaim
  BY <1>1 DEF Calls, Vacant, FreshCreate, FinishPreclaim, Open, At, Step, Close, Refuse,
    Transition, Unharmed, Ghosts, IInv
<1>2. CASE AbandonPreclaim \/ Claim \/ PublishClaim \/ LocateClaim
  BY <1>2 DEF AbandonPreclaim, Claim, PublishClaim, LocateClaim, At, Step, Close, Refuse,
    Transition, Move, Unharmed, Ghosts, IInv
<1>3. CASE Populate \/ Settle \/ Bind \/ Reconcile
  BY <1>3 DEF Populate, Settle, Bind, Reconcile, At, Step, Close, Refuse, Transition, Unharmed,
    Ghosts, IInv
<1>4. CASE Recover \/ Retire \/ MoveAside \/ LocateAside
  BY <1>4 DEF Recover, Retire, MoveAside, LocateAside, At, Step, Close, Refuse, Transition,
    Move, Unharmed, Ghosts, IInv
<1>5. CASE Delete \/ Bury \/ Remove \/ CloseHandle
  BY <1>5 DEF Delete, Bury, Remove, CloseHandle, Held, At, Step, Close, Transition, Unharmed,
    Ghosts, IInv
<1>6. CASE ProveForUse \/ BeginAdvance \/ Commit \/ CompleteAdvance
  BY <1>6 DEF ProveForUse, BeginAdvance, Commit, CompleteAdvance, Held, Close, Refuse,
    Transition, Unharmed, Ghosts, IInv
<1>7. CASE Write \/ Drift \/ Probing \/ Die
  BY <1>7 DEF Write, Drift, Probing, Die, Held, ProbeBegin, Probe, ProbeAgain, Close, Ghosts,
    IInv
<1>8. CASE Squat \/ Displace \/ Replace \/ MoveHead
  BY <1>8 DEF Squat, Displace, Replace, MoveHead, Touch, IInv
<1>9. CASE LateWrite
  BY <1>9 DEF LateWrite, Touch, IInv
<1> QED BY <1>1, <1>2, <1>3, <1>4, <1>5, <1>6, <1>7, <1>8, <1>9 DEF Next, SessionStep,
  HolderStep, Intrude

(* Only a lookup changes how far a lookup is. *)
LEMMA ProbesAlone ==
  ASSUME Next, ~Probing
  PROVE  probing' = probing
<1>1. CASE Calls \/ Vacant \/ FreshCreate \/ FinishPreclaim
  BY <1>1 DEF Calls, Vacant, FreshCreate, FinishPreclaim, Open, At, Step, Close, Refuse,
    Transition, Unharmed, Ghosts, IInv
<1>2. CASE AbandonPreclaim \/ Claim \/ PublishClaim \/ LocateClaim
  BY <1>2 DEF AbandonPreclaim, Claim, PublishClaim, LocateClaim, At, Step, Close, Refuse,
    Transition, Move, Unharmed, Ghosts, IInv
<1>3. CASE Populate \/ Settle \/ Bind \/ Reconcile
  BY <1>3 DEF Populate, Settle, Bind, Reconcile, At, Step, Close, Refuse, Transition, Unharmed,
    Ghosts, IInv
<1>4. CASE Recover \/ Retire \/ MoveAside \/ LocateAside
  BY <1>4 DEF Recover, Retire, MoveAside, LocateAside, At, Step, Close, Refuse, Transition,
    Move, Unharmed, Ghosts, IInv
<1>5. CASE Delete \/ Bury \/ Remove \/ CloseHandle
  BY <1>5 DEF Delete, Bury, Remove, CloseHandle, Held, At, Step, Close, Transition, Unharmed,
    Ghosts, IInv
<1>6. CASE ProveForUse \/ BeginAdvance \/ Commit \/ CompleteAdvance
  BY <1>6 DEF ProveForUse, BeginAdvance, Commit, CompleteAdvance, Held, Close, Refuse,
    Transition, Unharmed, Ghosts, IInv
<1>7. CASE Write \/ Drift \/ Die \/ Squat
  BY <1>7 DEF Write, Drift, Die, Squat, Held, Close, Ghosts, Touch, IInv
<1>8. CASE Displace \/ Replace \/ MoveHead \/ LateWrite
  BY <1>8 DEF Displace, Replace, MoveHead, LateWrite, Touch, IInv
<1> QED BY <1>1, <1>2, <1>3, <1>4, <1>5, <1>6, <1>7, <1>8 DEF Next, SessionStep, HolderStep,
  Intrude

(* A generation keeps its name; its commit moves to the announced child only. *)
LEMMA AdvanceStep ==
  ASSUME IInv, Next
  PROVE  /\ record.nonce # 0 => record'.nonce # 0
         /\ record'.nonce = record.nonce /\ record'.sha # record.sha =>
              record.state = "advancing" /\ record'.sha = record.sha + 1
<1>1. CASE Calls \/ Vacant
  BY <1>1 DEF Calls, Vacant, Open, At, Close, Refuse, Unharmed, Ghosts, IInv, Types, Records,
    StepFits
<1>2. CASE FreshCreate
  <2>1. FreshNonce \in FreshNonces
    BY <1>2, FreshNonceExists DEF FreshCreate, At, IInv, StepFits
  <2>2. FreshNonce # record.nonce /\ FreshNonce # 0
    BY <2>1, Names DEF FreshNonces
  <2>3. record' = record \/ record'.nonce = FreshNonce
    BY <1>2 DEF FreshCreate, Transition, Refuse
  <2> QED BY <2>2, <2>3
<1>3. CASE FinishPreclaim \/ AbandonPreclaim \/ Claim \/ PublishClaim
  BY <1>3 DEF FinishPreclaim, AbandonPreclaim, Claim, PublishClaim, At, Step, Close, Refuse,
    Transition, Move, Unharmed, Ghosts, IInv, Types, Records, StepFits
<1>4. CASE LocateClaim \/ Populate \/ Settle \/ Bind
  BY <1>4 DEF LocateClaim, Populate, Settle, Bind, At, Step, Close, Refuse, Transition,
    Unharmed, Ghosts, IInv, Types, Records, StepFits
<1>5. CASE Reconcile \/ Recover \/ Retire \/ MoveAside
  BY <1>5 DEF Reconcile, Recover, Retire, MoveAside, prove_advanced_commit, prove_one_child,
    At, Step, Close, Refuse, Transition, Move, Unharmed, Ghosts, IInv, Types, Records, StepFits
<1>6. CASE LocateAside \/ Delete \/ Bury \/ Remove
  BY <1>6 DEF LocateAside, Delete, Bury, Remove, Held, At, Step, Close, Refuse, Transition,
    Unharmed, Ghosts, IInv, Types, Records, StepFits
<1>7. CASE CloseHandle \/ ProveForUse \/ BeginAdvance \/ Commit
  BY <1>7 DEF CloseHandle, ProveForUse, BeginAdvance, Commit, Held, Close, Refuse, Transition,
    Unharmed, Ghosts, IInv, Types, Records, StepFits
<1>8. CASE CompleteAdvance \/ Write \/ Drift \/ Probing
  BY <1>8 DEF CompleteAdvance, Write, Drift, Probing, Held, prove_advanced_commit,
    prove_one_child, ProbeBegin, Probe, ProbeAgain, Close, Refuse, Transition, Unharmed,
    Ghosts, IInv, Types, Records, StepFits
<1>9. CASE Die \/ Squat \/ Displace \/ Replace
  BY <1>9 DEF Die, Squat, Displace, Replace, Close, Touch, IInv, Types, Records, StepFits
<1>10. CASE MoveHead \/ LateWrite
  BY <1>10 DEF MoveHead, LateWrite, Touch, IInv, Types, Records, StepFits
<1> QED BY <1>1, <1>2, <1>3, <1>4, <1>5, <1>6, <1>7, <1>8, <1>9, <1>10 DEF Next, SessionStep,
  HolderStep, Intrude

(* A refusal has a cause, also that of a lookup without the lease.         *)
LEMMA RefusalHasCauseKept ==
  ASSUME IInv, Next
  PROVE  RefusalHasCause'
<1>1. touched' \in {TRUE, touched} /\ touched \in BOOLEAN
  BY TouchedStays DEF IInv, Types
<1>2. refused' => touched'
  <2>1. CASE touched = TRUE
    BY <1>1, <2>1
  <2>2. CASE touched = FALSE
    BY <2>2, NotRefused DEF IInv, RefusalHasCause
  <2> QED BY <1>1, <2>1, <2>2
<1>3. CASE Probing
  <2>1. /\ UNCHANGED << record, touched >> /\ (probing' = "refused" /\ probing # "refused" =>
             \/ at[Public] # Absent \/ reg[Public] # Unregistered)
    BY <1>3 DEF Probing, ProbeBegin, Probe, ProbeAgain, ProbeSeen
  <2>2. touched = FALSE /\ record = NoRecord => prove_no_public_target
    BY DEF IInv, Untouched, ClaimInPlace, NoRecord, Unplaced
  <2> QED BY <1>1, <1>2, <2>1, <2>2 DEF IInv, RefusalHasCause, prove_no_public_target
<1>4. CASE ~Probing
  <2>1. probing' = probing
    BY <1>4, ProbesAlone
  <2>2. record # NoRecord => record' # NoRecord
    <3>1. record # NoRecord => record.nonce \in Nonces
      BY DEF IInv, RecordFits, Types, Records
    <3> QED BY AdvanceStep, Names DEF NoRecord, IInv, RecordFits
  <2>3. probing = "refused" => touched \/ record # NoRecord
    BY DEF IInv, RefusalHasCause
  <2>4. probing' = "refused" => touched' \/ record' # NoRecord
    <3>1. CASE touched = TRUE
      BY <1>1, <3>1
    <3>2. CASE touched = FALSE
      BY <2>1, <2>2, <2>3, <3>2
    <3> QED BY <1>1, <3>1, <3>2
  <2> QED BY <1>2, <2>4 DEF RefusalHasCause
<1> QED BY <1>3, <1>4

(* No step takes what is somebody else's. *)
LEMMA LossStep ==
  ASSUME IInv, Next
  PROVE  /\ \A leaf \in Leaves : at[leaf] = Foreign => at'[leaf] = Foreign
         /\ purpose = "candidate" =>
              /\ at[Public] \in filled /\ at'[Public] # at[Public] =>
                   record.state = "removing" \/ touched' # touched
              /\ record'.state = "removing" /\ record.state # "removing" =>
                   session.op = "remove"
<1>1. CASE Calls \/ Vacant
  BY <1>1, Names, Named DEF Calls, Vacant, Open, At, Close, Refuse, Unharmed, Ghosts, IInv,
    Types, Records, Targets, StepFits, RecordFits, CallFits, Absent, Foreign
<1>2. CASE FreshCreate
  <2>1. at' = at /\ (record' = record \/ record'.state = "preclaim")
    BY <1>2 DEF FreshCreate, Transition, Refuse, Unharmed
  <2> QED BY <2>1
<1>3. CASE FinishPreclaim \/ AbandonPreclaim \/ Claim \/ PublishClaim
  BY <1>3, Names, Named DEF FinishPreclaim, AbandonPreclaim, Claim, PublishClaim, ClaimStaged,
    prove_owned_at, At, Step, Close, Refuse, Transition, Move, Unharmed, Ghosts, IInv, Types,
    Records, Targets, StepFits, RecordFits, CallFits, Absent, Foreign
<1>4. CASE LocateClaim \/ Populate \/ Settle \/ Bind
  BY <1>4, Names, Named DEF LocateClaim, Populate, Settle, Bind, At, Step, Close, Refuse,
    Transition, Unharmed, Ghosts, IInv, Types, Records, Targets, StepFits, RecordFits,
    CallFits, Absent, Foreign
<1>5. CASE Reconcile \/ Recover
  BY <1>5, Names, Named DEF Reconcile, Recover, At, Step, Close, Refuse, Transition, Unharmed,
    Ghosts, IInv, Types, Records, Targets, StepFits, RecordFits, CallFits, Absent, Foreign
<1>6. CASE Retire \/ MoveAside
  BY <1>6, Names, Named DEF Retire, MoveAside, NotQuarantined, prove_discardable_at,
    prove_owned_at, At, Step, Close, Refuse, Transition, Move, Unharmed, Ghosts, IInv, Types,
    Records, Targets, StepFits, RecordFits, CallFits, Absent, Foreign
<1>7. CASE LocateAside \/ Delete \/ Bury \/ Remove
  BY <1>7, Names, Named DEF LocateAside, Delete, Bury, Remove, prove_discardable_at,
    prove_owned_at, Held, At, Step, Close, Refuse, Transition, Unharmed, Ghosts, IInv, Types,
    Records, Targets, StepFits, RecordFits, CallFits, Absent, Foreign
<1>8. CASE CloseHandle \/ ProveForUse \/ BeginAdvance \/ Commit
  BY <1>8, Names, Named DEF CloseHandle, ProveForUse, BeginAdvance, Commit, Held, Close,
    Refuse, Transition, Unharmed, Ghosts, IInv, Types, Records, Targets, StepFits, RecordFits,
    CallFits, Absent, Foreign
<1>9. CASE CompleteAdvance \/ Write \/ Drift \/ Probing
  BY <1>9, Names, Named DEF CompleteAdvance, Write, Drift, Probing, Held, ProbeBegin, Probe,
    ProbeAgain, Close, Refuse, Transition, Unharmed, Ghosts, IInv, Types, Records, Targets,
    StepFits, RecordFits, CallFits, Absent, Foreign
<1>10. CASE Die \/ Squat \/ Displace \/ Replace
  BY <1>10, Names, Named DEF Die, Squat, Displace, Replace, Close, Touch, IInv, Types, Records,
    Targets, StepFits, RecordFits, CallFits, Absent, Foreign
<1>11. CASE MoveHead \/ LateWrite
  BY <1>11, Names, Named DEF MoveHead, LateWrite, Touch, IInv, Types, Records, Targets,
    StepFits, RecordFits, CallFits, Absent, Foreign
<1> QED BY <1>1, <1>2, <1>3, <1>4, <1>5, <1>6, <1>7, <1>8, <1>9, <1>10, <1>11 DEF Next,
  SessionStep, HolderStep, Intrude

(* A stuttering step keeps the invariant.                                  *)
LEMMA UnchangedKeeps ==
  ASSUME IInv, UNCHANGED vars
  PROVE  IInv'
BY DEF vars, IInv, Types, RecordFits, RecordParses, StepFits, CallFits, Placed, StagingBounded,
  Staged, Untouched, ClaimInPlace, BoundInPlace, RemovedInPlace, prove_no_public_target,
  ClaimStaged, ClaimMoved, prove_owned_at, prove_discardable_at, registration_is_discardable,
  NotQuarantined, Quarantined, Deleted, Staging, Quarantine, RefusalHasCause
(* The first state satisfies the invariant.                                *)
LEMMA Started ==
  ASSUME Init
  PROVE  IInv
<1>1. Types
  <2>1. record \in Records /\ session \in Sessions
    BY DEF Init, NoRecord, NoSession, Records, Sessions, States, Locations, Steps, Unplaced, Ops
  <2>2. at \in Targets /\ reg \in Registrations
    BY DEF Init, Targets, Registrations, Entries, Unregistered
  <2> QED BY <2>1, <2>2 DEF Init, Types, Lookups
<1>2. RecordFits /\ StepFits /\ CallFits
  BY DEF Init, RecordFits, RecordParses, StepFits, CallFits, NoRecord, NoSession, Unplaced
<1>3. Placed
  BY Names DEF Init, Placed
<1>4. StagingBounded
  <2>1. Staged = {}
    BY Names DEF Init, Staged, Absent
  <2>2. Staged \ {record.nonce} = {} /\ Cardinality({}) = 0 /\ MaxAbandoned \in Nat
    BY <2>1, FS_EmptySet, WorktreeAssumption
  <2> QED BY <2>1, <2>2, Names DEF Init, StagingBounded, Absent, Foreign
<1>5. Untouched
  <2>1. ClaimInPlace
    BY Names DEF Init, ClaimInPlace, NoRecord, NoSession, Unplaced, prove_no_public_target
  <2>2. BoundInPlace /\ RemovedInPlace
    BY DEF Init, BoundInPlace, RemovedInPlace, NoRecord
  <2> QED BY <2>1, <2>2 DEF Untouched
<1>6. RefusalHasCause
  BY DEF Init, RefusalHasCause
<1> QED BY <1>1, <1>2, <1>3, <1>4, <1>5, <1>6 DEF IInv

(* Every step of the specification keeps the invariant.                    *)
LEMMA StepKeeps ==
  ASSUME IInv, [Next]_vars
  PROVE  IInv'
<1>1. CASE Next
  <2>1. Untouched'
    BY <1>1, ClaimInPlaceKept, BoundInPlaceKept, RemovedInPlaceKept DEF Untouched
  <2> QED BY <1>1, <2>1, TypesKept, RecordFitsKept, StepFitsKept, CallFitsKept, PlacedKept,
             StagingBoundedKept, RefusalHasCauseKept DEF IInv
<1>2. CASE UNCHANGED vars
  BY <1>2, UnchangedKeeps
<1> QED BY <1>1, <1>2

(* The record, the session and the names in the worktrees root fit each    *)
(* other at every step, and the target is in place until it is touched.    *)
THEOREM Invariance == Spec => []IInv
<1>1. Init => IInv
  BY Started
<1>2. IInv /\ [Next]_vars => IInv'
  BY StepKeeps
<1> QED BY <1>1, <1>2, PTL DEF Spec

(* Wherever sessions died, an operation refuses only after somebody else   *)
(* has touched the target.                                                 *)
THEOREM RefusalsHaveCause == Spec => []RefusalHasCause
<1>1. IInv => RefusalHasCause
  BY DEF IInv
<1> QED BY <1>1, Invariance, PTL

(* A live handle stands for a generation that is on disk, in its place and *)
(* registered at the commit that the record binds.                         *)
THEOREM HandlesBacked == Spec => []HandleBacked
<1>1. ASSUME IInv PROVE HandleBacked
  <2> SUFFICES ASSUME Held PROVE HandleBacked
    BY DEF HandleBacked
  <2>1. /\ record.state \in {"ready", "advancing"} /\ record.nonce # 0
        /\ purpose = "view" => record.state = "ready" /\ record.sha = session.sha
        /\ purpose \in {"candidate", "view"} /\ touched \in BOOLEAN
    BY <1>1, Names DEF IInv, Types, Held, StepFits, CallFits, RecordFits, Unplaced
  <2>2. touched = FALSE => BoundInPlace
    BY <1>1 DEF IInv, Untouched
  <2>3. \A entry : entry.detached = TRUE => entry # Unregistered
    BY DEF Unregistered
  <2> QED BY <2>1, <2>2, <2>3, Told DEF HandleBacked, BoundInPlace, prove_discardable_at,
             prove_owned_at, registration_is_discardable
<1> QED BY <1>1, Invariance, PTL

(* The commit bound to a generation moves only to the one child that was   *)
(* announced, whatever died and whoever moved HEAD.                        *)
THEOREM CommitsAdvance == Spec => BoundCommitAdvances
<1>1. IInv /\ [Next]_vars =>
        [record'.nonce = record.nonce /\ record'.sha # record.sha =>
           record.state = "advancing" /\ record'.sha = record.sha + 1]_vars
  BY AdvanceStep
<1> QED BY <1>1, Invariance, PTL DEF Spec, BoundCommitAdvances

(* No directory of somebody else is moved, filled or removed, and a        *)
(* candidate's checkout goes only by an explicit removal.                  *)
THEOREM NothingIsLost == Spec => NothingLost
<1>1. IInv /\ [Next]_vars =>
        [/\ \A leaf \in Leaves : at[leaf] = Foreign => at'[leaf] = Foreign
         /\ purpose = "candidate" =>
              /\ at[Public] \in filled /\ at'[Public] # at[Public] =>
                   record.state = "removing" \/ touched' # touched
              /\ record'.state = "removing" /\ record.state # "removing" =>
                   session.op = "remove"]_vars
  BY LossStep
<1> QED BY <1>1, Invariance, PTL DEF Spec, NothingLost
=============================================================================
