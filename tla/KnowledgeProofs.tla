-------------------------- MODULE KnowledgeProofs ---------------------------
(***************************************************************************)
(* The safety properties of KnowledgeBase hold for any number of           *)
(* operations, runs, names and records, and whatever the callers hand over.*)
(*                                                                         *)
(* ClaimsTraceable is not inductive: an export is checked against the      *)
(* promotion alone, so the invariant also says that every promotion still  *)
(* has its assertion, which in turn needs that no transaction takes a      *)
(* record away or changes what a stable id names.                          *)
(***************************************************************************)
EXTENDS KnowledgeBase, TLAPS

\* Every promotion has a stored assertion that says the same in the same run.
PromotionsTraceable ==
    \A p \in promotions :
        \E a \in assertions : a.id = SourceOf(p) /\ a.run = p.run /\ a.claim = p.claim

IInv == TypeOK /\ PromotionsTraceable /\ ClaimsTraceable /\ ReadsSucceed

-----------------------------------------------------------------------------
\* Replay-safe persistence keeps what is stored, adds nothing but what it is
\* given, and keeps stable ids unambiguous (replay.lisp:35-79).
LEMMA PersistedInserts ==
    ASSUME NEW stored, NEW new, OneContentPerId(stored), OneContentPerId(new)
    PROVE  /\ stored \subseteq Persisted(stored, new)
           /\ Persisted(stored, new) \subseteq stored \cup new
           /\ OneContentPerId(Persisted(stored, new))
<1>1. CASE \A x \in new, y \in stored : x.id = y.id => x = y
  <2>1. Persisted(stored, new) = stored \cup new
    BY <1>1 DEF Persisted
  <2> QED
    BY <1>1, <2>1 DEF OneContentPerId
<1>2. CASE ~\A x \in new, y \in stored : x.id = y.id => x = y
  BY <1>2 DEF Persisted
<1> QED
  BY <1>1, <1>2

\* One record never contradicts itself.
LEMMA SingletonUnambiguous == ASSUME NEW x PROVE OneContentPerId({x})
BY DEF OneContentPerId

\* The assertions of one transaction are well formed and do not contradict each
\* other (kb-seed-import.lisp:64-73: an id per canonical value).
LEMMA BatchWellFormed ==
    ASSUME NEW batch \in Batches
    PROVE  batch \subseteq Assertion /\ OneContentPerId(batch)
BY DEF Batches, OneContentPerId

-----------------------------------------------------------------------------
LEMMA InitIInv == Init => IInv
BY DEF Init, IInv, TypeOK, PromotionsTraceable, ClaimsTraceable, ReadsSucceed,
       OneContentPerId, Retracted

\* What a step may do to the stores: all four only grow.
Grows ==
    /\ assertions \subseteq assertions'
    /\ retractions \subseteq retractions'
    /\ promotions \subseteq promotions'
    /\ exports \subseteq exports'

LEMMA RecordStep ==
    ASSUME IInv, NEW batch \in Batches, Record(batch)
    PROVE  IInv' /\ Grows
<1>1. /\ assertions \subseteq assertions'
      /\ assertions' \subseteq assertions \cup batch
      /\ OneContentPerId(assertions')
  BY BatchWellFormed, PersistedInserts DEF IInv, TypeOK, Record
<1>2. UNCHANGED <<retractions, promotions, exports>>
  BY DEF Record
<1>3. TypeOK'
  BY <1>1, <1>2, BatchWellFormed DEF IInv, TypeOK, OneContentPerId
<1>4. PromotionsTraceable'
  BY <1>1, <1>2 DEF IInv, PromotionsTraceable, SourceOf
<1>5. ClaimsTraceable'
  BY <1>1, <1>2 DEF IInv, ClaimsTraceable, SourceOf
<1>6. ReadsSucceed'
  BY <1>1, <1>2 DEF IInv, ReadsSucceed, Retracted
<1> QED
  BY <1>1, <1>2, <1>3, <1>4, <1>5, <1>6 DEF IInv, Grows

LEMMA RetractStep ==
    ASSUME IInv, NEW r \in Retraction, Retract(r)
    PROVE  IInv' /\ Grows
<1>1. /\ retractions \subseteq retractions'
      /\ retractions' \subseteq retractions \cup {r}
      /\ OneContentPerId(retractions')
  BY SingletonUnambiguous, PersistedInserts DEF IInv, TypeOK, Retract
<1>2. UNCHANGED <<assertions, promotions, exports>>
  BY DEF Retract
<1>3. TypeOK'
  BY <1>1, <1>2 DEF IInv, TypeOK, OneContentPerId
<1>4. PromotionsTraceable' /\ ClaimsTraceable'
  BY <1>2 DEF IInv, PromotionsTraceable, ClaimsTraceable, SourceOf
<1>5. ReadsSucceed'
  BY <1>1, <1>2 DEF IInv, ReadsSucceed, Retracted, Retract, TargetStands
<1> QED
  BY <1>1, <1>2, <1>3, <1>4, <1>5 DEF IInv, Grows

LEMMA PromoteStep ==
    ASSUME IInv, NEW p \in Promotion, Promote(p)
    PROVE  IInv' /\ Grows
<1>1. /\ promotions \subseteq promotions'
      /\ promotions' \subseteq promotions \cup {p}
      /\ OneContentPerId(promotions')
  BY SingletonUnambiguous, PersistedInserts DEF IInv, TypeOK, Promote
<1>2. UNCHANGED <<assertions, retractions, exports>>
  BY DEF Promote
<1>3. TypeOK'
  BY <1>1, <1>2 DEF IInv, TypeOK, OneContentPerId
<1>4. PromotionsTraceable'
  BY <1>1, <1>2 DEF IInv, PromotionsTraceable, SourceOf, Promote, Promotable
<1>5. ClaimsTraceable'
  BY <1>1, <1>2 DEF IInv, ClaimsTraceable, SourceOf
<1>6. ReadsSucceed'
  BY <1>2 DEF IInv, ReadsSucceed, Retracted
<1> QED
  BY <1>1, <1>2, <1>3, <1>4, <1>5, <1>6 DEF IInv, Grows

LEMMA PublishStep ==
    ASSUME IInv, NEW e \in Export, Publish(e)
    PROVE  IInv' /\ Grows
<1>1. /\ exports \subseteq exports'
      /\ exports' \subseteq exports \cup {e}
      /\ OneContentPerId(exports')
  BY SingletonUnambiguous, PersistedInserts DEF IInv, TypeOK, Publish
<1>2. UNCHANGED <<assertions, retractions, promotions>>
  BY DEF Publish
<1>3. TypeOK'
  BY <1>1, <1>2 DEF IInv, TypeOK, OneContentPerId
<1>4. PromotionsTraceable'
  BY <1>2 DEF IInv, PromotionsTraceable, SourceOf
<1>5. ClaimsTraceable'
  <2>1. PICK p \in promotions :
            p.id = SourceOf(e) /\ p.run = e.run /\ p.claim = e.claim /\ p.ground = e.ground
    BY DEF Publish, Exportable
  <2>2. PICK a \in assertions : a.id = SourceOf(p) /\ a.run = p.run /\ a.claim = p.claim
    BY DEF IInv, PromotionsTraceable
  <2> QED
    BY <1>1, <1>2, <2>1, <2>2 DEF IInv, ClaimsTraceable, SourceOf
<1>6. ReadsSucceed'
  BY <1>2 DEF IInv, ReadsSucceed, Retracted
<1> QED
  BY <1>1, <1>2, <1>3, <1>4, <1>5, <1>6 DEF IInv, Grows

LEMMA StepIInv == IInv /\ [Next]_vars => IInv' /\ Grows
<1> SUFFICES ASSUME IInv, [Next]_vars PROVE IInv' /\ Grows
  OBVIOUS
<1>1. CASE Next
  BY <1>1, RecordStep, RetractStep, PromoteStep, PublishStep DEF Next
<1>2. CASE UNCHANGED vars
  BY <1>2 DEF vars, IInv, TypeOK, PromotionsTraceable, ClaimsTraceable, ReadsSucceed,
              OneContentPerId, Retracted, SourceOf, Grows
<1> QED
  BY <1>1, <1>2

\* The invariant, and that no transaction ever takes a record away.
THEOREM KnowledgeInvariant == Spec => []IInv /\ [][Grows]_vars
<1>1. IInv /\ [Next]_vars => IInv' /\ [Grows]_vars
  BY StepIInv
<1> QED
  BY InitIInv, <1>1, PTL DEF Spec

-----------------------------------------------------------------------------
\* Types, and one record per stable id, in every graph (replay.lisp:35-79).
THEOREM TypeCorrect == Spec => []TypeOK
<1>1. IInv => TypeOK
  BY DEF IInv
<1> QED
  BY KnowledgeInvariant, <1>1, PTL

\* Every export says what a stored promotion and a stored assertion say
\* (db.lisp:241-282, 325-360).
THEOREM ExportsAreTraceable == Spec => []ClaimsTraceable
<1>1. IInv => ClaimsTraceable
  BY DEF IInv
<1> QED
  BY KnowledgeInvariant, <1>1, PTL

\* The effective read never fails on a stored retraction
\* (effective-operational-kb.lisp:22-28).
THEOREM EffectiveReadsSucceed == Spec => []ReadsSucceed
<1>1. IInv => ReadsSucceed
  BY DEF IInv
<1> QED
  BY KnowledgeInvariant, <1>1, PTL

\* What is retracted stays hidden, from every filter (effective-operational-kb.lisp:7-9).
THEOREM RetractedStaysHidden == Spec => NeverResurrected
<1>1. [Grows]_vars =>
        [\A op \in Operations, run \in Runs \cup {AllRuns} :
            \A a \in Effective(op, run)' : a.id \notin Retracted]_vars
  <2> SUFFICES ASSUME Grows,
                      NEW op \in Operations, NEW run \in Runs \cup {AllRuns},
                      NEW a \in Effective(op, run)'
               PROVE  a.id \notin Retracted
    OBVIOUS
  <2>1. a.id \notin Retracted'
    BY DEF Effective
  <2>2. Retracted \subseteq Retracted'
    BY DEF Grows, Retracted
  <2> QED
    BY <2>1, <2>2
<1> QED
  BY KnowledgeInvariant, <1>1, PTL DEF NeverResurrected

\* A retracted assertion is not promoted any more, and loses no promotion
\* (db.lisp:274-282).
THEOREM RetractionIsClosing == Spec => RetractionCloses
<1>1. ASSUME IInv, Next, Grows,
             NEW id \in Retracted
      PROVE  {p \in promotions' : SourceOf(p) = id} = {p \in promotions : SourceOf(p) = id}
  <2>1. ASSUME NEW p \in promotions', p \notin promotions
        PROVE  SourceOf(p) # id
    <3>1. CASE \E q \in Promotion : Promote(q)
      <4>1. PICK q \in Promotion : Promote(q)
        BY <3>1
      <4>2. promotions' \subseteq promotions \cup {q}
        <5>1. OneContentPerId(promotions)
          BY <1>1 DEF IInv, TypeOK
        <5>2. promotions' = Persisted(promotions, {q})
          BY <4>1 DEF Promote
        <5> QED
          BY <5>1, <5>2, SingletonUnambiguous, PersistedInserts
      <4>3. p = q
        BY <2>1, <4>2
      <4> QED
        BY <4>1, <4>3 DEF Promote, Promotable
    <3>2. CASE promotions' = promotions
      BY <2>1, <3>2
    <3> QED
      BY <1>1, <3>1, <3>2 DEF Next, Record, Retract, Publish
  <2>2. promotions \subseteq promotions'
    BY <1>1 DEF Grows
  <2> QED
    BY <2>1, <2>2
<1>2. IInv /\ [Next]_vars =>
        [\A id \in Retracted :
            {p \in promotions' : SourceOf(p) = id}
                = {p \in promotions : SourceOf(p) = id}]_vars
  BY <1>1, StepIInv
<1> QED
  BY KnowledgeInvariant, <1>2, PTL DEF Spec, RetractionCloses
=============================================================================
