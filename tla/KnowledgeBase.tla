--------------------------- MODULE KnowledgeBase ----------------------------
(***************************************************************************)
(* The knowledge bases of source/hackmode-database: what an expert asserts *)
(* in one operation (operational-kb.lisp, kb-seed-import.lisp), what is    *)
(* promoted out of it (long-term-kb.lisp) and what is exported for good    *)
(* (global-kb.lisp), kept in three Tek9 graphs by db.lisp:150-401 and      *)
(* replay.lisp.                                                            *)
(*                                                                         *)
(* A call hands over a finished record and runs in one Tek9 write          *)
(* transaction, so it is one action.  The callers are not modelled: any    *)
(* record that the constructors can build may arrive at any time, because  *)
(* the caller may have read its source long ago, and more than once.  A    *)
(* refused call aborts its transaction and leaves the graphs alone.        *)
(*                                                                         *)
(* A claim stands for all that a promotion copies and compares: expert,    *)
(* version, evidence, key and value.  A ground is what it does not: the    *)
(* provenance of an assertion, the evidence of a promotion.  Roots,        *)
(* reference anchors and edges are written in the transaction of their     *)
(* record and determined by its id, and left out.                          *)
(***************************************************************************)
EXTENDS Naturals, FiniteSets

CONSTANTS Operations, \* operations, one operational graph each
          Names,      \* the caller's part of a stable id
          Runs,       \* runs of an operation
          Claims,     \* what an assertion says
          Grounds,    \* what it is said on
          AllRuns,    \* a read that does not filter by run
          MaxRecords  \* bound: records in the three graphs

ASSUME KnowledgeAssumption ==
    /\ AllRuns \notin Runs
    /\ MaxRecords \in Nat

VARIABLES assertions,  \* operational graphs, the :ASSERT entries
          retractions, \* operational graphs, the :RETRACT entries
          promotions,  \* the long-term graph
          exports      \* the global graph

vars == <<assertions, retractions, promotions, exports>>

-----------------------------------------------------------------------------
(* Records.  An id is built from the ids of what the record is about.      *)

AssertionId == Operations \X Names
PromotionId == AssertionId \X Names
ExportId == PromotionId \X Names

Assertion == [id: AssertionId, run: Runs, claim: Claims, ground: Grounds]

\* MAKE-OPERATIONAL-KB-RETRACTION: a target outside the operation is refused.
Retraction ==
    {r \in [id: Operations \X Names, run: Runs, target: AssertionId] :
        r.target[1] = r.id[1]}

\* MAKE-LONG-TERM-KB-PROMOTION copies run and claim of the assertion it is given.
Promotion == [id: PromotionId, run: Runs, claim: Claims, ground: Grounds]

\* MAKE-GLOBAL-KB-EXPORT copies run, claim and ground of the promotion.
Export == [id: ExportId, run: Runs, claim: Claims, ground: Grounds]

SourceOf(x) == x.id[1]

\* The assertions one transaction stores: one, or those of a seed import, which
\* MAKE-OPERATIONAL-KB-SEED-ASSERTIONS builds for one operation, one run and one
\* ground with an id per value.
Batches ==
    {B \in SUBSET Assertion :
        /\ B # {}
        /\ \A x, y \in B : /\ SourceOf(x) = SourceOf(y)
                           /\ x.run = y.run
                           /\ x.ground = y.ground
                           /\ x.id = y.id => x = y}

-----------------------------------------------------------------------------
(* Replay-safe persistence.                                                *)

\* Mutant of Persisted: the id is not looked up.
PersistedUnchecked(stored, new) == stored \cup new

\* Mutant of Persisted: the newcomer replaces what has its id.
PersistedUpsert(stored, new) ==
    {y \in stored : \A x \in new : x.id # y.id} \cup new

\* PERSIST-GRAPH-NODES-REPLAY-SAFE: what is stored after the transaction.  Equal
\* content is a replay; other content under a stored id aborts the whole batch.
Persisted(stored, new) ==
    IF \A x \in new, y \in stored : x.id = y.id => x = y
    THEN stored \cup new ELSE stored

-----------------------------------------------------------------------------
(* Reads.                                                                  *)

\* The ids some stored retraction names.
Retracted == {r.target : r \in retractions}

\* Mutant of Effective: the run filter comes before the retractions.
EffectiveFiltersFirst(op, run) ==
    {a \in assertions :
        /\ SourceOf(a) = op
        /\ run \in {AllRuns, a.run}
        /\ ~\E r \in retractions : r.target = a.id /\ run \in {AllRuns, r.run}}

\* FETCH-EFFECTIVE-OPERATIONAL-KB-ASSERTIONS: retractions of every run hide their
\* target, then the run filters.
Effective(op, run) ==
    {a \in assertions :
        /\ SourceOf(a) = op
        /\ a.id \notin Retracted
        /\ run \in {AllRuns, a.run}}

-----------------------------------------------------------------------------
(* What a transaction requires of the graphs.                              *)

\* Mutant of TargetStands: the constructor's scope check is taken as enough.
TargetStandsInScope(r) == r.target[1] = r.id[1]

\* %VALIDATE-OPERATIONAL-KB-RETRACTION-TARGET
TargetStands(r) == \E a \in assertions : a.id = r.target

\* Mutant of Promotable: a retracted source will do.
PromotableRetracted(p) ==
    \E a \in assertions : a.id = SourceOf(p) /\ a.run = p.run /\ a.claim = p.claim

\* %VALIDATE-LONG-TERM-KB-PROMOTION-SOURCE: the assertion as it is stored, live.
Promotable(p) ==
    /\ \E a \in assertions : a.id = SourceOf(p) /\ a.run = p.run /\ a.claim = p.claim
    /\ SourceOf(p) \notin Retracted

\* %VALIDATE-GLOBAL-KB-EXPORT-SOURCE: the promotion as it is stored.
Exportable(e) ==
    \E p \in promotions :
        p.id = SourceOf(e) /\ p.run = e.run /\ p.claim = e.claim /\ p.ground = e.ground

-----------------------------------------------------------------------------
Room(n) ==
    Cardinality(assertions) + Cardinality(retractions) + Cardinality(promotions)
        + Cardinality(exports) + n <= MaxRecords

Init ==
    /\ assertions = {}
    /\ retractions = {}
    /\ promotions = {}
    /\ exports = {}

\* PERSIST-OPERATIONAL-KB-SEED-VALUES of the batch the import builds, or
\* PERSIST-OPERATIONAL-KB-ENTRY of one assertion.
Record(batch) ==
    /\ Room(Cardinality(batch \ assertions))
    /\ assertions' = Persisted(assertions, batch)
    /\ UNCHANGED <<retractions, promotions, exports>>

\* PERSIST-OPERATIONAL-KB-ENTRY of a retraction.
Retract(r) ==
    /\ Room(1)
    /\ TargetStands(r)
    /\ retractions' = Persisted(retractions, {r})
    /\ UNCHANGED <<assertions, promotions, exports>>

\* PERSIST-LONG-TERM-KB-PROMOTION
Promote(p) ==
    /\ Room(1)
    /\ Promotable(p)
    /\ promotions' = Persisted(promotions, {p})
    /\ UNCHANGED <<assertions, retractions, exports>>

\* PERSIST-GLOBAL-KB-EXPORT: the promotion decides, a retraction that came after
\* it does not.
Publish(e) ==
    /\ Room(1)
    /\ Exportable(e)
    /\ exports' = Persisted(exports, {e})
    /\ UNCHANGED <<assertions, retractions, promotions>>

Next ==
    \/ \E batch \in Batches : Record(batch)
    \/ \E r \in Retraction : Retract(r)
    \/ \E p \in Promotion : Promote(p)
    \/ \E e \in Export : Publish(e)

Spec == Init /\ [][Next]_vars

-----------------------------------------------------------------------------
(* Properties.                                                             *)

OneContentPerId(S) == \A x, y \in S : x.id = y.id => x = y

\* Types, with "existing content is authoritative": however often and from whomever
\* a stable id arrives, it names one record (replay.lisp:35-53, 70-79).
TypeOK ==
    /\ assertions \subseteq Assertion /\ OneContentPerId(assertions)
    /\ retractions \subseteq Retraction /\ OneContentPerId(retractions)
    /\ promotions \subseteq Promotion /\ OneContentPerId(promotions)
    /\ exports \subseteq Export /\ OneContentPerId(exports)

\* Whatever is exported can be traced through the promotion it names to a stored
\* assertion that says the same in the same run, although the three graphs have no
\* references between them that Tek9 would check, and an export looks only at the
\* promotion (db.lisp:241-282, 325-360).
ClaimsTraceable ==
    \A e \in exports :
        \E p \in promotions, a \in assertions :
            /\ p.id = SourceOf(e)
            /\ p.ground = e.ground
            /\ a.id = SourceOf(p)
            /\ <<a.run, a.claim>> = <<p.run, p.claim>>
            /\ <<p.run, p.claim>> = <<e.run, e.claim>>

\* FETCH-EFFECTIVE-OPERATIONAL-KB-ASSERTIONS never meets the error it signals for a
\* stored retraction without its target (effective-operational-kb.lisp:22-28).
ReadsSucceed == Retracted \subseteq {a.id : a \in assertions}

\* What one run retracted no read shows again, whichever run it filters by and
\* whatever is asserted later under the id: "prevents a later run from retracting
\* an assertion and a filtered read from accidentally resurrecting it"
\* (effective-operational-kb.lisp:7-9).
NeverResurrected ==
    [][\A op \in Operations, run \in Runs \cup {AllRuns} :
           \A a \in Effective(op, run)' : a.id \notin Retracted]_vars

\* A retraction closes its target for promotion: the promotions of a retracted
\* assertion are those made before (db.lisp:274-282), and none of them is lost.
RetractionCloses ==
    [][\A id \in Retracted :
           {p \in promotions' : SourceOf(p) = id} = {p \in promotions : SourceOf(p) = id}]_vars
=============================================================================
