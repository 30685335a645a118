----------------------------- MODULE ResultsProofs -----------------------------
(***************************************************************************)
(* Proofs about ReviewCandidate, DataReview, ResultReplacement,            *)
(* HistoricalComparison and HistoryPanel, for every set of callers,        *)
(* results, evidence, commands and Master revisions, and every number of   *)
(* requests.                                                               *)
(***************************************************************************)
EXTENDS HistoricalComparison, HistoryPanel, FiniteSetTheorems, SequenceTheorems, TLAPS

-----------------------------------------------------------------------------
(* Candidates.                                                             *)

\* What is read of a result, its item and the Masters.
IsReading(e, rw, sm, ms) ==
  /\ IsEvidence(e) /\ rw.projected \in BOOLEAN
  /\ Len(sm) \in Nat /\ DOMAIN sm = 1 .. Len(sm) /\ (sm = <<>> <=> Len(sm) = 0)
  /\ IsFiniteSet(ms) /\ \A m \in ms : IsMaster(m)

\* A union of sets of issues is empty when each of them is.
LEMMA NothingBlocks ==
  ASSUME NEW e, NEW rw, NEW sm, NEW it, NEW ms, IsReading(e, rw, sm, ms)
  PROVE  Basis(e, rw, sm, it, ms).blocking = {} <=>
           /\ rw.status = "PENDING" /\ ~ rw.projected
           /\ e.source /\ e.unit # BadUnit
           /\ e.candidate /\ rw.status = SignedStatus(e) /\ Len(sm) = Len(e.samples)
           /\ \A i \in DOMAIN sm : sm[i].status = "PENDING"
           /\ e.binding /\ (e.dated => e.bound)
           /\ \A i \in DOMAIN sm : e.samples[i].kind # "broken"
<1> USE DEF IsReading, IsEvidence
<1>1. ProjectionIssues(rw) = {} <=> rw.status = "PENDING" /\ ~ rw.projected
  BY DEF ProjectionIssues
<1>2. SourceIssues(e) = {} <=> e.source /\ e.unit # BadUnit
  BY DEF SourceIssues
<1>3. CandidateRowIssues(e, rw, sm, SignedStatus(e)) = {} <=>
        /\ e.candidate /\ rw.status = SignedStatus(e) /\ Len(sm) = Len(e.samples)
        /\ \A i \in DOMAIN sm : sm[i].status = SignedStatus(e)
  BY DEF CandidateRowIssues
<1>4. BindingIssues(e) = {} <=> e.binding /\ (e.dated => e.bound)
  BY DEF BindingIssues
<1>5. SampleBlocks(e, rw, sm) = {} <=>
        /\ \A i \in DOMAIN sm : sm[i].status = rw.status
        /\ \A i \in DOMAIN sm : e.samples[i].kind # "broken"
  BY DEF SampleBlocks
<1>6. Basis(e, rw, sm, it, ms).blocking =
        ProjectionIssues(rw) \cup SourceIssues(e) \cup CandidateRowIssues(e, rw, sm, SignedStatus(e))
          \cup BindingIssues(e) \cup SampleBlocks(e, rw, sm)
  BY DEF Basis
<1> QED BY <1>1, <1>2, <1>3, <1>4, <1>5, <1>6

LEMMA NothingIsDoubted ==
  ASSUME NEW e, NEW rw, NEW sm, NEW it, NEW ms, IsReading(e, rw, sm, ms)
  PROVE  Basis(e, rw, sm, it, ms).doubts = {} <=>
           /\ \A i \in DOMAIN e.samples : e.samples[i].kind \in {"number", "broken"}
           /\ e.unit \notin {NoUnit, FormulaUnit}
<1> DEFINE Kinds == {e.samples[i].kind : i \in DOMAIN e.samples} \ {"number", "broken"}
           Doubt(k) == CASE k = "text" -> "NON_NUMERIC_MEASUREMENT"
                         [] k = "nonfinite" -> "NONFINITE_MEASUREMENT"
                         [] k = "formula" -> "FORMULA_MEASUREMENT"
<1>1. SampleDoubts(e) = {} <=> \A i \in DOMAIN e.samples : e.samples[i].kind \in {"number", "broken"}
  <2>1. SampleDoubts(e) = {Doubt(k) : k \in Kinds} BY DEF SampleDoubts
  <2>2. Kinds = {} <=> \A i \in DOMAIN e.samples : e.samples[i].kind \in {"number", "broken"}
    OBVIOUS
  <2> HIDE DEF Doubt, Kinds
  <2> QED BY <2>1, <2>2
<1>2. UnitDoubts(e) = {} <=> e.unit \notin {NoUnit, FormulaUnit}
  BY DEF UnitDoubts, NoUnit, FormulaUnit
<1>3. Basis(e, rw, sm, it, ms).doubts = SampleDoubts(e) \cup UnitDoubts(e) BY DEF Basis
<1> QED BY <1>1, <1>2, <1>3

\* The fields of a basis and of a candidate.
LEMMA BasisFields ==
  ASSUME NEW e, NEW rw, NEW sm, NEW it, NEW ms
  PROVE  LET b == Basis(e, rw, sm, it, ms)
         IN  /\ b.evidence = e /\ b.row = rw /\ b.samples = sm /\ b.mode = BoundMode(e)
             /\ b.item = (IF e.keyed THEN it ELSE NoItem)
             /\ b.masters = (IF b.item.disposition = "MANAGED" /\ e.dated THEN ms ELSE {})
BY DEF Basis

\* A candidate that is not evaluated does not allow VALID.
AllowsLess(b, c) ==
  /\ c.basis = b /\ c.state \in {"INELIGIBLE", "REVIEW_ONLY"}
  /\ c.allowed \subseteq {"EXCLUDED", "SUSPECT"} /\ (c.state = "INELIGIBLE" => c.allowed = {})
  /\ (b.blocking # {} => c.allowed = {})
  /\ c.master = NoMaster /\ c.judgment = "NONE"
  /\ c.comparisons = [i \in DOMAIN b.samples |-> "NOT_EVALUATED"]

SomethingIsAgainst(b) ==
  LET m == CHOOSE x \in b.masters : TRUE
  IN  \/ b.blocking # {} \/ ItemIssues(b) # {} \/ b.item.disposition = "EXCLUDED"
      \/ Cardinality(b.masters) > 1 \/ b.masters = {}
      \/ b.doubts # {} \/ MasterDoubts(b) # {} \/ MatchDoubts(b, m) # {}

LEMMA NotEvaluatedAllowsLess ==
  ASSUME NEW b, NEW state \in {"INELIGIBLE", "REVIEW_ONLY"}, NEW issues,
         NEW allowed \in SUBSET {"EXCLUDED", "SUSPECT"},
         state = "INELIGIBLE" => allowed = {}, b.blocking # {} => allowed = {}
  PROVE  AllowsLess(b, NotEvaluated(b, state, issues, allowed))
BY DEF NotEvaluated, AllowsLess

\* A candidate is evaluated exactly when nothing is against it.
LEMMA CandidateCases ==
  ASSUME NEW b
  PROVE  LET c == Candidate(b)
             m == CHOOSE x \in b.masters : TRUE
         IN  \/ c = Evaluated(b, m) /\ ~ SomethingIsAgainst(b)
             \/ AllowsLess(b, c) /\ SomethingIsAgainst(b)
<1> DEFINE m == CHOOSE x \in b.masters : TRUE
           blocking == b.blocking \cup ItemIssues(b)
           absent == b.doubts \cup MasterDoubts(b)
           doubts == absent \cup MatchDoubts(b, m)
           c == Candidate(b)
           i1 == blocking \cup b.doubts
           i2 == {"MASTER_AMBIGUOUS"} \cup absent
<1>0. c = IF blocking # {} THEN NotEvaluated(b, "INELIGIBLE", i1, {})
          ELSE IF b.item.disposition = "EXCLUDED"
            THEN NotEvaluated(b, "REVIEW_ONLY", b.doubts, {"EXCLUDED"})
          ELSE IF Cardinality(b.masters) > 1 THEN NotEvaluated(b, "INELIGIBLE", i2, {})
          ELSE IF b.masters = {}
            THEN NotEvaluated(b, "REVIEW_ONLY", absent, {"EXCLUDED", "SUSPECT"})
          ELSE IF doubts # {}
            THEN NotEvaluated(b, "REVIEW_ONLY", doubts, {"EXCLUDED", "SUSPECT"})
          ELSE Evaluated(b, m)
  BY DEF Candidate
<1>1. SomethingIsAgainst(b) <=>
        \/ blocking # {} \/ b.item.disposition = "EXCLUDED"
        \/ Cardinality(b.masters) > 1 \/ b.masters = {} \/ doubts # {}
  BY DEF SomethingIsAgainst
<1> HIDE DEF m, c, doubts, absent
<1>2. AllowsLess(b, NotEvaluated(b, "INELIGIBLE", i1, {})) BY NotEvaluatedAllowsLess
<1>3. AllowsLess(b, NotEvaluated(b, "INELIGIBLE", i2, {})) BY NotEvaluatedAllowsLess
<1>4. ASSUME b.blocking = {}, NEW issues, NEW allowed \in SUBSET {"EXCLUDED", "SUSPECT"}
      PROVE  AllowsLess(b, NotEvaluated(b, "REVIEW_ONLY", issues, allowed))
  BY <1>4, NotEvaluatedAllowsLess
<1>5. blocking = {} => b.blocking = {} OBVIOUS
<1> HIDE DEF blocking, i1, i2
<1>6. CASE blocking # {} BY <1>0, <1>1, <1>2, <1>6 DEF c
<1>7. CASE blocking = {} /\ b.item.disposition = "EXCLUDED"
  BY <1>0, <1>1, <1>4, <1>5, <1>7 DEF c
<1>8. CASE blocking = {} /\ b.item.disposition # "EXCLUDED" /\ Cardinality(b.masters) > 1
  BY <1>0, <1>1, <1>3, <1>8 DEF c
<1>9. CASE /\ blocking = {} /\ b.item.disposition # "EXCLUDED" /\ ~ Cardinality(b.masters) > 1
  <2>1. CASE b.masters = {} BY <1>0, <1>1, <1>4, <1>5, <1>9, <2>1 DEF c
  <2>2. CASE b.masters # {} /\ doubts # {} BY <1>0, <1>1, <1>4, <1>5, <1>9, <2>2 DEF c
  <2>3. CASE b.masters # {} /\ doubts = {} BY <1>0, <1>1, <1>9, <2>3 DEF c, m
  <2> QED BY <2>1, <2>2, <2>3
<1> QED BY <1>6, <1>7, <1>8, <1>9

\* A set that has no more than one member is the set of the chosen one.
LEMMA AtMostOne ==
  ASSUME NEW S, IsFiniteSet(S), S # {}, ~ Cardinality(S) > 1
  PROVE  S = {CHOOSE x \in S : TRUE}
<1> DEFINE x == CHOOSE y \in S : TRUE
<1>1. x \in S OBVIOUS
<1> HIDE DEF x
<1>2. Cardinality(S \ {x}) = Cardinality(S) - 1 /\ IsFiniteSet(S \ {x})
  BY <1>1, FS_RemoveElement
<1>3. Cardinality(S) \in Nat /\ Cardinality(S \ {x}) \in Nat BY <1>2, FS_CardinalityType
<1>4. Cardinality(S \ {x}) = 0 BY <1>2, <1>3
<1>5. S \ {x} = {} BY <1>2, <1>4, FS_EmptySet
<1> QED BY <1>1, <1>5 DEF x

\* What an evaluated match says of the Master.
LEMMA NothingIsUnmatched ==
  ASSUME NEW b, NEW m
  PROVE  MatchDoubts(b, m) = {} <=>
           /\ b.mode = "NUMERIC" /\ b.samples # <<>>
           /\ UnitText(b.evidence) # NoUnit /\ UnitText(b.evidence) = m.unit
BY DEF MatchDoubts

\* FitForValid, stated without the order of the checks, is what the checks find.
LEMMA FitIsNothingAgainst ==
  ASSUME NEW e, NEW rw, NEW sm, NEW it, NEW ms, IsReading(e, rw, sm, ms)
  PROVE  LET b == Basis(e, rw, sm, it, ms)
             m == CHOOSE x \in b.masters : TRUE
         IN  /\ FitForValid(b) <=> ~ SomethingIsAgainst(b)
             /\ FitForValid(b) => b.masters = {m} /\ m \in ms
<1> DEFINE b == Basis(e, rw, sm, it, ms)
           m == CHOOSE x \in b.masters : TRUE
<1>1. /\ b.evidence = e /\ b.row = rw /\ b.samples = sm /\ b.mode = BoundMode(e)
      /\ b.item = (IF e.keyed THEN it ELSE NoItem)
      /\ b.masters = (IF b.item.disposition = "MANAGED" /\ e.dated THEN ms ELSE {})
  BY BasisFields
<1>2. b.blocking = {} <=>
        /\ rw.status = "PENDING" /\ ~ rw.projected
        /\ e.source /\ e.unit # BadUnit
        /\ e.candidate /\ rw.status = SignedStatus(e) /\ Len(sm) = Len(e.samples)
        /\ \A i \in DOMAIN sm : sm[i].status = "PENDING"
        /\ e.binding /\ (e.dated => e.bound)
        /\ \A i \in DOMAIN sm : e.samples[i].kind # "broken"
  BY NothingBlocks
<1>3. b.doubts = {} <=>
        /\ \A i \in DOMAIN e.samples : e.samples[i].kind \in {"number", "broken"}
        /\ e.unit \notin {NoUnit, FormulaUnit}
  BY NothingIsDoubted
<1> HIDE DEF b
<1>4. ItemIssues(b) = {} <=> b.item.disposition \notin {"NONE", "CANDIDATE"} BY DEF ItemIssues
<1>5. MasterDoubts(b) = {} <=> e.dated /\ b.masters # {}
  BY <1>1, Zenon DEF MasterDoubts, IsReading, IsEvidence
<1>6. NoItem.disposition = "NONE" BY DEF NoItem
<1>7. IsFiniteSet(b.masters) /\ b.masters \subseteq ms
  <2>1. b.masters = ms \/ b.masters = {} BY <1>1
  <2>2. IsFiniteSet({}) BY FS_EmptySet
  <2> QED BY <2>1, <2>2 DEF IsReading
<1>8. SignedStatus(e) = "PENDING" <=> e.signed = "LOADABLE_PENDING"
  BY DEF SignedStatus, IsReading, IsEvidence
<1>9. DOMAIN sm = 1 .. Len(sm) /\ DOMAIN e.samples = 1 .. Len(e.samples)
      /\ (sm = <<>> <=> Len(sm) = 0) /\ (e.samples = <<>> <=> Len(e.samples) = 0)
  BY EmptySeq DEF IsReading, IsEvidence
<1>10. BoundMode(e) = "NUMERIC" <=> e.mode = "NUMERIC" /\ e.binding /\ (e.dated => e.bound)
  BY DEF BoundMode, BindingIssues, IsReading, IsEvidence
<1>11. ASSUME ~ SomethingIsAgainst(b)
       PROVE  FitForValid(b) /\ b.masters = {m} /\ m \in ms
  <2>1. /\ b.blocking = {} /\ ItemIssues(b) = {} /\ b.item.disposition # "EXCLUDED"
        /\ ~ Cardinality(b.masters) > 1 /\ b.masters # {}
        /\ b.doubts = {} /\ MasterDoubts(b) = {} /\ MatchDoubts(b, m) = {}
    BY <1>11 DEF SomethingIsAgainst
  <2>2. b.masters = {m} BY <2>1, <1>7, AtMostOne
  <2>3. e.dated /\ b.item.disposition = "MANAGED" /\ e.keyed /\ m \in ms
    BY <2>1, <2>2, <1>1, <1>6, <1>7
  <2>4. /\ b.mode = "NUMERIC" /\ sm # <<>> /\ UnitText(e) # NoUnit /\ UnitText(e) = m.unit
    BY <2>1, <1>1, NothingIsUnmatched DEF m
  <2>5. e.unit = m.unit BY <2>4 DEF UnitText
  <2>6. e.samples # <<>> BY <2>1, <2>4, <1>2, <1>9
  <2>7. \A i \in DOMAIN e.samples : Exact(e.samples[i]) /\ sm[i].status = "PENDING"
    BY <2>1, <1>2, <1>3, <1>9 DEF Exact
  <2>8. e.mode = "NUMERIC" /\ e.bound /\ e.signed = "LOADABLE_PENDING"
    BY <2>1, <2>3, <2>4, <1>1, <1>2, <1>8, <1>10
  <2> QED BY <2>1, <2>2, <2>3, <2>5, <2>6, <2>7, <2>8, <1>1, <1>2 DEF FitForValid
<1>12. ASSUME FitForValid(b)
       PROVE  ~ SomethingIsAgainst(b)
  <2>1. PICK n \in b.masters : b.masters = {n} /\ e.unit = n.unit
    BY <1>12, <1>1, Zenon DEF FitForValid
  <2>2. n = m /\ n \in ms BY <2>1, <1>7
  <2>3. Cardinality(b.masters) = 1 /\ ~ Cardinality(b.masters) > 1
    <3>1. Cardinality({n}) = 1 BY FS_Singleton
    <3> QED BY <2>1, <3>1
  <2>4. n.unit \notin {NoUnit, FormulaUnit, BadUnit} BY <2>2 DEF IsReading, IsMaster
  <2>5. /\ rw.status = "PENDING" /\ ~ rw.projected /\ e.signed = "LOADABLE_PENDING"
        /\ e.source /\ e.candidate /\ e.binding /\ e.keyed /\ e.dated /\ e.bound
        /\ b.item.disposition = "MANAGED" /\ e.mode = "NUMERIC"
        /\ Len(sm) = Len(e.samples) /\ e.samples # <<>>
        /\ \A i \in DOMAIN e.samples : Exact(e.samples[i]) /\ sm[i].status = "PENDING"
    BY <1>12, <1>1 DEF FitForValid
  <2>6. b.blocking = {}
    BY <2>1, <2>4, <2>5, <1>2, <1>8, <1>9 DEF Exact
  <2>7. b.doubts = {} BY <2>1, <2>4, <2>5, <1>3 DEF Exact
  <2>8. ItemIssues(b) = {} /\ b.item.disposition # "EXCLUDED" BY <2>5, <1>4
  <2>9. MasterDoubts(b) = {} /\ b.masters # {} BY <2>1, <2>5, <1>5
  <2>10. UnitText(e) # NoUnit /\ UnitText(e) = m.unit BY <2>1, <2>2, <2>4 DEF UnitText
  <2>11. sm # <<>> BY <2>5, <1>9
  <2>12. MatchDoubts(b, m) = {}
    <3> HIDE DEF m
    <3> QED BY <2>5, <2>10, <2>11, <1>1, <1>10, NothingIsUnmatched
  <2> QED BY <2>3, <2>6, <2>7, <2>8, <2>9, <2>12 DEF SomethingIsAgainst
<1> QED BY <1>11, <1>12 DEF b

\* A value is outside the limits when one of them says so.
LEMMA CompareIsFails ==
  ASSUME NEW v \in Int, NEW m, IsMaster(m)
  PROVE  /\ Compare(v, m) \in {"BELOW_LSL", "ABOVE_USL", "WITHIN_LIMITS"}
         /\ Compare(v, m) # "WITHIN_LIMITS" <=>
              (\E low \in m.lsl : low > v) \/ (\E high \in m.usl : v > high)
BY DEF Compare, IsMaster

\* A candidate keeps its promise whatever was read.
THEOREM CandidateSound ==
  ASSUME NEW e, NEW rw, NEW sm, NEW it, NEW ms, IsReading(e, rw, sm, ms)
  PROVE  LET b == Basis(e, rw, sm, it, ms)
         IN  CandidateIsSound(b) /\ Candidate(b).basis = b
<1> DEFINE b == Basis(e, rw, sm, it, ms)
           c == Candidate(b)
           m == CHOOSE x \in b.masters : TRUE
<1>1. b.evidence = e /\ b.samples = sm BY BasisFields
<1>2. /\ FitForValid(b) <=> ~ SomethingIsAgainst(b)
      /\ FitForValid(b) => b.masters = {m} /\ m \in ms
  BY FitIsNothingAgainst
<1> HIDE DEF b
<1>3. \/ c = Evaluated(b, m) /\ ~ SomethingIsAgainst(b)
      \/ AllowsLess(b, c) /\ SomethingIsAgainst(b)
  BY CandidateCases
<1>4. CASE c = Evaluated(b, m) /\ ~ SomethingIsAgainst(b)
  <2> DEFINE cmp == [i \in DOMAIN sm |-> Compare(e.samples[i].value, m)]
  <2>1. /\ c.basis = b /\ c.state = "EVALUATED" /\ c.master = m /\ c.comparisons = cmp
        /\ c.judgment = IF \E i \in DOMAIN cmp : cmp[i] # "WITHIN_LIMITS" THEN "FAIL" ELSE "PASS"
        /\ c.allowed = {"EXCLUDED", "SUSPECT", "VALID"}
    BY <1>1, <1>4 DEF Evaluated
  <2>2. FitForValid(b) /\ m \in b.masters /\ m \in ms BY <1>2, <1>4
  <2>3. DOMAIN sm = DOMAIN e.samples /\ DOMAIN sm # {}
    <3>1. Len(sm) = Len(e.samples) /\ e.samples # <<>> BY <1>1, <2>2 DEF FitForValid
    <3>2. DOMAIN e.samples = 1 .. Len(e.samples) /\ Len(e.samples) \in Nat \ {0}
      BY <3>1, EmptySeq DEF IsReading, IsEvidence
    <3>3. 1 \in DOMAIN e.samples BY <3>2
    <3> QED BY <3>1, <3>2, <3>3 DEF IsReading
  <2>4. \A i \in DOMAIN sm :
          /\ Compare(e.samples[i].value, m) \in {"BELOW_LSL", "ABOVE_USL", "WITHIN_LIMITS"}
          /\ Compare(e.samples[i].value, m) # "WITHIN_LIMITS" <=>
               \/ \E low \in m.lsl : low > e.samples[i].value
               \/ \E high \in m.usl : e.samples[i].value > high
    <3>1. \A i \in DOMAIN e.samples : e.samples[i].value \in Int
      <4> DEFINE Sample == [kind : SampleKinds, value : Int]
      <4>1. e.samples \in Seq(Sample) BY DEF IsReading, IsEvidence
      <4> HIDE DEF Sample
      <4>2. \A i \in DOMAIN e.samples : e.samples[i] \in Sample BY <4>1
      <4> QED BY <4>2 DEF Sample
    <3>2. IsMaster(m) BY <2>2 DEF IsReading
    <3> QED BY <2>3, <3>1, <3>2, CompareIsFails
  <2>5. (\E i \in DOMAIN cmp : cmp[i] # "WITHIN_LIMITS") <=> Fails(e, m)
    BY <2>3, <2>4 DEF Fails
  <2>6. cmp # <<>> /\ \A i \in DOMAIN cmp : cmp[i] # "NOT_EVALUATED"
    <3>1. DOMAIN <<>> = {} OBVIOUS
    <3>2. DOMAIN cmp # {} BY <2>3
    <3> QED BY <2>4, <3>1, <3>2
  <2> HIDE DEF cmp, c, m
  <2>7. c.judgment = (IF Fails(e, m) THEN "FAIL" ELSE "PASS") /\ c.judgment # "NONE"
    BY <2>1, <2>5
  <2>8. WellFormed(c) BY <2>1, <2>2, <2>6, <2>7 DEF WellFormed
  <2> QED BY <1>1, <2>1, <2>2, <2>7, <2>8 DEF CandidateIsSound, b, c
<1>5. CASE AllowsLess(b, c) /\ SomethingIsAgainst(b)
  <2> HIDE DEF c
  <2>1. "VALID" \notin c.allowed /\ c.state # "EVALUATED" /\ c.basis = b BY <1>5 DEF AllowsLess
  <2>2. WellFormed(c) BY <1>5 DEF AllowsLess, WellFormed
  <2>3. ~ FitForValid(b) BY <1>2, <1>5
  <2> QED BY <2>1, <2>2, <2>3 DEF CandidateIsSound, b, c
<1> QED BY <1>3, <1>4, <1>5

\* What a candidate allows is judged on a pending row that was read as signed.
LEMMA CandidateAllows ==
  ASSUME NEW e, NEW rw, NEW sm, NEW it, NEW ms, IsReading(e, rw, sm, ms),
         Candidate(Basis(e, rw, sm, it, ms)).allowed # {}
  PROVE  rw.status = "PENDING" /\ SignedStatus(e) = "PENDING" /\ ~ rw.projected
<1> DEFINE b == Basis(e, rw, sm, it, ms)
<1>1. b.blocking = {} => rw.status = "PENDING" /\ SignedStatus(e) = "PENDING" /\ ~ rw.projected
  BY NothingBlocks
<1> HIDE DEF b
<1>2. b.blocking = {}
  <2>1. CASE AllowsLess(b, Candidate(b)) BY <2>1 DEF AllowsLess, b
  <2>2. CASE ~ SomethingIsAgainst(b) BY <2>2 DEF SomethingIsAgainst
  <2> QED BY <2>1, <2>2, CandidateCases
<1> QED BY <1>1, <1>2

-----------------------------------------------------------------------------
(* The inductive invariant: the tables.                                    *)

DecisionsOn(r) == {d \in decisions : d.result = r}
Sampled(r) == DOMAIN Evidence[r].samples # {}

\* Nothing refers to a result that was not decided.
Undecided(r) ==
  /\ DecisionsOn(r) = {} /\ Incoming(r) = {} /\ Outgoing(r) = {}
  /\ row[r] = NewRow(r) /\ sample[r] = NewSamples(r)

\* What a stored decision was taken on: the rows as they were signed.
SoundDecision(d) ==
  LET r == d.result
  IN  /\ r \in Results /\ SignedStatus(Evidence[r]) = "PENDING"
      /\ d.version = 1 /\ d.samples = [i \in DOMAIN Evidence[r].samples |-> 1]
      /\ d.to \in {"VALID", "SUSPECT", "EXCLUDED"}
      /\ d.command # NoDecision
      /\ d.to = "VALID" =>
           /\ FitForValid(d.candidate.basis)
           /\ d.candidate.judgment =
                IF Fails(Evidence[r], d.candidate.master) THEN "FAIL" ELSE "PASS"

\* A decision belongs to the one link into its result, or to none.
Caused(d) ==
  \/ d.requirement = "none" /\ Incoming(d.result) = {}
  \/ /\ d.requirement = "ING-041" /\ d.to = "VALID"
     /\ \E l \in links : /\ Incoming(d.result) = {l} /\ l.decision = d.command
                         /\ l.successorVersion = d.version

\* A link continues the decision on its predecessor.
Corrects(l, d) ==
  /\ l.original = d.command /\ l.before = d.to /\ d.to \in {"VALID", "SUSPECT"}
  /\ l.version = d.version + 1 /\ l.samples = [i \in DOMAIN d.samples |-> d.samples[i] + 1]

DecidedBy(r, d) ==
  /\ DecisionsOn(r) = {d} /\ SoundDecision(d) /\ Caused(d)
  /\ \/ /\ Outgoing(r) = {}
        /\ row[r] = DecidedRow(NewRow(r), d) /\ sample[r] = DecidedSamples(d)
     \/ \E l \in links :
          /\ Outgoing(r) = {l} /\ Corrects(l, d)
          /\ row[r] = ReplacedRow(DecidedRow(NewRow(r), d), l) /\ sample[r] = ReplacedSamples(l)

TablesInv ==
  /\ row = [r \in Results |-> row[r]] /\ sample = [r \in Results |-> sample[r]]
  /\ \A r \in Results : Undecided(r) \/ \E d \in decisions : DecidedBy(r, d)
  /\ \A d \in decisions : d.result \in Results
  /\ \A d, e \in decisions : d.command = e.command => d = e
  /\ \A l \in links :
       /\ l.predecessor \in Results /\ l.successor \in Results
       /\ Identity[l.predecessor] = Identity[l.successor]
       /\ Sampled(l.predecessor) /\ Sampled(l.successor)

-----------------------------------------------------------------------------
(* The inductive invariant: the callers.                                   *)

Phases == {"idle", "lookup", "rows", "configuration", "confirm", "settle", "write", "recheck",
           "replay", "compare", "answered"}

IsRequest(q) ==
  \/ /\ q.kind = "DECIDE" /\ q.result \in Results /\ q.target \in Targets
     /\ \E c \in Commands : q.command = <<c>>
  \/ /\ q.kind = "REPLACE" /\ q.predecessor \in Results /\ q.successor \in Results
     /\ q.predecessor # q.successor

\* At most one approved Master is read.
IsLookup(ms) == ms = {} \/ \E m : ms = {m} /\ IsMaster(m)

\* Rows that make a reading of the result, whatever is found of Masters.
Readable(r, rw, sm) == \A ms : IsLookup(ms) => IsReading(Evidence[r], ReviewRow(rw), sm, ms)

\* What a session read of a result is what is there, unless its version went on; what it
\* read of a pending one is what was signed.
SawRow(r, rw, sm) ==
  /\ rw.version \in Nat /\ rw.version <= row[r].version
  /\ rw.version = row[r].version => rw = row[r] /\ sm = sample[r]
  /\ rw.status = "PENDING" => rw = NewRow(r) /\ sm = NewSamples(r)
  /\ Readable(r, rw, sm)
Saw(p, r) == SawRow(r, seen[p].rows[r], seen[p].samples[r])

\* The result that a request makes a decision on.
Judged(q) == IF q.kind = "DECIDE" THEN q.result ELSE q.successor

\* The confirmed pair: what it says of the predecessor was read, what it says of the
\* successor is what was signed.
PairHeld(q) ==
  LET a == q.predecessor
      b == q.successor
      c == q.expected
  IN  /\ Identity[a] = Identity[b] /\ c.predecessor.row.status \in {"VALID", "SUSPECT"}
      /\ SawRow(a, c.predecessor.row, c.predecessor.samples)
      /\ c.successor.row = NewRow(b) /\ c.successor.samples = NewSamples(b)
      /\ c.successor.review.basis.row = ReviewRow(NewRow(b))
      /\ c.successor.review.basis.samples = NewSamples(b)

\* What a caller that stands at a phase knows.
Knows(p, at) ==
  LET q == request[p]
  IN  /\ at \in {"confirm", "settle", "compare"} => q.kind = "REPLACE"
      /\ at \in {"configuration", "confirm"} =>
           /\ \A r \in Rows(q) : Saw(p, r)
           /\ q.kind = "REPLACE" => Replaceable(seen[p].rows, q.predecessor, q.successor)
      /\ at \in {"settle", "write"} =>
           Saw(p, Judged(q)) /\ (q.kind = "REPLACE" => PairHeld(q))
      /\ at \in {"confirm", "write"} => IsLookup(seen[p].masters)
      /\ at \in {"replay", "compare"} => \E x \in Stored(q) : x.intent = q

CallerInv(p) ==
  /\ phase[p] # "idle" => IsRequest(request[p])
  /\ Knows(p, phase[p])

CallersShape ==
  /\ phase \in [Reviewers -> Phases] /\ request = [p \in Reviewers |-> request[p]]
  /\ seen = [p \in Reviewers |-> seen[p]] /\ answer = [p \in Reviewers |-> answer[p]]

CallersInv ==
  /\ CallersShape
  /\ ConfigurationOK
  /\ \A p \in Reviewers : CallerInv(p)

\* A data-status decision was taken on the candidate confirmed for it.  A link holds the
\* candidate confirmed for it, and the decision on its successor saw the same rows.
EvidenceInv ==
  /\ \A d \in decisions : d.intent.kind = "DECIDE" => d.candidate = d.intent.expected
  /\ \A l \in links : l.review = l.intent.expected.successor.review
  /\ \A l \in links, d \in decisions : d.command = l.decision =>
       /\ d.candidate.basis.row = l.review.basis.row
       /\ d.candidate.basis.samples = l.review.basis.samples

\* What a caller is told of its request.
IsTrue(a, q) ==
  /\ a \in {"DECIDED", "REPLAYED"} =>
       \E x \in Stored(q) : x.intent = q /\ (a = "REPLAYED" /\ q.kind # "DECIDE" => ~ Moved(x))
  /\ a = "CONFLICT" => \E x \in Stored(q) : x.intent # q
TrueAnswer(p) == IsTrue(answer[p], request[p])

ReviewInv == TablesInv /\ CallersInv /\ EvidenceInv /\ \A p \in Reviewers : TrueAnswer(p)

-----------------------------------------------------------------------------
(* The rows of a result in each of its three states.                       *)

\* A function on the domain of a sequence is a sequence of the same length.
LEMMA SameLength ==
  ASSUME NEW S, NEW s \in Seq(S), NEW f, f = [i \in DOMAIN s |-> f[i]]
  PROVE  /\ Len(f) = Len(s) /\ Len(f) \in Nat /\ DOMAIN f = 1 .. Len(f)
         /\ f = <<>> <=> Len(f) = 0
<1> DEFINE T == {f[i] : i \in DOMAIN s}
<1>1. DOMAIN s = 1 .. Len(s) /\ Len(s) \in Nat OBVIOUS
<1>2. f \in [1 .. Len(s) -> T] BY <1>1
<1> HIDE DEF T
<1>3. f \in Seq(T) BY <1>1, <1>2, SeqDef
<1>4. DOMAIN f = 1 .. Len(f) /\ Len(f) \in Nat BY <1>3
<1>5. Len(f) = Len(s) BY <1>1, <1>2, <1>4
<1>6. f = <<>> <=> Len(f) = 0 BY <1>3, EmptySeq
<1> QED BY <1>4, <1>5, <1>6

\* The fields of the rows a decision and a link leave behind.
LEMMA NewFields ==
  ASSUME NEW r
  PROVE  /\ NewRow(r).status = SignedStatus(Evidence[r]) /\ NewRow(r).version = 1
         /\ NewRow(r).decision = NoDecision /\ NewRow(r).link = NoLink
         /\ NewRow(r).judgment = "NONE" /\ NewRow(r).master = NoMaster
         /\ DOMAIN NewSamples(r) = DOMAIN Evidence[r].samples
         /\ \A i \in DOMAIN NewSamples(r) :
              /\ NewSamples(r)[i].status = SignedStatus(Evidence[r])
              /\ NewSamples(r)[i].version = 1
BY DEF NewRow, NewSamples

LEMMA DecidedFields ==
  ASSUME NEW r, NEW d
  PROVE  LET rw == DecidedRow(NewRow(r), d)
             sm == DecidedSamples(d)
         IN  /\ rw.status = d.to /\ rw.version = d.version + 1 /\ rw.decision = d.command
             /\ rw.judgment = d.candidate.judgment /\ rw.master = d.candidate.master
             /\ rw.link = NoLink
             /\ DOMAIN sm = DOMAIN d.samples
             /\ \A i \in DOMAIN sm : sm[i].status = d.to /\ sm[i].version = d.samples[i] + 1
BY DEF DecidedRow, DecidedSamples, NewRow

LEMMA ReplacedFields ==
  ASSUME NEW r, NEW d, NEW l
  PROVE  LET rw == ReplacedRow(DecidedRow(NewRow(r), d), l)
             sm == ReplacedSamples(l)
         IN  /\ rw.status = "REPLACED" /\ rw.version = l.version + 1 /\ rw.decision = d.command
             /\ rw.judgment = d.candidate.judgment /\ rw.master = d.candidate.master
             /\ rw.link = <<l.predecessor, l.successor>>
             /\ DOMAIN sm = DOMAIN l.samples
             /\ \A i \in DOMAIN sm : /\ sm[i].status = "REPLACED" /\ sm[i].link = rw.link
                                     /\ sm[i].version = l.samples[i] + 1
BY DEF DecidedRow, ReplacedRow, ReplacedSamples, NewRow

\* The version counts the steps of a result: as signed, decided, replaced.
LEMMA RowState ==
  ASSUME TablesInv, NEW r \in Results
  PROVE  \/ /\ Undecided(r) /\ row[r].version = 1 /\ row[r].link = NoLink
            /\ row[r].status = SignedStatus(Evidence[r])
         \/ \E d \in decisions :
              /\ DecidedBy(r, d) /\ Outgoing(r) = {} /\ row[r].version = 2
              /\ row[r].status = d.to /\ row[r].link = NoLink
              /\ row[r].decision = d.command
         \/ \E d \in decisions, l \in links :
              /\ DecidedBy(r, d) /\ Outgoing(r) = {l} /\ row[r].version = 3
              /\ row[r].status = "REPLACED" /\ row[r].link = <<l.predecessor, l.successor>>
              /\ row[r].decision = d.command
<1>1. CASE Undecided(r) BY <1>1, NewFields DEF Undecided
<1>2. CASE \E d \in decisions : DecidedBy(r, d)
  <2>1. PICK d \in decisions : DecidedBy(r, d) BY <1>2
  <2>2. d.version + 1 = 2 BY <2>1 DEF DecidedBy, SoundDecision
  <2>3. CASE /\ Outgoing(r) = {} /\ row[r] = DecidedRow(NewRow(r), d)
    BY <2>1, <2>2, <2>3, DecidedFields
  <2>4. CASE \E l \in links : /\ Outgoing(r) = {l} /\ Corrects(l, d)
                              /\ row[r] = ReplacedRow(DecidedRow(NewRow(r), d), l)
    <3>1. PICK l \in links : /\ Outgoing(r) = {l} /\ Corrects(l, d)
                             /\ row[r] = ReplacedRow(DecidedRow(NewRow(r), d), l)
      BY <2>4
    <3>2. l.version + 1 = 3 BY <2>2, <3>1 DEF Corrects
    <3> QED BY <2>1, <3>1, <3>2, ReplacedFields
  <2> QED BY <2>1, <2>3, <2>4 DEF DecidedBy
<1> QED BY <1>1, <1>2 DEF TablesInv

\* A pending result is as it was signed.
LEMMA PendingIsNew ==
  ASSUME TablesInv, NEW r \in Results, row[r].status = "PENDING"
  PROVE  Undecided(r)
<1>1. ASSUME NEW d \in decisions, DecidedBy(r, d) PROVE row[r].status # "PENDING"
  BY <1>1, DecidedFields, ReplacedFields DEF DecidedBy, SoundDecision, DecisionsOn
<1> QED BY <1>1 DEF TablesInv

\* The one decision of a result that has a link or a decision.
LEMMA DecisionOfCommand ==
  ASSUME TablesInv, NEW d \in decisions
  PROVE  DecisionOf(d.command) = {d} /\ DecidedBy(d.result, d) /\ d.result \in Results
<1>1. DecisionOf(d.command) = {d} BY DEF DecisionOf, TablesInv
<1>2. d \in DecisionsOn(d.result) /\ d.result \in Results BY DEF DecisionsOn, TablesInv
<1>3. ~ Undecided(d.result) BY <1>2 DEF Undecided
<1>4. PICK e \in decisions : DecidedBy(d.result, e) BY <1>2, <1>3 DEF TablesInv
<1>5. e = d BY <1>2, <1>4 DEF DecidedBy
<1> QED BY <1>1, <1>2, <1>4, <1>5

\* What a link stands for: both results decided, the first one replaced by it.
LEMMA LinkEnds ==
  ASSUME TablesInv, NEW l \in links
  PROVE  \E d, e \in decisions :
           /\ DecidedBy(l.predecessor, d) /\ d.result = l.predecessor /\ Corrects(l, d)
           /\ Outgoing(l.predecessor) = {l}
           /\ row[l.predecessor] = ReplacedRow(DecidedRow(NewRow(l.predecessor), d), l)
           /\ sample[l.predecessor] = ReplacedSamples(l)
           /\ DecidedBy(l.successor, e) /\ e.result = l.successor
           /\ Incoming(l.successor) = {l} /\ l.decision = e.command
           /\ l.successorVersion = e.version /\ e.to = "VALID"
<1> DEFINE a == l.predecessor
           b == l.successor
<1>1. a \in Results /\ b \in Results BY DEF TablesInv
<1>2. l \in Outgoing(a) /\ l \in Incoming(b) BY DEF Outgoing, Incoming
<1>3. ~ Undecided(a) /\ ~ Undecided(b) BY <1>2 DEF Undecided
<1>4. PICK d \in decisions : DecidedBy(a, d) BY <1>1, <1>3 DEF TablesInv
<1>5. PICK e \in decisions : DecidedBy(b, e) BY <1>1, <1>3 DEF TablesInv
<1>6. d.result = a /\ e.result = b BY <1>4, <1>5 DEF DecidedBy, DecisionsOn
<1>7. /\ Outgoing(a) = {l} /\ Corrects(l, d)
      /\ row[a] = ReplacedRow(DecidedRow(NewRow(a), d), l) /\ sample[a] = ReplacedSamples(l)
  BY <1>2, <1>4 DEF DecidedBy
<1>8. /\ Incoming(b) = {l} /\ l.decision = e.command /\ l.successorVersion = e.version
      /\ e.to = "VALID"
  BY <1>2, <1>5, <1>6 DEF DecidedBy, Caused
<1> QED BY <1>4, <1>5, <1>6, <1>7, <1>8

-----------------------------------------------------------------------------
(* The two ways the tables change.                                         *)

Fresh(d) == \A e \in decisions : e.command # d.command

\* A pending result is decided.
DecisionLands(r, d) ==
  /\ r \in Results /\ Undecided(r)
  /\ d.result = r /\ SoundDecision(d) /\ d.requirement = "none" /\ Fresh(d)
  /\ d.intent.kind = "DECIDE" => d.candidate = d.intent.expected
  /\ decisions' = decisions \cup {d} /\ links' = links
  /\ row' = [row EXCEPT ![r] = DecidedRow(row[r], d)]
  /\ sample' = [sample EXCEPT ![r] = DecidedSamples(d)]

\* A pending result becomes VALID in the step that replaces a decided one.
PairLands(a, b, d, l) ==
  /\ a \in Results /\ b \in Results /\ a # b /\ Identity[a] = Identity[b]
  /\ Sampled(a) /\ Sampled(b)
  /\ Undecided(b) /\ Outgoing(a) = {}
  /\ \E e \in decisions : DecidedBy(a, e) /\ Corrects(l, e)
  /\ d.result = b /\ SoundDecision(d) /\ d.to = "VALID" /\ d.requirement = "ING-041" /\ Fresh(d)
  /\ l.predecessor = a /\ l.successor = b /\ l.decision = d.command /\ l.successorVersion = d.version
  /\ d.intent.kind # "DECIDE" /\ l.review = l.intent.expected.successor.review
  /\ d.candidate.basis.row = l.review.basis.row
  /\ d.candidate.basis.samples = l.review.basis.samples
  /\ decisions' = decisions \cup {d} /\ links' = links \cup {l}
  /\ row' = [row EXCEPT ![a] = ReplacedRow(row[a], l), ![b] = DecidedRow(row[b], d)]
  /\ sample' = [sample EXCEPT ![a] = ReplacedSamples(l), ![b] = DecidedSamples(d)]

TablesStep ==
  \/ UNCHANGED database
  \/ \E r, d : DecisionLands(r, d)
  \/ \E a, b, d, l : PairLands(a, b, d, l)

Known(r) == Undecided(r) \/ \E d \in decisions : DecidedBy(r, d)

\* A result none of whose rows changes stays what it was.
LEMMA KnownFrame ==
  ASSUME NEW r \in Results, Known(r), row'[r] = row[r], sample'[r] = sample[r],
         DecisionsOn(r)' = DecisionsOn(r), Incoming(r)' = Incoming(r), Outgoing(r)' = Outgoing(r),
         decisions \subseteq decisions', links \subseteq links'
  PROVE  Known(r)'
<1>1. CASE Undecided(r)
  <2>1. Undecided(r)' BY <1>1 DEF Undecided, NewRow, NewSamples
  <2> QED BY <2>1 DEF Known
<1>2. ASSUME NEW d \in decisions, DecidedBy(r, d) PROVE Known(r)'
  <2>1. d.result = r BY <1>2 DEF DecidedBy, DecisionsOn
  <2>2. Caused(d)' BY <1>2, <2>1 DEF DecidedBy, Caused
  <2>3. DecidedBy(r, d)' BY <1>2, <2>2 DEF DecidedBy, NewRow, Corrects
  <2> QED BY <2>3 DEF Known
<1> QED BY <1>1, <1>2 DEF Known

LEMMA DecisionLandsSafely ==
  ASSUME TablesInv, NEW r, NEW d, DecisionLands(r, d)
  PROVE  TablesInv'
<1>1. decisions' = decisions \cup {d} /\ links' = links /\ d.result = r /\ r \in Results
  BY DEF DecisionLands
<1>2. row' = [row EXCEPT ![r] = DecidedRow(row[r], d)] /\ sample' = [sample EXCEPT ![r] = DecidedSamples(d)]
  BY DEF DecisionLands
<1>3. \A s : Incoming(s)' = Incoming(s) /\ Outgoing(s)' = Outgoing(s) BY <1>1 DEF Incoming, Outgoing
<1>4. ASSUME NEW s \in Results, s # r PROVE Known(s)'
  <2>1. DecisionsOn(s)' = DecisionsOn(s) BY <1>1, <1>4 DEF DecisionsOn
  <2>2. row'[s] = row[s] /\ sample'[s] = sample[s] BY <1>2, <1>4 DEF TablesInv
  <2>3. Known(s) BY DEF TablesInv, Known
  <2> QED BY <1>1, <1>3, <2>1, <2>2, <2>3, KnownFrame
<1>5. Known(r)'
  <2>1. Undecided(r) /\ SoundDecision(d) /\ d.requirement = "none" BY DEF DecisionLands
  <2>2. DecisionsOn(r)' = {d} BY <1>1, <2>1 DEF DecisionsOn, Undecided
  <2>3. Incoming(r)' = {} /\ Outgoing(r)' = {} BY <1>3, <2>1 DEF Undecided
  <2>4. Caused(d)' BY <1>1, <2>1, <2>3 DEF Caused
  <2>5. row'[r] = DecidedRow(NewRow(r), d) /\ sample'[r] = DecidedSamples(d)
    BY <1>1, <1>2, <2>1 DEF TablesInv, Undecided
  <2>6. DecidedBy(r, d)' BY <2>1, <2>2, <2>3, <2>4, <2>5 DEF DecidedBy, NewRow
  <2> QED BY <1>1, <2>6 DEF Known
<1>6. \A s \in Results : Known(s)' BY <1>4, <1>5
<1>7. \A e, f \in decisions' : e.command = f.command => e = f
  BY <1>1 DEF TablesInv, DecisionLands, Fresh
<1>8. /\ row' = [s \in Results |-> row'[s]] /\ sample' = [s \in Results |-> sample'[s]]
  BY <1>2 DEF TablesInv
<1> QED BY <1>1, <1>6, <1>7, <1>8 DEF TablesInv, Known

LEMMA PairLandsSafely ==
  ASSUME TablesInv, NEW a, NEW b, NEW d, NEW l, PairLands(a, b, d, l)
  PROVE  TablesInv'
<1>1. /\ decisions' = decisions \cup {d} /\ links' = links \cup {l} /\ d.result = b
      /\ l.predecessor = a /\ l.successor = b /\ a \in Results /\ b \in Results /\ a # b
  BY DEF PairLands
<1>2. /\ row' = [row EXCEPT ![a] = ReplacedRow(row[a], l), ![b] = DecidedRow(row[b], d)]
      /\ sample' = [sample EXCEPT ![a] = ReplacedSamples(l), ![b] = DecidedSamples(d)]
  BY DEF PairLands
<1>3. /\ \A s : s # b => Incoming(s)' = Incoming(s) /\ DecisionsOn(s)' = DecisionsOn(s)
      /\ \A s : s # a => Outgoing(s)' = Outgoing(s)
  BY <1>1 DEF Incoming, Outgoing, DecisionsOn
<1>4. ASSUME NEW s \in Results, s # a, s # b PROVE Known(s)'
  <2>1. row'[s] = row[s] /\ sample'[s] = sample[s] BY <1>1, <1>2, <1>4 DEF TablesInv
  <2>2. Known(s) BY DEF TablesInv, Known
  <2> QED BY <1>1, <1>3, <1>4, <2>1, <2>2, KnownFrame
<1>5. Known(b)'
  <2>1. Undecided(b) /\ SoundDecision(d) /\ d.requirement = "ING-041" /\ d.to = "VALID"
        /\ l.decision = d.command /\ l.successorVersion = d.version
    BY DEF PairLands
  <2>2. DecisionsOn(b)' = {d} BY <1>1, <2>1 DEF DecisionsOn, Undecided
  <2>3. Incoming(b)' = {l} /\ Outgoing(b)' = {} BY <1>1, <2>1 DEF Undecided, Incoming, Outgoing
  <2>4. Caused(d)' BY <1>1, <2>1, <2>3 DEF Caused
  <2>5. row'[b] = DecidedRow(NewRow(b), d) /\ sample'[b] = DecidedSamples(d)
    BY <1>1, <1>2, <2>1 DEF TablesInv, Undecided
  <2>6. DecidedBy(b, d)' BY <2>1, <2>2, <2>3, <2>4, <2>5 DEF DecidedBy, NewRow
  <2> QED BY <1>1, <2>6 DEF Known
<1>6. Known(a)'
  <2>1. Outgoing(a) = {} BY DEF PairLands
  <2>2. PICK e \in decisions : DecidedBy(a, e) /\ Corrects(l, e) BY DEF PairLands
  <2>3. row[a] = DecidedRow(NewRow(a), e) /\ e.result = a
    BY <2>1, <2>2 DEF DecidedBy, DecisionsOn
  <2>4. Caused(e)'
    <3>1. Incoming(e.result)' = Incoming(e.result) BY <1>1, <1>3, <2>3
    <3> QED BY <1>1, <2>2, <3>1 DEF DecidedBy, Caused
  <2>5. Outgoing(a)' = {l} BY <1>1, <2>1 DEF Outgoing
  <2>6. row'[a] = ReplacedRow(DecidedRow(NewRow(a), e), l) /\ sample'[a] = ReplacedSamples(l)
    BY <1>1, <1>2, <2>3 DEF TablesInv
  <2>7. DecidedBy(a, e)'
    BY <1>1, <1>3, <2>2, <2>4, <2>5, <2>6 DEF DecidedBy, NewRow, Corrects
  <2> QED BY <1>1, <2>7 DEF Known
<1>7. \A s \in Results : Known(s)' BY <1>4, <1>5, <1>6
<1>8. \A e, f \in decisions' : e.command = f.command => e = f
  BY <1>1 DEF TablesInv, PairLands, Fresh
<1>9. /\ row' = [s \in Results |-> row'[s]] /\ sample' = [s \in Results |-> sample'[s]]
  BY <1>2 DEF TablesInv
<1>10. Identity[a] = Identity[b] /\ Sampled(a) /\ Sampled(b) BY DEF PairLands
<1>11. \A s : Sampled(s)' <=> Sampled(s) BY DEF Sampled
<1> QED BY <1>1, <1>7, <1>8, <1>9, <1>10, <1>11 DEF TablesInv, Known

LEMMA TablesKept == ASSUME TablesInv, TablesStep PROVE TablesInv'
<1>1. CASE UNCHANGED database
  <2>1. row' = row /\ sample' = sample /\ decisions' = decisions /\ links' = links
    BY <1>1 DEF database
  <2>2. \A r : /\ DecisionsOn(r)' = DecisionsOn(r)
               /\ Incoming(r)' = Incoming(r) /\ Outgoing(r)' = Outgoing(r)
    BY <2>1 DEF DecisionsOn, Incoming, Outgoing
  <2>3. \A r \in Results : Known(r)' BY <2>1, <2>2, KnownFrame DEF TablesInv, Known
  <2> QED BY <2>1, <2>3 DEF TablesInv, Known
<1> QED BY <1>1, DecisionLandsSafely, PairLandsSafely DEF TablesStep

\* Every change of a result's rows is counted in its version, and nothing is deleted.
LEMMA RowsAreCounted ==
  ASSUME TablesInv, TablesStep
  PROVE  /\ decisions \subseteq decisions' /\ links \subseteq links'
         /\ \A r \in Results :
              \/ row'[r] = row[r] /\ sample'[r] = sample[r]
              \/ row[r].version \in Nat /\ row'[r].version = row[r].version + 1
<1>1. CASE UNCHANGED database BY <1>1 DEF database
<1>2. ASSUME NEW r, NEW d, DecisionLands(r, d)
      PROVE  /\ decisions \subseteq decisions' /\ links \subseteq links'
             /\ \A s \in Results :
                  \/ row'[s] = row[s] /\ sample'[s] = sample[s]
                  \/ row[s].version \in Nat /\ row'[s].version = row[s].version + 1
  <2>1. row'[r] = DecidedRow(NewRow(r), d) /\ row[r] = NewRow(r) /\ d.version = 1
    BY <1>2 DEF DecisionLands, TablesInv, Undecided, SoundDecision
  <2>2. row[r].version = 1 /\ row'[r].version = 2 BY <2>1, NewFields, DecidedFields
  <2>3. \A s \in Results \ {r} : row'[s] = row[s] /\ sample'[s] = sample[s]
    BY <1>2 DEF DecisionLands, TablesInv
  <2> QED BY <1>2, <2>2, <2>3 DEF DecisionLands
<1>3. ASSUME NEW a, NEW b, NEW d, NEW l, PairLands(a, b, d, l)
      PROVE  /\ decisions \subseteq decisions' /\ links \subseteq links'
             /\ \A s \in Results :
                  \/ row'[s] = row[s] /\ sample'[s] = sample[s]
                  \/ row[s].version \in Nat /\ row'[s].version = row[s].version + 1
  <2>1. row'[b] = DecidedRow(NewRow(b), d) /\ row[b] = NewRow(b) /\ d.version = 1
    BY <1>3 DEF PairLands, TablesInv, Undecided, SoundDecision
  <2>2. row[b].version = 1 /\ row'[b].version = 2 BY <2>1, NewFields, DecidedFields
  <2>3. PICK e \in decisions : DecidedBy(a, e) /\ Corrects(l, e) BY <1>3 DEF PairLands
  <2>4. row[a] = DecidedRow(NewRow(a), e) /\ row'[a] = ReplacedRow(DecidedRow(NewRow(a), e), l)
        /\ e.version = 1
    BY <1>3, <2>3 DEF PairLands, TablesInv, DecidedBy, SoundDecision
  <2>5. l.version = 2 BY <2>3, <2>4 DEF Corrects
  <2>6. row[a].version = 2 /\ row'[a].version = 3 BY <2>4, <2>5, DecidedFields, ReplacedFields
  <2>7. \A s \in Results \ {a, b} : row'[s] = row[s] /\ sample'[s] = sample[s]
    BY <1>3 DEF PairLands, TablesInv
  <2>8. decisions \subseteq decisions' /\ links \subseteq links' BY <1>3 DEF PairLands
  <2> QED BY <2>2, <2>6, <2>7, <2>8
<1> QED BY <1>1, <1>2, <1>3 DEF TablesStep

\* A link was decided when it was written.
LEMMA LinksKeepDecision ==
  ASSUME TablesInv, TablesStep, NEW l \in links
  PROVE  \A d \in decisions' : d.command = l.decision => d \in decisions
<1>1. PICK e \in decisions : l.decision = e.command BY LinkEnds
<1>2. CASE UNCHANGED database BY <1>2 DEF database
<1>3. ASSUME NEW d, decisions' = decisions \cup {d}, Fresh(d)
      PROVE  \A f \in decisions' : f.command = l.decision => f \in decisions
  BY <1>1, <1>3 DEF Fresh
<1>4. ASSUME NEW r, NEW d, DecisionLands(r, d)
      PROVE  decisions' = decisions \cup {d} /\ Fresh(d)
  BY <1>4 DEF DecisionLands
<1>5. ASSUME NEW a, NEW b, NEW d, NEW k, PairLands(a, b, d, k)
      PROVE  decisions' = decisions \cup {d} /\ Fresh(d)
  BY <1>5 DEF PairLands
<1> QED BY <1>2, <1>3, <1>4, <1>5 DEF TablesStep

LEMMA MovedKept ==
  ASSUME TablesInv, TablesStep, NEW l \in links
  PROVE  Moved(l)' <=> Moved(l)
BY LinksKeepDecision, RowsAreCounted DEF Moved

LEMMA EvidenceKept == ASSUME TablesInv, TablesStep, EvidenceInv PROVE EvidenceInv'
<1>1. CASE UNCHANGED database BY <1>1 DEF database, EvidenceInv
<1>2. ASSUME NEW r, NEW d, DecisionLands(r, d) PROVE EvidenceInv'
  <2>1. /\ decisions' = decisions \cup {d} /\ links' = links
        /\ d.intent.kind = "DECIDE" => d.candidate = d.intent.expected
    BY <1>2 DEF DecisionLands
  <2>2. \A l \in links', e \in decisions' : e.command = l.decision => e \in decisions
    BY <2>1, LinksKeepDecision
  <2> QED BY <2>1, <2>2 DEF EvidenceInv
<1>3. ASSUME NEW a, NEW b, NEW d, NEW l, PairLands(a, b, d, l) PROVE EvidenceInv'
  <2>1. /\ decisions' = decisions \cup {d} /\ links' = links \cup {l} /\ Fresh(d)
        /\ l.decision = d.command /\ d.intent.kind # "DECIDE"
        /\ l.review = l.intent.expected.successor.review
        /\ d.candidate.basis.row = l.review.basis.row
        /\ d.candidate.basis.samples = l.review.basis.samples
    BY <1>3 DEF PairLands
  <2>2. \A k \in links, e \in decisions' : e.command = k.decision => e \in decisions
    BY LinksKeepDecision
  <2>3. \A e \in decisions' : e.command = l.decision => e = d BY <2>1 DEF Fresh
  <2>4. \A k \in links', e \in decisions' : e.command = k.decision =>
          /\ e.candidate.basis.row = k.review.basis.row
          /\ e.candidate.basis.samples = k.review.basis.samples
    BY <2>1, <2>2, <2>3 DEF EvidenceInv
  <2> QED BY <2>1, <2>4 DEF EvidenceInv
<1> QED BY <1>1, <1>2, <1>3 DEF TablesStep

-----------------------------------------------------------------------------
(* What a session reads.                                                   *)

LEMMA SamplesShape ==
  ASSUME TablesInv, NEW r \in Results
  PROVE  DOMAIN sample[r] = DOMAIN Evidence[r].samples
         /\ sample[r] = [i \in DOMAIN Evidence[r].samples |-> sample[r][i]]
<1>1. CASE Undecided(r) BY <1>1 DEF Undecided, NewSamples
<1>2. CASE \E d \in decisions : DecidedBy(r, d)
  <2>1. PICK d \in decisions : DecidedBy(r, d) BY <1>2
  <2>2. DOMAIN d.samples = DOMAIN Evidence[r].samples
    BY <2>1 DEF DecidedBy, SoundDecision, DecisionsOn
  <2>3. CASE sample[r] = DecidedSamples(d) BY <2>2, <2>3 DEF DecidedSamples
  <2>4. CASE \E l \in links : Corrects(l, d) /\ sample[r] = ReplacedSamples(l)
    BY <2>2, <2>4 DEF Corrects, ReplacedSamples
  <2> QED BY <2>1, <2>3, <2>4 DEF DecidedBy
<1> QED BY <1>1, <1>2 DEF TablesInv

LEMMA RowsAreReadings ==
  ASSUME TablesInv, NEW r \in Results, NEW ms, IsLookup(ms)
  PROVE  IsReading(Evidence[r], ReviewRow(row[r]), sample[r], ms)
<1>1. IsEvidence(Evidence[r]) BY ReviewAssumption
<1>2. ReviewRow(row[r]).projected \in BOOLEAN BY DEF ReviewRow
<1>3. Len(sample[r]) \in Nat /\ DOMAIN sample[r] = 1 .. Len(sample[r])
      /\ (sample[r] = <<>> <=> Len(sample[r]) = 0)
  <2> DEFINE S == [kind : SampleKinds, value : Int]
  <2>1. Evidence[r].samples \in Seq(S) BY <1>1 DEF IsEvidence
  <2>2. sample[r] = [i \in DOMAIN Evidence[r].samples |-> sample[r][i]] BY SamplesShape
  <2> HIDE DEF S
  <2> QED BY <2>1, <2>2, SameLength
<1>4. IsFiniteSet(ms) /\ \A m \in ms : IsMaster(m)
  <2>1. CASE ms = {} BY <2>1, FS_EmptySet
  <2>2. ASSUME NEW m, ms = {m}, IsMaster(m) PROVE IsFiniteSet(ms) /\ \A n \in ms : IsMaster(n)
    BY <2>2, FS_Singleton
  <2> QED BY <2>1, <2>2 DEF IsLookup
<1> QED BY <1>1, <1>2, <1>3, <1>4 DEF IsReading

\* A candidate that allows anything was built from the rows as they were signed.
LEMMA ReviewFinds ==
  ASSUME TablesInv, NEW r \in Results, NEW it, NEW ms, IsLookup(ms),
         NEW c, c = ReviewOf(r, row[r], sample[r], it, ms), c.allowed # {}
  PROVE  /\ Undecided(r) /\ SignedStatus(Evidence[r]) = "PENDING"
         /\ c.basis.row = ReviewRow(NewRow(r)) /\ c.basis.row.version = 1
         /\ c.basis.samples = NewSamples(r)
         /\ "VALID" \in c.allowed =>
              /\ FitForValid(c.basis)
              /\ c.judgment = IF Fails(Evidence[r], c.master) THEN "FAIL" ELSE "PASS"
<1> DEFINE rw == ReviewRow(row[r])
           b == Basis(Evidence[r], rw, sample[r], it, ms)
<1>1. IsReading(Evidence[r], rw, sample[r], ms) BY RowsAreReadings
<1>2. c = Candidate(b) BY DEF ReviewOf
<1>3. rw.status = "PENDING" /\ SignedStatus(Evidence[r]) = "PENDING"
  <2> HIDE DEF rw
  <2> QED BY <1>1, <1>2, CandidateAllows
<1>4. b.evidence = Evidence[r] /\ b.row = rw /\ b.samples = sample[r] BY BasisFields
<1>5. CandidateIsSound(b) /\ c.basis = b
  <2> HIDE DEF rw
  <2> QED BY <1>1, <1>2, CandidateSound
<1>6. row[r].status = "PENDING" BY <1>3 DEF ReviewRow
<1>7. Undecided(r) BY <1>6, PendingIsNew
<1>8. rw.version = 1 /\ rw = ReviewRow(NewRow(r)) /\ sample[r] = NewSamples(r)
  BY <1>7, NewFields DEF Undecided, ReviewRow
<1> HIDE DEF b, rw
<1> QED BY <1>2, <1>3, <1>4, <1>5, <1>7, <1>8 DEF CandidateIsSound

\* The decision on such a candidate is sound.
LEMMA DecisionIsSound ==
  ASSUME NEW command, command # NoDecision, NEW intent, NEW r \in Results,
         NEW c, NEW target \in {"VALID", "SUSPECT", "EXCLUDED"} \cap c.allowed, NEW requirement,
         SignedStatus(Evidence[r]) = "PENDING", c.basis.row.version = 1,
         c.basis.samples = NewSamples(r),
         "VALID" \in c.allowed =>
              /\ FitForValid(c.basis)
              /\ c.judgment = IF Fails(Evidence[r], c.master) THEN "FAIL" ELSE "PASS"
  PROVE  LET d == Decision(command, intent, r, target, c, requirement)
         IN  /\ SoundDecision(d) /\ d.result = r /\ d.command = command /\ d.intent = intent
             /\ d.to = target /\ d.requirement = requirement /\ d.candidate = c
             /\ d.version = 1
<1> DEFINE d == Decision(command, intent, r, target, c, requirement)
<1>1. /\ d.command = command /\ d.intent = intent /\ d.result = r /\ d.to = target
      /\ d.version = c.basis.row.version /\ d.candidate = c /\ d.requirement = requirement
      /\ d.samples = [i \in DOMAIN c.basis.samples |-> c.basis.samples[i].version]
  BY DEF Decision
<1>2. d.samples = [i \in DOMAIN Evidence[r].samples |-> 1] BY <1>1, NewFields DEF NewSamples
<1> HIDE DEF d
<1> QED BY <1>1, <1>2 DEF SoundDecision, d

\* The reading of one result makes a sound candidate, which holds what was read.
LEMMA ReadableIsSound ==
  ASSUME NEW r, NEW rw, NEW sm, NEW it, NEW ms, IsLookup(ms), Readable(r, rw, sm),
         NEW c, c = ReviewOf(r, rw, sm, it, ms)
  PROVE  CandidateIsSound(c.basis) /\ c.basis.row = ReviewRow(rw) /\ c.basis.samples = sm
<1> DEFINE rv == ReviewRow(rw)
           b == Basis(Evidence[r], rv, sm, it, ms)
<1>1. IsReading(Evidence[r], rv, sm, ms) BY DEF Readable
<1>2. b.row = rv /\ b.samples = sm BY BasisFields
<1>3. c = Candidate(b) BY DEF ReviewOf
<1>4. CandidateIsSound(b) /\ Candidate(b).basis = b
  <2> HIDE DEF rv
  <2> QED BY <1>1, CandidateSound
<1> HIDE DEF b
<1> QED BY <1>2, <1>3, <1>4

-----------------------------------------------------------------------------
(* The callers.                                                            *)

SameCaller(o) ==
  /\ phase'[o] = phase[o] /\ request'[o] = request[o]
  /\ seen'[o] = seen[o] /\ answer'[o] = answer[o]

\* What a step of p has to keep.
KeptBy(p) ==
  /\ TablesStep /\ CallersShape' /\ CallerInv(p)' /\ TrueAnswer(p)'
  /\ \A o \in Reviewers \ {p} : SameCaller(o)
  /\ configuration' = configuration

\* What was read of a result is read for ever.
LEMMA SawRowStays ==
  ASSUME TablesInv, TablesStep, NEW r \in Results, NEW rw, NEW sm, SawRow(r, rw, sm)
  PROVE  SawRow(r, rw, sm)'
<1>1. \/ row'[r] = row[r] /\ sample'[r] = sample[r]
      \/ row[r].version \in Nat /\ row'[r].version = row[r].version + 1
  BY RowsAreCounted
<1>2. NewRow(r)' = NewRow(r) /\ NewSamples(r)' = NewSamples(r) BY DEF NewRow, NewSamples
<1>3. Readable(r, rw, sm)' = Readable(r, rw, sm) BY DEF Readable
<1> QED BY <1>1, <1>2, <1>3 DEF SawRow

LEMMA PairHeldStays ==
  ASSUME TablesInv, TablesStep, NEW q, q.predecessor \in Results, PairHeld(q)
  PROVE  PairHeld(q)'
<1> DEFINE rw == q.expected.predecessor.row
           sm == q.expected.predecessor.samples
<1>1. SawRow(q.predecessor, rw, sm) BY DEF PairHeld
<1> HIDE DEF rw, sm
<1>2. SawRow(q.predecessor, rw, sm)' BY <1>1, SawRowStays
<1>3. /\ NewRow(q.successor)' = NewRow(q.successor)
      /\ NewSamples(q.successor)' = NewSamples(q.successor)
  BY DEF NewRow, NewSamples
<1> QED BY <1>2, <1>3 DEF PairHeld, rw, sm

\* A caller that does not move finds what it knows still true.
LEMMA CallerFrame ==
  ASSUME TablesInv, TablesStep, NEW p \in Reviewers, CallerInv(p), TrueAnswer(p), SameCaller(p)
  PROVE  CallerInv(p)' /\ TrueAnswer(p)'
<1> DEFINE q == request[p]
<1>1. decisions \subseteq decisions' /\ links \subseteq links' BY RowsAreCounted
<1>2. phase'[p] = phase[p] /\ request'[p] = q /\ seen'[p] = seen[p] /\ answer'[p] = answer[p]
  BY DEF SameCaller
<1>3. \A x \in Stored(q) : x \in Stored(q)' BY <1>1, <1>2 DEF Stored, DecisionOf, LinkOf
<1>4. ASSUME NEW r \in Results, Saw(p, r) PROVE Saw(p, r)'
  BY <1>2, <1>4, SawRowStays DEF Saw
<1>5. IsRequest(q) => /\ Rows(q) \subseteq Results /\ Judged(q) \in Results
                      /\ q.kind = "REPLACE" => q.predecessor \in Results
  BY DEF IsRequest, Rows, Judged
<1>6. \A x \in Stored(q) : q.kind # "DECIDE" => (Moved(x)' <=> Moved(x))
  BY MovedKept DEF Stored, LinkOf
<1>7. TrueAnswer(p)'
  <2> HIDE DEF q
  <2>1. IsTrue(answer[p], q) BY DEF TrueAnswer, q
  <2>2. IsTrue(answer[p], q)' BY <1>2, <1>3, <1>6, <2>1 DEF IsTrue, q
  <2> QED BY <1>2, <2>2 DEF TrueAnswer, q
<1>8. phase[p] # "idle" => IsRequest(q) BY DEF CallerInv
<1>9. Knows(p, phase[p])'
  <2>1. CASE phase[p] = "idle" BY <2>1, <1>2 DEF Knows
  <2>2. CASE phase[p] # "idle"
    <3>1. IsRequest(q) BY <1>8, <2>2
    <3>2. q.kind = "REPLACE" /\ PairHeld(q) => PairHeld(q)'
      BY <1>2, <1>5, <3>1, PairHeldStays
    <3> QED BY <1>2, <1>3, <1>4, <1>5, <3>1, <3>2 DEF CallerInv, Knows
  <2> QED BY <2>1, <2>2
<1>10. phase'[p] # "idle" => IsRequest(request'[p]) BY <1>2, <1>8
<1> QED BY <1>2, <1>7, <1>9, <1>10 DEF CallerInv

\* A session that has just read a result saw what is there.
LEMMA JustRead ==
  ASSUME TablesInv, UNCHANGED database, NEW p, NEW r \in Results,
         seen'[p].rows[r] = row[r], seen'[p].samples[r] = sample[r]
  PROVE  Saw(p, r)'
<1>1. row[r].version \in {1, 2, 3} BY RowState
<1>2. Readable(r, row[r], sample[r]) BY RowsAreReadings DEF Readable
<1>3. row[r].status = "PENDING" => row[r] = NewRow(r) /\ sample[r] = NewSamples(r)
  BY PendingIsNew DEF Undecided
<1> QED BY <1>1, <1>2, <1>3 DEF Saw, SawRow, database, NewRow, NewSamples, Readable

\* A caller that reads, waits or is answered without a write.
LEMMA PlainStep ==
  ASSUME ReviewInv, NEW p \in Reviewers, UNCHANGED <<database, configuration, request>>,
         NEW next \in Phases \ {"idle"}, IsRequest(request[p]), Step(p, next),
         \/ UNCHANGED answer
         \/ \E a : answer' = [answer EXCEPT ![p] = a] /\ IsTrue(a, request[p]),
         seen' = [o \in Reviewers |-> seen'[o]], \A o \in Reviewers \ {p} : seen'[o] = seen[o],
         Knows(p, next)'
  PROVE  KeptBy(p)
<1>1. TablesStep /\ configuration' = configuration BY DEF TablesStep, database, configuration
<1>2. phase' = [phase EXCEPT ![p] = next] /\ request' = request BY DEF Step
<1>3. CallersShape' BY <1>2 DEF ReviewInv, CallersInv, CallersShape
<1>4. phase'[p] = next BY <1>2 DEF ReviewInv, CallersInv, CallersShape
<1>5. Stored(request[p])' = Stored(request[p]) /\ \A x : Moved(x)' = Moved(x)
  BY <1>2 DEF Stored, DecisionOf, LinkOf, Moved, database
<1>6. CallerInv(p)' BY <1>2, <1>4 DEF CallerInv, Knows
<1>7. TrueAnswer(p)'
  <2>1. IsTrue(answer'[p], request[p])
    BY DEF ReviewInv, CallersInv, CallersShape, TrueAnswer
  <2> QED BY <1>2, <1>5, <2>1 DEF TrueAnswer, IsTrue
<1>8. \A o \in Reviewers \ {p} : SameCaller(o)
  BY <1>2 DEF SameCaller, ReviewInv, CallersInv, CallersShape
<1> QED BY <1>1, <1>3, <1>6, <1>7, <1>8 DEF KeptBy

\* Of a history at most one revision is in force.
LEMMA OneMaster == ConfigurationOK => IsLookup(EffectiveMasters)
<1> DEFINE Seen(r) == [revision |-> r, history |-> master.version, unit |-> Masters[r].unit,
                       lsl |-> Masters[r].lsl, usl |-> Masters[r].usl]
<1> SUFFICES ASSUME ConfigurationOK PROVE IsLookup(EffectiveMasters) OBVIOUS
<1>1. \A r \in MasterRevisions : IsMaster(Masters[r]) BY ReviewAssumption
<1>2. \A r \in MasterRevisions : IsMaster(Seen(r)) BY <1>1 DEF IsMaster
<1>3. EffectiveMasters = {Seen(r) : r \in InForce} BY DEF EffectiveMasters
<1> HIDE DEF Seen
<1>4. CASE InForce = {} BY <1>3, <1>4 DEF IsLookup
<1>5. CASE InForce # {}
  <2>1. PICK r : InForce = {r} /\ r \in MasterRevisions BY <1>5 DEF ConfigurationOK, InForce
  <2>2. EffectiveMasters = {Seen(r)} BY <1>3, <2>1
  <2> QED BY <1>2, <2>1, <2>2 DEF IsLookup
<1> QED BY <1>4, <1>5

\* What the environment does to the configuration.
LEMMA ConfigurationInitOK == ConfigurationInit => ConfigurationOK
BY DEF ConfigurationInit, ConfigurationOK, Standings, InForce

LEMMA ConfigurationStepOK == ConfigurationOK /\ [ConfigurationNext]_configuration => ConfigurationOK'
<1> SUFFICES ASSUME ConfigurationOK, [ConfigurationNext]_configuration PROVE ConfigurationOK' OBVIOUS
<1>1. /\ item.version \in Nat /\ master.version \in Nat
      /\ master.standing \in [MasterRevisions -> Standings]
      /\ master = [standing |-> master.standing, version |-> master.version]
  BY DEF ConfigurationOK
<1>b. \A n \in Nat : n + 1 \in Nat OBVIOUS
<1>a. \A st \in [MasterRevisions -> Standings], v \in Nat :
        [standing |-> st, version |-> v] \in [standing : [MasterRevisions -> Standings], version : Nat]
  OBVIOUS
<1>2. CASE UNCHANGED configuration BY <1>2 DEF configuration, ConfigurationOK, InForce
<1>3. ASSUME NEW to \in {"MANAGED", "EXCLUDED"}, Dispose(to) PROVE ConfigurationOK'
  <2>1. UNCHANGED master /\ item' = [disposition |-> to, version |-> item.version + 1]
    BY <1>3 DEF Dispose
  <2>2. item' \in [disposition : {"CANDIDATE", "MANAGED", "EXCLUDED"}, version : Nat]
    BY <1>1, <2>1
  <2> QED BY <2>1, <2>2 DEF ConfigurationOK, InForce
<1>4. CASE EditMaster
  <2>1. master'.standing = master.standing /\ master'.version = master.version + 1 /\ item' = item
        /\ master' = [standing |-> master.standing, version |-> master.version + 1]
    BY <1>1, <1>4 DEF EditMaster
  <2>2. master' \in [standing : [MasterRevisions -> Standings], version : Nat]
    BY <1>1, <1>a, <2>1
  <2>3. InForce' = InForce BY <2>1 DEF InForce
  <2> QED BY <2>1, <2>2, <2>3 DEF ConfigurationOK
<1>5. ASSUME NEW r \in MasterRevisions, ApproveMaster(r) PROVE ConfigurationOK'
  <2>1. PICK now \in {"in force", "other days"}, ended \in {{}, InForce} :
          /\ now = "in force" => ended = InForce
          /\ master' = [standing |-> [q \in MasterRevisions |->
                           IF q = r THEN now
                           ELSE IF q \in ended THEN "other days" ELSE master.standing[q]],
                        version |-> master.version + 1]
    BY <1>5 DEF ApproveMaster
  <2>2. UNCHANGED item BY <1>5 DEF ApproveMaster
  <2>3. /\ master'.version = master.version + 1
        /\ \A q \in MasterRevisions : master'.standing[q] =
             IF q = r THEN now ELSE IF q \in ended THEN "other days" ELSE master.standing[q]
        /\ master'.standing \in [MasterRevisions -> Standings]
    BY <1>1, <2>1 DEF Standings
  <2>4. master' \in [standing : [MasterRevisions -> Standings], version : Nat]
    <3>1. master' = [standing |-> master'.standing, version |-> master.version + 1] BY <2>1
    <3>2. master'.standing \in [MasterRevisions -> Standings] BY <2>3, Zenon
    <3>3. master.version + 1 \in Nat BY <1>1, <1>b, Zenon
    <3> QED BY <1>a, <3>1, <3>2, <3>3, Zenon
  <2>5. InForce' = {q \in MasterRevisions : master'.standing[q] = "in force"} BY DEF InForce
  <2>6. CASE now = "in force"
    <3>1. InForce' = {r} BY <2>1, <2>3, <2>5, <2>6 DEF InForce
    <3> QED BY <2>2, <2>4, <3>1 DEF ConfigurationOK
  <2>7. CASE now # "in force"
    <3>1. InForce' \subseteq InForce BY <2>3, <2>5, <2>7 DEF InForce
    <3> QED BY <2>2, <2>4, <3>1 DEF ConfigurationOK
  <2> QED BY <2>6, <2>7
<1> QED BY <1>2, <1>3, <1>4, <1>5 DEF ConfigurationNext

\* A caller that learns nothing, or only that its intent is stored.
LEMMA WaitingStep ==
  ASSUME ReviewInv, NEW p \in Reviewers, UNCHANGED <<database, configuration, request, seen>>,
         NEW next, Step(p, next), IsRequest(request[p]),
         \/ next \in {"rows", "recheck", "answered"}
         \/ next = "replay" /\ \E x \in Stored(request[p]) : x.intent = request[p],
         \/ UNCHANGED answer
         \/ \E a : answer' = [answer EXCEPT ![p] = a] /\ IsTrue(a, request[p])
  PROVE  KeptBy(p)
<1>1. seen' = [o \in Reviewers |-> seen'[o]] /\ \A o \in Reviewers \ {p} : seen'[o] = seen[o]
  BY DEF ReviewInv, CallersInv, CallersShape
<1>2. Stored(request[p])' = Stored(request[p])
  BY DEF Stored, DecisionOf, LinkOf, database
<1>3. Knows(p, next)' BY <1>2 DEF Knows
<1>4. next \in Phases \ {"idle"} BY DEF Phases
<1> QED BY <1>1, <1>3, <1>4, PlainStep

\* The request of a caller that is being served.
LEMMA ServedRequest ==
  ASSUME ReviewInv, NEW p \in Reviewers, phase[p] # "idle"
  PROVE  /\ IsRequest(request[p]) /\ Knows(p, phase[p])
         /\ Rows(request[p]) \subseteq Results /\ Judged(request[p]) \in Rows(request[p])
         /\ Decides(p) <=> request[p].kind = "DECIDE"
         /\ Replaces(p) <=> request[p].kind = "REPLACE"
         /\ Decides(p) <=> ~ Replaces(p)
<1>1. IsRequest(request[p]) /\ Knows(p, phase[p]) BY DEF ReviewInv, CallersInv, CallerInv
<1> QED BY <1>1 DEF IsRequest, Rows, Judged, Decides, Replaces

\* What the lookups, the rechecks and the replays answer.
LEMMA LookupSteps ==
  ASSUME ReviewInv, NEW p \in Reviewers,
         \/ LookupCommand(p) \/ RecheckCommand(p) \/ LookupPair(p) \/ RecheckPair(p)
         \/ FailWrite(p) \/ ReplayDecision(p)
  PROVE  KeptBy(p)
<1> DEFINE q == request[p]
           Found == \E x \in Stored(q) : x.intent = q
<1>1. phase[p] # "idle"
  BY DEF LookupCommand, RecheckCommand, LookupPair, RecheckPair, FailWrite, ReplayDecision
<1>2. /\ IsRequest(q) /\ Knows(p, phase[p])
      /\ (Decides(p) <=> q.kind = "DECIDE") /\ (Decides(p) <=> ~ Replaces(p))
  BY <1>1, ServedRequest
<1>3. /\ Decides(p) => Stored(q) = DecisionOf(q.command)
      /\ Replaces(p) => Stored(q) = LinkOf(q)
  BY <1>2 DEF Stored
<1>4. /\ UNCHANGED <<database, configuration, request, seen>>
      /\ \/ Step(p, "rows") /\ UNCHANGED answer
         \/ Step(p, "replay") /\ UNCHANGED answer /\ Found
         \/ Finish(p, "CONFLICT") /\ \E x \in Stored(q) : x.intent # q
         \/ Finish(p, "STALE") \/ Finish(p, "UNAVAILABLE") \/ Finish(p, "INTEGRITY")
         \/ Finish(p, "REPLAYED") /\ Decides(p) /\ Found
  <2>1. CASE LookupCommand(p) \/ RecheckCommand(p)
    BY <1>3, <2>1 DEF LookupCommand, RecheckCommand
  <2>2. CASE LookupPair(p) \/ RecheckPair(p)
    BY <1>3, <2>2 DEF LookupPair, RecheckPair
  <2>3. CASE FailWrite(p) BY <2>3 DEF FailWrite
  <2>4. CASE ReplayDecision(p)
    <3>1. Found /\ Decides(p) BY <1>2, <2>4 DEF ReplayDecision, Knows
    <3>2. /\ UNCHANGED <<database, configuration, request, seen>>
          /\ Finish(p, "REPLAYED") \/ Finish(p, "INTEGRITY")
      BY <2>4 DEF ReplayDecision
    <3> QED BY <3>1, <3>2
  <2> QED BY <2>1, <2>2, <2>3, <2>4
<1>5. CASE (Step(p, "rows") \/ (Step(p, "replay") /\ Found)) /\ UNCHANGED answer
  BY <1>2, <1>4, <1>5, WaitingStep
<1>6. ASSUME NEW a, Finish(p, a), IsTrue(a, q) PROVE KeptBy(p)
  BY <1>2, <1>4, <1>6, WaitingStep DEF Finish
<1>7. /\ (\E x \in Stored(q) : x.intent # q) => IsTrue("CONFLICT", q)
      /\ IsTrue("STALE", q) /\ IsTrue("UNAVAILABLE", q) /\ IsTrue("INTEGRITY", q)
      /\ Decides(p) /\ Found => IsTrue("REPLAYED", q)
  BY <1>2 DEF IsTrue
<1> HIDE DEF q, Found
<1> QED BY <1>4, <1>5, <1>6, <1>7

\* A replacement that is replayed was decided on the candidate confirmed for it.
LEMMA ReplayPairSteps ==
  ASSUME ReviewInv, NEW p \in Reviewers, ReplayPair(p)
  PROVE  KeptBy(p)
<1> DEFINE q == request[p]
<1>1. phase[p] = "compare" /\ UNCHANGED <<database, configuration, request, seen>> BY DEF ReplayPair
<1>2. /\ IsRequest(q) /\ q.kind = "REPLACE" /\ Stored(q) = LinkOf(q)
      /\ \E x \in Stored(q) : x.intent = q
  BY <1>1, ServedRequest DEF Knows, Stored
<1>3. PICK l \in LinkOf(q) :
        Finish(p, IF LinkShown(l, seen[p].rows, seen[p].samples) THEN "REPLAYED" ELSE "INTEGRITY")
  BY DEF ReplayPair
<1>4. l.intent = q
  <2>1. PICK k \in LinkOf(q) : k.intent = q BY <1>2
  <2>2. Outgoing(l.predecessor) = {l} BY <1>3, LinkEnds DEF ReviewInv, LinkOf
  <2>3. k \in Outgoing(l.predecessor) BY <1>3 DEF LinkOf, Outgoing
  <2> QED BY <2>1, <2>2, <2>3
<1>5. OfOneEvidence(l) => ~ Moved(l)
  BY <1>3 DEF OfOneEvidence, Moved, DecisionOf, LinkOf, ReviewInv, EvidenceInv
<1>6. LinkShown(l, seen[p].rows, seen[p].samples) => ~ Moved(l)
  BY <1>5 DEF LinkShown, SuccessorShown
<1>7. IsTrue("INTEGRITY", q) /\ (~ Moved(l) => IsTrue("REPLAYED", q))
  BY <1>2, <1>4 DEF IsTrue
<1>8. ASSUME NEW a, Finish(p, a), IsTrue(a, q) PROVE KeptBy(p)
  BY <1>1, <1>2, <1>8, WaitingStep DEF Finish
<1> HIDE DEF q
<1> QED BY <1>3, <1>6, <1>7, <1>8

\* The rows a session has just read, and those it keeps.
LEMMA SessionReads ==
  ASSUME ReviewInv, NEW p \in Reviewers, UNCHANGED database, NEW s, seen' = [seen EXCEPT ![p] = s]
  PROVE  /\ seen'[p] = s
         /\ seen' = [o \in Reviewers |-> seen'[o]] /\ \A o \in Reviewers \ {p} : seen'[o] = seen[o]
         /\ \A S \in SUBSET Results : s = Reading(S) =>
              \A r \in S : Saw(p, r)' /\ seen'[p].rows[r] = row[r]
         /\ s.rows = seen[p].rows /\ s.samples = seen[p].samples => \A r : Saw(p, r) => Saw(p, r)'
<1>1. /\ seen'[p] = s /\ seen' = [o \in Reviewers |-> seen'[o]]
      /\ \A o \in Reviewers \ {p} : seen'[o] = seen[o]
  BY DEF ReviewInv, CallersInv, CallersShape
<1>2. ASSUME NEW S \in SUBSET Results, s = Reading(S), NEW r \in S
      PROVE  Saw(p, r)' /\ seen'[p].rows[r] = row[r]
  <2>1. seen'[p].rows[r] = row[r] /\ seen'[p].samples[r] = sample[r] BY <1>1, <1>2 DEF Reading
  <2> QED BY <1>2, <2>1, JustRead DEF ReviewInv
<1>3. ASSUME s.rows = seen[p].rows, s.samples = seen[p].samples, NEW r, Saw(p, r)
      PROVE  Saw(p, r)'
  BY <1>1, <1>3 DEF Saw, SawRow, database, NewRow, NewSamples, Readable
<1> QED BY <1>1, <1>2, <1>3

\* A pair that is as it was confirmed, and has no issue.
LEMMA PairIsHeld ==
  ASSUME ReviewInv, NEW p \in Reviewers, phase[p] = "confirm", PairSeen(p) = request[p].expected,
         PairSeen(p).issues = {}
  PROVE  PairHeld(request[p])
<1> DEFINE q == request[p]
           a == q.predecessor
           b == q.successor
           rows == seen[p].rows
           samples == seen[p].samples
           review == ReviewSeen(p, b)
           c == PairSeen(p)
<1>1. IsRequest(q) /\ q.kind = "REPLACE" /\ Knows(p, "confirm") BY ServedRequest DEF Knows
<1>2. a \in Rows(q) /\ b \in Rows(q) BY <1>1 DEF Rows
<1>3. /\ SawRow(a, rows[a], samples[a]) /\ SawRow(b, rows[b], samples[b])
      /\ Replaceable(rows, a, b) /\ IsLookup(seen[p].masters)
  BY <1>1, <1>2 DEF Knows, Saw
<1>4. /\ c.predecessor.row = rows[a] /\ c.predecessor.samples = samples[a]
      /\ c.successor.row = rows[b] /\ c.successor.samples = samples[b]
      /\ c.successor.review = review
      /\ c.issues = {} => Identity[a] = Identity[b]
  BY DEF PairSeen, Pair
<1>5. rows[b] = NewRow(b) /\ samples[b] = NewSamples(b) /\ rows[a].status \in {"VALID", "SUSPECT"}
  BY <1>3 DEF SawRow, Replaceable
<1>6. review.basis.row = ReviewRow(rows[b]) /\ review.basis.samples = samples[b]
  <2>1. Readable(b, rows[b], samples[b]) BY <1>3 DEF SawRow
  <2>2. review = ReviewOf(b, rows[b], samples[b], seen[p].item, seen[p].masters)
    BY DEF ReviewSeen
  <2> HIDE DEF review, rows, samples, b
  <2> QED BY <1>3, <2>1, <2>2, ReadableIsSound
<1>7. c = q.expected /\ c.issues = {} OBVIOUS
<1> HIDE DEF c, review
<1> QED BY <1>3, <1>4, <1>5, <1>6, <1>7 DEF PairHeld

LEMMA ReadingSteps ==
  ASSUME ReviewInv, NEW p \in Reviewers,
         \/ ReadRows(p) \/ ReadConfiguration(p)
         \/ ReadPair(p) \/ ReadSuccessorBasis(p) \/ ConfirmPair(p) \/ ReadSuccessorAgain(p)
         \/ ReplayRows(p)
  PROVE  KeptBy(p)
<1> DEFINE q == request[p]
<1>1. phase[p] # "idle" /\ UNCHANGED <<database, configuration, request>>
  BY DEF ReadRows, ReadConfiguration, ReadPair, ReadSuccessorBasis, ConfirmPair,
         ReadSuccessorAgain, ReplayRows
<1>2. /\ IsRequest(q) /\ Knows(p, phase[p]) /\ Rows(q) \subseteq Results /\ Judged(q) \in Rows(q)
      /\ (Decides(p) <=> q.kind = "DECIDE") /\ (Replaces(p) <=> q.kind = "REPLACE")
      /\ Decides(p) <=> ~ Replaces(p)
  BY <1>1, ServedRequest
<1>3. IsLookup(EffectiveMasters) BY OneMaster DEF ReviewInv, CallersInv
<1>4. /\ request' = request /\ row' = row /\ Stored(q)' = Stored(q)
      /\ PairHeld(q) /\ q.kind = "REPLACE" => PairHeld(q)'
  <2>1. TablesStep /\ TablesInv BY <1>1 DEF TablesStep, ReviewInv
  <2>2. q.kind = "REPLACE" => q.predecessor \in Results BY <1>2 DEF IsRequest
  <2>3. request' = request /\ row' = row /\ Stored(q)' = Stored(q)
    BY <1>1 DEF Stored, DecisionOf, LinkOf, database
  <2>4. PairHeld(q) => PairHeld(q)'
    BY <1>1 DEF PairHeld, SawRow, Readable, NewRow, NewSamples, database
  <2> QED BY <2>3, <2>4
<1>5. ASSUME NEW s, seen' = [seen EXCEPT ![p] = s], NEW next \in Phases \ {"idle"},
             Step(p, next), UNCHANGED answer, Knows(p, next)'
      PROVE  KeptBy(p)
  BY <1>1, <1>2, <1>5, SessionReads, PlainStep
<1>6. ASSUME NEW a \in {"STALE", "INELIGIBLE"}, Finish(p, a), UNCHANGED seen PROVE KeptBy(p)
  <2>1. IsTrue(a, q) BY <1>6 DEF IsTrue
  <2> QED BY <1>1, <1>2, <1>6, <2>1, WaitingStep DEF Finish
<1>7. CASE ReadRows(p)
  <2>1. /\ seen' = [seen EXCEPT ![p] = Reading(Rows(q))] /\ Step(p, "configuration")
        /\ UNCHANGED answer /\ ~ Replaces(p)
    BY <1>2, <1>7 DEF ReadRows, ReadOf
  <2>2. Knows(p, "configuration")' BY <1>1, <1>2, <1>4, <2>1, SessionReads DEF Knows
  <2> QED BY <1>5, <2>1, <2>2 DEF Phases
<1>8. CASE ReplayRows(p)
  <2>1. /\ seen' = [seen EXCEPT ![p] = ReadOf(q)] /\ Step(p, "compare") /\ UNCHANGED answer
        /\ phase[p] = "replay" /\ Replaces(p)
    BY <1>8 DEF ReplayRows
  <2>2. Knows(p, "compare")' BY <1>2, <1>4, <2>1 DEF Knows
  <2> QED BY <1>5, <2>1, <2>2 DEF Phases
<1>9. CASE ReadPair(p)
  <2>1. CASE Replaceable(row, q.predecessor, q.successor)
    <3>1. /\ seen' = [seen EXCEPT ![p] = Reading(Rows(q))] /\ Step(p, "configuration")
          /\ UNCHANGED answer /\ Replaces(p)
      BY <1>9, <2>1 DEF ReadPair, ReadOf
    <3>2. q.predecessor \in Rows(q) /\ q.successor \in Rows(q) BY <1>2, <3>1 DEF Rows
    <3>3. \A r \in Rows(q) : Saw(p, r)' /\ seen'[p].rows[r] = row[r]
      <4> DEFINE S == Rows(q)
                 s == Reading(S)
      <4>1. S \in SUBSET Results /\ seen' = [seen EXCEPT ![p] = s] /\ s = Reading(S)
        BY <1>2, <3>1
      <4> HIDE DEF S, s
      <4>2. \A r \in S : Saw(p, r)' /\ seen'[p].rows[r] = row[r]
        BY <1>1, <4>1, SessionReads
      <4> QED BY <4>2 DEF S
    <3>4. Replaceable(seen'[p].rows, q.predecessor, q.successor)
      BY <2>1, <3>2, <3>3 DEF Replaceable
    <3>5. Knows(p, "configuration")' BY <1>4, <3>3, <3>4 DEF Knows, Replaceable
    <3> QED BY <1>5, <3>1, <3>5 DEF Phases
  <2>2. CASE ~ Replaceable(row, q.predecessor, q.successor)
    BY <1>6, <1>9, <2>2 DEF ReadPair
  <2> QED BY <2>1, <2>2
<1>10. CASE ReadConfiguration(p)
  <2> DEFINE s == WithConfiguration(seen[p])
  <2>1. /\ seen' = [seen EXCEPT ![p] = s] /\ Step(p, "write") /\ UNCHANGED answer
        /\ phase[p] = "configuration" /\ q.kind = "DECIDE"
    BY <1>2, <1>10 DEF ReadConfiguration
  <2>2. s.rows = seen[p].rows /\ s.samples = seen[p].samples /\ s.masters = EffectiveMasters
    BY DEF WithConfiguration
  <2> HIDE DEF s
  <2>3. seen'[p] = s /\ (Saw(p, Judged(q)) => Saw(p, Judged(q))')
    BY <1>1, <1>4, <2>1, <2>2, SessionReads
  <2>4. Knows(p, "write")' BY <1>2, <1>3, <1>4, <2>1, <2>2, <2>3 DEF Knows
  <2> QED BY <1>5, <2>1, <2>4 DEF Phases
<1>11. CASE ReadSuccessorBasis(p)
  <2> DEFINE s == [kind |-> "pair", rows |-> seen[p].rows, samples |-> seen[p].samples,
                   item |-> item, masters |-> EffectiveMasters,
                   issues |-> LinkIssues(q.predecessor, q.successor)]
  <2>1. /\ seen' = [seen EXCEPT ![p] = s] /\ Step(p, "confirm") /\ UNCHANGED answer
        /\ phase[p] = "configuration" /\ q.kind = "REPLACE"
    BY <1>2, <1>11 DEF ReadSuccessorBasis
  <2>2. s.rows = seen[p].rows /\ s.samples = seen[p].samples /\ s.masters = EffectiveMasters
    OBVIOUS
  <2> HIDE DEF s
  <2>3. seen'[p] = s /\ \A r : Saw(p, r) => Saw(p, r)'
    BY <1>1, <2>1, <2>2, SessionReads
  <2>4. Knows(p, "confirm")' BY <1>2, <1>3, <1>4, <2>1, <2>2, <2>3 DEF Knows, Replaceable
  <2> QED BY <1>5, <2>1, <2>4 DEF Phases
<1>12. CASE ConfirmPair(p)
  <2> DEFINE s == Reading({q.successor})
  <2>1. /\ phase[p] = "confirm"
        /\ \/ (Finish(p, "STALE") \/ Finish(p, "INELIGIBLE")) /\ UNCHANGED seen
           \/ /\ PairSeen(p) = q.expected /\ PairSeen(p).issues = {}
              /\ seen' = [seen EXCEPT ![p] = s] /\ Step(p, "settle") /\ UNCHANGED answer
    BY <1>12 DEF ConfirmPair
  <2>2. CASE (Finish(p, "STALE") \/ Finish(p, "INELIGIBLE")) /\ UNCHANGED seen BY <1>6, <2>2
  <2>3. CASE /\ PairSeen(p) = q.expected /\ PairSeen(p).issues = {}
             /\ seen' = [seen EXCEPT ![p] = s] /\ Step(p, "settle") /\ UNCHANGED answer
    <3>1. q.kind = "REPLACE" /\ Judged(q) = q.successor /\ q.successor \in Results
      BY <1>2, <2>1 DEF Knows, Judged
    <3>2. PairHeld(q)' BY <1>4, <2>1, <2>3, <3>1, PairIsHeld
    <3>3. {q.successor} \in SUBSET Results BY <3>1
    <3>4. Saw(p, q.successor)' BY <1>1, <1>4, <2>3, <3>3, SessionReads
    <3>5. Knows(p, "settle")' BY <1>4, <3>1, <3>2, <3>4 DEF Knows
    <3> QED BY <1>5, <2>3, <3>5 DEF Phases
  <2> QED BY <2>1, <2>2, <2>3
<1>13. CASE ReadSuccessorAgain(p)
  <2> DEFINE s == WithConfiguration(seen[p])
  <2>1. /\ seen' = [seen EXCEPT ![p] = s] /\ Step(p, "write") /\ UNCHANGED answer
        /\ phase[p] = "settle"
    BY <1>13 DEF ReadSuccessorAgain
  <2>2. s.rows = seen[p].rows /\ s.samples = seen[p].samples /\ s.masters = EffectiveMasters
    BY DEF WithConfiguration
  <2> HIDE DEF s
  <2>3. seen'[p] = s /\ (Saw(p, Judged(q)) => Saw(p, Judged(q))')
    BY <1>1, <1>4, <2>1, <2>2, SessionReads
  <2>4. Knows(p, "write")' BY <1>2, <1>3, <1>4, <2>1, <2>2, <2>3 DEF Knows
  <2> QED BY <1>5, <2>1, <2>4 DEF Phases
<1> QED BY <1>7, <1>8, <1>9, <1>10, <1>11, <1>12, <1>13

\* A request that is sent leaves everything else as it was.
LEMMA SendKeeps ==
  ASSUME ReviewInv, NEW p \in Reviewers, NEW q, IsRequest(q), Send(p, q)
  PROVE  KeptBy(p)
<1>1. /\ UNCHANGED database /\ UNCHANGED configuration /\ phase' = [phase EXCEPT ![p] = "lookup"]
      /\ request' = [request EXCEPT ![p] = q] /\ seen' = [seen EXCEPT ![p] = Nothing]
      /\ answer' = [answer EXCEPT ![p] = "none"]
  BY DEF Send
<1>2. TablesStep /\ configuration' = configuration BY <1>1 DEF TablesStep, configuration
<1>3. CallersShape' BY <1>1 DEF ReviewInv, CallersInv, CallersShape, Phases
<1>4. phase'[p] = "lookup" /\ request'[p] = q /\ answer'[p] = "none"
  BY <1>1 DEF ReviewInv, CallersInv, CallersShape
<1>5. CallerInv(p)' BY <1>4 DEF CallerInv, Knows
<1>6. TrueAnswer(p)' BY <1>4 DEF TrueAnswer, IsTrue
<1>7. \A o \in Reviewers \ {p} : SameCaller(o)
  BY <1>1 DEF SameCaller, ReviewInv, CallersInv, CallersShape
<1> QED BY <1>2, <1>3, <1>5, <1>6, <1>7 DEF KeptBy

LEMMA AskSteps ==
  ASSUME ReviewInv, NEW p \in Reviewers, AskDecision(p) \/ Resend(p) \/ AskReplacement(p)
  PROVE  KeptBy(p)
<1>1. CASE AskDecision(p)
  <2>1. PICK q : IsRequest(q) /\ Send(p, q) BY <1>1 DEF AskDecision, IsRequest
  <2> QED BY <2>1, SendKeeps
<1>2. CASE Resend(p)
  <2>1. IsRequest(request[p]) /\ Send(p, request[p])
    BY <1>2 DEF Resend, ReviewInv, CallersInv, CallerInv
  <2> QED BY <2>1, SendKeeps
<1>3. CASE AskReplacement(p)
  <2>1. PICK q : IsRequest(q) /\ Send(p, q) BY <1>3 DEF AskReplacement, IsRequest
  <2> QED BY <2>1, SendKeeps
<1> QED BY <1>1, <1>2, <1>3

\* A caller whose write is committed is told so, and what it asked for is stored.
LEMMA WriteKeeps ==
  ASSUME ReviewInv, NEW p \in Reviewers, TablesStep, UNCHANGED <<configuration, request, seen>>,
         IsRequest(request[p]), Finish(p, "DECIDED"),
         \E x \in Stored(request[p])' : x.intent = request[p]
  PROVE  KeptBy(p)
<1>1. /\ phase' = [phase EXCEPT ![p] = "answered"] /\ answer' = [answer EXCEPT ![p] = "DECIDED"]
      /\ request' = request /\ seen' = seen
  BY DEF Finish, Step
<1>2. CallersShape /\ CallersShape' BY <1>1 DEF ReviewInv, CallersInv, CallersShape, Phases
<1>3. phase'[p] = "answered" /\ answer'[p] = "DECIDED" BY <1>1, <1>2 DEF CallersShape
<1>4. CallerInv(p)' BY <1>1, <1>3 DEF CallerInv, Knows
<1>5. TrueAnswer(p)' BY <1>1, <1>3 DEF TrueAnswer, IsTrue
<1>6. \A o \in Reviewers \ {p} : SameCaller(o) BY <1>1, <1>2 DEF SameCaller, CallersShape
<1> QED BY <1>2, <1>4, <1>5, <1>6 DEF KeptBy

LEMMA WriteDecisionSteps ==
  ASSUME ReviewInv, NEW p \in Reviewers, WriteDecision(p)
  PROVE  KeptBy(p)
<1> DEFINE q == request[p]
           r == q.result
           c == ReviewSeen(p, r)
           d == Decision(q.command, q, r, q.target, c, "none")
           Commits == /\ c = q.expected /\ q.target \in c.allowed /\ Insertable(d)
                      /\ Unchanged(r, seen[p].rows[r], c.basis.samples)
                      /\ decisions' = decisions \cup {d} /\ UNCHANGED links
                      /\ row' = [row EXCEPT ![r] = DecidedRow(row[r], d)]
                      /\ sample' = [sample EXCEPT ![r] = DecidedSamples(d)]
                      /\ Finish(p, "DECIDED")
<1>1. /\ phase[p] = "write" /\ Decides(p) /\ UNCHANGED <<configuration, request, seen>>
      /\ \/ Finish(p, "STALE") /\ UNCHANGED database
         \/ Finish(p, "INELIGIBLE") /\ UNCHANGED database
         \/ Step(p, "recheck") /\ UNCHANGED <<database, answer>>
         \/ Commits
  BY DEF WriteDecision
<1>2. /\ IsRequest(q) /\ q.kind = "DECIDE"
      /\ Saw(p, r) /\ IsLookup(seen[p].masters)
  BY <1>1, ServedRequest DEF Knows, Judged
<1>3. seen = [o \in Reviewers |-> seen[o]] BY DEF ReviewInv, CallersInv, CallersShape
<1>4. CASE ~ Commits
  <2>1. IsTrue("STALE", q) /\ IsTrue("INELIGIBLE", q) BY DEF IsTrue
  <2> HIDE DEF Commits
  <2> QED BY <1>1, <1>2, <1>4, <2>1, WaitingStep DEF Finish
<1>5. CASE Commits
  <2>1. r \in Results /\ q.target \in Targets /\ q.command # NoDecision
    <3>1. r \in Results /\ q.target \in Targets /\ \E x \in Commands : q.command = <<x>>
      BY <1>2 DEF IsRequest
    <3>2. \A x : <<x>> # <<>> OBVIOUS
    <3> QED BY <3>1, <3>2 DEF NoDecision
  <2>2. seen[p].rows[r] = row[r] /\ seen[p].samples[r] = sample[r]
    <3>1. Saw(p, r) BY <1>2
    <3> QED BY <1>5, <3>1 DEF Saw, SawRow, Unchanged
  <2>3. c = ReviewOf(r, row[r], sample[r], seen[p].item, seen[p].masters)
    BY <2>2 DEF ReviewSeen
  <2>4. IsLookup(seen[p].masters) BY <1>2
  <2>5. Fresh(d) /\ q.target \in {"VALID", "SUSPECT", "EXCLUDED"} \cap c.allowed
    BY <1>5, <2>1, ReviewAssumption DEF Insertable, Fresh
  <2> HIDE DEF c
  <2>6. /\ Undecided(r) /\ SignedStatus(Evidence[r]) = "PENDING"
        /\ c.basis.row.version = 1 /\ c.basis.samples = NewSamples(r)
        /\ "VALID" \in c.allowed =>
             /\ FitForValid(c.basis)
             /\ c.judgment = IF Fails(Evidence[r], c.master) THEN "FAIL" ELSE "PASS"
    BY <2>1, <2>3, <2>4, <2>5, ReviewFinds DEF ReviewInv
  <2>7. /\ SoundDecision(d) /\ d.result = r /\ d.command = q.command /\ d.intent = q
        /\ d.requirement = "none" /\ d.candidate = c
    BY <2>1, <2>5, <2>6, DecisionIsSound
  <2> HIDE DEF d
  <2>8. DecisionLands(r, d) BY <1>5, <2>1, <2>5, <2>6, <2>7 DEF DecisionLands
  <2>9. TablesStep BY <2>8 DEF TablesStep
  <2>10. \E x \in Stored(request[p])' : x.intent = request[p]
    <3>1. request' = request BY <1>1
    <3>2. d \in Stored(request[p])' BY <1>2, <1>5, <2>7, <3>1 DEF Stored, DecisionOf
    <3> QED BY <2>7, <3>2
  <2> QED BY <1>1, <1>2, <1>5, <2>9, <2>10, WriteKeeps
<1> QED BY <1>4, <1>5

\* The predecessor was decided and not replaced, and is linked as it was read.
LEMMA NoSamples ==
  ASSUME TablesInv, NEW r \in Results, sample[r] # <<>>
  PROVE  Sampled(r)
<1> DEFINE T == [kind : SampleKinds, value : Int]
<1>1. Evidence[r].samples \in Seq(T) BY ReviewAssumption DEF IsEvidence
<1> HIDE DEF T
<1>2. /\ sample[r] = [i \in DOMAIN Evidence[r].samples |-> sample[r][i]]
  BY SamplesShape
<1>3. Len(sample[r]) \in Nat /\ DOMAIN sample[r] = 1 .. Len(sample[r])
      /\ (sample[r] = <<>> <=> Len(sample[r]) = 0)
  BY <1>1, <1>2, SameLength
<1>4. 1 \in DOMAIN sample[r] BY <1>3
<1>5. DOMAIN sample[r] = DOMAIN Evidence[r].samples BY SamplesShape
<1> QED BY <1>4, <1>5 DEF Sampled

LEMMA PredecessorIsDecided ==
  ASSUME TablesInv, NEW a \in Results, row[a].status \in {"VALID", "SUSPECT"},
         NEW q, q.predecessor = a, NEW c, NEW d, c.predecessor.row = row[a],
         c.predecessor.samples = sample[a]
  PROVE  \E e \in decisions : DecidedBy(a, e) /\ Corrects(LinkFor(q, c, d), e)
<1>1. ~ Undecided(a)
  BY NewFields DEF Undecided, SignedStatus
<1>2. PICK e \in decisions : DecidedBy(a, e) BY <1>1 DEF TablesInv
<1>3. row[a] = DecidedRow(NewRow(a), e) /\ sample[a] = DecidedSamples(e)
  BY <1>2, ReplacedFields DEF DecidedBy
<1>4. /\ row[a].status = e.to /\ row[a].version = e.version + 1 /\ row[a].decision = e.command
      /\ DOMAIN sample[a] = DOMAIN e.samples
      /\ \A i \in DOMAIN sample[a] : sample[a][i].version = e.samples[i] + 1
  BY <1>3, DecidedFields
<1> DEFINE l == LinkFor(q, c, d)
<1>5. /\ l.original = row[a].decision /\ l.before = row[a].status /\ l.version = row[a].version
      /\ l.samples = [i \in DOMAIN sample[a] |-> sample[a][i].version]
  BY DEF LinkFor, MeasurementRows
<1> HIDE DEF l
<1>6. l.samples = [i \in DOMAIN e.samples |-> e.samples[i] + 1] BY <1>4, <1>5
<1>7. Corrects(l, e) BY <1>4, <1>5, <1>6 DEF Corrects
<1> QED BY <1>2, <1>7 DEF l

\* What the constraints of the table say of the link that is written.
LEMMA AllowedLinks ==
  ASSUME NEW q, NEW c, NEW d, LinkAllowed(LinkFor(q, c, d), c)
  PROVE  /\ Outgoing(q.predecessor) = {} /\ Incoming(q.successor) = {}
         /\ c.predecessor.samples # <<>> /\ c.successor.samples # <<>>
<1>1. /\ LinkFor(q, c, d).predecessor = q.predecessor
      /\ LinkFor(q, c, d).successor = q.successor
  BY DEF LinkFor
<1> QED BY <1>1 DEF LinkAllowed

LEMMA WritePairSteps ==
  ASSUME ReviewInv, NEW p \in Reviewers, WritePair(p)
  PROVE  KeptBy(p)
<1> DEFINE q == request[p]
           a == q.predecessor
           b == q.successor
           c == q.expected
           review == ReviewSeen(p, b)
           d == Decision(<<a, b>>, q, b, "VALID", review, "ING-041")
           l == LinkFor(q, c, d)
           Commits == /\ "VALID" \in review.allowed /\ Insertable(d)
                      /\ Unchanged(b, seen[p].rows[b], seen[p].samples[b])
                      /\ Outgoing(a) = {} /\ Incoming(b) = {}
                      /\ Unchanged(a, c.predecessor.row, c.predecessor.samples)
                      /\ c.predecessor.samples # <<>> /\ c.successor.samples # <<>>
                      /\ decisions' = decisions \cup {d} /\ links' = links \cup {l}
                      /\ row' = [row EXCEPT ![a] = ReplacedRow(row[a], l),
                                            ![b] = DecidedRow(row[b], d)]
                      /\ sample' = [sample EXCEPT ![a] = ReplacedSamples(l),
                                                  ![b] = DecidedSamples(d)]
                      /\ Finish(p, "DECIDED")
<1>1. /\ phase[p] = "write" /\ Replaces(p) /\ UNCHANGED <<configuration, request, seen>>
      /\ \/ Finish(p, "INELIGIBLE") /\ UNCHANGED database
         \/ Step(p, "recheck") /\ UNCHANGED <<database, answer>>
         \/ Commits
  BY AllowedLinks DEF WritePair
<1>2. /\ IsRequest(q) /\ q.kind = "REPLACE"
      /\ Saw(p, b) /\ IsLookup(seen[p].masters) /\ PairHeld(q)
  BY <1>1, ServedRequest DEF Knows, Judged
<1>4. CASE ~ Commits
  <2>1. IsTrue("INELIGIBLE", q) BY DEF IsTrue
  <2> HIDE DEF Commits
  <2> QED BY <1>1, <1>2, <1>4, <2>1, WaitingStep DEF Finish
<1>5. CASE Commits
  <2>1. a \in Results /\ b \in Results /\ a # b /\ <<a, b>> # NoDecision
    BY <1>2 DEF IsRequest, NoDecision
  <2>2. /\ c.predecessor.row = row[a] /\ c.predecessor.samples = sample[a]
        /\ row[a].status \in {"VALID", "SUSPECT"} /\ Identity[a] = Identity[b]
    BY <1>2, <1>5 DEF PairHeld, SawRow, Unchanged
  <2>3. seen[p].rows[b] = row[b] /\ seen[p].samples[b] = sample[b]
    BY <1>2, <1>5 DEF Saw, SawRow, Unchanged
  <2>4. review = ReviewOf(b, row[b], sample[b], seen[p].item, seen[p].masters)
    BY <2>3 DEF ReviewSeen
  <2>5. /\ c.successor.row.version = 1 /\ c.successor.samples = NewSamples(b)
        /\ c.successor.review.basis.row = ReviewRow(NewRow(b))
        /\ c.successor.review.basis.samples = NewSamples(b)
    BY <1>2, NewFields DEF PairHeld
  <2>6. Fresh(d) /\ "VALID" \in review.allowed BY <1>5 DEF Insertable, Fresh
  <2> HIDE DEF review
  <2>7. /\ Undecided(b) /\ SignedStatus(Evidence[b]) = "PENDING"
        /\ review.basis.row = ReviewRow(NewRow(b)) /\ review.basis.row.version = 1
        /\ review.basis.samples = NewSamples(b)
        /\ "VALID" \in review.allowed =>
             /\ FitForValid(review.basis)
             /\ review.judgment = IF Fails(Evidence[b], review.master) THEN "FAIL" ELSE "PASS"
    BY <1>2, <2>1, <2>4, <2>6, ReviewFinds DEF ReviewInv
  <2>8. /\ SoundDecision(d) /\ d.result = b /\ d.command = <<a, b>> /\ d.to = "VALID"
        /\ d.requirement = "ING-041" /\ d.candidate = review /\ d.intent = q /\ d.version = 1
    BY <2>1, <2>6, <2>7, DecisionIsSound
  <2>9. \E e \in decisions : DecidedBy(a, e) /\ Corrects(l, e)
    BY <2>1, <2>2, PredecessorIsDecided DEF ReviewInv
  <2>10. /\ l.predecessor = a /\ l.successor = b /\ l.intent = q /\ l.decision = d.command
         /\ l.successorVersion = c.successor.row.version /\ l.review = c.successor.review
    BY DEF LinkFor
  <2> HIDE DEF d, l
  <2>11. PairLands(a, b, d, l)
    <3>1. sample[b] = NewSamples(b) BY <2>7 DEF Undecided
    <3>2. Sampled(a) /\ Sampled(b)
      BY <1>5, <2>1, <2>2, <2>5, <3>1, NoSamples DEF ReviewInv
    <3>3. l.successorVersion = d.version BY <2>5, <2>8, <2>10
    <3>4. d.intent.kind # "DECIDE" /\ l.review = l.intent.expected.successor.review
      BY <1>2, <2>8, <2>10
    <3>5. /\ d.candidate.basis.row = l.review.basis.row
          /\ d.candidate.basis.samples = l.review.basis.samples
      BY <2>5, <2>7, <2>8, <2>10
    <3> QED BY <1>5, <3>2, <3>3, <3>4, <3>5, <2>1, <2>2, <2>6, <2>7, <2>8, <2>9, <2>10 DEF PairLands
  <2>12. TablesStep BY <2>11 DEF TablesStep
  <2>13. \E x \in Stored(request[p])' : x.intent = request[p]
    <3>1. request' = request BY <1>1
    <3>2. l \in Stored(request[p])' BY <1>2, <1>5, <2>10, <3>1 DEF Stored, LinkOf
    <3> QED BY <2>10, <3>2
  <2> QED BY <1>1, <1>2, <1>5, <2>12, <2>13, WriteKeeps
<1> QED BY <1>4, <1>5

-----------------------------------------------------------------------------
(* The invariant.                                                          *)

LEMMA InitReview == ASSUME ReviewInit PROVE ReviewInv
<1>1. TablesInv
  <2>1. \A r \in Results : Undecided(r)
    BY DEF ReviewInit, Undecided, DecisionsOn, Incoming, Outgoing
  <2> QED BY <2>1 DEF ReviewInit, TablesInv
<1>2. CallersInv
  BY ConfigurationInitOK DEF ReviewInit, CallersInv, CallersShape, CallerInv, Knows, Phases
<1>3. EvidenceInv BY DEF ReviewInit, EvidenceInv
<1>4. \A p \in Reviewers : TrueAnswer(p) BY DEF ReviewInit, TrueAnswer, IsTrue
<1> QED BY <1>1, <1>2, <1>3, <1>4 DEF ReviewInv

\* Every step changes the tables in one of the two ways, or not at all.
LEMMA StepReview ==
  ASSUME ReviewInv, [ReviewNext]_reviewVars
  PROVE  ReviewInv' /\ TablesStep
<1>0. TablesInv /\ EvidenceInv /\ CallersShape /\ \A p \in Reviewers : CallerInv(p) /\ TrueAnswer(p)
  BY DEF ReviewInv, CallersInv
<1>1. ASSUME NEW p \in Reviewers, KeptBy(p) PROVE ReviewInv' /\ TablesStep
  <2>1. TablesStep /\ CallersShape' BY <1>1 DEF KeptBy
  <2>2. TablesInv' /\ EvidenceInv' BY <1>0, <2>1, TablesKept, EvidenceKept
  <2>3. \A o \in Reviewers : CallerInv(o)' /\ TrueAnswer(o)'
    BY <1>0, <1>1, <2>1, CallerFrame DEF KeptBy
  <2>4. ConfigurationOK'
    BY <1>1 DEF KeptBy, configuration, ReviewInv, CallersInv, ConfigurationOK, InForce
  <2> QED BY <2>1, <2>2, <2>3, <2>4 DEF ReviewInv, CallersInv
<1>2. ASSUME UNCHANGED <<database, phase, request, seen, answer>>, ConfigurationOK'
      PROVE  ReviewInv' /\ TablesStep
  <2>1. TablesStep BY <1>2 DEF TablesStep
  <2>2. TablesInv' /\ EvidenceInv' BY <1>0, <2>1, TablesKept, EvidenceKept
  <2>3. \A o \in Reviewers : CallerInv(o)' /\ TrueAnswer(o)'
    BY <1>0, <1>2, <2>1, CallerFrame DEF SameCaller
  <2>4. CallersShape' BY <1>0, <1>2 DEF CallersShape
  <2> QED BY <1>2, <2>1, <2>2, <2>3, <2>4 DEF ReviewInv, CallersInv
<1>3. ASSUME NEW p \in Reviewers, ReviewStep(p) \/ ReplacementStep(p)
      PROVE  ReviewInv' /\ TablesStep
  BY <1>1, <1>3, LookupSteps, ReplayPairSteps, ReadingSteps, AskSteps, WriteDecisionSteps,
     WritePairSteps
     DEF ReviewStep, ReplacementStep
<1>4. CASE ConfigurationStep
  <2>1. ConfigurationNext
    BY <1>4 DEF ConfigurationStep, DisposeItem, EditMasters, ApproveMasters, ConfigurationNext
  <2>2. UNCHANGED <<database, phase, request, seen, answer>>
    BY <1>4 DEF ConfigurationStep, DisposeItem, EditMasters, ApproveMasters, Unseen
  <2>3. ConfigurationOK' BY <2>1, ConfigurationStepOK DEF ReviewInv, CallersInv
  <2> QED BY <1>2, <2>2, <2>3
<1>5. CASE UNCHANGED reviewVars
  <2>1. UNCHANGED <<database, phase, request, seen, answer>> BY <1>5 DEF reviewVars, database
  <2>2. ConfigurationOK'
    BY <1>5 DEF reviewVars, ReviewInv, CallersInv, ConfigurationOK, InForce
  <2> QED BY <1>2, <2>1, <2>2
<1> QED BY <1>3, <1>4, <1>5 DEF ReviewNext

\* The tables, the callers' sessions and the answers stay in step with one another.
THEOREM ReviewInvariance == ReviewSpec => []ReviewInv
<1>1. ReviewInit => ReviewInv BY InitReview
<1>2. ReviewInv /\ [ReviewNext]_reviewVars => ReviewInv' BY StepReview
<1> QED BY <1>1, <1>2, PTL DEF ReviewSpec

\* A candidate shown is sound and is all that is there, and no two Masters are in force
\* for it: who asks at one moment is never told of an ambiguous Master.  The one that a
\* decision rebuilds from reads of several moments is sound as well.
ShownCandidatesAreSound ==
  /\ \A m, n \in EffectiveMasters : m = n
  /\ \A r \in Results : /\ CandidateIsSound(ReviewNow(r).basis)
                        /\ ReviewNow(r).basis.row = ReviewRow(row[r])
                        /\ ReviewNow(r).basis.samples = sample[r]
  /\ \A p \in Reviewers : phase[p] \in {"confirm", "write"} =>
       CandidateIsSound(ReviewSeen(p, Judged(request[p])).basis)

\* Whatever was decided, replaced and configured before and between the reads, the
\* candidates of build_data_review_candidate keep their promise: the judgment on one Master.
THEOREM ShownCandidates == ReviewSpec => []ShownCandidatesAreSound
<1>1. ReviewInv => ShownCandidatesAreSound
  <2> SUFFICES ASSUME ReviewInv PROVE ShownCandidatesAreSound OBVIOUS
  <2>1. TablesInv /\ IsLookup(EffectiveMasters) BY OneMaster DEF ReviewInv, CallersInv
  <2>2. \A m, n \in EffectiveMasters : m = n BY <2>1 DEF IsLookup
  <2>3. ASSUME NEW r \in Results
        PROVE  /\ CandidateIsSound(ReviewNow(r).basis)
               /\ ReviewNow(r).basis.row = ReviewRow(row[r])
               /\ ReviewNow(r).basis.samples = sample[r]
    <3> DEFINE ms == EffectiveMasters
    <3>1. Readable(r, row[r], sample[r]) BY <2>1, RowsAreReadings DEF Readable
    <3>2. IsLookup(ms) /\ ReviewNow(r) = ReviewOf(r, row[r], sample[r], item, ms)
      BY <2>1 DEF ReviewNow
    <3> HIDE DEF ms
    <3> QED BY <3>1, <3>2, ReadableIsSound
  <2>4. ASSUME NEW p \in Reviewers, phase[p] \in {"confirm", "write"}
        PROVE  CandidateIsSound(ReviewSeen(p, Judged(request[p])).basis)
    <3> DEFINE r == Judged(request[p])
    <3>1. Saw(p, r) /\ IsLookup(seen[p].masters) BY <2>4, ServedRequest DEF Knows
    <3>2. Readable(r, seen[p].rows[r], seen[p].samples[r]) BY <3>1 DEF Saw, SawRow
    <3> QED BY <3>1, <3>2, ReadableIsSound DEF ReviewSeen
  <2> QED BY <2>2, <2>3, <2>4 DEF ShownCandidatesAreSound
<1> QED BY <1>1, ReviewInvariance, PTL

-----------------------------------------------------------------------------
(* What the invariant says of the properties.                              *)

\* A link shows what its predecessor's decision left and what was done to it.
LEMMA CorrectsShown ==
  ASSUME NEW l, NEW d, NEW r \in Results, Corrects(l, d), SoundDecision(d), d.result = r
  PROVE  ReplacedBy(l, d, ReplacedRow(DecidedRow(NewRow(r), d), l), ReplacedSamples(l))
<1> DEFINE rw == ReplacedRow(DecidedRow(NewRow(r), d), l)
           sm == ReplacedSamples(l)
<1>1. /\ rw.link = <<l.predecessor, l.successor>> /\ rw.version = l.version + 1
      /\ DOMAIN sm = DOMAIN l.samples
      /\ \A i \in DOMAIN sm : /\ sm[i].status = "REPLACED" /\ sm[i].link = rw.link
                              /\ sm[i].version = l.samples[i] + 1
  BY ReplacedFields
<1>2. /\ l.original = d.command /\ l.before = d.to /\ l.version = d.version + 1
      /\ DOMAIN l.samples = DOMAIN d.samples
      /\ \A i \in DOMAIN l.samples : l.samples[i] = d.samples[i] + 1
  BY DEF Corrects
<1>3. Len(sm) = Len(l.samples)
  <2> DEFINE S == [kind : SampleKinds, value : Int]
             s == Evidence[r].samples
  <2>1. s \in Seq(S) BY ReviewAssumption DEF IsEvidence
  <2>2. l.samples = [i \in DOMAIN s |-> l.samples[i]] /\ sm = [i \in DOMAIN s |-> sm[i]]
    BY DEF Corrects, SoundDecision, ReplacedSamples
  <2> HIDE DEF S, sm, s
  <2>3. Len(l.samples) = Len(s) BY <2>1, <2>2, SameLength
  <2>4. Len(sm) = Len(s) BY <2>1, <2>2, SameLength
  <2> QED BY <2>3, <2>4
<1> HIDE DEF rw, sm
<1> QED BY <1>1, <1>2, <1>3 DEF ReplacedBy, rw, sm

\* A decision is shown by the rows it or its one correction left.
LEMMA DecidedIsShown ==
  ASSUME TablesInv, NEW d \in decisions
  PROVE  DecisionShown(d, row[d.result], sample[d.result])
<1> DEFINE r == d.result
           rw == row[r]
           sm == sample[r]
<1>1. DecidedBy(r, d) /\ r \in Results BY DecisionOfCommand
<1>2. d.requirement = IF \E l \in links : l.decision = d.command THEN "ING-041" ELSE "none"
  <2>1. ASSUME NEW l \in links, l.decision = d.command
        PROVE  d.requirement = "ING-041"
    <3>1. PICK e \in decisions : /\ e.result = l.successor /\ Incoming(l.successor) = {l}
                                 /\ l.decision = e.command
      BY LinkEnds
    <3>2. e = d BY <2>1, <3>1 DEF TablesInv
    <3> QED BY <1>1, <3>1, <3>2 DEF DecidedBy, Caused
  <2>2. ASSUME d.requirement # "none" PROVE \E l \in links : l.decision = d.command
    BY <1>1, <2>2 DEF DecidedBy, Caused
  <2>3. d.requirement \in {"none", "ING-041"} BY <1>1 DEF DecidedBy, Caused
  <2> QED BY <2>1, <2>2, <2>3
<1>3. CASE Outgoing(r) = {}
  <2>1. rw = DecidedRow(NewRow(r), d) /\ sm = DecidedSamples(d) BY <1>1, <1>3 DEF DecidedBy
  <2>2. /\ rw.status = d.to /\ rw.version = d.version + 1 /\ rw.decision = d.command
        /\ rw.judgment = d.candidate.judgment /\ rw.master = d.candidate.master
        /\ rw.link = NoLink /\ DOMAIN sm = DOMAIN d.samples
        /\ \A i \in DOMAIN sm : sm[i].status = d.to /\ sm[i].version = d.samples[i] + 1
    BY <2>1, DecidedFields
  <2>3. Len(sm) = Len(d.samples)
    <3> DEFINE S == [kind : SampleKinds, value : Int]
               s == Evidence[r].samples
    <3>1. s \in Seq(S) BY <1>1, ReviewAssumption DEF IsEvidence
    <3>2. d.samples = [i \in DOMAIN s |-> d.samples[i]] /\ sm = [i \in DOMAIN s |-> sm[i]]
      BY <1>1, <2>1 DEF DecidedBy, SoundDecision, DecidedSamples
    <3> HIDE DEF S, sm, s
    <3>3. Len(d.samples) = Len(s) BY <3>1, <3>2, SameLength
    <3>4. Len(sm) = Len(s) BY <3>1, <3>2, SameLength
    <3> QED BY <3>3, <3>4
  <2>4. rw.status # "REPLACED" BY <1>1, <2>2 DEF DecidedBy, SoundDecision
  <2> QED BY <1>2, <2>2, <2>3, <2>4 DEF DecisionShown, ProjectionOf
<1>4. CASE Outgoing(r) # {}
  <2>1. PICK l \in links : /\ Outgoing(r) = {l} /\ Corrects(l, d)
                           /\ rw = ReplacedRow(DecidedRow(NewRow(r), d), l)
                           /\ sm = ReplacedSamples(l)
    BY <1>1, <1>4 DEF DecidedBy
  <2>2. SoundDecision(d) BY <1>1 DEF DecidedBy
  <2>3. ReplacedBy(l, d, rw, sm) BY <1>1, <2>1, <2>2, CorrectsShown
  <2>4. /\ rw.status = "REPLACED" /\ rw.decision = d.command
        /\ rw.judgment = d.candidate.judgment /\ rw.master = d.candidate.master
    BY <2>1, ReplacedFields
  <2> QED BY <1>2, <2>1, <2>3, <2>4 DEF DecisionShown, ProjectionOf
<1> QED BY <1>3, <1>4

LEMMA DecisionsStandOf == ASSUME ReviewInv PROVE DecisionsStand
<1> USE DEF ReviewInv
<1>0. ASSUME NEW l \in links, LinkShown(l, row, sample) PROVE ~ Moved(l)
  BY <1>0 DEF LinkShown, SuccessorShown, OfOneEvidence, Moved, DecisionOf, EvidenceInv
<1>1. ASSUME NEW l \in links, ~ Moved(l) PROVE LinkShown(l, row, sample)
  <2> DEFINE a == l.predecessor
             b == l.successor
  <2>1. a \in Results /\ b \in Results BY DEF TablesInv
  <2>2. PICK d, e \in decisions :
           /\ DecidedBy(a, d) /\ d.result = a /\ Corrects(l, d)
           /\ row[a] = ReplacedRow(DecidedRow(NewRow(a), d), l)
           /\ sample[a] = ReplacedSamples(l)
           /\ DecidedBy(b, e) /\ e.result = b /\ l.decision = e.command
           /\ l.successorVersion = e.version /\ e.to = "VALID"
    BY LinkEnds
  <2>3. ReplacedBy(l, d, row[a], sample[a]) /\ d \in DecisionOf(l.original)
    BY <2>1, <2>2, CorrectsShown DEF DecidedBy, DecisionOf, Corrects
  <2>4. DecisionOf(l.decision) = {e} BY <2>2, DecisionOfCommand
  <2>5. \A f \in DecisionOf(l.decision) : DecisionShown(f, row[b], sample[b])
    BY <2>2, <2>4, DecidedIsShown
  <2>a. OfOneEvidence(l)
    BY <1>1, <2>2, <2>4 DEF OfOneEvidence, Moved, EvidenceInv
  <2>6. CASE Outgoing(b) = {}
    <3>1. row[b] = DecidedRow(NewRow(b), e) BY <2>2, <2>6 DEF DecidedBy
    <3>2. row[b].status = "VALID" /\ row[b].link = NoLink /\ row[b].version = l.successorVersion + 1
      BY <2>2, <3>1, DecidedFields
    <3> QED BY <2>3, <2>5, <2>a, <2>6, <3>2 DEF LinkShown, SuccessorShown
  <2>7. CASE Outgoing(b) # {}
    <3>1. PICK k \in links : /\ Outgoing(b) = {k} /\ Corrects(k, e)
                             /\ row[b] = ReplacedRow(DecidedRow(NewRow(b), e), k)
      BY <2>2, <2>7 DEF DecidedBy
    <3>2. row[b].status = "REPLACED" /\ row[b].link = <<k.predecessor, k.successor>>
          /\ row[b].version = k.version + 1
      BY <3>1, ReplacedFields
    <3>3. k.version + 1 = l.successorVersion + 2
      BY <2>2, <3>1 DEF Corrects, DecidedBy, SoundDecision
    <3> QED BY <2>3, <2>5, <2>a, <3>1, <3>2, <3>3 DEF LinkShown, SuccessorShown
  <2> QED BY <2>6, <2>7
<1> QED BY <1>0, <1>1, DecidedIsShown DEF DecisionsStand

LEMMA AnswersAreTrueOf == ASSUME ReviewInv PROVE AnswersAreTrue
<1> SUFFICES ASSUME NEW p \in Reviewers, answer[p] \in {"DECIDED", "REPLAYED"},
                    NEW x \in Stored(request[p]), x.intent = request[p],
                    answer[p] = "REPLAYED" /\ request[p].kind # "DECIDE" => ~ Moved(x)
             PROVE  \A d \in DecidedIn(request[p], x) :
                      /\ d.candidate.basis.row = Confirmed(request[p]).basis.row
                      /\ d.candidate.basis.samples = Confirmed(request[p]).basis.samples
                      /\ answer[p] = "REPLAYED" \/ request[p].kind = "DECIDE" =>
                           d.candidate = Confirmed(request[p])
  <2>1. \A p \in Reviewers : IsTrue(answer[p], request[p]) BY DEF ReviewInv, TrueAnswer
  <2> QED BY <2>1 DEF IsTrue, AnswersAreTrue
<1> DEFINE q == request[p]
<1>1. CASE q.kind = "DECIDE"
  <2>1. /\ DecidedIn(q, x) = {x} /\ Confirmed(q) = q.expected
        /\ x \in decisions
    BY <1>1 DEF DecidedIn, Confirmed, Stored, DecisionOf
  <2>2. x.candidate = x.intent.expected BY <1>1, <2>1 DEF ReviewInv, EvidenceInv
  <2> QED BY <2>1, <2>2
<1>2. CASE q.kind # "DECIDE"
  <2>1. /\ DecidedIn(q, x) = DecisionOf(x.decision) /\ Confirmed(q) = x.intent.expected.successor.review
        /\ x \in links
    BY <1>2 DEF DecidedIn, Confirmed, Stored, LinkOf
  <2>2. \A d \in DecisionOf(x.decision) : d \in decisions /\ d.command = x.decision
    BY DEF DecisionOf
  <2>3. \A d \in DecisionOf(x.decision) :
          /\ d.candidate.basis.row = Confirmed(q).basis.row
          /\ d.candidate.basis.samples = Confirmed(q).basis.samples
    BY <2>1, <2>2 DEF ReviewInv, EvidenceInv
  <2>4. ~ Moved(x) => \A d \in DecisionOf(x.decision) : d.candidate = Confirmed(q)
    BY <2>1, <2>2 DEF Moved
  <2> QED BY <1>2, <2>1, <2>3, <2>4
<1> QED BY <1>1, <1>2

LEMMA OneOfficialOf == ASSUME ReviewInv PROVE OneOfficialPerChain
<1> USE DEF ReviewInv
<1>1. ASSUME NEW l \in links, NEW k \in links,
             l.predecessor = k.predecessor \/ l.successor = k.successor
      PROVE  l = k
  <2>1. Outgoing(l.predecessor) = {l} /\ Incoming(l.successor) = {l} BY LinkEnds
  <2>2. k \in Outgoing(k.predecessor) /\ k \in Incoming(k.successor) BY DEF Outgoing, Incoming
  <2> QED BY <1>1, <2>1, <2>2
<1>2. ASSUME NEW l \in links
      PROVE  /\ row[l.predecessor].status = "REPLACED"
             /\ row[l.successor].status = IF Outgoing(l.successor) = {} THEN "VALID" ELSE "REPLACED"
             /\ Identity[l.predecessor] = Identity[l.successor]
  <2> DEFINE b == l.successor
  <2>1. PICK d, e \in decisions :
           /\ row[l.predecessor] = ReplacedRow(DecidedRow(NewRow(l.predecessor), d), l)
           /\ DecidedBy(b, e) /\ e.to = "VALID"
    BY LinkEnds
  <2>2. row[l.predecessor].status = "REPLACED" BY <2>1, ReplacedFields
  <2>3. row[b].status = IF Outgoing(b) = {} THEN "VALID" ELSE "REPLACED"
    <3>1. CASE Outgoing(b) = {}
      <4>1. row[b] = DecidedRow(NewRow(b), e) BY <2>1, <3>1 DEF DecidedBy
      <4> QED BY <2>1, <3>1, <4>1, DecidedFields
    <3>2. CASE Outgoing(b) # {}
      <4>1. \E k \in links : row[b] = ReplacedRow(DecidedRow(NewRow(b), e), k)
        BY <2>1, <3>2 DEF DecidedBy
      <4> QED BY <3>2, <4>1, ReplacedFields
    <3> QED BY <3>1, <3>2
  <2> QED BY <2>2, <2>3 DEF TablesInv
<1> QED BY <1>1, <1>2 DEF OneOfficialPerChain

LEMMA OfficialIsProvenOf == ASSUME ReviewInv PROVE OfficialIsProven
<1> SUFFICES ASSUME NEW r \in Results, row[r].status = "VALID"
             PROVE  /\ row[r].judgment = IF Fails(Evidence[r], row[r].master) THEN "FAIL" ELSE "PASS"
                    /\ \E d \in decisions :
                         /\ d.command = row[r].decision /\ d.result = r
                         /\ FitForValid(d.candidate.basis) /\ d.candidate.master = row[r].master
                    /\ Cardinality({d \in decisions : d.result = r}) = 1
                    /\ \A i \in DOMAIN sample[r] : sample[r][i].status = "VALID"
  BY DEF OfficialIsProven
<1> USE DEF ReviewInv
<1>1. ~ Undecided(r) BY NewFields DEF Undecided, SignedStatus
<1>2. PICK d \in decisions : DecidedBy(r, d) BY <1>1 DEF TablesInv
<1>3. row[r] = DecidedRow(NewRow(r), d) /\ sample[r] = DecidedSamples(d)
  BY <1>2, ReplacedFields DEF DecidedBy
<1>4. /\ row[r].status = d.to /\ row[r].decision = d.command
      /\ row[r].judgment = d.candidate.judgment /\ row[r].master = d.candidate.master
      /\ \A i \in DOMAIN sample[r] : sample[r][i].status = d.to
  BY <1>3, DecidedFields
<1>5. d.result = r /\ {e \in decisions : e.result = r} = {d} BY <1>2 DEF DecidedBy, DecisionsOn
<1>6. /\ FitForValid(d.candidate.basis)
      /\ d.candidate.judgment = IF Fails(Evidence[r], d.candidate.master) THEN "FAIL" ELSE "PASS"
  BY <1>2, <1>4, <1>5 DEF DecidedBy, SoundDecision
<1>7. Cardinality({e \in decisions : e.result = r}) = 1 BY <1>5, FS_Singleton
<1> QED BY <1>4, <1>5, <1>6, <1>7

-----------------------------------------------------------------------------
(* The theorems.                                                           *)

\* What was decided can be replayed from the rows for ever, and so can what was replaced,
\* unless the decision on the successor was taken on other evidence than was confirmed.
THEOREM DecisionsStandAlways == ReviewSpec => []DecisionsStand
<1>1. ReviewInv => DecisionsStand BY DecisionsStandOf
<1> QED BY <1>1, ReviewInvariance, PTL

\* Corrections neither branch nor merge, and exactly the last result of a chain is official.
THEOREM ChainsHaveOneOfficial == ReviewSpec => []OneOfficialPerChain
<1>1. ReviewInv => OneOfficialPerChain BY OneOfficialOf
<1> QED BY <1>1, ReviewInvariance, PTL

\* A VALID result rests on one decision that was fit for it, with that decision's verdict.
THEOREM OfficialsAreProven == ReviewSpec => []OfficialIsProven
<1>1. ReviewInv => OfficialIsProven BY OfficialIsProvenOf
<1> QED BY <1>1, ReviewInvariance, PTL

\* Nobody is told that something is stored which is not what it asked for; what is stored
\* was decided on the rows confirmed, and when it is replayed on all that was confirmed.
THEOREM ReviewAnswersAreTrue == ReviewSpec => []AnswersAreTrue
<1>1. ReviewInv => AnswersAreTrue BY AnswersAreTrueOf
<1> QED BY <1>1, ReviewInvariance, PTL

-----------------------------------------------------------------------------
(* The refinement: every landing is one step of DataTrust.                 *)

TrustOf == [r \in Results |-> row[r].status]
SuccessorOf == [r \in Results |-> IF row[r].link = NoLink THEN "none" ELSE row[r].link[2]]

LEMMA DecisionIsTrusted ==
  ASSUME TablesInv, NEW r, NEW d, DecisionLands(r, d)
  PROVE  Trust!Decide(r, d.to)
<1>1. row' = [row EXCEPT ![r] = DecidedRow(NewRow(r), d)] /\ r \in Results
  BY DEF DecisionLands, Undecided
<1>2. row'[r] = DecidedRow(NewRow(r), d) /\ \A s \in Results \ {r} : row'[s] = row[s]
  BY <1>1 DEF TablesInv
<1>3. row'[r].status = d.to /\ row'[r].link = NoLink BY <1>2, DecidedFields
<1>4. row[r].status = "PENDING" /\ row[r].link = NoLink
  BY NewFields DEF DecisionLands, Undecided, SoundDecision
<1>5. TrustOf[r] = "PENDING" BY <1>1, <1>4 DEF TrustOf
<1>6. TrustOf' = [TrustOf EXCEPT ![r] = d.to] BY <1>2, <1>3 DEF TrustOf
<1>7. SuccessorOf' = SuccessorOf BY <1>2, <1>3, <1>4 DEF SuccessorOf
<1> QED BY <1>5, <1>6, <1>7 DEF Trust!Decide, TrustOf, SuccessorOf

LEMMA PairIsTrusted ==
  ASSUME TablesInv, NEW a, NEW b, NEW d, NEW l, PairLands(a, b, d, l)
  PROVE  Trust!Replace(a, b)
<1>1. a \in Results /\ b \in Results /\ a # b /\ Undecided(b) /\ Outgoing(a) = {}
      /\ d.to = "VALID" /\ SoundDecision(d) /\ d.result = b /\ l.predecessor = a /\ l.successor = b
  BY DEF PairLands
<1>2. PICK e \in decisions : DecidedBy(a, e) /\ Corrects(l, e) BY DEF PairLands
<1>3. row[a] = DecidedRow(NewRow(a), e) BY <1>1, <1>2 DEF DecidedBy
<1>4. /\ row'[a] = ReplacedRow(DecidedRow(NewRow(a), e), l) /\ row'[b] = DecidedRow(NewRow(b), d)
      /\ \A s \in Results \ {a, b} : row'[s] = row[s]
  BY <1>1, <1>3 DEF PairLands, TablesInv, Undecided
<1>5. /\ row'[a].status = "REPLACED" /\ row'[a].link = <<a, b>>
      /\ row'[b].status = "VALID" /\ row'[b].link = NoLink
  BY <1>1, <1>4, ReplacedFields, DecidedFields
<1>6. /\ row[a].status = e.to /\ e.to \in {"VALID", "SUSPECT"}
      /\ row[b].status = "PENDING" /\ row[b].link = NoLink
  BY <1>1, <1>2, <1>3, DecidedFields, NewFields DEF Undecided, SoundDecision, Corrects
<1>7. <<a, b>> # NoLink /\ <<a, b>>[2] = b BY DEF NoLink
<1>8. TrustOf[a] \in {"VALID", "SUSPECT"} /\ TrustOf[b] = "PENDING" BY <1>1, <1>6 DEF TrustOf
<1>9. TrustOf' = [TrustOf EXCEPT ![a] = "REPLACED", ![b] = "VALID"]
  BY <1>1, <1>4, <1>5 DEF TrustOf
<1>10. SuccessorOf' = [SuccessorOf EXCEPT ![a] = b]
  <2>1. SuccessorOf'[a] = b BY <1>1, <1>5, <1>7 DEF SuccessorOf
  <2>2. SuccessorOf'[b] = SuccessorOf[b] BY <1>1, <1>5, <1>6 DEF SuccessorOf
  <2>3. \A s \in Results \ {a, b} : SuccessorOf'[s] = SuccessorOf[s] BY <1>4 DEF SuccessorOf
  <2> QED BY <1>1, <2>1, <2>2, <2>3 DEF SuccessorOf
<1> QED BY <1>8, <1>9, <1>10 DEF Trust!Replace, TrustOf, SuccessorOf

\* Commands, versions, sessions and races implement one decision and one correction at a time.
THEOREM ReviewImplementsTrust == ReviewSpec => ImplementsTrust
<1>1. ReviewInit => Trust!Init
  <2> SUFFICES ASSUME ReviewInit PROVE Trust!Init
    OBVIOUS
  <2>1. \A r \in Results : row[r] = NewRow(r) BY DEF ReviewInit
  <2>2. TrustOf = [r \in Results |-> IF r \in {s \in Results : Evidence[s].signed = "ROW_HELD"}
                                       THEN "HELD" ELSE "PENDING"]
    BY <2>1, NewFields DEF TrustOf, SignedStatus
  <2>3. SuccessorOf = [r \in Results |-> "none"] BY <2>1, NewFields DEF SuccessorOf
  <2> QED BY <2>2, <2>3 DEF Trust!Init, Trust!NoSuccessor, TrustOf, SuccessorOf
<1>2. ReviewInv /\ [ReviewNext]_reviewVars => [Trust!Next]_<<TrustOf, SuccessorOf>>
  <2> SUFFICES ASSUME ReviewInv, [ReviewNext]_reviewVars
               PROVE  Trust!Next \/ UNCHANGED <<TrustOf, SuccessorOf>>
    OBVIOUS
  <2>1. TablesInv /\ TablesStep BY StepReview DEF ReviewInv
  <2>2. CASE UNCHANGED database BY <2>2 DEF database, TrustOf, SuccessorOf
  <2>3. ASSUME NEW r, NEW d, DecisionLands(r, d) PROVE Trust!Next
    <3>1. Trust!Decide(r, d.to) BY <2>1, <2>3, DecisionIsTrusted
    <3>2. r \in Results /\ d.to \in {"VALID", "SUSPECT", "EXCLUDED"}
      BY <2>3 DEF DecisionLands, SoundDecision
    <3> QED BY <3>1, <3>2 DEF Trust!Next
  <2>4. ASSUME NEW a, NEW b, NEW d, NEW l, PairLands(a, b, d, l) PROVE Trust!Next
    <3>1. Trust!Replace(a, b) BY <2>1, <2>4, PairIsTrusted
    <3>2. a \in Results /\ b \in Results BY <2>4 DEF PairLands
    <3> QED BY <3>1, <3>2 DEF Trust!Next
  <2> QED BY <2>1, <2>2, <2>3, <2>4 DEF TablesStep
<1> QED BY <1>1, <1>2, ReviewInvariance, PTL
        DEF ReviewSpec, ImplementsTrust, Trust!Spec, TrustOf, SuccessorOf
-----------------------------------------------------------------------------
(* The comparison: the inductive invariant.                                *)

\* The versions and the samples of a result never change after it was linked.
Settled(r) == row[r].status \notin {"PENDING", "HELD"}

Touches(r) == {l \in cache.known : r \in Ends({l})}

(* What was cached: every known link is stored; both of its results are    *)
(* loaded once the side's evidence is; what was proven of it stays so.     *)
CacheInv ==
  /\ DOMAIN cache = {"expanded", "known", "states", "children", "proven"}
  /\ cache.known \subseteq links /\ fresh \subseteq cache.known
  /\ \A l \in cache.known : l \notin fresh =>
       Ends({l}) \subseteq DOMAIN cache.states \cap DOMAIN cache.children
  /\ \A l \in cache.known : stage \notin {"links", "refused"} => Ends({l}) \subseteq DOMAIN cache.states
  /\ \A l \in cache.known : stage \notin {"links", "children", "refused"} =>
       Ends({l}) \subseteq DOMAIN cache.children
  /\ \A r \in DOMAIN cache.children : DOMAIN cache.children[r] = DOMAIN Evidence[r].samples
  /\ cache.proven \subseteq cache.known
  /\ \A l \in cache.proven :
       /\ Ends({l}) \subseteq DOMAIN cache.states \cap DOMAIN cache.children
       /\ PredecessorProven(l) /\ SuccessorProven(l) /\ ~ Moved(l)

(* What was looked up: on the left, whatever is not a hit is the end of a  *)
(* link, and has all its links; on the right, so has every hit that the    *)
(* left side has not looked up.                                            *)
LookupInv ==
  /\ side \in {"left", "right"} /\ (stage = "idle" => side = "left")
  /\ DOMAIN selected \subseteq Results /\ cache.expanded \subseteq Results
  /\ stage \in {"idle", "select"} /\ side = "left" => cache.expanded = {}
  /\ stage = "links" => /\ frontier \subseteq DOMAIN selected \cup Ends(links)
                        /\ DOMAIN selected \subseteq cache.expanded \cup frontier
  /\ stage \in {"children", "results"} => DOMAIN selected \subseteq cache.expanded
  /\ stage \notin {"idle", "select"} /\ side = "left" => DOMAIN selected \subseteq Left
  /\ side = "left" \/ stage = "select" =>
       \A r \in cache.expanded \ Left : Settled(r) /\ Incoming(r) \subseteq cache.known
  /\ \A r \in DOMAIN selected :
       selected[r].status \notin {"PENDING", "HELD"} =>
         /\ Settled(r)
         /\ stage \notin {"idle", "select"} /\ r \in cache.expanded /\ (side = "left" \/ r \notin Left) =>
              Incoming(r) \subseteq cache.known

\* What an entry of the answer says is true and stays true.
TrueEntry(e) ==
  /\ e.result \in Results /\ e.chain \subseteq links /\ \A l \in e.chain : ~ Moved(l)
  /\ (e.status = "REPLACED") <=> (\E l \in e.chain : l.predecessor = e.result)
  /\ e.status \in {"PENDING", "HELD", "EXCLUDED"} => e.chain = {}
  /\ e.status \notin {"PENDING", "HELD"} => Settled(e.result)
  /\ e.status \in {"VALID", "REPLACED"} /\ ~ (e.side = "right" /\ e.result \in Left) =>
       Incoming(e.result) \subseteq e.chain

\* An entry of the side being read shows all that is known of its result.
CurrentEntry(e) == e.chain \subseteq cache.known /\ Touches(e.result) \subseteq e.chain

ShownInv ==
  /\ \A e \in shown : TrueEntry(e)
  /\ \A e \in shown : e.side = side =>
       stage \in {"results", "answered", "refused"} /\ CurrentEntry(e)
  /\ side = "left" => \A e \in shown : e.side = "left"
  /\ \A e, f \in shown : e.side = f.side =>
       \A l \in e.chain : f.result \in Ends({l}) => l \in f.chain

ComparisonInv == CacheInv /\ LookupInv /\ ShownInv

-----------------------------------------------------------------------------
(* What the commands leave as it was.                                      *)

LEMMA EndsOf ==
  /\ \A l : Ends({l}) = {l.predecessor, l.successor}
  /\ \A S : Ends(S) = UNION {Ends({l}) : l \in S}
BY DEF Ends

\* The results of a link are decided and have samples.
LEMMA EndsSettled ==
  ASSUME TablesInv, NEW l \in links, NEW r \in Ends({l})
  PROVE  r \in Results /\ Settled(r) /\ Sampled(r)
<1>1. l.predecessor \in Results /\ l.successor \in Results
      /\ Sampled(l.predecessor) /\ Sampled(l.successor)
  BY DEF TablesInv
<1>2. r = l.predecessor \/ r = l.successor BY EndsOf
<1>3. l \in Outgoing(r) \/ l \in Incoming(r) BY <1>2 DEF Outgoing, Incoming
<1>4. ~ Undecided(r) /\ r \in Results BY <1>1, <1>2, <1>3 DEF Undecided
<1>5. PICK d \in decisions : DecidedBy(r, d) BY <1>4 DEF TablesInv
<1>6. row[r].status = d.to \/ row[r].status = "REPLACED"
  BY <1>5, DecidedFields, ReplacedFields DEF DecidedBy
<1>7. d.to \in {"VALID", "SUSPECT", "EXCLUDED"} BY <1>5 DEF DecidedBy, SoundDecision
<1> QED BY <1>1, <1>2, <1>4, <1>6, <1>7 DEF Settled

\* Links are added to undecided results only, and a decision is never taken back.
LEMMA SettledStay ==
  ASSUME TablesInv, TablesStep
  PROVE  /\ links \subseteq links'
         /\ \A r \in Results : Settled(r) => Settled(r)' /\ Incoming(r)' = Incoming(r)
<1>1. CASE UNCHANGED database
  BY <1>1 DEF database, Settled, Incoming
<1>2. \A r \in Results : Undecided(r) /\ SignedStatus(Evidence[r]) = "PENDING" => ~ Settled(r)
  BY NewFields DEF Undecided, Settled
<1>3. ASSUME NEW r, NEW d, DecisionLands(r, d)
      PROVE  /\ links \subseteq links'
             /\ \A s \in Results : Settled(s) => Settled(s)' /\ Incoming(s)' = Incoming(s)
  <2>1. links' = links /\ r \in Results /\ row' = [row EXCEPT ![r] = DecidedRow(row[r], d)]
    BY <1>3 DEF DecisionLands
  <2>2. ~ Settled(r) BY <1>2, <1>3 DEF DecisionLands, SoundDecision
  <2>3. \A s \in Results : s # r => row'[s] = row[s] BY <2>1 DEF TablesInv
  <2> QED BY <2>1, <2>2, <2>3 DEF Settled, Incoming
<1>4. ASSUME NEW a, NEW b, NEW d, NEW l, PairLands(a, b, d, l)
      PROVE  /\ links \subseteq links'
             /\ \A s \in Results : Settled(s) => Settled(s)' /\ Incoming(s)' = Incoming(s)
  <2>1. /\ links' = links \cup {l} /\ a \in Results /\ b \in Results /\ a # b /\ l.successor = b
        /\ row' = [row EXCEPT ![a] = ReplacedRow(row[a], l), ![b] = DecidedRow(row[b], d)]
        /\ Undecided(b) /\ SignedStatus(Evidence[b]) = "PENDING" /\ Outgoing(a) = {}
    BY <1>4 DEF PairLands, SoundDecision
  <2>2. ~ Settled(b) BY <1>2, <2>1
  <2>3. PICK e \in decisions : DecidedBy(a, e) BY <1>4 DEF PairLands
  <2>4. row[a] = DecidedRow(NewRow(a), e) BY <2>1, <2>3 DEF DecidedBy
  <2>5. row'[a] = ReplacedRow(DecidedRow(NewRow(a), e), l) BY <2>1, <2>4 DEF TablesInv
  <2>6. row'[a].status = "REPLACED" BY <2>5, ReplacedFields
  <2>7. \A s \in Results : s # a /\ s # b => row'[s] = row[s] BY <2>1 DEF TablesInv
  <2>8. \A s \in Results : s # b => Incoming(s)' = Incoming(s) BY <2>1 DEF Incoming
  <2>9. \A s \in Results : Settled(s) => Settled(s)' BY <2>2, <2>6, <2>7 DEF Settled
  <2> QED BY <2>1, <2>2, <2>8, <2>9
<1> QED BY <1>1, <1>3, <1>4 DEF TablesStep

\* A step of a command leaves what the reader has as true as it was.
LEMMA CommandsKeepReader ==
  ASSUME TablesInv, TablesStep, ComparisonInv, UNCHANGED comparison
  PROVE  ComparisonInv'
<1> USE DEF comparison
<1>1. /\ links \subseteq links'
      /\ \A r \in Results : Settled(r) => Settled(r)' /\ Incoming(r)' = Incoming(r)
  BY SettledStay
<1>2. Ends(links) \subseteq Ends(links') BY <1>1 DEF Ends
<1>3. CacheInv'
  <2>1. \A l : PredecessorProven(l)' = PredecessorProven(l)
    BY DEF PredecessorProven, IdOf
  <2>2. \A l : SuccessorProven(l)' = SuccessorProven(l)
    BY DEF SuccessorProven, IdOf, From
  <2>3. \A l \in cache.proven : Moved(l)' <=> Moved(l)
    BY MovedKept DEF ComparisonInv, CacheInv
  <2> QED BY <1>1, <2>1, <2>2, <2>3 DEF ComparisonInv, CacheInv, Ends
<1>5. LookupInv' BY <1>1, <1>2 DEF ComparisonInv, LookupInv
<1>6. ShownInv'
  <2>1. \A e \in shown : TrueEntry(e)'
    <3>1. SUFFICES ASSUME NEW e \in shown PROVE TrueEntry(e)'
      OBVIOUS
    <3>2. TrueEntry(e) BY DEF ComparisonInv, ShownInv
    <3>3. e.status \in {"VALID", "REPLACED"} => Incoming(e.result)' = Incoming(e.result)
      BY <1>1, <3>2 DEF TrueEntry
    <3>4. \A l \in e.chain : Moved(l)' <=> Moved(l) BY <3>2, MovedKept DEF TrueEntry
    <3> QED BY <1>1, <3>2, <3>3, <3>4 DEF TrueEntry
  <2>2. \A e : CurrentEntry(e)' = CurrentEntry(e) BY DEF CurrentEntry, Touches, Ends
  <2> QED BY <2>1, <2>2 DEF ComparisonInv, ShownInv, Ends
<1> QED BY <1>3, <1>5, <1>6 DEF ComparisonInv

-----------------------------------------------------------------------------
(* The steps of the reader.                                                *)

\* What was proven stays proven while the cache grows.
LEMMA ProvenStays ==
  ASSUME NEW l, PredecessorProven(l), SuccessorProven(l),
         cache.known \subseteq cache'.known,
         \A r \in Ends({l}) : /\ cache'.states[r] = cache.states[r]
                              /\ cache'.children[r] = cache.children[r]
  PROVE  PredecessorProven(l)' /\ SuccessorProven(l)'
<1>1. l.predecessor \in Ends({l}) /\ l.successor \in Ends({l}) BY EndsOf
<1>2. PredecessorProven(l)' BY <1>1 DEF PredecessorProven, IdOf
<1>3. From(l.successor) \subseteq From(l.successor)' BY DEF From
<1>4. SuccessorProven(l)' BY <1>1, <1>3 DEF SuccessorProven, IdOf
<1> QED BY <1>2, <1>4

\* What the chain of a result holds.
LEMMA ChainHolds ==
  ASSUME NEW r
  PROVE  /\ ChainOf(r) \subseteq cache.known
         /\ Touches(r) = From(r) \cup Into(r) /\ Touches(r) \subseteq ChainOf(r)
         /\ Touches(r) = {} => ChainOf(r) = {}
<1>1. Touches(r) = From(r) \cup Into(r) BY EndsOf DEF Touches, From, Into
<1>2. Touches(r) \subseteq ChainOf(r)
  BY <1>1 DEF ChainOf, HangsTogether, Touches
<1>3. ASSUME Touches(r) = {} PROVE ChainOf(r) = {}
  <2>1. HangsTogether(r, {}) BY <1>1, <1>3 DEF HangsTogether
  <2> QED BY <2>1 DEF ChainOf
<1> QED BY <1>1, <1>2, <1>3 DEF ChainOf

\* What is shown of a result whose samples and chain agree with its row.
LEMMA AgreementIsTrue ==
  ASSUME TablesInv, EvidenceInv, CacheInv, stage = "results", NEW r \in DOMAIN selected,
         SamplesAgree(r), ChainAgrees(r)
  PROVE  /\ (selected[r].status = "REPLACED") <=> (\E l \in ChainOf(r) : l.predecessor = r)
         /\ selected[r].status \in {"PENDING", "HELD", "EXCLUDED"} => ChainOf(r) = {}
         /\ \A l \in ChainOf(r) : PredecessorProven(l) /\ SuccessorProven(l) /\ ~ Moved(l)
<1>1. /\ ChainOf(r) \subseteq cache.known /\ Touches(r) \subseteq ChainOf(r)
      /\ Touches(r) = From(r) \cup Into(r) /\ (Touches(r) = {} => ChainOf(r) = {})
  BY ChainHolds
<1>a. \A l \in links : OfOneEvidence(l) => ~ Moved(l)
  BY DEF OfOneEvidence, Moved, DecisionOf, EvidenceInv
<1>2. \A l \in ChainOf(r) : PredecessorProven(l) /\ SuccessorProven(l) /\ ~ Moved(l)
  BY <1>1, <1>a DEF ChainAgrees, LinkProven, CacheInv
<1>3. ASSUME NEW l \in Touches(r)
      PROVE  \E i \in DOMAIN cache.children[r] : cache.children[r][i].status = selected[r].status
  <2>1. l \in cache.known /\ r \in Ends({l}) /\ l \in links BY <1>3 DEF Touches, CacheInv
  <2>2. r \in DOMAIN cache.children /\ Sampled(r) BY <2>1, EndsSettled DEF CacheInv
  <2>3. SamplesRead(r) = cache.children[r] BY <2>2 DEF SamplesRead
  <2>4. PICK i \in DOMAIN cache.children[r] : TRUE BY <2>2 DEF CacheInv, Sampled
  <2> QED BY <2>3, <2>4 DEF SamplesAgree
<1>4. ASSUME NEW l \in From(r) PROVE selected[r].status = "REPLACED"
  <2>1. l \in Touches(r) /\ l.predecessor = r /\ l \in ChainOf(r) BY <1>1 DEF From
  <2>2. \A i \in DOMAIN cache.children[r] : cache.children[r][i].status = "REPLACED"
    BY <1>2, <2>1 DEF PredecessorProven, MeasurementsProven
  <2> QED BY <1>3, <2>1, <2>2
<1>5. ASSUME NEW l \in Into(r)
      PROVE  selected[r].status = "VALID" \/ (selected[r].status = "REPLACED" /\ From(r) # {})
  <2>1. l \in Touches(r) /\ l.successor = r /\ l \in ChainOf(r) BY <1>1 DEF Into
  <2>2. SuccessorProven(l) BY <1>2, <2>1
  <2>3. \/ \A i \in DOMAIN cache.children[r] : cache.children[r][i].status = "VALID"
        \/ /\ \A i \in DOMAIN cache.children[r] : cache.children[r][i].status = "REPLACED"
           /\ From(r) # {}
    BY <2>1, <2>2 DEF SuccessorProven, MeasurementsProven
  <2> QED BY <1>3, <2>1, <2>3
<1>6. selected[r].status = "REPLACED" => \E l \in ChainOf(r) : l.predecessor = r
  <2>1. ASSUME selected[r].status = "REPLACED" PROVE From(r) # {}
    <3>1. ChainOf(r) # {} BY <2>1 DEF ChainAgrees
    <3>2. From(r) # {} \/ Into(r) # {} BY <1>1, <3>1
    <3> QED BY <1>5, <2>1, <3>2
  <2> QED BY <1>1, <2>1 DEF From
<1>7. ASSUME NEW l \in ChainOf(r), l.predecessor = r PROVE selected[r].status = "REPLACED"
  BY <1>1, <1>4, <1>7 DEF From
<1>8. ASSUME ChainOf(r) # {} PROVE selected[r].status \in {"VALID", "REPLACED"}
  BY <1>1, <1>4, <1>5, <1>8
<1> QED BY <1>2, <1>6, <1>7, <1>8

LEMMA InitComparison == ASSUME ComparisonInit PROVE ComparisonInv
<1>0. /\ DOMAIN cache = {"expanded", "known", "states", "children", "proven"}
      /\ cache.known = {} /\ cache.proven = {} /\ cache.expanded = {} /\ fresh = {}
      /\ cache.children = <<>> /\ DOMAIN cache.children = {}
      /\ selected = <<>> /\ DOMAIN selected = {} /\ side = "left" /\ stage = "idle" /\ shown = {}
  BY DEF ComparisonInit
<1>1. CacheInv BY <1>0 DEF CacheInv
<1>2. LookupInv BY <1>0 DEF LookupInv
<1>3. ShownInv BY <1>0 DEF ShownInv
<1> QED BY <1>1, <1>2, <1>3 DEF ComparisonInv

\* Where nothing is read, nothing can become false.
LEMMA BeginKeeps == ASSUME ComparisonInv, BeginComparison, UNCHANGED reviewVars PROVE ComparisonInv'
<1>0. /\ stage = "idle" /\ stage' = "select"
      /\ UNCHANGED <<side, selected, frontier, cache, fresh, shown>>
      /\ UNCHANGED <<row, sample, links, decisions>>
  BY DEF BeginComparison, reviewVars
<1>1. \A l : PredecessorProven(l)' = PredecessorProven(l) /\ SuccessorProven(l)' = SuccessorProven(l)
  BY <1>0 DEF PredecessorProven, SuccessorProven, From, IdOf
<1>2. CacheInv'
  <2>1. \A l \in cache.known : Ends({l}) \subseteq DOMAIN cache.states \cap DOMAIN cache.children
    BY <1>0 DEF ComparisonInv, CacheInv
  <2>2. \A l : Ends({l})' = Ends({l}) BY DEF Ends
  <2> QED BY <1>0, <1>1, <2>1, <2>2 DEF ComparisonInv, CacheInv, Moved
<1>3. LookupInv' BY <1>0 DEF ComparisonInv, LookupInv, Settled, Incoming
<1>4. ShownInv'
  BY <1>0 DEF ComparisonInv, ShownInv, TrueEntry, Moved, CurrentEntry, Touches, Settled, Incoming, Ends
<1> QED BY <1>2, <1>3, <1>4 DEF ComparisonInv

LEMMA RefuseKeeps == ASSUME ComparisonInv, Refuse, stage \notin {"idle", "select"}, UNCHANGED reviewVars PROVE ComparisonInv'
<1> USE DEF Refuse, reviewVars
<1>1. \A l : PredecessorProven(l)' = PredecessorProven(l) /\ SuccessorProven(l)' = SuccessorProven(l)
  BY DEF PredecessorProven, SuccessorProven, From, IdOf
<1>2. CacheInv' BY <1>1 DEF ComparisonInv, CacheInv, Ends, Moved
<1>3. LookupInv' BY DEF ComparisonInv, LookupInv, Settled, Incoming
<1>4. ShownInv'
  BY DEF ComparisonInv, ShownInv, TrueEntry, Moved, CurrentEntry, Touches, Settled, Incoming, Ends
<1> QED BY <1>2, <1>3, <1>4 DEF ComparisonInv

LEMMA SelectKeeps ==
  ASSUME TablesInv, ComparisonInv, SelectSide, UNCHANGED reviewVars
  PROVE  ComparisonInv'
<1> DEFINE hits == {r \in IF side = "left" THEN Left ELSE Right : row[r].status \in filter}
<1>1. /\ stage = "select" /\ stage' = "links" /\ selected' = [r \in hits |-> row[r]]
      /\ frontier' = hits \ cache.expanded /\ fresh' = {} /\ UNCHANGED <<side, filter, cache, shown>>
  BY DEF SelectSide
<1>2. hits \subseteq Results /\ (side = "left" => hits \subseteq Left)
  BY ComparisonAssumption
<1> HIDE DEF hits
<1>3. /\ UNCHANGED <<row, sample, links, decisions>> /\ \A r : Settled(r)' = Settled(r) /\ Incoming(r)' = Incoming(r)
  BY DEF reviewVars, Settled, Incoming
<1>4. \A l : PredecessorProven(l)' = PredecessorProven(l) /\ SuccessorProven(l)' = SuccessorProven(l)
  BY <1>1 DEF PredecessorProven, SuccessorProven, From, IdOf
<1>5. CacheInv' BY <1>1, <1>3, <1>4 DEF ComparisonInv, CacheInv, Ends, Moved
<1>6. LookupInv'
  <2>1. \A r \in DOMAIN selected' :
          selected'[r].status \notin {"PENDING", "HELD"} =>
            /\ Settled(r)'
            /\ r \in cache'.expanded /\ (side' = "left" \/ r \notin Left) =>
                 Incoming(r)' \subseteq cache'.known
    <3>1. \A r \in hits : selected'[r] = row[r] /\ DOMAIN selected' = hits BY <1>1
    <3>2. \A r \in cache.expanded \ Left : Incoming(r) \subseteq cache.known
      BY <1>1 DEF ComparisonInv, LookupInv
    <3>3. side = "left" => cache.expanded = {} BY <1>1 DEF ComparisonInv, LookupInv
    <3> QED BY <1>1, <1>3, <3>1, <3>2, <3>3 DEF Settled
  <2>2. side' = "left" \/ stage' = "select" =>
          \A r \in cache'.expanded \ Left : Settled(r)' /\ Incoming(r)' \subseteq cache'.known
    BY <1>1, <1>3 DEF ComparisonInv, LookupInv
  <2>3. DOMAIN selected' = hits BY <1>1
  <2>4. side' \in {"left", "right"} /\ cache'.expanded \subseteq Results
    BY <1>1 DEF ComparisonInv, LookupInv
  <2> QED BY <1>1, <1>2, <2>1, <2>2, <2>3, <2>4 DEF LookupInv
<1>7. ShownInv'
  <2>1. \A e \in shown : e.side # side BY <1>1 DEF ComparisonInv, ShownInv
  <2> QED BY <1>1, <1>3, <2>1 DEF ComparisonInv, ShownInv, TrueEntry, Moved, Ends
<1> QED BY <1>5, <1>6, <1>7 DEF ComparisonInv

\* A lookup that does not refuse.
LookedUp(known) ==
  /\ stage = "links" /\ known = cache.known \cup UNION {Incoming(r) \cup Outgoing(r) : r \in frontier}
  /\ cache' = [cache EXCEPT !.known = known, !.expanded = cache.expanded \cup frontier]
  /\ fresh' = fresh \cup (known \ cache.known)
  /\ frontier' = Ends(UNION {Incoming(r) \cup Outgoing(r) : r \in frontier}) \ (cache.expanded \cup frontier)
  /\ UNCHANGED <<stage, side, filter, selected, shown>>

LEMMA LookUpKeeps ==
  ASSUME TablesInv, ComparisonInv, LookUpLinks, UNCHANGED reviewVars
  PROVE  ComparisonInv'
<1> DEFINE found == UNION {Incoming(r) \cup Outgoing(r) : r \in frontier}
           known == cache.known \cup found
<1>0. (stage = "links" /\ Refuse) \/ LookedUp(known)
  BY DEF LookUpLinks, LookedUp
<1>1. CASE stage = "links" /\ Refuse BY <1>1, RefuseKeeps
<1>2. CASE LookedUp(known)
  <2> USE <1>2
  <2>1. /\ stage = "links" /\ UNCHANGED <<stage, side, filter, selected, shown>>
        /\ cache' = [cache EXCEPT !.known = known, !.expanded = cache.expanded \cup frontier]
        /\ fresh' = fresh \cup (known \ cache.known)
        /\ frontier' = Ends(found) \ (cache.expanded \cup frontier)
    BY DEF LookedUp
  <2>2. found \subseteq links /\ \A r \in frontier : Incoming(r) \subseteq known
    BY DEF Incoming, Outgoing
  <2> HIDE DEF found, known
  <2>3. /\ UNCHANGED <<row, sample, links, decisions>>
        /\ \A r : Settled(r)' = Settled(r) /\ Incoming(r)' = Incoming(r)
    BY DEF reviewVars, Settled, Incoming
  <2>4. /\ cache'.known = known /\ cache'.expanded = cache.expanded \cup frontier
        /\ cache'.states = cache.states /\ cache'.children = cache.children
        /\ cache'.proven = cache.proven /\ DOMAIN cache' = DOMAIN cache
    BY <2>1 DEF ComparisonInv, CacheInv
  <2>5. cache.known \subseteq known /\ known \subseteq links
    BY <2>2 DEF known, ComparisonInv, CacheInv
  <2>6. CacheInv'
    <3>1. \A l \in cache.proven : PredecessorProven(l)' /\ SuccessorProven(l)'
      BY <2>4, <2>5, ProvenStays DEF ComparisonInv, CacheInv
    <3>2. \A l \in known : l \notin fresh' => l \in cache.known /\ l \notin fresh
      BY <2>1
    <3> QED BY <2>1, <2>3, <2>4, <2>5, <3>1, <3>2 DEF ComparisonInv, CacheInv, Ends, Moved
  <2>7. Ends(found) \subseteq Ends(links) BY <2>2 DEF Ends
  <2>8. \A r \in Ends(links) : r \in Results /\ Settled(r)
    <3>1. SUFFICES ASSUME NEW r \in Ends(links) PROVE r \in Results /\ Settled(r)
      OBVIOUS
    <3>2. PICK l \in links : r \in Ends({l}) BY DEF Ends
    <3> QED BY <3>2, EndsSettled
  <2>9. LookupInv'
    <3>1. frontier \subseteq DOMAIN selected \cup Ends(links)
      BY <2>1 DEF ComparisonInv, LookupInv
    <3>2. cache'.expanded \subseteq Results
      BY <2>4, <2>8, <3>1 DEF ComparisonInv, LookupInv
    <3>3. side' = "left" \/ stage' = "select" =>
            \A r \in cache'.expanded \ Left : Settled(r)' /\ Incoming(r)' \subseteq cache'.known
      <4>1. side = "left" => \A r \in frontier \ Left : Settled(r)
        BY <2>1, <2>8, <3>1 DEF ComparisonInv, LookupInv
      <4>2. side = "left" => \A r \in cache.expanded \ Left : Settled(r) /\ Incoming(r) \subseteq cache.known
        BY DEF ComparisonInv, LookupInv
      <4> QED BY <2>1, <2>2, <2>3, <2>4, <2>5, <4>1, <4>2
    <3>4. \A r \in DOMAIN selected' :
            selected'[r].status \notin {"PENDING", "HELD"} =>
              /\ Settled(r)'
              /\ r \in cache'.expanded /\ (side' = "left" \/ r \notin Left) =>
                   Incoming(r)' \subseteq cache'.known
      BY <2>1, <2>2, <2>3, <2>4, <2>5 DEF ComparisonInv, LookupInv
    <3>5. /\ frontier' \subseteq DOMAIN selected' \cup Ends(links')
          /\ DOMAIN selected' \subseteq cache'.expanded \cup frontier'
      BY <2>1, <2>3, <2>4, <2>7 DEF ComparisonInv, LookupInv
    <3> QED BY <2>1, <3>2, <3>3, <3>4, <3>5 DEF ComparisonInv, LookupInv
  <2>10. ShownInv'
    <3>1. \A e \in shown : e.side # side BY <2>1 DEF ComparisonInv, ShownInv
    <3> QED BY <2>1, <2>3, <3>1 DEF ComparisonInv, ShownInv, TrueEntry, Moved, Ends
  <2> QED BY <2>6, <2>9, <2>10 DEF ComparisonInv
<1> QED BY <1>0, <1>1, <1>2

LEMMA LoadStatesKeeps ==
  ASSUME TablesInv, ComparisonInv, LoadStates, UNCHANGED reviewVars
  PROVE  ComparisonInv'
<1> DEFINE states == Loaded(cache.states, [r \in Ends(fresh) |-> row[r]])
<1>1. /\ stage = "links" /\ stage' = "children" /\ frontier = {} /\ cache' = [cache EXCEPT !.states = states]
      /\ UNCHANGED <<side, filter, selected, frontier, fresh, shown>>
  BY DEF LoadStates
<1>2. /\ DOMAIN states = DOMAIN cache.states \cup Ends(fresh)
      /\ \A r \in DOMAIN cache.states : states[r] = cache.states[r]
  BY DEF Loaded
<1> HIDE DEF states
<1>3. /\ UNCHANGED <<row, sample, links, decisions>>
      /\ \A r : Settled(r)' = Settled(r) /\ Incoming(r)' = Incoming(r)
  BY DEF reviewVars, Settled, Incoming
<1>4. /\ cache'.states = states /\ cache'.known = cache.known /\ cache'.expanded = cache.expanded
      /\ cache'.children = cache.children /\ cache'.proven = cache.proven /\ DOMAIN cache' = DOMAIN cache
  BY <1>1 DEF ComparisonInv, CacheInv
<1>5. CacheInv'
  <2>1. \A l \in cache.proven : PredecessorProven(l)' /\ SuccessorProven(l)'
    BY <1>2, <1>4, ProvenStays DEF ComparisonInv, CacheInv
  <2>2. \A l \in fresh : Ends({l}) \subseteq Ends(fresh) BY DEF Ends
  <2>3. \A l \in cache.known : Ends({l}) \subseteq DOMAIN states
    BY <1>2, <2>2 DEF ComparisonInv, CacheInv
  <2> QED BY <1>1, <1>2, <1>3, <1>4, <2>1, <2>3 DEF ComparisonInv, CacheInv, Ends, Moved
<1>6. LookupInv' BY <1>1, <1>3, <1>4 DEF ComparisonInv, LookupInv
<1>7. ShownInv'
  <2>1. \A e \in shown : e.side # side BY <1>1 DEF ComparisonInv, ShownInv
  <2> QED BY <1>1, <1>3, <2>1 DEF ComparisonInv, ShownInv, TrueEntry, Moved, Ends
<1> QED BY <1>5, <1>6, <1>7 DEF ComparisonInv

LEMMA LoadChildrenKeeps ==
  ASSUME TablesInv, ComparisonInv, LoadChildren, UNCHANGED reviewVars
  PROVE  ComparisonInv'
<1> DEFINE children == Loaded(cache.children, [r \in Ends(fresh) |-> sample[r]])
<1>1. /\ stage = "children" /\ stage' = "results" /\ cache' = [cache EXCEPT !.children = children]
      /\ UNCHANGED <<side, filter, selected, frontier, fresh, shown>>
  BY DEF LoadChildren
<1>2. /\ DOMAIN children = DOMAIN cache.children \cup Ends(fresh)
      /\ \A r \in DOMAIN cache.children : children[r] = cache.children[r]
      /\ \A r \in Ends(fresh) : r \notin DOMAIN cache.children => children[r] = sample[r]
  BY DEF Loaded
<1> HIDE DEF children
<1>3. /\ UNCHANGED <<row, sample, links, decisions>>
      /\ \A r : Settled(r)' = Settled(r) /\ Incoming(r)' = Incoming(r)
  BY DEF reviewVars, Settled, Incoming
<1>4. /\ cache'.children = children /\ cache'.known = cache.known /\ cache'.expanded = cache.expanded
      /\ cache'.states = cache.states /\ cache'.proven = cache.proven /\ DOMAIN cache' = DOMAIN cache
  BY <1>1 DEF ComparisonInv, CacheInv
<1>5. CacheInv'
  <2>1. \A l \in cache.proven : PredecessorProven(l)' /\ SuccessorProven(l)'
    BY <1>2, <1>4, ProvenStays DEF ComparisonInv, CacheInv
  <2>2. \A l \in fresh : Ends({l}) \subseteq Ends(fresh) BY DEF Ends
  <2>3. \A l \in cache.known : Ends({l}) \subseteq DOMAIN children
    BY <1>2, <2>2 DEF ComparisonInv, CacheInv
  <2>4. \A r \in DOMAIN children : DOMAIN children[r] = DOMAIN Evidence[r].samples
    <3>1. \A r \in Ends(fresh) : r \in Results
      <4>1. SUFFICES ASSUME NEW r \in Ends(fresh) PROVE r \in Results
        OBVIOUS
      <4>2. PICK l \in fresh : r \in Ends({l}) BY DEF Ends
      <4>3. l \in links BY <4>2 DEF ComparisonInv, CacheInv
      <4> QED BY <4>2, <4>3, EndsSettled
    <3>2. \A r \in Ends(fresh) : DOMAIN sample[r] = DOMAIN Evidence[r].samples
      BY <3>1, SamplesShape
    <3> QED BY <1>2, <3>2 DEF ComparisonInv, CacheInv
  <2>5. \A l \in cache.known : Ends({l}) \subseteq DOMAIN cache.states
    BY <1>1 DEF ComparisonInv, CacheInv
  <2> QED BY <1>1, <1>2, <1>3, <1>4, <2>1, <2>3, <2>4, <2>5 DEF ComparisonInv, CacheInv, Ends, Moved
<1>6. LookupInv' BY <1>1, <1>3, <1>4 DEF ComparisonInv, LookupInv
<1>7. ShownInv'
  <2>1. \A e \in shown : e.side # side BY <1>1 DEF ComparisonInv, ShownInv
  <2> QED BY <1>1, <1>3, <2>1 DEF ComparisonInv, ShownInv, TrueEntry, Moved, Ends
<1> QED BY <1>5, <1>6, <1>7 DEF ComparisonInv

LEMMA EndSideKeeps ==
  ASSUME TablesInv, ComparisonInv, EndSide, UNCHANGED reviewVars
  PROVE  ComparisonInv'
<1>1. /\ stage = "results" /\ DOMAIN selected = {} /\ UNCHANGED <<selected, frontier, cache, fresh, shown>>
      /\ \/ side = "left" /\ stage' = "select" /\ side' = "right"
         \/ side # "left" /\ stage' = "answered" /\ side' = side
  BY DEF EndSide
<1>2. /\ UNCHANGED <<row, sample, links, decisions>>
      /\ \A r : Settled(r)' = Settled(r) /\ Incoming(r)' = Incoming(r)
  BY DEF reviewVars, Settled, Incoming
<1>3. \A l : PredecessorProven(l)' = PredecessorProven(l) /\ SuccessorProven(l)' = SuccessorProven(l)
  BY <1>1 DEF PredecessorProven, SuccessorProven, From, IdOf
<1>4. CacheInv' BY <1>1, <1>2, <1>3 DEF ComparisonInv, CacheInv, Ends, Moved
<1>5. LookupInv' BY <1>1, <1>2 DEF ComparisonInv, LookupInv
<1>6. ShownInv'
  BY <1>1, <1>2 DEF ComparisonInv, ShownInv, TrueEntry, Moved, CurrentEntry, Touches, Ends
<1> QED BY <1>4, <1>5, <1>6 DEF ComparisonInv

\* The entry of a result whose row, samples and chain agree.
Entry(r) == [side |-> side, result |-> r, status |-> selected[r].status, chain |-> ChainOf(r)]

ShownNow(r) ==
  /\ SamplesAgree(r) /\ ChainAgrees(r)
  /\ shown' = shown \cup {Entry(r)}
  /\ selected' = [x \in DOMAIN selected \ {r} |-> selected[x]]
  /\ cache' = [cache EXCEPT !.proven = cache.proven \cup ChainOf(r)]
  /\ UNCHANGED <<stage, side, frontier, fresh>>

LEMMA ShowResultKeeps ==
  ASSUME TablesInv, EvidenceInv, ComparisonInv, NEW r \in Results, ShowResult(r),
         UNCHANGED reviewVars
  PROVE  ComparisonInv'
<1>0. stage = "results" /\ r \in DOMAIN selected /\ (Refuse \/ ShownNow(r))
  BY DEF ShowResult, ShownNow, Entry
<1>1. CASE Refuse BY <1>0, <1>1, RefuseKeeps
<1>2. CASE ShownNow(r)
  <2> DEFINE chain == ChainOf(r)
             x == Entry(r)
  <2>1. /\ shown' = shown \cup {x} /\ UNCHANGED <<stage, side, frontier, fresh>>
        /\ selected' = [z \in DOMAIN selected \ {r} |-> selected[z]]
        /\ cache' = [cache EXCEPT !.proven = cache.proven \cup chain]
    BY <1>2 DEF ShownNow
  <2>2. /\ UNCHANGED <<row, sample, links, decisions>>
        /\ \A s : Settled(s)' = Settled(s) /\ Incoming(s)' = Incoming(s)
    BY DEF reviewVars, Settled, Incoming
  <2>3. /\ (selected[r].status = "REPLACED") <=> (\E l \in chain : l.predecessor = r)
        /\ selected[r].status \in {"PENDING", "HELD", "EXCLUDED"} => chain = {}
        /\ \A l \in chain : PredecessorProven(l) /\ SuccessorProven(l) /\ ~ Moved(l)
    BY <1>0, <1>2, AgreementIsTrue DEF ComparisonInv, ShownNow
  <2>4. chain \subseteq cache.known /\ Touches(r) = From(r) \cup Into(r) /\ Touches(r) \subseteq chain
    BY ChainHolds
  <2>5. x.side = side /\ x.result = r /\ x.status = selected[r].status /\ x.chain = chain
    BY DEF Entry
  <2> HIDE DEF chain, x
  <2>6. /\ cache'.proven = cache.proven \cup chain /\ cache'.known = cache.known
        /\ cache'.expanded = cache.expanded /\ cache'.states = cache.states
        /\ cache'.children = cache.children /\ DOMAIN cache' = DOMAIN cache
    BY <2>1 DEF ComparisonInv, CacheInv
  <2>7. CacheInv'
    <3>1. \A l \in cache'.proven : PredecessorProven(l) /\ SuccessorProven(l) /\ ~ Moved(l)
      BY <2>3, <2>6 DEF ComparisonInv, CacheInv
    <3>2. \A l \in cache'.proven : PredecessorProven(l)' /\ SuccessorProven(l)'
      BY <2>6, <3>1, ProvenStays
    <3>3. \A l \in cache'.proven : Ends({l}) \subseteq DOMAIN cache.states \cap DOMAIN cache.children
      BY <1>0, <2>4, <2>6 DEF ComparisonInv, CacheInv
    <3>4. \A l \in cache'.proven : ~ Moved(l)' BY <2>2, <3>1 DEF Moved
    <3> QED BY <2>1, <2>2, <2>4, <2>6, <3>2, <3>3, <3>4 DEF ComparisonInv, CacheInv, Ends
  <2>8. LookupInv'
    <3>1. DOMAIN selected' \subseteq DOMAIN selected /\ \A z \in DOMAIN selected' : selected'[z] = selected[z]
      BY <2>1
    <3> QED BY <1>0, <2>1, <2>2, <2>6, <3>1 DEF ComparisonInv, LookupInv
  <2>9. TrueEntry(x)
    <3>1. chain \subseteq links BY <2>4 DEF ComparisonInv, CacheInv
    <3>2. selected[r].status \notin {"PENDING", "HELD"} =>
            Settled(r) /\ (side = "left" \/ r \notin Left => Incoming(r) \subseteq cache.known)
      BY <1>0 DEF ComparisonInv, LookupInv
    <3>3. Incoming(r) \subseteq cache.known => Incoming(r) \subseteq chain
      BY <2>4 DEF Incoming, Into
    <3>4. side = "left" \/ side = "right" BY DEF ComparisonInv, LookupInv
    <3> QED BY <2>3, <2>5, <3>1, <3>2, <3>3, <3>4 DEF TrueEntry
  <2>10. \A e : TrueEntry(e)' = TrueEntry(e) /\ CurrentEntry(e)' = CurrentEntry(e)
    BY <2>2, <2>6 DEF TrueEntry, CurrentEntry, Touches, Ends, Moved
  <2>11. CurrentEntry(x) BY <2>4, <2>5 DEF CurrentEntry
  <2>12. ASSUME NEW e \in shown', NEW f \in shown', e.side = f.side, NEW l \in e.chain,
                f.result \in Ends({l})
         PROVE  l \in f.chain
    <3>1. CASE e \in shown /\ f \in shown BY <2>12, <3>1 DEF ComparisonInv, ShownInv
    <3>2. CASE e = x \/ f = x
      <4>1. e.side = side BY <2>5, <2>12, <3>2
      <4>2. CurrentEntry(e) /\ CurrentEntry(f)
        BY <2>1, <2>11, <2>12, <4>1 DEF ComparisonInv, ShownInv
      <4> QED BY <2>12, <4>2 DEF CurrentEntry, Touches
    <3> QED BY <2>1, <2>12, <3>1, <3>2
  <2>13. ShownInv'
    BY <1>0, <2>1, <2>5, <2>9, <2>10, <2>11, <2>12 DEF ComparisonInv, ShownInv, Ends
  <2> QED BY <2>7, <2>8, <2>13 DEF ComparisonInv
<1> QED BY <1>0, <1>1, <1>2

\* The reader's memory agrees with the tables, whatever the commands do meanwhile.
THEOREM ComparisonInvariance == ComparisonSpec => [](ReviewInv /\ ComparisonInv)
<1>1. ReviewInit /\ ComparisonInit => ReviewInv /\ ComparisonInv
  BY InitReview, InitComparison
<1>2. /\ ReviewInv /\ ComparisonInv
      /\ [\/ ReviewNext /\ UNCHANGED comparison
          \/ ComparisonNext /\ UNCHANGED reviewVars]_<<reviewVars, comparison>>
      => ReviewInv' /\ ComparisonInv'
  <2> SUFFICES ASSUME ReviewInv, ComparisonInv,
                      [\/ ReviewNext /\ UNCHANGED comparison
                       \/ ComparisonNext /\ UNCHANGED reviewVars]_<<reviewVars, comparison>>
               PROVE  ReviewInv' /\ ComparisonInv'
    OBVIOUS
  <2>1. TablesInv /\ EvidenceInv BY DEF ReviewInv
  <2>2. CASE [ReviewNext]_reviewVars /\ UNCHANGED comparison
    <3>1. ReviewInv' /\ TablesStep BY <2>2, StepReview
    <3>2. ComparisonInv' BY <2>1, <2>2, <3>1, CommandsKeepReader
    <3> QED BY <3>1, <3>2
  <2>3. CASE ComparisonNext /\ UNCHANGED reviewVars
    <3>1. ReviewInv' BY <2>3, StepReview
    <3>2. ComparisonInv'
      BY <2>1, <2>3, BeginKeeps, SelectKeeps, LookUpKeeps, LoadStatesKeeps, LoadChildrenKeeps,
         EndSideKeeps, ShowResultKeeps DEF ComparisonNext
    <3> QED BY <3>1, <3>2
  <2> QED BY <2>2, <2>3
<1> QED BY <1>1, <1>2, PTL DEF ComparisonSpec

\* What a comparison shows fits together, although it was read in many moments.
THEOREM AnswersAreEvidence == ComparisonSpec => []AnswerIsEvidence
<1>1. ComparisonInv => AnswerIsEvidence
  BY EndsOf DEF ComparisonInv, ShownInv, TrueEntry, AnswerIsEvidence
<1> QED BY <1>1, ComparisonInvariance, PTL

-----------------------------------------------------------------------------
(* The panel of the history: its decisions.                                *)

HistoryPanelSpec == HistoryPanelInit /\ [][HistoryPanelNext]_historyPanelVars

Evidences == [subject : Subjects \cup {"none"}, digest : Nat]
Views == [candidate : Evidences, box : Evidences, compared : BOOLEAN,
          pair : Subjects \cup {"none"}, replacement : Evidences, replacementBox : Evidences,
          busy : BOOLEAN]
Operations == {"candidate", "finalize", "finalization", "compare", "replacement", "decide",
               "decision"}
Answered == {Silence, Refused} \cup [kind : {"told"}, subject : Subjects \cup {"none"}, digest : Nat]
Asked == [op : Operations, subject : Subjects \cup {"none"},
          seen : Evidences \cup [box : Nat, sent : Nat], live : BOOLEAN, answer : Answered]

\* What is ticked is what is on display.
Ticked(v) ==
  /\ v.box # NoEvidence => v.box = v.candidate
  /\ v.replacementBox # NoEvidence => v.replacementBox = v.replacement

\* A decision that is asked for is about what was ticked.
Confirms(q) == q.op \in {"finalize", "decide"} => q.seen.box = q.seen.sent

\* As long as evidence is being loaded, nothing is ticked.
Awaited(q, v) ==
  /\ ~ q.live => q.answer = Silence
  /\ q.live => v.busy
  /\ q.live /\ q.op = "candidate" => v.box = NoEvidence
  /\ q.live /\ q.op \in {"replacement", "decision"} => v.replacementBox = NoEvidence

HistoryPanelInv ==
  /\ wanted \in Screens /\ screen \in Screens
  /\ view \in Views /\ calls \subseteq Asked /\ current \in Nat
  /\ Ticked(view)
  /\ \A q \in calls : Confirms(q) /\ Awaited(q, view)
  /\ \A p, q \in calls : p.live /\ q.live => p = q
  /\ DecidedAsConfirmed

LEMMA NoEvidenceIsEvidence ==
  NoEvidence \in Evidences /\ NoEvidence \in Evidences \cup [box : Nat, sent : Nat]
BY DEF NoEvidence, Evidences

\* Requests that were given up.
LEMMA DeadRequests ==
  ASSUME HistoryPanelInv
  PROVE  Dead \subseteq Asked /\ \A q \in Dead : ~ q.live /\ q.answer = Silence /\ Confirms(q)
<1> SUFFICES ASSUME NEW r \in calls, r.answer = Silence
             PROVE  LET q == [r EXCEPT !.live = FALSE]
                    IN  q \in Asked /\ ~ q.live /\ q.answer = Silence /\ Confirms(q)
  BY DEF Dead
<1> DEFINE q == [r EXCEPT !.live = FALSE]
<1>1. r \in Asked /\ Confirms(r) BY DEF HistoryPanelInv
<1>2. q \in Asked BY <1>1 DEF Asked
<1>3. q.live = FALSE /\ q.answer = r.answer /\ q.op = r.op /\ q.seen = r.seen BY <1>1 DEF Asked
<1> HIDE DEF q
<1>4. q \in Asked /\ ~ q.live /\ q.answer = Silence /\ Confirms(q) BY <1>1, <1>2, <1>3 DEF Confirms
<1> QED BY <1>4 DEF q

\* Commands.
LEMMA AskKeeps ==
  ASSUME HistoryPanelInv, NEW op \in Operations, NEW subject \in Subjects \cup {"none"},
         NEW known \in Evidences \cup [box : Nat, sent : Nat], NEW before \in Views,
         Ask(op, subject, known, before), Ticked(before),
         op \in {"finalize", "decide"} => known.box = known.sent,
         op = "candidate" => before.box = NoEvidence,
         op \in {"replacement", "decision"} => before.replacementBox = NoEvidence
  PROVE  HistoryPanelInv'
<1> DEFINE new == [op |-> op, subject |-> subject, seen |-> known, live |-> TRUE,
                   answer |-> Silence]
<1> DEFINE after == [before EXCEPT !.busy = TRUE]
<1>1. /\ view' = after /\ calls' = Dead \cup {new}
      /\ UNCHANGED <<current, taken, wanted, screen>>
  BY DEF Ask
<1>2. /\ after \in Views /\ after.busy = TRUE
      /\ after.box = before.box /\ after.candidate = before.candidate
      /\ after.replacementBox = before.replacementBox
      /\ after.replacement = before.replacement
  BY DEF Views
<1>3. /\ new \in Asked /\ new.op = op /\ new.seen = known /\ new.live /\ new.answer = Silence
  BY DEF Asked, Answered
<1> HIDE DEF new, after
<1>4. Ticked(after) BY <1>2 DEF Ticked
<1>5. Confirms(new) /\ Awaited(new, after) BY <1>2, <1>3 DEF Confirms, Awaited
<1>6. \A q \in Dead : Awaited(q, after) BY DeadRequests DEF Awaited
<1>7. \A q \in calls' : Confirms(q) /\ Awaited(q, view') BY <1>1, <1>5, <1>6, DeadRequests
<1>8. \A p, q \in calls' : p.live /\ q.live => p = q BY <1>1, DeadRequests
<1>9. calls' \subseteq Asked BY <1>1, <1>3, DeadRequests
<1> QED BY <1>1, <1>2, <1>4, <1>7, <1>8, <1>9 DEF HistoryPanelInv, DecidedAsConfirmed

LEMMA CommandsKeep ==
  ASSUME HistoryPanelInv,
         \/ LoadCandidate \/ CreateFinalization \/ LoadFinalization \/ ComparePeriods
         \/ LoadReplacementCandidate \/ DecideReplacement \/ LoadReplacementDecision
  PROVE  HistoryPanelInv'
<1> USE NoEvidenceIsEvidence
<1>1. view \in Views /\ Ticked(view) /\ screen \in Subjects BY DEF HistoryPanelInv, Subjects
<1>2. /\ view.box \in Evidences /\ view.candidate \in Evidences
      /\ view.replacementBox \in Evidences /\ view.replacement \in Evidences
      /\ view.pair \in Subjects \cup {"none"}
  BY <1>1 DEF Views
<1> DEFINE unboxed == [view EXCEPT !.box = NoEvidence]
<1>3. /\ unboxed \in Views /\ unboxed.box = NoEvidence
      /\ unboxed.replacementBox = view.replacementBox /\ unboxed.replacement = view.replacement
  BY <1>1 DEF Views
<1> DEFINE unconfirmed == [view EXCEPT !.replacementBox = NoEvidence]
<1>4. /\ unconfirmed \in Views /\ unconfirmed.replacementBox = NoEvidence
      /\ unconfirmed.box = view.box /\ unconfirmed.candidate = view.candidate
  BY <1>1 DEF Views
<1> DEFINE unpaired == [WithoutReview(view) EXCEPT !.pair = "none"]
<1>5. /\ unpaired \in Views /\ unpaired.replacementBox = NoEvidence
      /\ unpaired.box = view.box /\ unpaired.candidate = view.candidate
  BY <1>1 DEF Views, WithoutReview
<1>6. CASE LoadCandidate
  <2>1. Ask("candidate", screen, NoEvidence, unboxed) BY <1>6 DEF LoadCandidate
  <2> HIDE DEF unboxed
  <2>2. Ticked(unboxed) BY <1>1, <1>3 DEF Ticked
  <2> QED BY <1>1, <1>3, <2>1, <2>2, AskKeeps DEF Operations
<1>7. CASE CreateFinalization
  <2> DEFINE known == [box |-> view.box.digest, sent |-> view.candidate.digest]
  <2>1. view.box # NoEvidence /\ Ask("finalize", screen, known, view)
    BY <1>7 DEF CreateFinalization
  <2>2. view.box.digest \in Nat /\ view.candidate.digest \in Nat BY <1>2 DEF Evidences
  <2>3. view.box = view.candidate BY <1>1, <2>1 DEF Ticked
  <2>4. known \in [box : Nat, sent : Nat] /\ known.box = known.sent BY <2>2, <2>3
  <2> HIDE DEF known
  <2> QED BY <1>1, <2>1, <2>4, AskKeeps DEF Operations
<1>8. CASE LoadFinalization
  <2>1. Ask("finalization", screen, NoEvidence, view) BY <1>8 DEF LoadFinalization
  <2> QED BY <1>1, <2>1, AskKeeps DEF Operations
<1>9. CASE ComparePeriods
  <2>1. Ask("compare", screen, NoEvidence, unpaired) BY <1>9 DEF ComparePeriods
  <2> HIDE DEF unpaired
  <2>2. Ticked(unpaired) BY <1>1, <1>5 DEF Ticked
  <2> QED BY <1>1, <1>5, <2>1, <2>2, AskKeeps DEF Operations
<1>10. Ticked(unconfirmed)
  <2> HIDE DEF unconfirmed
  <2> QED BY <1>1, <1>4 DEF Ticked
<1>11. CASE LoadReplacementCandidate
  <2>1. Ask("replacement", view.pair, NoEvidence, unconfirmed)
    BY <1>11 DEF LoadReplacementCandidate
  <2> HIDE DEF unconfirmed
  <2> QED BY <1>2, <1>4, <1>10, <2>1, AskKeeps DEF Operations
<1>12. CASE DecideReplacement
  <2> DEFINE known == [box |-> view.replacementBox.digest, sent |-> view.replacement.digest]
  <2>1. /\ view.replacementBox # NoEvidence
        /\ Ask("decide", view.replacement.subject, known, view)
    BY <1>12 DEF DecideReplacement
  <2>2. /\ view.replacementBox.digest \in Nat /\ view.replacement.digest \in Nat
        /\ view.replacement.subject \in Subjects \cup {"none"}
    BY <1>2 DEF Evidences
  <2>3. view.replacementBox = view.replacement BY <1>1, <2>1 DEF Ticked
  <2>4. known \in [box : Nat, sent : Nat] /\ known.box = known.sent BY <2>2, <2>3
  <2> HIDE DEF known
  <2> QED BY <1>1, <2>1, <2>2, <2>4, AskKeeps DEF Operations
<1>13. CASE LoadReplacementDecision
  <2>1. PICK t \in taken : t.subject \in Pairs /\
               Ask("decision", t.subject, NoEvidence, unconfirmed)
    BY <1>13 DEF LoadReplacementDecision
  <2>2. t.subject \in Subjects \cup {"none"} BY <2>1 DEF Subjects
  <2> HIDE DEF unconfirmed
  <2> QED BY <1>4, <1>10, <2>1, <2>2, AskKeeps DEF Operations
<1> QED BY <1>6, <1>7, <1>8, <1>9, <1>11, <1>12, <1>13

\* What the panel shows changes, and not what it waits for.
LEMMA ShowsKeeps ==
  ASSUME HistoryPanelInv, NEW new \in Views, Shows(new), Ticked(new), new.busy = view.busy,
         \A q \in calls : Awaited(q, new)
  PROVE  HistoryPanelInv'
BY DEF HistoryPanelInv, Shows, DecidedAsConfirmed

LEMMA UserKeeps ==
  ASSUME HistoryPanelInv, Select \/ Tick \/ ShowBatch \/ ResetPanel
  PROVE  HistoryPanelInv'
<1>0. /\ view \in Views /\ Ticked(view) /\ \A q \in calls : Awaited(q, view)
  BY DEF HistoryPanelInv
<1>1. ASSUME NEW p \in Pairs, Shows([WithoutReview(view) EXCEPT !.pair = p])
      PROVE  HistoryPanelInv'
  <2> DEFINE new == [WithoutReview(view) EXCEPT !.pair = p]
  <2>1. /\ new \in Views /\ new.busy = view.busy /\ new.replacementBox = NoEvidence
        /\ new.box = view.box /\ new.candidate = view.candidate
    BY <1>0, NoEvidenceIsEvidence DEF Views, WithoutReview, Subjects
  <2> HIDE DEF new
  <2>2. Ticked(new) BY <1>0, <2>1 DEF Ticked
  <2>3. \A q \in calls : Awaited(q, new) BY <1>0, <2>1 DEF Awaited
  <2>4. Shows(new) BY <1>1 DEF new
  <2> QED BY <2>1, <2>2, <2>3, <2>4, ShowsKeeps
<1>2. CASE Tick
  <2>1. ~ view.busy BY <1>2 DEF Tick
  <2>2. \A q \in calls : ~ q.live BY <1>0, <2>1 DEF Awaited
  <2>3. view.candidate \in Evidences /\ view.replacement \in Evidences BY <1>0 DEF Views
  <2>4. ASSUME Shows([view EXCEPT !.box = view.candidate]) PROVE HistoryPanelInv'
    <3> DEFINE new == [view EXCEPT !.box = view.candidate]
    <3>1. /\ new \in Views /\ new.busy = view.busy /\ new.box = new.candidate
          /\ new.replacementBox = view.replacementBox /\ new.replacement = view.replacement
      BY <1>0, <2>3 DEF Views
    <3> HIDE DEF new
    <3>2. Ticked(new) BY <1>0, <3>1 DEF Ticked
    <3>3. \A q \in calls : Awaited(q, new) BY <1>0, <2>2 DEF Awaited
    <3>4. Shows(new) BY <2>4 DEF new
    <3> QED BY <3>1, <3>2, <3>3, <3>4, ShowsKeeps
  <2>5. ASSUME Shows([view EXCEPT !.replacementBox = view.replacement]) PROVE HistoryPanelInv'
    <3> DEFINE new == [view EXCEPT !.replacementBox = view.replacement]
    <3>1. /\ new \in Views /\ new.busy = view.busy /\ new.replacementBox = new.replacement
          /\ new.box = view.box /\ new.candidate = view.candidate
      BY <1>0, <2>3 DEF Views
    <3> HIDE DEF new
    <3>2. Ticked(new) BY <1>0, <3>1 DEF Ticked
    <3>3. \A q \in calls : Awaited(q, new) BY <1>0, <2>2 DEF Awaited
    <3>4. Shows(new) BY <2>5 DEF new
    <3> QED BY <3>1, <3>2, <3>3, <3>4, ShowsKeeps
  <2> QED BY <1>2, <2>4, <2>5 DEF Tick
<1>3. CASE ShowBatch BY <1>3 DEF ShowBatch, HistoryPanelInv, DecidedAsConfirmed
<1>4. CASE ResetPanel
  <2>1. view' = Blank /\ calls' = Dead /\ screen' = wanted /\ UNCHANGED <<current, taken, wanted>>
    BY <1>4 DEF ResetPanel
  <2>2. Blank \in Views /\ Ticked(Blank)
    BY NoEvidenceIsEvidence DEF Blank, Views, Ticked
  <2>3. \A q \in Dead : Awaited(q, Blank) BY DeadRequests DEF Awaited
  <2> QED BY <2>1, <2>2, <2>3, DeadRequests DEF HistoryPanelInv, DecidedAsConfirmed
<1> QED BY <1>1, <1>2, <1>3, <1>4 DEF Select

-----------------------------------------------------------------------------
(* Answers.                                                                *)

LEMMA RepliesKeeps ==
  ASSUME HistoryPanelInv, NEW q \in calls, NEW a \in Answered, Replies(q, a),
         UNCHANGED <<wanted, screen, view, current>>, DecidedAsConfirmed'
  PROVE  HistoryPanelInv'
<1> DEFINE new == [q EXCEPT !.answer = a]
<1>1. q \in Asked /\ Confirms(q) /\ Awaited(q, view) BY DEF HistoryPanelInv
<1>2. /\ new \in Asked /\ new.live = q.live /\ new.op = q.op /\ new.seen = q.seen
      /\ new.answer = a
  BY <1>1 DEF Asked
<1>3. calls' = (calls \ {q}) \cup IF q.live THEN {new} ELSE {} BY DEF Replies
<1> HIDE DEF new
<1>4. Confirms(new) BY <1>1, <1>2 DEF Confirms
<1>5. q.live => Awaited(new, view) BY <1>1, <1>2 DEF Awaited
<1>6. \A r \in calls' : r \in Asked /\ Confirms(r) /\ Awaited(r, view)
  BY <1>2, <1>3, <1>4, <1>5 DEF HistoryPanelInv
<1>7. \A r, s \in calls' : r.live /\ s.live => r = s
  BY <1>2, <1>3 DEF HistoryPanelInv
<1> QED BY <1>6, <1>7 DEF HistoryPanelInv

LEMMA ServerKeeps ==
  ASSUME HistoryPanelInv, NEW q \in calls, Serves(q) \/ Strays(q)
  PROVE  HistoryPanelInv'
<1>1. /\ q \in Asked /\ Confirms(q) /\ current \in Nat /\ DecidedAsConfirmed
  BY DEF HistoryPanelInv
<1>2. /\ Refused \in Answered
      /\ \A s \in Subjects \cup {"none"} : Told(s) \in Answered
  BY <1>1 DEF Answered, Told
<1>3. q.subject \in Subjects \cup {"none"} BY <1>1 DEF Asked
<1>4. UNCHANGED <<wanted, screen, view, current>> BY DEF Serves, Strays
<1>5. CASE UNCHANGED taken
  <2>1. \E a \in Answered : Replies(q, a) BY <1>2, <1>3 DEF Serves, Strays
  <2>2. DecidedAsConfirmed' BY <1>1, <1>5 DEF DecidedAsConfirmed
  <2> QED BY <1>4, <2>1, <2>2, RepliesKeeps
<1>6. CASE ~ UNCHANGED taken
  <2> DEFINE t == [subject |-> q.subject, seen |-> q.seen.box, digest |-> current]
  <2>1. /\ q.op \in {"finalize", "decide"} /\ q.seen.sent = current
        /\ taken' = taken \cup {t} /\ Replies(q, Told(q.subject))
    BY <1>6 DEF Serves, Strays
  <2>2. t.seen = t.digest BY <1>1, <2>1 DEF Confirms
  <2> HIDE DEF t
  <2>3. DecidedAsConfirmed' BY <1>1, <2>1, <2>2 DEF DecidedAsConfirmed
  <2> QED BY <1>2, <1>3, <1>4, <2>1, <2>3, RepliesKeeps
<1> QED BY <1>5, <1>6

\* The continuation of a command.
LEMMA ContinuesKeeps ==
  ASSUME HistoryPanelInv, NEW q \in calls, Continues(q)
  PROVE  HistoryPanelInv'
<1>1. /\ q \in Asked /\ Awaited(q, view) /\ view \in Views /\ Ticked(view)
      /\ calls' = calls \ {q} /\ q.answer # Silence
      /\ UNCHANGED <<wanted, screen, current, taken>>
  BY DEF HistoryPanelInv, Continues
<1>2. q.live BY <1>1 DEF Awaited
<1>3. \A r \in calls' : ~ r.live /\ r \in calls BY <1>1, <1>2 DEF HistoryPanelInv
<1>4. \A r \in calls' : r \in Asked /\ Confirms(r) /\ Awaited(r, view')
  BY <1>3 DEF HistoryPanelInv, Awaited
<1>5. ASSUME NEW v \in Views, Ticked(v), view' = [v EXCEPT !.busy = FALSE]
      PROVE  HistoryPanelInv'
  <2> DEFINE new == [v EXCEPT !.busy = FALSE]
  <2>1. /\ new \in Views /\ new.box = v.box /\ new.candidate = v.candidate
        /\ new.replacementBox = v.replacementBox /\ new.replacement = v.replacement
    BY DEF Views
  <2>2. view' = new BY <1>5
  <2> HIDE DEF new
  <2>3. Ticked(new) BY <1>5, <2>1 DEF Ticked
  <2> QED BY <1>1, <1>3, <1>4, <2>1, <2>2, <2>3 DEF HistoryPanelInv, DecidedAsConfirmed
<1>6. CASE q.answer.kind # "told"
  <2>1. view' = [view EXCEPT !.busy = FALSE] BY <1>6 DEF Continues
  <2> QED BY <1>1, <1>5, <2>1
<1>7. CASE q.answer.kind = "told"
  <2>1. view' = [Accepted(q) EXCEPT !.busy = FALSE] BY <1>7 DEF Continues
  <2>2. q.op \in Operations /\ q.answer \in Answered BY <1>1 DEF Asked
  <2>3. q.answer.subject \in Subjects \cup {"none"} /\ q.answer.digest \in Nat
    BY <1>7, <2>2 DEF Answered, Silence, Refused
  <2> DEFINE mine == q.answer.subject = q.subject
             proof == IF mine THEN [subject |-> q.answer.subject, digest |-> q.answer.digest]
                      ELSE NoEvidence
  <2>4. proof \in Evidences BY <2>3, NoEvidenceIsEvidence DEF Evidences
  <2>5. CASE q.op = "candidate"
    <3>1. Accepted(q) = [view EXCEPT !.candidate = proof] BY <2>5 DEF Accepted
    <3> HIDE DEF proof
    <3>2. view.box = NoEvidence BY <1>1, <1>2, <2>5 DEF Awaited
    <3>3. /\ Accepted(q) \in Views /\ Accepted(q).box = view.box
          /\ Accepted(q).replacementBox = view.replacementBox
          /\ Accepted(q).replacement = view.replacement
      BY <1>1, <2>4, <3>1 DEF Views
    <3>4. Ticked(Accepted(q)) BY <1>1, <3>2, <3>3 DEF Ticked
    <3> QED BY <1>5, <2>1, <3>3, <3>4
  <2>6. CASE q.op = "replacement"
    <3>1. Accepted(q) = [view EXCEPT !.replacement = proof] BY <2>6 DEF Accepted
    <3> HIDE DEF proof
    <3>2. view.replacementBox = NoEvidence BY <1>1, <1>2, <2>6 DEF Awaited
    <3>3. /\ Accepted(q) \in Views /\ Accepted(q).box = view.box
          /\ Accepted(q).replacementBox = view.replacementBox
          /\ Accepted(q).candidate = view.candidate
      BY <1>1, <2>4, <3>1 DEF Views
    <3>4. Ticked(Accepted(q)) BY <1>1, <3>2, <3>3 DEF Ticked
    <3> QED BY <1>5, <2>1, <3>3, <3>4
  <2>7. CASE q.op = "finalize"
    <3> DEFINE box == IF mine THEN NoEvidence ELSE view.box
    <3>1. Accepted(q) = [view EXCEPT !.box = box] BY <2>7 DEF Accepted
    <3>2. box \in Evidences /\ box \in {NoEvidence, view.box}
      BY <1>1, NoEvidenceIsEvidence DEF Views
    <3> HIDE DEF box
    <3>3. /\ Accepted(q) \in Views /\ Accepted(q).box = box
          /\ Accepted(q).replacementBox = view.replacementBox
          /\ Accepted(q).candidate = view.candidate
          /\ Accepted(q).replacement = view.replacement
      BY <1>1, <3>1, <3>2 DEF Views
    <3>4. Ticked(Accepted(q)) BY <1>1, <3>2, <3>3 DEF Ticked
    <3> QED BY <1>5, <2>1, <3>3, <3>4
  <2>8. CASE q.op = "decide"
    <3> DEFINE box == IF mine THEN NoEvidence ELSE view.replacementBox
    <3>1. Accepted(q) = [view EXCEPT !.replacementBox = box] BY <2>8 DEF Accepted
    <3>2. box \in Evidences /\ box \in {NoEvidence, view.replacementBox}
      BY <1>1, NoEvidenceIsEvidence DEF Views
    <3> HIDE DEF box
    <3>3. /\ Accepted(q) \in Views /\ Accepted(q).replacementBox = box
          /\ Accepted(q).box = view.box
          /\ Accepted(q).candidate = view.candidate
          /\ Accepted(q).replacement = view.replacement
      BY <1>1, <3>1, <3>2 DEF Views
    <3>4. Ticked(Accepted(q)) BY <1>1, <3>2, <3>3 DEF Ticked
    <3> QED BY <1>5, <2>1, <3>3, <3>4
  <2>9. CASE q.op = "compare"
    <3>1. Accepted(q) = [view EXCEPT !.compared = mine] /\ mine \in BOOLEAN
      BY <2>9 DEF Accepted
    <3> HIDE DEF mine
    <3>2. /\ Accepted(q) \in Views /\ Accepted(q).replacementBox = view.replacementBox
          /\ Accepted(q).box = view.box
          /\ Accepted(q).candidate = view.candidate
          /\ Accepted(q).replacement = view.replacement
      BY <1>1, <3>1 DEF Views
    <3>3. Ticked(Accepted(q)) BY <1>1, <3>2 DEF Ticked
    <3> QED BY <1>5, <2>1, <3>2, <3>3
  <2>10. CASE q.op = "finalization"
    <3>1. Accepted(q) = view BY <2>10 DEF Accepted
    <3> QED BY <1>1, <1>5, <2>1, <3>1
  <2>11. CASE q.op = "decision"
    <3>1. CASE ~ mine
      <4>1. Accepted(q) = view BY <2>11, <3>1 DEF Accepted
      <4> QED BY <1>1, <1>5, <2>1, <4>1
    <3>2. CASE mine
      <4>1. Accepted(q) = [view EXCEPT !.pair = q.answer.subject, !.replacement = NoEvidence]
        BY <2>11, <3>2 DEF Accepted
      <4>2. view.replacementBox = NoEvidence BY <1>1, <1>2, <2>11 DEF Awaited
      <4>3. /\ Accepted(q) \in Views /\ Accepted(q).replacementBox = view.replacementBox
            /\ Accepted(q).box = view.box /\ Accepted(q).candidate = view.candidate
        BY <1>1, <2>3, <4>1, NoEvidenceIsEvidence DEF Views
      <4>4. Ticked(Accepted(q)) BY <1>1, <4>2, <4>3 DEF Ticked
      <4> QED BY <1>5, <2>1, <4>3, <4>4
    <3> QED BY <3>1, <3>2
  <2> QED BY <2>2, <2>5, <2>6, <2>7, <2>8, <2>9, <2>10, <2>11 DEF Operations
<1> QED BY <1>6, <1>7

LEMMA HistoryPanelInvHolds == HistoryPanelSpec => []HistoryPanelInv
<1>1. HistoryPanelInit => HistoryPanelInv
  <2> SUFFICES ASSUME HistoryPanelInit PROVE HistoryPanelInv OBVIOUS
  <2>1. Blank \in Views /\ Ticked(Blank) BY NoEvidenceIsEvidence DEF Blank, Views, Ticked
  <2> QED BY <2>1 DEF HistoryPanelInit, HistoryPanelInv, DecidedAsConfirmed
<1>2. HistoryPanelInv /\ [HistoryPanelNext]_historyPanelVars => HistoryPanelInv'
  <2> SUFFICES ASSUME HistoryPanelInv, [HistoryPanelNext]_historyPanelVars
               PROVE  HistoryPanelInv'
    OBVIOUS
  <2>1. CASE UNCHANGED historyPanelVars
    BY <2>1 DEF historyPanelVars, HistoryPanelInv, DecidedAsConfirmed
  <2>2. CASE EvidenceChanges
    BY <2>2 DEF EvidenceChanges, HistoryPanelInv, DecidedAsConfirmed
  <2> QED BY <2>1, <2>2, CommandsKeep, UserKeeps, ServerKeeps, ContinuesKeeps
          DEF HistoryPanelNext
<1> QED BY <1>1, <1>2, PTL DEF HistoryPanelSpec

\* However answers are delayed, lost, or about something else, and whatever changes
\* on the server or on the screen meanwhile: a decision is taken on the evidence its
\* user confirmed.
THEOREM DecisionsAreConfirmed == HistoryPanelSpec => []DecidedAsConfirmed
<1>1. HistoryPanelInv => DecidedAsConfirmed BY DEF HistoryPanelInv
<1> QED BY <1>1, HistoryPanelInvHolds, PTL
===============================================================================
