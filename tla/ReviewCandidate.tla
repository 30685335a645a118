-------------------------- MODULE ReviewCandidate --------------------------
(***************************************************************************)
(* How a stored inspection result is judged for review: the pure part of   *)
(* domain/data_review.py, application/data_review.py and the evidence      *)
(* checks of infrastructure/data_review.py.                                *)
(*                                                                         *)
(* The evidence of a result never changes once it is in Long; it is a      *)
(* record of what the checks tell apart:                                   *)
(*   source, candidate, binding   the stored payload matches its digest    *)
(*                                and the signed Long candidate            *)
(*   signed   the signed row state, keyed  has a canonical item key        *)
(*   dated, bound   has an inspection date; the binding covers that date   *)
(*   mode     the bound measurement mode                                   *)
(*   unit     a unit text, or NoUnit, FormulaUnit, BadUnit                 *)
(*   samples  a sequence of [kind, value]                                  *)
(* A Master revision has its unit and its limits lsl and usl, each a set   *)
(* of at most one number.                                                  *)
(* A basis adds the mutable rows that were read: the result's row, its     *)
(* sample rows, the inspection item and the effective Masters.             *)
(***************************************************************************)
EXTENDS Integers, Sequences, FiniteSets

NoUnit == "no unit"
FormulaUnit == "formula unit"
BadUnit == "malformed unit"

NoItem == [disposition |-> "NONE", version |-> 0]
NoMaster == [revision |-> 0]

SampleKinds == {"number", "text", "nonfinite", "formula", "broken"}

(* What a piece of evidence and a Master revision can be.                  *)
IsEvidence(e) ==
  /\ {e.source, e.candidate, e.binding, e.keyed, e.dated, e.bound} \subseteq BOOLEAN
  /\ e.signed \in {"LOADABLE_PENDING", "ROW_HELD"}
  /\ e.samples \in Seq([kind : SampleKinds, value : Int])
IsMaster(m) ==
  m.unit \notin {NoUnit, FormulaUnit, BadUnit} /\ m.lsl \subseteq Int /\ m.usl \subseteq Int

Exact(sample) == sample.kind = "number"

(* _source_unit: the unit is evidence only when it is one exact text.      *)
UnitText(e) == IF e.unit \in {NoUnit, FormulaUnit, BadUnit} THEN NoUnit ELSE e.unit

SignedStatus(e) == IF e.signed = "ROW_HELD" THEN "HELD" ELSE "PENDING"

(* _validate_result_projection: what the result's own row rules out.       *)
ProjectionIssues(row) ==
  (IF row.status = "HELD" THEN {"RESULT_HELD"} ELSE {})
    \cup (IF row.status \notin {"HELD", "PENDING"} THEN {"RESULT_NOT_PENDING"} ELSE {})
    \cup (IF row.status \in {"HELD", "PENDING"} /\ row.projected
            THEN {"RESULT_PROJECTION_NOT_EMPTY"} ELSE {})

(* _validate_source_and_candidate and _validate_candidate_row: the digests *)
(* and the agreement of the rows with the signed Long candidate row.       *)
SourceIssues(e) ==
  IF e.source /\ e.unit # BadUnit THEN {} ELSE {"SOURCE_EVIDENCE_INTEGRITY"}

CandidateRowIssues(e, row, samples, status) ==
  IF /\ e.candidate
     /\ row.status = status
     /\ Len(samples) = Len(e.samples)
     /\ \A i \in DOMAIN samples : samples[i].status = status
    THEN {} ELSE {"CANDIDATE_EVIDENCE_INTEGRITY"}

(* _validate_binding: the approved row binding and its period.             *)
BindingIssues(e) ==
  IF e.binding /\ (e.dated => e.bound) THEN {} ELSE {"BINDING_EVIDENCE_INTEGRITY"}

BoundMode(e) == IF BindingIssues(e) = {} THEN e.mode ELSE "NONE"

(* _measurement_evidence: samples that block, and samples that only a      *)
(* person can judge.                                                       *)
SampleBlocks(e, row, samples) ==
  (IF \E i \in DOMAIN samples : samples[i].status # row.status
     THEN {"MEASUREMENT_STATUS_MISMATCH"} ELSE {})
    \cup (IF \E i \in DOMAIN samples : e.samples[i].kind = "broken"
            THEN {"MEASUREMENT_EVIDENCE_INTEGRITY"} ELSE {})

SampleDoubts(e) ==
  {CASE k = "text" -> "NON_NUMERIC_MEASUREMENT"
     [] k = "nonfinite" -> "NONFINITE_MEASUREMENT"
     [] k = "formula" -> "FORMULA_MEASUREMENT" :
     k \in {e.samples[i].kind : i \in DOMAIN e.samples} \ {"number", "broken"}}

UnitDoubts(e) ==
  CASE e.unit = NoUnit -> {"UNIT_EVIDENCE_MISSING"}
    [] e.unit = FormulaUnit -> {"UNIT_EVIDENCE_NOT_EXACT_TEXT"}
    [] OTHER -> {}

(* load_basis: the rows read, with the issues the evidence raises.  The    *)
(* Masters are looked up for a managed item and a known date only.         *)
Basis(e, row, samples, item, masters) ==
  LET it == IF e.keyed THEN item ELSE NoItem IN
  [evidence |-> e, row |-> row, samples |-> samples, item |-> it,
   mode |-> BoundMode(e),
   masters |-> IF it.disposition = "MANAGED" /\ e.dated THEN masters ELSE {},
   blocking |-> ProjectionIssues(row) \cup SourceIssues(e)
                  \cup CandidateRowIssues(e, row, samples, SignedStatus(e))
                  \cup BindingIssues(e) \cup SampleBlocks(e, row, samples),
   doubts |-> SampleDoubts(e) \cup UnitDoubts(e)]

(* The issues build_data_review_candidate adds on the item and the Masters.*)
ItemIssues(b) ==
  CASE b.item.disposition = "NONE" -> {"ITEM_NOT_MAPPED"}
    [] b.item.disposition = "CANDIDATE" -> {"ITEM_CANDIDATE"}
    [] OTHER -> {}

MasterDoubts(b) ==
  (IF b.evidence.dated THEN {} ELSE {"INSPECTION_DATE_MISSING"})
    \cup (IF b.masters = {} THEN {"MASTER_NOT_FOUND"} ELSE {})

(* Fault: the source's unit is not compared with the Master's.             *)
MatchDoubtsAnyUnit(b, m) ==
  (IF b.mode # "NUMERIC" THEN {"QUALITATIVE_REVIEW_REQUIRED"} ELSE {})
    \cup (IF b.samples = <<>> THEN {"ZERO_MEASUREMENTS"} ELSE {})
    \cup (IF UnitText(b.evidence) = NoUnit THEN {"UNIT_EVIDENCE_MISSING"} ELSE {})

MatchDoubts(b, m) ==
  (IF b.mode # "NUMERIC" THEN {"QUALITATIVE_REVIEW_REQUIRED"} ELSE {})
    \cup (IF b.samples = <<>> THEN {"ZERO_MEASUREMENTS"} ELSE {})
    \cup (CASE UnitText(b.evidence) = NoUnit -> {"UNIT_EVIDENCE_MISSING"}
            [] UnitText(b.evidence) \notin {NoUnit, m.unit} -> {"UNIT_MISMATCH"}
            [] OTHER -> {})

(* Fault: the upper limit is not looked at.                                *)
CompareLower(v, m) == IF \E low \in m.lsl : v < low THEN "BELOW_LSL" ELSE "WITHIN_LIMITS"

(* Limits are inclusive and either one may be missing.                     *)
Compare(v, m) ==
  IF \E low \in m.lsl : v < low THEN "BELOW_LSL"
  ELSE IF \E high \in m.usl : v > high THEN "ABOVE_USL"
  ELSE "WITHIN_LIMITS"

NotEvaluated(b, state, issues, allowed) ==
  [basis |-> b, state |-> state, issues |-> issues, master |-> NoMaster,
   comparisons |-> [i \in DOMAIN b.samples |-> "NOT_EVALUATED"],
   judgment |-> "NONE", allowed |-> allowed]

Evaluated(b, m) ==
  LET cmp == [i \in DOMAIN b.samples |-> Compare(b.evidence.samples[i].value, m)] IN
  [basis |-> b, state |-> "EVALUATED", issues |-> {}, master |-> m, comparisons |-> cmp,
   judgment |-> IF \E i \in DOMAIN cmp : cmp[i] # "WITHIN_LIMITS" THEN "FAIL" ELSE "PASS",
   allowed |-> {"EXCLUDED", "SUSPECT", "VALID"}]

(* build_data_review_candidate: the early returns in the code's order.     *)
Candidate(b) ==
  LET blocking == b.blocking \cup ItemIssues(b)
      absent == b.doubts \cup MasterDoubts(b)
      TheMaster == CHOOSE m \in b.masters : TRUE
      doubts == absent \cup MatchDoubts(b, TheMaster) IN
  IF blocking # {}
    THEN NotEvaluated(b, "INELIGIBLE", blocking \cup b.doubts, {})
  ELSE IF b.item.disposition = "EXCLUDED"
    THEN NotEvaluated(b, "REVIEW_ONLY", b.doubts, {"EXCLUDED"})
  ELSE IF Cardinality(b.masters) > 1
    THEN NotEvaluated(b, "INELIGIBLE", {"MASTER_AMBIGUOUS"} \cup absent, {})
  ELSE IF b.masters = {}
    THEN NotEvaluated(b, "REVIEW_ONLY", absent, {"EXCLUDED", "SUSPECT"})
  ELSE IF doubts # {}
    THEN NotEvaluated(b, "REVIEW_ONLY", doubts, {"EXCLUDED", "SUSPECT"})
  ELSE Evaluated(b, TheMaster)

(***************************************************************************)
(* What a candidate promises, stated without the order of the checks.      *)
(***************************************************************************)
(* A result may become official only when nothing at all speaks against    *)
(* it: pending and intact, a managed item, exactly one Master in the       *)
(* source's own unit, and every sample one exact finite number.            *)
FitForValid(b) ==
  LET e == b.evidence IN
  /\ b.row.status = "PENDING" /\ ~b.row.projected /\ e.signed = "LOADABLE_PENDING"
  /\ e.source /\ e.candidate /\ e.binding /\ e.keyed /\ e.dated /\ e.bound
  /\ b.item.disposition = "MANAGED" /\ e.mode = "NUMERIC"
  /\ Len(b.samples) = Len(e.samples) /\ e.samples # <<>>
  /\ \A i \in DOMAIN e.samples : Exact(e.samples[i]) /\ b.samples[i].status = "PENDING"
  /\ \E m \in b.masters : b.masters = {m} /\ e.unit = m.unit

Fails(e, m) ==
  \E i \in DOMAIN e.samples :
    \/ \E low \in m.lsl : low > e.samples[i].value
    \/ \E high \in m.usl : e.samples[i].value > high

(* DataReviewCandidate.__post_init__: what every candidate must look like. *)
WellFormed(c) ==
  /\ c.state = "EVALUATED" =>
       c.master \in c.basis.masters /\ c.judgment # "NONE" /\ c.comparisons # <<>>
  /\ c.state # "EVALUATED" => c.master = NoMaster /\ c.judgment = "NONE"
                                /\ "VALID" \notin c.allowed
  /\ \A i \in DOMAIN c.comparisons :
       (c.comparisons[i] = "NOT_EVALUATED") <=> (c.state # "EVALUATED")
  /\ c.state = "INELIGIBLE" => c.allowed = {}
  /\ c.state = "EVALUATED" <=> "VALID" \in c.allowed

(* A candidate allows VALID exactly when the basis is fit for it, its      *)
(* judgment is then that of its one Master's limits, and it passes the     *)
(* constructor's own checks whatever the basis.                            *)
CandidateIsSound(b) ==
  LET c == Candidate(b) IN
  /\ WellFormed(c)
  /\ "VALID" \in c.allowed <=> FitForValid(b)
  /\ "VALID" \in c.allowed =>
       c.judgment = IF Fails(b.evidence, c.master) THEN "FAIL" ELSE "PASS"
=============================================================================
