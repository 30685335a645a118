---------------------------- MODULE LongCandidate ----------------------------
(***************************************************************************)
(* What a recognised workbook becomes: build_long_candidate joins the      *)
(* preview of the workbook with the row bindings of the day and with what  *)
(* the intake believed of the file, and says which rows may be loaded.     *)
(* When they are, the repository decides a second time, with a function of *)
(* its own, which binding it trusts and which rows make a LOT.             *)
(***************************************************************************)
EXTENDS MappingPreview, Sequences

NoText == <<>>
NoBinding == [key |-> NoText]

\* _exact_text_value.  The raw value of a formula is its text.
HasExactText(cell) == cell.kind \in {"text", "formula"} /\ cell.raw[2] # "spaced"

\* _identifier.
ExactText(p, kind) ==
  IF kind \in DOMAIN p.identifiers /\ HasExactText(p.identifiers[kind])
  THEN p.identifiers[kind].raw ELSE NoText

\* The identifiers of build_long_candidate: r is what the intake kept of the file.
IdentifierIssues(p, r) ==
  LET model == ExactText(p, "MODEL")
      lot == ExactText(p, "LOT_NUMBER")
  IN  {code \in {"MODEL_IDENTIFIER_MISSING", "MODEL_CANDIDATE_CONFLICT",
                 "LOT_IDENTIFIER_MISSING", "LOT_CANDIDATE_CONFLICT"} :
         CASE code = "MODEL_IDENTIFIER_MISSING" -> model = NoText
           [] code = "MODEL_CANDIDATE_CONFLICT" ->
                model # NoText /\ r.models # {} /\ model \notin r.models
           [] code = "LOT_IDENTIFIER_MISSING"   -> lot = NoText
           [] code = "LOT_CANDIDATE_CONFLICT"   -> lot # NoText /\ r.lots # {} /\ lot \notin r.lots}

-----------------------------------------------------------------------------
(* Rows.                                                                   *)

BindingKey(p, row) == <<p.scope, p.template, row.key>>

\* CanonicalRowBindingCatalog.find: exact keys only.
Matches(p, row, catalog) == {b \in catalog : b.key = BindingKey(p, row)}

\* Fault: the period of a binding is not looked at.
BindingInForceAlways(b, day) == TRUE

\* _binding_is_effective.
BindingInForce(b, day) == b.from <= day /\ day <= b.to

\* The one binding that matches; NoBinding also when there are several.
BoundTo(p, row, catalog) ==
  LET found == Matches(p, row, catalog)
  IN  IF Cardinality(found) = 1 THEN CHOOSE b \in found : TRUE ELSE NoBinding

\* _build_row, on the binding.
BindingIssues(p, row, catalog) ==
  LET found == Matches(p, row, catalog)
      b == BoundTo(p, row, catalog)
      model == ExactText(p, "MODEL")
  IN  IF found = {} THEN {"CANONICAL_ROW_BINDING_MISSING"}
      ELSE IF b = NoBinding THEN {"CANONICAL_ROW_BINDING_AMBIGUOUS"}
      ELSE {code \in {"NOT_APPROVED", "NOT_EFFECTIVE", "SOURCE_MODEL_BINDING_CONFLICT"} :
              CASE code = "NOT_APPROVED"  -> b.status # "APPROVED"
                [] code = "NOT_EFFECTIVE" -> ~ BindingInForce(b, p.day)
                [] OTHER                  -> model # NoText /\ model \notin b.aliases}

\* _value_kind and _measurement_mode_matches.
ModeMatches(mode, cell) ==
  \/ mode = "NUMERIC" /\ cell.kind \in {"number", "nonfinite"}
  \/ mode = "QUALITATIVE" /\ cell.kind = "text"

\* _measurement_candidate and _direct_finite_numeric: why a sample has no value.
SampleIssues(sample, b) ==
  {code \in {"NOT_RAW", "MEASUREMENT_MODE_MISMATCH", "CALCULATION_REFRESH_REQUIRED"} :
     CASE code = "NOT_RAW" ->
            sample.cell.kind # "number" /\ ~ (IsText(sample.cell) /\ HasExactText(sample.cell))
       [] code = "MEASUREMENT_MODE_MISMATCH" ->
            b # NoBinding /\ ~ ModeMatches(b.mode, sample.cell)
       [] OTHER -> sample.refresh}

\* The raw value that a sample keeps: a number, a text, or none.
Measurement(sample, b) ==
  [of |-> sample.cell.kind,
   numeric |-> sample.cell.kind = "number" /\ SampleIssues(sample, b) = {},
   text |-> sample.cell.kind = "text" /\ SampleIssues(sample, b) = {}]

\* _build_row, all issues of a row.
RowIssues(p, row, catalog) ==
  LET b == BoundTo(p, row, catalog)
  IN  BindingIssues(p, row, catalog)
        \cup {code \in {"ZERO_SAMPLE_POLICY_REQUIRED"} :
                row.samples = <<>> /\ b # NoBinding /\ b.mode # "JUDGMENT_ONLY"}
        \cup UNION {SampleIssues(row.samples[i], b) : i \in DOMAIN row.samples}

\* _canonical_identity_issues: over all rows that have a binding, held or not.
IdentityIssues(p, catalog) ==
  LET bound == {BoundTo(p, row, catalog) : row \in p.rows} \ {NoBinding}
  IN  {key \in {"model", "supplier"} : Cardinality({b[key] : b \in bound}) > 1}

GlobalIssues(p, r, catalog) == IdentifierIssues(p, r) \cup IdentityIssues(p, catalog)

\* build_long_candidate: any issue of the source holds all rows.
BuiltRow(p, r, row, catalog) ==
  [key |-> row.key,
   binding |-> BoundTo(p, row, catalog),
   samples |-> [i \in DOMAIN row.samples |->
                  Measurement(row.samples[i], BoundTo(p, row, catalog))],
   state |-> IF RowIssues(p, row, catalog) = {} /\ GlobalIssues(p, r, catalog) = {}
             THEN "LOADABLE_PENDING" ELSE "ROW_HELD"]

LoadState(rows, issues) ==
  LET loadable == {row \in rows : row.state = "LOADABLE_PENDING"}
  IN  IF issues # {} \/ loadable = {} THEN "LOAD_HELD"
      ELSE IF loadable # rows THEN "PARTIAL_HOLD" ELSE "LOAD_CANDIDATE_READY"

\* The candidate.  Its catalog is the revision of all bindings of the day, its
\* selections are those the rows asked for.
Candidate(p, r, catalog) ==
  LET rows == {BuiltRow(p, r, row, catalog) : row \in p.rows}
  IN  [preview |-> p,
       rows |-> rows,
       issues |-> GlobalIssues(p, r, catalog),
       state |-> LoadState(rows, GlobalIssues(p, r, catalog)),
       catalog |-> catalog,
       selections |-> UNION {Matches(p, row, catalog) : row \in p.rows}]

-----------------------------------------------------------------------------
(* The repository.                                                         *)

\* _trusted_binding.
TrustedBinding(row, c) ==
  LET b == row.binding
      p == c.preview
  IN  IF /\ b # NoBinding
         /\ b.status = "APPROVED"
         /\ b.from <= p.day /\ p.day <= b.to
         /\ "MODEL" \in DOMAIN p.identifiers /\ p.identifiers["MODEL"].raw \in b.aliases
         /\ b.key = <<p.scope, p.template, row.key>>
      THEN b ELSE NoBinding

\* _candidate_row_groups: the LOT a row belongs to.
LotOf(row, c) ==
  LET b == TrustedBinding(row, c)
  IN  IF b = NoBinding THEN NoText ELSE <<b.model, b.supplier, b.part>>

\* materialize: the LOTs and their status.
Lots(c) ==
  {[key |-> LotOf(row, c),
    status |-> IF \E other \in c.rows : LotOf(other, c) = LotOf(row, c) /\ other.state = "ROW_HELD"
               THEN "HELD" ELSE "PENDING"] : row \in c.rows}

\* What is loaded as pending can be decided later: the repository trusts the
\* binding the candidate was built with, every sample keeps exactly one raw
\* value, of the kind its binding measures, and a row without samples is one
\* that only has a judgment.  All these rows are of one model and supplier, a
\* pending LOT knows its model, and no held row is in a pending LOT.
PendingIsBound(c) ==
  c.state # "LOAD_HELD" =>
    /\ \A row \in {x \in c.rows : x.state = "LOADABLE_PENDING"} :
         /\ LotOf(row, c) # NoText
         /\ \A i \in DOMAIN row.samples :
              \/ row.samples[i].numeric /\ ~ row.samples[i].text /\ row.binding.mode = "NUMERIC"
              \/ row.samples[i].text /\ ~ row.samples[i].numeric /\ row.binding.mode = "QUALITATIVE"
         /\ row.samples = <<>> => row.binding.mode = "JUDGMENT_ONLY"
    /\ Cardinality({<<LotOf(row, c)[1], LotOf(row, c)[2]>> :
                      row \in {x \in c.rows : LotOf(x, c) # NoText}}) <= 1
    /\ \A lot \in Lots(c) : lot.status = "PENDING" => lot.key # NoText
=============================================================================
