-------------------------- MODULE BulkClassification --------------------------
(***************************************************************************)
(* The pure decisions of the Bulk import: how one candidate is compared    *)
(* with the candidates that are already ready, and how the outcomes of the *)
(* entries of a batch become the status of the batch.                      *)
(*                                                                         *)
(* A reading stands for what the scanner, the approved Mapping and the     *)
(* Long workflow make of one workbook: the series it belongs to (model and *)
(* part), its LOT, the Mapping form it was read with, the rows it has and  *)
(* the values measured in them.                                            *)
(***************************************************************************)

\* The identity under which revisions of one LOT are compared.
RevisionIdentity(reading) == <<reading.series, reading.lot>>

\* Everything two readings of one LOT must agree in to be the same evidence.
RevisionEvidence(reading) ==
  <<reading.form, reading.series, reading.lot, reading.rows, reading.values>>

\* What is left of the evidence once the measured values are dropped.
VariationProjection(reading) == reading.rows

-----------------------------------------------------------------------------
(* A prior is a ready candidate of the same supplier: [bytes, reading].    *)

IsSameLotRetest(prior, bytes, reading) ==
  /\ RevisionIdentity(prior.reading) = RevisionIdentity(reading)
  /\ RevisionEvidence(prior.reading) = RevisionEvidence(reading)
  /\ prior.bytes # bytes

IsRevision(prior, reading) ==
  /\ RevisionIdentity(prior.reading) = RevisionIdentity(reading)
  /\ RevisionEvidence(prior.reading) # RevisionEvidence(reading)

IsVariation(prior, reading) ==
  /\ RevisionIdentity(prior.reading) # RevisionIdentity(reading)
  /\ prior.reading.series = reading.series
  /\ prior.reading.form = reading.form
  /\ VariationProjection(prior.reading) # VariationProjection(reading)

\* The outcome a loadable candidate is given, before the exact-duplicate rule.
Classify(priors, bytes, reading) ==
  IF \E p \in priors : IsSameLotRetest(p, bytes, reading)
    THEN "DUPLICATE_CANDIDATE"
  ELSE IF \E p \in priors : IsRevision(p, reading)
    THEN "REVISION_REVIEW_REQUIRED"
  ELSE IF \E p \in priors : IsVariation(p, reading)
    THEN "VARIATION_REVIEW_REQUIRED"
  ELSE "CANDIDATE_READY"

-----------------------------------------------------------------------------
\* The terminal status of a batch whose entries ended with these outcomes.
BatchVerdict(outcomes) ==
  IF outcomes = {"ERROR"} THEN "FAILED"
  ELSE IF outcomes # {"CANDIDATE_READY"} THEN "COMPLETED_WITH_EXCEPTIONS"
  ELSE "COMPLETED"
=============================================================================
