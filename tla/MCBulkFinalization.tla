-------------------------- MODULE MCBulkFinalization --------------------------
(***************************************************************************)
(* Small instances of BulkFinalization: the entries of all batches come    *)
(* from receipts of two contents, so that entries can share a material.    *)
(***************************************************************************)
EXTENDS BulkFinalization, TLC

CONSTANTS R1, R2, R3, W

\* One batch of two entries, or two batches of one.
OneBatch == [b \in Batches |-> <<"e1", "e2">>]
TwoBatches == [b \in Batches |-> IF b = "b1" THEN <<"e1">> ELSE <<"e2">>]

\* A submission and its retries, one with another reason or for another batch.
Retries == [r \in Requests |-> [batch |-> "b1", reason |-> "stated"]]
RetryAndConflict ==
  [r \in Requests |-> [batch |-> "b1", reason |-> IF r = R3 THEN "other" ELSE "stated"]]
RetryAndOther ==
  [r \in Requests |-> [batch |-> IF r = R3 THEN "b2" ELSE "b1", reason |-> "stated"]]

Interchangeable == Permutations({R1, R2, R3})

\* Every entry has its receipt; e1 and e2 can be receipts of one content.
MCCandidateOf == [e \in Entries |-> e]
MCJobOf == [c \in Candidates |-> c]
MCSourceOf == [j \in Jobs |-> j]
MCMaterialOf == [j \in Jobs |-> IF j = "e2" THEN "n" ELSE "m"]
MCSameMaterial == [j \in Jobs |-> "m"]
MCLoadOf == [c \in Candidates |-> "READY"]

\* The receipt in a checkpoint, and what _receipt_payload keeps of it.
AllFields == {"receipt_id", "project_key", "blob_id", "content_sha256", "received_at",
              "original_filename", "model_candidates", "lot_candidates",
              "declared_mime_type", "detected_mime_type", "canonical_extension", "size_bytes"}
StoredFields == {"receipt_id", "content_sha256", "size_bytes", "original_filename",
                 "received_at"}
=============================================================================
