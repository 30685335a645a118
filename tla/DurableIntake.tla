---------------------------- MODULE DurableIntake ----------------------------
(***************************************************************************)
(* What the Bulk import promises to whoever submitted a batch, without its *)
(* worker, its files, its retries or its crashes: a batch is accepted as a *)
(* whole, the raw bytes of an entry are proved preserved at most once, an  *)
(* entry is concluded once and, unless it is an error, only with that      *)
(* proof, and a batch is closed once with the verdict its entries give.    *)
(***************************************************************************)
EXTENDS BulkClassification

CONSTANTS Batches, Entries, BatchOf, Outcomes, None

VARIABLES accepted, proof, outcome, verdict
vars == <<accepted, proof, outcome, verdict>>

Init ==
  /\ accepted = {}
  /\ proof = [e \in Entries |-> FALSE]
  /\ outcome = [e \in Entries |-> None]
  /\ verdict = [b \in Batches |-> None]

Accept(b) ==
  /\ b \notin accepted
  /\ accepted' = accepted \cup {b}
  /\ UNCHANGED <<proof, outcome, verdict>>

Prove(e) ==
  /\ BatchOf[e] \in accepted /\ outcome[e] = None
  /\ proof' = [proof EXCEPT ![e] = TRUE]
  /\ UNCHANGED <<accepted, outcome, verdict>>

\* Several entries are concluded together when a failed batch is recovered.
Conclude(concluded) ==
  /\ \A e \in concluded : BatchOf[e] \in accepted /\ outcome[e] = None
  /\ \E o \in [concluded -> Outcomes] :
       /\ \A e \in concluded : o[e] # "ERROR" => proof[e]
       /\ outcome' = [e \in Entries |-> IF e \in concluded THEN o[e] ELSE outcome[e]]
  /\ UNCHANGED <<accepted, proof, verdict>>

Close(b) ==
  /\ b \in accepted /\ verdict[b] = None
  /\ \A e \in Entries : BatchOf[e] = b => outcome[e] # None
  /\ verdict' = [verdict EXCEPT
                   ![b] = BatchVerdict({outcome[e] : e \in {f \in Entries : BatchOf[f] = b}})]
  /\ UNCHANGED <<accepted, proof, outcome>>

Next ==
  \/ \E b \in Batches : Accept(b) \/ Close(b)
  \/ \E e \in Entries : Prove(e)
  \/ \E concluded \in SUBSET Entries : Conclude(concluded)

Spec == Init /\ [][Next]_vars
=============================================================================
