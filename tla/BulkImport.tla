------------------------------ MODULE BulkImport ------------------------------
(***************************************************************************)
(* The durable Bulk import of historical workbooks.                        *)
(*                                                                         *)
(* Clients stage files and submit them under an idempotency key; a         *)
(* submission becomes a batch row and one entry row per file.  One worker  *)
(* thread takes batches from a bounded queue and brings every entry to a   *)
(* terminal outcome: it preserves the staged bytes in the original-file    *)
(* store, links the receipt to the row, scans, deletes the staged copy and *)
(* classifies the candidate.  Rows, staged files and stored originals      *)
(* survive a crash; queue, schedule and deferrals do not, and are rebuilt  *)
(* by start().  Every action is one transaction or one file-system effect, *)
(* so a crash or an exception can fall between any two of them.            *)
(***************************************************************************)
EXTENDS Naturals, Sequences, FiniteSets, BulkClassification

CONSTANTS
  Requests,       \* submissions; the batch a submission creates has its name
  Files,          \* what the bytes of an uploaded file can be
  KeyOf,          \* idempotency key of a request
  SupplierOf,     \* supplier scope of a request
  FilesOf,        \* the contents of the files of a request, by ordinal
  Readings,       \* what scan, Mapping and Long workflow can make of a file
  HoldOutcomes,   \* the outcomes by which they refuse one
  QueueCapacity,  \* bound of the in-process queue and of the active batches
  RetryLimit,     \* attempts after which a failing entry is given up (3)
  Tamperable,     \* entries whose staged copy may be rewritten by others
  Poison,         \* entries whose receipt link may fail without end
  MaxFaults,      \* bound: exceptions injected into a behaviour
  MaxRestarts,    \* bound: crashes and shutdowns in a behaviour
  None

Entries == UNION {{r} \X DOMAIN FilesOf[r] : r \in Requests}
Batch(e) == e[1]
Bytes(e) == FilesOf[e[1]][e[2]]
EntriesOf(b) == {e \in Entries : e[1] = b}

ASSUME ConstantsAssumption ==
  /\ IsFiniteSet(Requests)
  /\ FilesOf \in [Requests -> Seq(Files) \ {<<>>}]
  /\ None \notin Requests /\ None \notin Entries /\ None \notin Readings
  /\ QueueCapacity \in Nat \ {0}
  /\ RetryLimit \in Nat \ {0}
  /\ MaxFaults \in Nat /\ MaxRestarts \in Nat
  /\ HoldOutcomes \subseteq {"MAPPING_REQUIRED", "VARIATION_REVIEW_REQUIRED",
                             "IDENTIFIER_HOLD", "BINDING_HOLD"}

VARIABLES
  \* clients
  request,    \* progress of each submission
  answer,     \* the batch a submission was answered with
  createdAt,  \* rank of the creation time of a batch
  \* database
  batch,      \* status of each batch row
  row,        \* each entry row
  \* file system
  file,       \* staged copy of each entry
  raw,        \* contents stored under the receipt reserved for the entry
  \* process
  mode,       \* life of the server process
  queue, scheduled, deferred,
  \* worker thread: where it is, batch and entry in hand, entries to do,
  \* receipt it was handed by the store, verdict it is about to write
  pc, cur, ent, todo, hand, verdict,
  \* bounds
  faults, restarts

clientVars == <<request, answer, createdAt>>
dataVars   == <<batch, row>>
diskVars   == <<file, raw>>
procVars   == <<mode, queue, scheduled, deferred>>
workVars   == <<pc, cur, ent, todo, hand, verdict>>
boundVars  == <<faults, restarts>>
vars == <<clientVars, dataVars, diskVars, procVars, workVars, boundVars>>

Active    == {"STAGED", "PROCESSING"}
Completed == {"COMPLETED", "COMPLETED_WITH_EXCEPTIONS", "FAILED"}
Outcomes  == {"CANDIDATE_READY", "DUPLICATE_CANDIDATE", "REVISION_REVIEW_REQUIRED",
              "VARIATION_REVIEW_REQUIRED", "SCAN_FAILED", "ERROR"} \cup HoldOutcomes
Contents  == {"intact", "changed"}
InFlight  == {"staged", "admitted", "committed"}
WorkerPCs == {"idle", "open", "next", "claim", "check", "preserve", "link", "scan",
              "unlink", "unpath", "evaluate", "complete", "settle", "discardFile",
              "discardPath", "retry", "finish", "recover", "recoverUnlink", "done", "leave"}

EntryRow == [status   : {"NONE", "STAGED", "PROCESSING", "TERMINAL"},
             attempts : 0 .. RetryLimit,
             outcome  : Outcomes \cup {None},
             reading  : Readings \cup {None},
             receipt  : BOOLEAN,           \* receipt_payload is present
             staged   : BOOLEAN]           \* staged_relative_path is present

\* Outcomes are told from their absence.
ASSUME NoneAssumption == None \notin Outcomes

Verdict == [outcome : Outcomes \cup {None}, reading : Readings \cup {None}]
NoVerdict == [outcome |-> None, reading |-> None]

TypeOK ==
  /\ request \in [Requests -> InFlight \cup {"idle", "created", "replayed", "refused", "lost"}]
  /\ answer \in [Requests -> Requests \cup {None}]
  /\ createdAt \in [Requests -> Nat]
  /\ batch \in [Requests -> Active \cup Completed \cup {"NONE"}]
  /\ row \in [Entries -> EntryRow]
  /\ file \in [Entries -> Contents \cup {"absent"}]
  /\ raw \in [Entries -> SUBSET Contents]
  /\ mode \in {"up", "stopping", "down"}
  /\ queue \in Seq(Requests) /\ Len(queue) <= QueueCapacity
  /\ scheduled \in SUBSET Requests
  /\ deferred \in SUBSET Requests
  /\ pc \in WorkerPCs \cup {"off"}
  /\ cur \in Requests \cup {None}
  /\ ent \in Entries \cup {None}
  /\ todo \in SUBSET Entries
  /\ hand \in Contents \cup {None}
  /\ verdict \in Verdict
  /\ faults \in 0 .. MaxFaults
  /\ restarts \in 0 .. MaxRestarts

NoRow == [status |-> "NONE", attempts |-> 0, outcome |-> None, reading |-> None,
          receipt |-> FALSE, staged |-> FALSE]
NewRow == [NoRow EXCEPT !.status = "STAGED", !.staged = TRUE]

Init ==
  /\ request = [r \in Requests |-> "idle"]
  /\ answer = [r \in Requests |-> None]
  /\ createdAt = [r \in Requests |-> 0]
  /\ batch = [r \in Requests |-> "NONE"]
  /\ row = [e \in Entries |-> NoRow]
  /\ file = [e \in Entries |-> "absent"]
  /\ raw = [e \in Entries |-> {}]
  /\ mode = "down" /\ queue = <<>> /\ scheduled = {} /\ deferred = {}
  /\ pc = "off" /\ cur = None /\ ent = None /\ todo = {} /\ hand = None
  /\ verdict = NoVerdict
  /\ faults = 0 /\ restarts = 0

-----------------------------------------------------------------------------
(* The schedule: what of the database is in the in-process queue.          *)

ActiveBatches == {b \in Requests : batch[b] \in Active}

\* Fault: a batch that is already scheduled is queued again.
EnqueueAgain(b) ==
  IF b \in deferred \/ Len(queue) >= QueueCapacity
    THEN UNCHANGED <<queue, scheduled>>
    ELSE queue' = Append(queue, b) /\ scheduled' = scheduled \cup {b}

\* _enqueue: nothing happens to a batch that is deferred or already scheduled,
\* and a full queue leaves the batch to a later sweep.
Enqueue(b) ==
  IF b \in deferred \/ b \in scheduled \/ Len(queue) >= QueueCapacity
    THEN UNCHANGED <<queue, scheduled>>
    ELSE /\ queue' = Append(queue, b)
         /\ scheduled' = scheduled \cup {b}

\* _enqueue_next of a worker that has released the batches outside `held`: the
\* oldest recoverable batch that is not deferred is offered to the queue.
EnqueueNext(held) ==
  LET ready == ActiveBatches \ deferred
  IN  IF mode # "up" \/ Len(queue) >= QueueCapacity \/ ready = {}
        THEN queue' = queue /\ scheduled' = held
        ELSE \E b \in ready :
               /\ \A c \in ready : createdAt[b] <= createdAt[c]
               /\ IF b \in held
                    THEN queue' = queue /\ scheduled' = held
                    ELSE queue' = Append(queue, b) /\ scheduled' = held \cup {b}

-----------------------------------------------------------------------------
(* Submission.  Reads happen before the first write of the transaction     *)
(* takes the SQLite write lock, so two submissions can both pass the       *)
(* checks; the unique constraint on the key decides between them.          *)

Winner(r) == {b \in Requests : batch[b] # "NONE" /\ KeyOf[b] = KeyOf[r]}
SameManifest(r, b) == FilesOf[r] = FilesOf[b] /\ SupplierOf[r] = SupplierOf[b]

DropStagedFiles(r) == file' = [e \in Entries |-> IF e[1] = r THEN "absent" ELSE file[e]]

\* create_batch of the API: the uploaded files are written below a directory
\* of their own before the manager is called.
Stage(r) ==
  /\ mode = "up" /\ request[r] = "idle"
  /\ request' = [request EXCEPT ![r] = "staged"]
  /\ file' = [e \in Entries |-> IF e[1] = r THEN "intact" ELSE file[e]]
  /\ UNCHANGED <<answer, createdAt, dataVars, raw, procVars, workVars, boundVars>>

Replay(r, b) ==
  /\ request' = [request EXCEPT ![r] = "replayed"]
  /\ answer' = [answer EXCEPT ![r] = b]
  /\ DropStagedFiles(r)

Refuse(r) ==
  /\ request' = [request EXCEPT ![r] = "refused"]
  /\ UNCHANGED answer
  /\ DropStagedFiles(r)

\* submit, up to the insertion of the rows.
SubmitRead(r) ==
  /\ request[r] = "staged"
  /\ IF Winner(r) # {}
       THEN /\ \E b \in Winner(r) : IF SameManifest(r, b) THEN Replay(r, b) ELSE Refuse(r)
            /\ UNCHANGED createdAt
       ELSE IF Cardinality(ActiveBatches) >= QueueCapacity
         THEN Refuse(r) /\ UNCHANGED createdAt
         ELSE /\ request' = [request EXCEPT ![r] = "admitted"]
              /\ createdAt' = [createdAt EXCEPT
                                 ![r] = 1 + Cardinality({x \in Requests : createdAt[x] > 0})]
              /\ UNCHANGED <<answer, file>>
  /\ UNCHANGED <<dataVars, raw, procVars, workVars, boundVars>>

\* Fault: no unique constraint on the key.
SubmitInsertUnchecked(r) ==
  /\ request[r] = "admitted"
  /\ request' = [request EXCEPT ![r] = "committed"]
  /\ batch' = [batch EXCEPT ![r] = "STAGED"]
  /\ row' = [e \in Entries |-> IF e[1] = r THEN NewRow ELSE row[e]]
  /\ UNCHANGED <<answer, createdAt, diskVars, procVars, workVars, boundVars>>

\* submit, the insertion and its commit.  A submission that lost the race for
\* the key replays the winner or is refused; both give their files back.
SubmitInsert(r) ==
  /\ request[r] = "admitted"
  /\ IF Winner(r) # {}
       THEN /\ \E b \in Winner(r) : IF SameManifest(r, b) THEN Replay(r, b) ELSE Refuse(r)
            /\ UNCHANGED dataVars
       ELSE /\ request' = [request EXCEPT ![r] = "committed"]
            /\ batch' = [batch EXCEPT ![r] = "STAGED"]
            /\ row' = [e \in Entries |-> IF e[1] = r THEN NewRow ELSE row[e]]
            /\ UNCHANGED <<answer, file>>
  /\ UNCHANGED <<createdAt, raw, procVars, workVars, boundVars>>

\* submit, after the commit: the batch is offered to the worker and answered.
SubmitEnqueue(r) ==
  /\ request[r] = "committed"
  /\ request' = [request EXCEPT ![r] = "created"]
  /\ answer' = [answer EXCEPT ![r] = r]
  /\ Enqueue(r)
  /\ UNCHANGED <<createdAt, dataVars, diskVars, mode, deferred, workVars, boundVars>>

\* The database fails while a submission is being read or inserted: the files
\* are given back, and the winner of the key is replayed when there is one.
SubmitFails(r) ==
  /\ request[r] \in {"staged", "admitted"}
  /\ faults < MaxFaults /\ faults' = faults + 1
  /\ \/ Refuse(r)
     \/ \E b \in Winner(r) : SameManifest(r, b) /\ Replay(r, b)
  /\ UNCHANGED <<createdAt, dataVars, raw, procVars, workVars, restarts>>

Submit(r) == SubmitRead(r) \/ SubmitInsert(r) \/ SubmitEnqueue(r)

-----------------------------------------------------------------------------
(* The worker: one batch at a time, its entries in the order of their      *)
(* ordinals.                                                               *)

Goto(label) == pc' = label

\* _worker: takes the next batch, also when it is asked to stop while it waits,
\* or sweeps the database when there is none.
Take ==
  /\ pc = "idle" /\ queue # <<>>
  /\ cur' = Head(queue) /\ queue' = Tail(queue)
  /\ Goto("open")
  /\ UNCHANGED <<clientVars, dataVars, diskVars, mode, scheduled, deferred, ent, todo,
                 hand, verdict, boundVars>>

Sweep ==
  /\ pc = "idle" /\ mode = "up" /\ queue = <<>>
  /\ EnqueueNext(scheduled)
  /\ UNCHANGED <<clientVars, dataVars, diskVars, mode, deferred, workVars, boundVars>>

\* _process_batch, first transaction: a batch that has finished since it was
\* queued is let go.
Open ==
  /\ pc = "open"
  /\ IF batch[cur] \in Active
       THEN /\ batch' = [batch EXCEPT ![cur] = "PROCESSING"]
            /\ todo' = {e \in EntriesOf(cur) : row[e].status # "TERMINAL"}
            /\ Goto("next")
       ELSE /\ Goto("done")
            /\ UNCHANGED <<batch, todo>>
  /\ UNCHANGED <<clientVars, row, diskVars, procVars, cur, ent, hand, verdict, boundVars>>

\* _process_batch, head of the loop: a stop request leaves the batch as it is.
NextEntry ==
  /\ pc = "next"
  /\ hand' = None /\ verdict' = NoVerdict
  /\ IF todo = {}
       THEN Goto("finish") /\ UNCHANGED <<ent, todo>>
     ELSE IF mode # "up"
       THEN Goto("done") /\ UNCHANGED <<ent, todo>>
     ELSE \E e \in todo :
            /\ \A f \in todo : e[2] <= f[2]
            /\ ent' = e /\ todo' = todo \ {e}
            /\ Goto("claim")
  /\ UNCHANGED <<clientVars, dataVars, diskVars, procVars, cur, boundVars>>

\* The attempt counter is only ever compared with the limit: it stops there.
NextAttempt(n) == IF n < RetryLimit THEN n + 1 ELSE n

\* _process_entry, first transaction.
Claim ==
  /\ pc = "claim"
  /\ IF row[ent].status = "TERMINAL"
       THEN Goto("next") /\ UNCHANGED row
       ELSE /\ row' = [row EXCEPT ![ent].status = "PROCESSING",
                                  ![ent].attempts = NextAttempt(@)]
            /\ Goto(IF ~ row[ent].receipt THEN "check"
                    ELSE IF row[ent].staged THEN "unlink" ELSE "evaluate")
  /\ UNCHANGED <<clientVars, batch, diskVars, procVars, cur, ent, todo, hand, verdict,
                 boundVars>>

\* The staged copy is found and hashed against the reservation.
Check ==
  /\ pc = "check"
  /\ Goto(IF file[ent] = "intact" THEN "preserve" ELSE "settle")
  /\ UNCHANGED <<clientVars, dataVars, diskVars, procVars, cur, ent, todo, hand, verdict,
                 boundVars>>

\* Fault: the staged copy is deleted as soon as its bytes are stored.
PreserveAndUnlink ==
  /\ pc = "preserve" /\ file[ent] # "absent"
  /\ raw' = [raw EXCEPT ![ent] = @ \cup {file[ent]}]
  /\ hand' = file[ent]
  /\ file' = [file EXCEPT ![ent] = "absent"]
  /\ Goto("link")
  /\ UNCHANGED <<clientVars, dataVars, procVars, cur, ent, todo, verdict, boundVars>>

\* OriginalFileStore.preserve under the receipt reserved for the entry; the
\* staged copy may have changed since it was hashed.
Preserve ==
  /\ pc = "preserve"
  /\ IF file[ent] = "absent"
       THEN Goto("settle") /\ UNCHANGED <<raw, hand>>
       ELSE /\ raw' = [raw EXCEPT ![ent] = @ \cup {file[ent]}]
            /\ hand' = file[ent]
            /\ Goto("link")
  /\ UNCHANGED <<clientVars, dataVars, file, procVars, cur, ent, todo, verdict, boundVars>>

\* Fault: any receipt the store returns is linked.
LinkAnything ==
  /\ pc = "link"
  /\ row' = [row EXCEPT ![ent].receipt = TRUE]
  /\ Goto("scan")
  /\ UNCHANGED <<clientVars, batch, diskVars, procVars, cur, ent, todo, hand, verdict,
                 boundVars>>

\* _persist_receipt: only a receipt that matches the reservation is linked.
Link ==
  /\ pc = "link"
  /\ IF hand = "intact"
       THEN /\ row' = [row EXCEPT ![ent].receipt = TRUE]
            /\ Goto("scan")
       ELSE Goto("settle") /\ UNCHANGED row
  /\ UNCHANGED <<clientVars, batch, diskVars, procVars, cur, ent, todo, hand, verdict,
                 boundVars>>

\* _persist_receipt, the database fails: the link is retried later.
LinkFails ==
  /\ pc = "link"
  /\ IF ent \in Poison
       THEN UNCHANGED faults
       ELSE faults < MaxFaults /\ faults' = faults + 1
  /\ Goto("retry")
  /\ UNCHANGED <<clientVars, dataVars, diskVars, procVars, cur, ent, todo, hand, verdict,
                 restarts>>

\* The scan fails, or what it scans is not what was received; the original is
\* kept either way and the staged copy is done with.
ScanRefuses ==
  /\ Goto("unlink")
  /\ \E o \in {"SCAN_FAILED", "ERROR"} : verdict' = [NoVerdict EXCEPT !.outcome = o]

\* ingest, the scan: it succeeds, refuses, or dies.
Scan ==
  /\ pc = "scan"
  /\ \/ Goto("unlink") /\ UNCHANGED verdict
     \/ ScanRefuses
     \/ Goto("settle") /\ UNCHANGED verdict
  /\ UNCHANGED <<clientVars, dataVars, diskVars, procVars, cur, ent, todo, hand, boundVars>>

\* _cleanup_staged_entry: the staged copy goes first, the path of a row that
\* has its receipt second.
Unlink ==
  /\ pc = "unlink"
  /\ file' = [file EXCEPT ![ent] = "absent"]
  /\ Goto("unpath")
  /\ UNCHANGED <<clientVars, dataVars, raw, procVars, cur, ent, todo, hand, verdict,
                 boundVars>>

Unpath ==
  /\ pc = "unpath"
  /\ row' = [row EXCEPT ![ent].staged = @ /\ ~ row[ent].receipt]
  /\ Goto(IF verdict.outcome = None THEN "evaluate" ELSE "complete")
  /\ UNCHANGED <<clientVars, batch, diskVars, procVars, cur, ent, todo, hand, verdict,
                 boundVars>>

\* Fault: only the candidates of the same batch are compared.
BatchPriors(e) ==
  {[bytes |-> Bytes(p), reading |-> row[p].reading] :
     p \in {q \in EntriesOf(Batch(e)) \ {e} : row[q].outcome = "CANDIDATE_READY"}}

\* The ready candidates of the supplier that the entry is compared with.
ReadyPriors(e) ==
  {[bytes |-> Bytes(p), reading |-> row[p].reading] :
     p \in {q \in Entries \ {e} : /\ row[q].outcome = "CANDIDATE_READY"
                                  /\ SupplierOf[Batch(q)] = SupplierOf[Batch(e)]}}

\* The Mapping preview or the Long candidate refuses the entry, or the evidence
\* of its candidate is held, incomplete or too large.
Held == \E o \in HoldOutcomes : verdict' = [NoVerdict EXCEPT !.outcome = o]

\* _complete_candidate, once the candidate is complete: what the ready ones of
\* the supplier say of its reading decides its outcome.
Classified ==
  \E rd \in Readings :
    verdict' = [outcome |-> Classify(ReadyPriors(ent), Bytes(ent), rd), reading |-> rd]

\* Mapping preview, Long candidate and _complete_candidate.
Evaluate ==
  /\ pc = "evaluate"
  /\ Held \/ Classified
  /\ Goto("complete")
  /\ UNCHANGED <<clientVars, dataVars, diskVars, procVars, cur, ent, todo, hand, boundVars>>

\* The terminal entries of the supplier with the same bytes, and the oldest of
\* them: entries of one batch have one creation time, in no particular order.
SameBytes(e) ==
  {p \in Entries \ {e} : /\ row[p].status = "TERMINAL"
                         /\ SupplierOf[Batch(p)] = SupplierOf[Batch(e)]
                         /\ Bytes(p) = Bytes(e)}

FirstSameBytes(e) ==
  {p \in SameBytes(e) :
     \A q \in SameBytes(e) : createdAt[Batch(p)] <= createdAt[Batch(q)]}

\* What _complete writes: an exact duplicate of the oldest same-bytes entry is
\* labelled so when both have their receipts, whatever it was going to be.
Settled(e, prior, v) ==
  LET duplicate == prior # None /\ row[e].receipt /\ row[prior].receipt
      outcome   == IF duplicate THEN "DUPLICATE_CANDIDATE" ELSE v.outcome
  IN  [row[e] EXCEPT !.status  = "TERMINAL",
                     !.outcome = outcome,
                     !.reading = IF outcome = "CANDIDATE_READY" THEN v.reading ELSE None]

Settle(e, v) ==
  IF row[e].status = "TERMINAL"
    THEN UNCHANGED row
    ELSE \E prior \in IF SameBytes(e) = {} THEN {None} ELSE FirstSameBytes(e) :
           row' = [row EXCEPT ![e] = Settled(e, prior, v)]

\* _complete at the end of _process_entry; a verdict other than ERROR needs a
\* receipt, or else the entry ends in _terminal_error.
Complete ==
  /\ pc = "complete"
  /\ IF verdict.outcome # "ERROR" /\ ~ row[ent].receipt
       THEN Goto("settle") /\ UNCHANGED row
       ELSE Settle(ent, verdict) /\ Goto("next")
  /\ UNCHANGED <<clientVars, batch, diskVars, procVars, cur, ent, todo, hand, verdict,
                 boundVars>>

\* _terminal_error: the entry ends as an error ...
TerminalError ==
  /\ pc = "settle"
  /\ Settle(ent, [NoVerdict EXCEPT !.outcome = "ERROR"])
  /\ Goto("discardFile")
  /\ UNCHANGED <<clientVars, batch, diskVars, procVars, cur, ent, todo, hand, verdict,
                 boundVars>>

\* ... and _discard_staged_entry drops its staged copy, then the path.
DiscardFile ==
  /\ pc = "discardFile"
  /\ file' = IF row[ent].staged THEN [file EXCEPT ![ent] = "absent"] ELSE file
  /\ Goto("discardPath")
  /\ UNCHANGED <<clientVars, dataVars, raw, procVars, cur, ent, todo, hand, verdict,
                 boundVars>>

DiscardPath ==
  /\ pc = "discardPath"
  /\ row' = [row EXCEPT ![ent].staged = @ /\ row[ent].status # "TERMINAL"]
  /\ Goto("next")
  /\ UNCHANGED <<clientVars, batch, diskVars, procVars, cur, ent, todo, hand, verdict,
                 boundVars>>

\* Fault: a batch whose link keeps failing is never deferred.
StageRetryAtOnce ==
  /\ pc = "retry"
  /\ row' = [row EXCEPT ![ent].status = "STAGED"]
  /\ Goto("next")
  /\ UNCHANGED <<clientVars, batch, diskVars, procVars, cur, ent, todo, hand, verdict,
                 boundVars>>

\* _stage_receipt_link_retry: after the limit the whole batch is deferred.
StageRetry ==
  /\ pc = "retry"
  /\ row' = [row EXCEPT ![ent].status = "STAGED"]
  /\ deferred' = IF row[ent].attempts >= RetryLimit THEN deferred \cup {cur} ELSE deferred
  /\ Goto("next")
  /\ UNCHANGED <<clientVars, batch, diskVars, mode, queue, scheduled, cur, ent, todo, hand,
                 verdict, boundVars>>

\* Fault: a batch is finished although an entry waits for its retry.
FinishEarly ==
  /\ pc = "finish"
  /\ batch' = [batch EXCEPT ![cur] = BatchVerdict({row[e].outcome : e \in EntriesOf(cur)})]
  /\ Goto("done")
  /\ UNCHANGED <<clientVars, row, diskVars, procVars, cur, ent, todo, hand, verdict,
                 boundVars>>

\* _finish_batch.
Finish ==
  /\ pc = "finish"
  /\ batch' = [batch EXCEPT ![cur] =
                 IF \E e \in EntriesOf(cur) : row[e].status # "TERMINAL" THEN "STAGED"
                 ELSE BatchVerdict({row[e].outcome : e \in EntriesOf(cur)})]
  /\ Goto("done")
  /\ UNCHANGED <<clientVars, row, diskVars, procVars, cur, ent, todo, hand, verdict,
                 boundVars>>

\* _recover_batch_after_failure: what was in hand is staged again or, once its
\* attempts are used up, ended; `todo` is then the staged copies to delete.
Exhausted(e) == row[e].status = "PROCESSING" /\ row[e].attempts >= RetryLimit

Recovered(e) ==
  IF Exhausted(e)
    THEN [row[e] EXCEPT !.status = "TERMINAL", !.outcome = "ERROR", !.staged = FALSE]
    ELSE [row[e] EXCEPT !.status = "STAGED"]

Recover ==
  /\ pc = "recover"
  /\ IF batch[cur] \in Active
       THEN /\ row' = [e \in Entries |->
                        IF e[1] = cur /\ row[e].status = "PROCESSING"
                          THEN Recovered(e) ELSE row[e]]
            /\ todo' = {e \in EntriesOf(cur) : Exhausted(e) /\ row[e].staged}
            /\ batch' = [batch EXCEPT ![cur] = "STAGED"]
            /\ Goto("recoverUnlink")
       ELSE Goto("done") /\ UNCHANGED <<row, todo, batch>>
  /\ UNCHANGED <<clientVars, diskVars, procVars, cur, ent, hand, verdict, boundVars>>

RecoverUnlink ==
  /\ pc = "recoverUnlink"
  /\ file' = [e \in Entries |-> IF e \in todo THEN "absent" ELSE file[e]]
  /\ Goto("done")
  /\ UNCHANGED <<clientVars, dataVars, raw, procVars, cur, ent, todo, hand, verdict,
                 boundVars>>

\* _worker, finally: the batch is released and the next one looked for, unless
\* the worker was asked to stop.
Done ==
  /\ pc = "done"
  /\ EnqueueNext(scheduled \ {cur})
  /\ cur' = None /\ ent' = None /\ todo' = {} /\ hand' = None /\ verdict' = NoVerdict
  /\ Goto(IF mode = "up" THEN "idle" ELSE "leave")
  /\ UNCHANGED <<clientVars, dataVars, diskVars, mode, deferred, boundVars>>

\* Where an exception raised at each point of the worker is handled:
\* _process_batch ends the entry, _worker recovers the batch, and
\* _recover_batch_after_failure swallows what goes wrong in itself.
Handler(label) ==
  CASE label \in {"claim", "check", "preserve", "scan", "unlink", "unpath", "evaluate",
                  "complete"} -> "settle"
    [] label \in {"open", "settle", "discardFile", "discardPath", "retry", "finish"}
         -> "recover"
    [] label \in {"recover", "recoverUnlink"} -> "done"

Raise ==
  /\ pc \in WorkerPCs \ {"idle", "next", "link", "done", "leave"}
  /\ faults < MaxFaults /\ faults' = faults + 1
  /\ Goto(Handler(pc))
  /\ UNCHANGED <<clientVars, dataVars, diskVars, procVars, cur, ent, todo, hand, verdict,
                 restarts>>

Worker ==
  \/ Take \/ Sweep \/ Open \/ NextEntry \/ Claim \/ Check \/ Preserve \/ Link \/ LinkFails
  \/ Scan \/ Unlink \/ Unpath \/ Evaluate \/ Complete \/ TerminalError \/ DiscardFile
  \/ DiscardPath \/ StageRetry \/ Finish \/ Recover \/ RecoverUnlink \/ Done \/ Raise

-----------------------------------------------------------------------------
(* The process: start, orderly shutdown and crash.                         *)

\* A queue of as many of the oldest active batches as it holds.
FirstActive(q, active) ==
  /\ \A i, j \in DOMAIN q : i < j => createdAt[q[i]] < createdAt[q[j]]
  /\ \A i \in DOMAIN q : \A b \in active :
       (\A j \in DOMAIN q : q[j] # b) => createdAt[q[i]] < createdAt[b]

\* Fault: start stages every row of an active batch again, the ended ones too.
StartFromScratch ==
  /\ mode = "down" /\ mode' = "up" /\ pc' = "idle"
  /\ row' = [e \in Entries |->
               IF batch[Batch(e)] \in Active THEN [row[e] EXCEPT !.status = "STAGED"]
               ELSE row[e]]
  /\ UNCHANGED <<clientVars, batch, diskVars, queue, scheduled, deferred, cur, ent, todo,
                 hand, verdict, boundVars>>

\* start: rows that were in hand are staged again, staging directories no row
\* refers to are removed, the queue is rebuilt and the worker started.
Start ==
  /\ mode = "down" /\ mode' = "up" /\ pc' = "idle"
  /\ row' = [e \in Entries |->
               IF row[e].status = "PROCESSING" THEN [row[e] EXCEPT !.status = "STAGED"]
               ELSE row[e]]
  /\ batch' = [b \in Requests |-> IF batch[b] = "PROCESSING" THEN "STAGED" ELSE batch[b]]
  /\ file' = [e \in Entries |->
                IF \E f \in EntriesOf(Batch(e)) : row[f].staged THEN file[e] ELSE "absent"]
  /\ LET size == Cardinality(ActiveBatches)
     IN  \E q \in [1 .. IF size < QueueCapacity THEN size ELSE QueueCapacity
                      -> ActiveBatches] :
           /\ FirstActive(q, ActiveBatches)
           /\ queue' = q
           /\ scheduled' = {q[i] : i \in DOMAIN q}
  /\ deferred' = {}
  /\ UNCHANGED <<clientVars, raw, cur, ent, todo, hand, verdict, boundVars>>

ProcessGone ==
  /\ mode' = "down" /\ queue' = <<>> /\ scheduled' = {} /\ deferred' = {}
  /\ pc' = "off" /\ cur' = None /\ ent' = None /\ todo' = {} /\ hand' = None
  /\ verdict' = NoVerdict

\* shutdown: the server has answered its clients before it is asked to stop.
Stop ==
  /\ mode = "up" /\ \A r \in Requests : request[r] \notin InFlight
  /\ restarts < MaxRestarts /\ restarts' = restarts + 1
  /\ mode' = "stopping"
  /\ UNCHANGED <<clientVars, dataVars, diskVars, queue, scheduled, deferred, workVars, faults>>

Exit ==
  /\ mode = "stopping" /\ pc \in {"idle", "leave"}
  /\ ProcessGone
  /\ UNCHANGED <<clientVars, dataVars, diskVars, boundVars>>

Crash ==
  /\ mode # "down"
  /\ restarts < MaxRestarts /\ restarts' = restarts + 1
  /\ request' = [r \in Requests |-> IF request[r] \in InFlight THEN "lost" ELSE request[r]]
  /\ ProcessGone
  /\ UNCHANGED <<answer, createdAt, dataVars, diskVars, faults>>

\* The delay of a deferred batch runs out, though not while the worker is still
\* busy with the pass that deferred it.
DeferralExpires(b) ==
  /\ b \in deferred /\ b # cur
  /\ deferred' = deferred \ {b}
  /\ UNCHANGED <<clientVars, dataVars, diskVars, mode, queue, scheduled, workVars, boundVars>>

\* Something outside the program rewrites a staged copy.
Tamper(e) ==
  /\ e \in Tamperable /\ file[e] = "intact"
  /\ file' = [file EXCEPT ![e] = "changed"]
  /\ UNCHANGED <<clientVars, dataVars, raw, procVars, workVars, boundVars>>

Next ==
  \/ \E r \in Requests : Stage(r) \/ Submit(r) \/ SubmitFails(r) \/ DeferralExpires(r)
  \/ \E e \in Entries : Tamper(e)
  \/ Worker
  \/ Start \/ Stop \/ Exit \/ Crash

Fairness ==
  /\ WF_vars(Worker)
  /\ WF_vars(Start) /\ WF_vars(Exit)
  /\ \A r \in Requests : WF_vars(Submit(r)) /\ WF_vars(DeferralExpires(r))

Spec == Init /\ [][Next]_vars
FairSpec == Spec /\ Fairness

-----------------------------------------------------------------------------
(* Safety.                                                                 *)

\* A file the server has accepted is never lost: until its receipt is linked,
\* an entry that is not ended still has its path and its staged copy, across
\* every order of unlink, commit, exception, crash and orphan removal.
AcceptedFileIsKept ==
  \A e \in Entries :
    row[e].status \in {"STAGED", "PROCESSING"} /\ ~ row[e].receipt
      => row[e].staged /\ file[e] # "absent"

\* A linked receipt stands for the bytes that were uploaded, although the staged
\* copy may be rewritten between the hash check and the copy into the store.
ReceiptProvesUpload ==
  \A e \in Entries : row[e].receipt => "intact" \in raw[e]

\* The scheduler hands a batch to the worker once at a time: the schedule is
\* exactly what is queued, without repetition, and what is being processed,
\* whoever of submit, sweep and start put it there.
DispatchedOnce ==
  /\ scheduled = {queue[i] : i \in DOMAIN queue} \cup ({cur} \ {None})
  /\ \A i, j \in DOMAIN queue : queue[i] = queue[j] => i = j
  /\ \A i \in DOMAIN queue : queue[i] # cur

\* A finished batch reports exactly what became of its entries.
VerdictIsExact ==
  \A b \in Requests :
    batch[b] \in Completed =>
      /\ \A e \in EntriesOf(b) : row[e].status = "TERMINAL"
      /\ batch[b] = BatchVerdict({row[e].outcome : e \in EntriesOf(b)})

\* A retried submission gets the batch of the first one or is refused: however
\* the two race, one key has one batch, and whoever is answered with it sent
\* the same files for the same supplier.
OneBatchPerKey ==
  /\ \A a, b \in Requests :
       batch[a] # "NONE" /\ batch[b] # "NONE" /\ KeyOf[a] = KeyOf[b] => a = b
  /\ \A r \in Requests :
       answer[r] # None =>
         /\ batch[answer[r]] # "NONE"
         /\ KeyOf[answer[r]] = KeyOf[r]
         /\ SameManifest(r, answer[r])

\* Two ready candidates of one supplier never claim the same LOT, unless they
\* have the same bytes and an older entry with those bytes ended without a
\* receipt, which hides the duplicate (see SameBytesAreLabelled).
OneReadyPerLot ==
  \A e, f \in Entries :
    /\ e # f /\ SupplierOf[Batch(e)] = SupplierOf[Batch(f)]
    /\ row[e].outcome = "CANDIDATE_READY" /\ row[f].outcome = "CANDIDATE_READY"
    /\ RevisionIdentity(row[e].reading) = RevisionIdentity(row[f].reading)
    => /\ Bytes(e) = Bytes(f)
       /\ \E p \in SameBytes(e) : ~ row[p].receipt

\* "Same bytes retain distinct receipts and are labelled duplicate candidates":
\* of the entries of one supplier with the same bytes, at most one is ready.
SameBytesAreLabelled ==
  \A e, f \in Entries :
    /\ e # f /\ SupplierOf[Batch(e)] = SupplierOf[Batch(f)] /\ Bytes(e) = Bytes(f)
    /\ row[e].outcome = "CANDIDATE_READY"
    => row[f].outcome # "CANDIDATE_READY"

-----------------------------------------------------------------------------
(* What a step may never do.                                               *)

\* "terminal evidence and receipt history remain immutable": no retry, recovery
\* or restart reopens an ended entry or batch or takes a receipt back.
TerminalIsFinal ==
  [][ /\ \A e \in Entries :
           /\ row[e].status = "TERMINAL" =>
                row'[e] = [row[e] EXCEPT !.staged = row'[e].staged]
           /\ row[e].receipt => row'[e].receipt
      /\ \A b \in Requests : batch[b] \in Completed => batch'[b] = batch[b] ]_vars

-----------------------------------------------------------------------------
(* Liveness.                                                               *)

\* Every committed batch is finished in the end, also the one whose submitter
\* died before it was queued and the one that waits behind a batch whose
\* receipt link keeps failing.
EveryBatchFinishes ==
  \A b \in Requests :
    EntriesOf(b) \cap Poison = {} => (batch[b] \in Active ~> batch[b] \in Completed)

-----------------------------------------------------------------------------
(* The inductive invariant: what the safety properties rest on.            *)

\* Where the worker has an entry of the batch in hand, where it has claimed it,
\* and where it has the receipt of the entry.
AtEntry == {"claim", "check", "preserve", "link", "scan", "unlink", "unpath", "evaluate",
            "complete", "settle", "discardFile", "discardPath", "retry"}
Claimed == AtEntry \ {"claim", "settle", "discardFile", "discardPath"}
Linked  == {"scan", "unlink", "unpath", "evaluate", "complete"}

\* No submission is in flight in a process that is not up.
ProcessInv ==
  /\ mode = "down" <=> pc = "off"
  /\ mode # "up" => \A r \in Requests : request[r] \notin InFlight
  /\ cur = None <=> pc \in {"off", "idle", "leave"}

\* A submission has its files until its rows are there to refer to them.
SubmissionInv ==
  \A r \in Requests :
    /\ request[r] \in {"idle", "staged", "admitted"} => batch[r] = "NONE"
    /\ request[r] \in {"committed", "created"} => batch[r] # "NONE"
    /\ request[r] \in {"staged", "admitted"} => \A e \in EntriesOf(r) : file[e] # "absent"

\* The batches that were committed, and only they, have rows, and only they are
\* scheduled.
CommittedInv ==
  /\ \A e \in Entries : IF batch[Batch(e)] = "NONE" THEN row[e] = NoRow
                        ELSE row[e].status # "NONE"
  /\ \A b \in scheduled : batch[b] # "NONE"

\* What the worker knows of the batch and the entry in its hands.
WorkerInv ==
  /\ \A e \in todo : Batch(e) = cur
  /\ pc \in AtEntry => ent \in EntriesOf(cur)
  /\ pc \in AtEntry \cup {"next", "finish"} => batch[cur] = "PROCESSING"
  /\ pc \in Claimed => row[ent].status = "PROCESSING"
  /\ pc \in Linked => row[ent].receipt
  /\ pc = "link" => hand \in raw[ent]
  /\ pc \in {"discardFile", "discardPath"} => row[ent].status = "TERMINAL"
  /\ pc = "recoverUnlink" => \A e \in todo : row[e].status = "TERMINAL"

IInv ==
  /\ TypeOK /\ ProcessInv /\ SubmissionInv /\ CommittedInv /\ WorkerInv
  /\ AcceptedFileIsKept /\ ReceiptProvesUpload /\ DispatchedOnce
  /\ VerdictIsExact /\ OneBatchPerKey

-----------------------------------------------------------------------------
(* The worker and its crashes implement the promise made to the submitter. *)

BatchOf == [e \in Entries |-> Batch(e)]
Accepted == {b \in Requests : batch[b] # "NONE"}
ProofOf == [e \in Entries |-> row[e].receipt]
OutcomeOf == [e \in Entries |-> row[e].outcome]
VerdictOf == [b \in Requests |-> IF batch[b] \in Completed THEN batch[b] ELSE None]

Intake == INSTANCE DurableIntake WITH
            Batches  <- Requests,
            accepted <- Accepted,
            proof    <- ProofOf,
            outcome  <- OutcomeOf,
            verdict  <- VerdictOf

IntakePromise == Intake!Spec
=============================================================================
