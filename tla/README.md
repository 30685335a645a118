# A verification model of Mass-Production-Quality-Validation

TLA+ specifications of the quality-data server in `src/backend/app`, of two
panels of its frontend and of its release tool, the TLC runs that check them on
small instances and the TLAPS proofs that extend some of the results to every
instance.  `PROJECT.json` gives, for each definition, the lines of code it stands
for.

## 1. The system

The server receives Excel workbooks of inspection results, preserves the
original bytes, reads them with approved Mapping templates, and turns them into
rows in *Long* form that are reviewed, compared with history and, if need be,
replaced.  It is one FastAPI process over one SQLite database and a few
directories.  Request handlers run on the event loop or in a thread pool; three
managers own one background thread each.  A browser shows it in a few panels, and
a release tool installs it.

| Component | State | Operations | Hard behaviours | What makes it correct |
|---|---|---|---|---|
| Bulk import (`application/bulk_import.py`) | rows of batches and entries, staged files, queue, schedule, deferrals | submit, get, worker passes, retry, recovery, start, shutdown | crash between two effects, retried submissions racing, exceptions at every point, a full queue, endless retries | no accepted file is lost, receipts and verdicts are true, ended evidence never changes, every batch finishes |
| Classification (`_complete_candidate`, `_complete`) | none (reads the ready entries) | compare a candidate with the ready ones | which prior is found first | one ready candidate per LOT |
| Bulk finalization (`application/bulk_finalization.py`) | rows of commands and their entries, queue | candidate, submit, resume, worker passes, start, shutdown | stale digests, crash between materialisation and its mark, blocked commands resumed | exactly the approved entries reach Long, at most once each |
| Long persistence (`application/long_persistence.py`, `infrastructure/long_format.py`) | materialisation claims, results, rows | claim, materialise, mark, fail | two owners, crash after the claim | one result per candidate |
| Mapping preview, Long candidate and workflow (`application/mapping_preview.py`, `application/long_candidate.py`, `application/long_workflow.py`) | none; a confirmation is bound to a digest | preview, show, confirm | two sessions that are no snapshot, catalogs that change | what is loaded was true, and can be decided later |
| Manual intake jobs (`application/intake_jobs.py`) | registry, queue, staged files, in memory | submit, get, worker, shutdown | eviction, shutdown racing submit and worker, clean-up failures | bounded, every job ends, no staged file is leaked |
| Original-file store (`infrastructure/file_store/original.py`) | blobs, receipts, temporary copies | preserve, open, list, resolve | several store objects over one root, failures and kills between blob and receipt | a receipt's blob exists and has its digest |
| Data review (`application/data_review*.py`, `infrastructure/data_review.py`) | status, judgment and version of results and samples, decisions | candidate, decide, replay | commands that read, wait and write, retries of one command | only proven results are official |
| Result replacement (`application/result_replacement.py`) | links between results | candidate, decide, replay | two corrections of one result, data-status decisions on the same rows | chains do not branch, one official result each |
| Historical comparison (`application/historical_comparison.py`) | none; a cache during one answer | compare | reads of many moments, a cache shared by the two sides | an answer is evidence |
| Mapping templates and registration (`application/mapping_template_commands.py`, `infrastructure/mapping_templates.py`, `application/mapping_registration.py`) | version of a history, revisions with periods, decisions, audit | create, review, approve, supersede | checks made before the lock, take-over of a period, a catalog that no version protects | no day has two approved revisions, the audit tells every change, ambiguity is told |
| Master configuration (`application/master_config_commands.py`, `infrastructure/master_config.py`) | identities, dispositions, histories of specifications and bindings | create, dispose, draft, review, approve, supersede, load catalogs | concurrent commands, an item disposed of between check and write | the catalogs of every day load and leave out nothing |
| Release packaging (`scripts/release/package_tool.py`) | code directories | install, update, remove | failure or kill between two renames | a verified version is on the disk, the answer is true |
| Frontend panels (`frontend/src`) | view state, requests | commands, polling, aborts | answers that arrive late, effects that run after the next answer | no stale answer is shown, a decision is what was confirmed |

How they interact: a handler stages the uploaded files, then calls a manager's
`submit` in a thread.  The manager writes rows and puts an identifier into a
bounded queue; its thread takes it, calls the store, the scanner, Mapping and
the Long workflow synchronously, and writes the outcome.  Finalization reads
the rows Bulk import left terminal and calls Long persistence.  What is in Long
is judged by the Master configuration of the day, decided, replaced and compared.
The only shared state between components is the database and the store's
directories.

## 2. Modules

| Module | Models |
|---|---|
| `BulkClassification` | the pure decisions: how a candidate compares with the ready ones, the status of a batch |
| `BulkImport` | clients, rows, files, process and worker of the Bulk import |
| `DurableIntake` | the abstract promise to a submitter; `BulkImport` is checked to implement it |
| `LongPersistence` | threads that claim, materialise and reuse Long rows |
| `BulkFinalization` | commands, plans, clients and worker of the finalization, over an instance of `LongPersistence` |
| `MappingPreview` | the pure reader: which template reads a workbook, and what it extracts |
| `MappingRegistration` | requests that register templates from workbooks, over `MappingPreview` |
| `LongCandidate` | the pure candidate: preview, intake and bindings joined, and what the repository trusts of it |
| `LongWorkflow` | callers that show and confirm candidates, over `MappingRegistration` and `LongCandidate` |
| `EffectivePeriods` | rows with effective periods, and the checks on them that three kinds of history share |
| `MappingTemplates` | clients that draft, review, approve and supersede the revisions of one Mapping template |
| `ItemConfiguration` | the abstract promise of an item and its specification to those who judge the results of one day: the surroundings of `DataReview`, implemented by `MasterConfig` |
| `MasterConfig` | administrators, identities, dispositions, and histories of specifications and bindings |
| `EffectiveHistory` | the abstract promise of a history to its readers; `MappingTemplates` and each history of `MasterConfig` are checked to implement it |
| `IntakeJobs` | submissions, worker and shutdown of the manual intake |
| `OriginalStore` | preservations through store objects over one root |
| `PackageInstall` | install, update, remove and their rollback |
| `ReviewCandidate` | the pure judgment of a stored result |
| `DataReview` | callers and commands of data-status decisions, over `ReviewCandidate` |
| `ResultReplacement` | callers and commands of replacements, beside those of `DataReview` |
| `DataTrust` | the abstract promise to a reader of official data; the two commands are checked to implement it |
| `HistoricalComparison` | a reader beside the commands of `ResultReplacement` |
| `BulkPanel`, `HistoryPanel` | the two panels that follow a batch and that take decisions |
| `MCBulkImport`, `MCBulkFinalization`, `MCConfiguration`, `MCIntake`, `MCResults` | instances for TLC; in the last three the variable `part` chooses which of several components a behaviour is about |
| `BulkImportProofs`, `LongPersistenceProofs`, `BulkFinalizationProofs` | proofs about the module of that name |
| `EffectivePeriodsProofs`, `ConfigurationProofs` | proofs about `EffectivePeriods`, and about `MappingTemplates` and `MasterConfig` |
| `LongWorkflowProofs` | proofs about `MappingRegistration`, `LongCandidate` and `LongWorkflow` |
| `IntakeProofs` | proofs about the components of the run `intake_jobs`: `IntakeJobs`, `OriginalStore`, `PackageInstall`, `BulkPanel` |
| `ResultsProofs` | proofs about `ReviewCandidate`, `DataReview`, `ResultReplacement`, `HistoricalComparison` and `HistoryPanel` |

### BulkImport

A submission and the batch it creates share a name (`Requests`); an entry is
`<<batch, ordinal>>`.  Each action is one transaction or one file-system effect,
because that is what a crash can fall between.

- *Clients.*  `Stage` is the API handler writing the files; `SubmitRead`,
  `SubmitInsert` and `SubmitEnqueue` are the three parts of `submit`: the reads
  (pysqlite begins a write transaction at the first write, so two submitters
  can both have read "no batch"), the insertion decided by the unique
  constraint, and the enqueue after the commit.  `SubmitFails` is a database
  failure before the commit.
- *Schedule.*  `Enqueue` is `_enqueue`, `EnqueueNext` is `_enqueue_next`.  The
  two steps of `_enqueue` (claim the identifier, put it into the queue) are one
  action here: between them nobody else can act on that identifier, and when
  the put finds the queue full the claim is taken back.
- *Worker.*  `pc` says where the thread is.  An entry goes through `Claim`,
  `Check`, `Preserve`, `Link`, `Scan`, `Unlink`, `Unpath`, `Evaluate`,
  `Complete`; or `TerminalError`, `DiscardFile`, `DiscardPath`; or `StageRetry`.
  A batch goes through `Open`, `NextEntry`, `Finish`, `Done`; or `Recover`,
  `RecoverUnlink` when an exception escapes.  `Raise` moves the thread to the
  handler of an exception raised where it stands (`Handler`).
- *Process.*  `Start` rebuilds the schedule from the rows and removes orphaned
  staging directories; `Stop` and `Exit` are `shutdown`; `Crash` forgets what
  is not durable.  A join that times out after 30 s ends like a crash.
- *Environment.*  `Tamper` rewrites a staged copy; `DeferralExpires` is the
  clock passing the delay of a deferred batch.

Abstractions.  What scanner, Mapping and Long make of a workbook is any of
`HoldOutcomes` or any of `Readings`; a reading keeps just what the comparisons
tell apart (series, LOT, Mapping form, rows, values).  The attempt counter
stops at `RetryLimit`, since it is only compared with it.  Row versions,
timestamps other than the creation order, messages and issues are left out.

### LongPersistence

A call is `Confirm`, `Lookup`, `Insert`, `Materialize`, `Result`, or `RecordFailure`
when something raised.  `persist` runs two transactions: the claim (reads, then
writes) and the materialisation with its mark.  The claim is two actions because
pysqlite begins the transaction at the first write: what `Lookup` read may be
outdated when `Insert` writes.  A call that inserts a new source takes the write
lock with that insertion and reads the owner of the material after it; for
`fresh` calls `Insert` therefore uses the owner of now.  The three unique
constraints (source, exact basis, owner of a material) are the conditions under
which `Insert` answers `ERROR`.

Abstractions.  A *candidate* is what a caller hands over, a *job* the exact basis
it is stored under, a *material* the content with its Mapping revision, binding
and parser contract; `JobOf`, `SourceOf` and `MaterialOf` relate them.  Two
candidates of one job are the case of a replay whose basis does not agree.  The
rows of a job are a counter: how often they were written.  What the rows hold is
not modelled.

### BulkFinalization

- *Clients.*  `SubmitRead` to `SubmitDone` are the parts of `submit`: its reads,
  the rows of a blocked command, the insertion or the resumption, the enqueue and
  the two halves of `_sweep_recoverable`.
- *Worker.*  `Take`, `OpenCommand`, `ReadNext` and `ClaimNext`, `Verify`, `Persist`,
  then `LockCompleted` and `MarkCompleted`, or `LongRefuses`, `LockBlocked` and
  `MarkBlocked`; `ReadToFinish` and `Finish`, `Release`, `Sweep`; `ReadToRecover` and
  `Recover` are `_block_unexpected`.  A transaction of the worker is two actions, its
  reads and its writes: `with_for_update` locks nothing on SQLite, a read opens no
  transaction, and an entry or a command is written by its id alone, so that a
  submission may commit in between.  `seen` is what the worker read of a plan;
  `late` is a history variable, the entries that were resumed after that read.  The
  worker is one caller of the Long persistence (`Long == INSTANCE LongPersistence`);
  other threads confirm the candidates `OthersConfirm`.
- *Process.*  `Start`, `Stop`, `Exit`, `Crash` as in the import.

Abstractions.  All digests are replaced by what they detect: the evidence of an
entry is `sound`, or its `row` or its `checkpoint` was rewritten.  A candidate that
was rebuilt with another Mapping is the free choice of `CANDIDATE_STALE` in
`Verify`.  A receipt is the set of its fields, because the comparison of the two
stored receipts fails on their fields (finding 2).

### MappingTemplates

One history is modelled, since no command touches two.  A command of
`MappingTemplateCommandService` is one transaction that reads rows, checks them,
and then writes; SQLite takes the write lock at the first write, which is the
compare-and-swap on the version of the history.  So a command is a read
(`CreateRead`, `ReviewRead`, `ApproveRead`, `SupersedeRead`: everything up to
`_cas_history`) and a commit (`Create`, `Review`, `Approve`, `Supersede`: the rest
of the repository's method and the audit record of the service), and other
commands may commit in between.  `command` is what a client holds between the two.
`Rollback` stands for every refusal after the read, every failure and the death of
the process; a command whose expected versions are not the ones it reads changes
nothing and is not a step.

`EffectivePeriods` has the row of a revision and the checks as pure operators
(`Conflicts` is `_approved_overlaps`, `EffectiveEnd` is `_effective_end`), because
Master specifications and row bindings use the same ones.

Abstractions.  A day is a number; a period without an end ends with `LastDay`, as
each use of the missing end in the code is `date.max`.  A resolved end of 0 is
`None`.  The payload of a template, its digest, the actors and the times of review
and approval are left out, and so is the version of the history in the audit
records.  An audit record is kept per revision; that of a supersession, which the
service writes with `resolved_effective_to=None` for the predecessor before it, is
one record of each of the two.  The registration facade adds checks of the source
and of the preview, and allows first revisions only (`MappingRegistration`); this
module has what the command service allows.  Nothing in `src/backend/app` calls `supersede` but the
service itself; the tests do.

### MappingPreview, MappingRegistration

A workbook is a layout and a map from addresses to cells; a template asserts a
layout, headers and row labels and gives addresses roles.  `Reading` is
`build_mapping_preview`: of the templates of the supplier that match and are in
force on the day found in the workbook, the only one.  `Derived` is what
`create_draft` takes from selected cells.

- *Requests.*  `CreateCheck`, `ReviewCheck`, `ApproveCheck` read (scan, catalog,
  audit of the draft); `CreateCommit`, `ReviewCommit`, `ApproveCommit` write, with
  the version of this template only; `Refuse` is the version conflict; `Reload` is
  the second look an approval takes at the catalog, after its commit.  `Die` leaves
  what was committed.

Abstractions.  Texts are a word and a spelling (exact, in other letters, spaced);
sheets, hidden rows and merged ranges are one value, the layout.  The read model of
the workspace, which draws pages of cells, is not modelled; neither are the mappings
an AI may propose, which are shown and never stored.

### LongCandidate, LongWorkflow

`Candidate` is `build_long_candidate`: every issue that holds a row or the whole
source.  `TrustedBinding`, `LotOf` and `Lots` are what the repository decides a
second time when the candidate is loaded.

- *Callers.*  `Show` and `ShowBindings`, then `Confirm` and `ConfirmBindings`, read
  the Mapping catalog and the bindings of the day in two sessions; the digest that
  was shown is compared with what was built again.  `Persist` claims and loads.
- *Others.*  Templates are registered (`RegistrationNext`) and bindings approved or
  superseded (`ApproveBinding`, one step: `MasterConfig` has its parts) meanwhile.

Abstractions.  A digest is the value it is taken of.  A claim and its
materialisation are one step, since `LongPersistence` has their races.  What both
catalogs give when `ShowBindings` reads the second one is kept with the thread and
with the job it loads (`truth`): no step depends on it, and `LoadedWasTrue` compares
it with what was loaded.

### MasterConfig

As with templates, a command is a read (`OrderCreate`, `OrderReview`, `OrderApprove`,
`OrderSupersede`, `OrderDisposition`) and a write (`WriteCreate` and so on), and
`order` is what an administrator holds between the two.  The creation of an
identity is one step: identities are never changed nor removed and unique keys
decide between two of them.  `SpecsOn`, `BindingsOn` and `BindingsLoad` are the
catalogs of a day; the first leaves out the specifications of items that are not
managed, the second refuses to load with a binding that could not be approved.

Abstractions.  Specifications and bindings have the same periods, states and
commands and differ in what they check of their item and of the Mapping revision
(`Approvable`).  Values of specifications and audit rows are left out.  A history of
specifications is of one item (`ConfigAssumption`; `MasterSpecHistoryRow.item_id`).

`ReviewOf(h, day)` is the instance of `ItemConfiguration` that a review of that day sees:
whether a revision is open, in force on the day, or for other days (`Standing`).

### OriginalStore

`preserve` is `HashSource`, `Acquire` (the lock of this store object), `OpenCopy` and
`Copy`, `Compare`, `LookForBlob` and `PlaceBlob`, `WriteReceipt` and `PutReceipt`,
`Release`.  `Fault` fails wherever it stands and leads to the handlers: the one of the
copying (`DropCopy`), then the one of `preserve` (`Undo`, `Withdraw`, `Unlink`: the copy,
the temporary receipt, the blob this call made).  Their removals may fail like any other
operation (`ClearingFails`), which ends the handler where it stands; `abandoned` is a
history variable that says which did, and where.  The temporary files of one upload and
kind are one member of `leftovers`.  `OpenSource` is the read with which manual
ingestion continues.  `EditSource` is the owner of the source
writing it meanwhile; `Kill` leaves the files as they are and asks for everything
again.  The checks of names, types and the ZIP package come before anything is
written and are left out.

### PackageInstall

`tree` maps the names on the disk (the installation, and stage, backup and tombstone
of an invocation) to what is there.  `Invoke` makes the checks; `MakeStage`,
`FillStage`, `MoveOld`, `SwapNew`, `Verify` install or update; `Fail` starts the
rollback (`UndoSwap`, `DeleteNew`, `UndoMove`, `UndoStage`, `DeleteStage`, with
`FailToUndo` and `FailToClear`); `Bury`, `Unbury`, `Removed` remove; `Discard`,
`Discarded`, `LeaveLeftover` clean up after the commit point; `KillTool` stops
anywhere.  One invocation runs at a time: the tool has no lock, and two at once on
one directory are outside the model.

### ReviewCandidate, DataReview, ResultReplacement

`ReviewCandidate` follows `load_basis` and `build_data_review_candidate`, early
returns in the order of the code.  A result's evidence is a record of what the
checks tell apart (what is intact, the mode, the unit, the samples).

- *Decisions.*  A request is `LookupCommand`, `ReadRows`, `ReadConfiguration`, then
  `WriteDecision` with everything it writes, or `FailWrite`; after a stale write
  `RecheckCommand`; a replay is `ReplayDecision`.
- *Replacements.*  `LookupPair`, `ReadPair` and `ReadSuccessorBasis` build the candidate
  of the pair, `ConfirmPair` compares it with the one the caller names.  Then the
  successor is read a second time (`ConfirmPair` its rows, `ReadSuccessorAgain` its item
  and Masters): the decision that `WritePair` writes is taken on this second reading,
  and the link holds the first.  `RecheckPair` follows a stale write; a replay is
  `ReplayRows` and `ReplayPair`, where `OfOneEvidence` asks that the two readings were
  the same.
- *In between.*  Between any two of these steps others may commit, because on SQLite
  `with_for_update` locks nothing and a read opens no write transaction.
- *Callers* ask for what they were shown (`AskDecision`, `AskReplacement`) or send
  a request again (`Resend`).
- *Configuration.*  The item and its Masters are those of `ItemConfiguration`, for the
  day of the inspection; `DisposeItem`, `EditMasters` and `ApproveMasters` are its steps.
  A Master may join a day, be followed by another one, or leave the day to nobody, and
  whatever happens to its history changes the evidence (`EffectiveMasters` has the
  version of the history, as the code has).

Abstractions.  Digests are the values they are taken of.  The list of differences
between the two results, and the reports, only read and are left out.

### HistoricalComparison

A reader: `SelectSide`, then `LookUpLinks` until no link leads further, `LoadStates`,
`LoadChildren`, `ShowResult` for each result, `EndSide`; first for the left range and
then, with the same cache, for the right one; whatever does not fit together refuses
the whole comparison.  The limits on the size of an answer only refuse and are left
out.  A link is proven by its rows, its samples, its decisions, and by `OfOneEvidence`
of `ResultReplacement`.

### BulkPanel, HistoryPanel

A handler or a continuation changes the state of the page; what depends on the
state (`StartPoll`, `Reset`, `ResetPanel`) runs when the page is rendered, and another
answer may come before.  Requests on their way are a set, served and delivered in any
order; an abort marks one as dead, which the server may serve all the same.  In
`HistoryPanel` a ticked box remembers the evidence that was on display, so that a
decision can be compared with what the user saw.

Abstractions.  Drawing, texts, and the poll of a finalization (the same as that of
`BulkPanel`) are left out.

### IntakeJobs

The manager keeps everything in memory: the queue, the registry and two locks.  The
registry's own lock is held for single reads and updates, so each of them is within
one action; the submission lock is held over several steps and is the variable
`lock`.

- *Clients.*  `SubmitCheck` evicts ended jobs and looks for room, `Stage` or
  `StageFails` writes the upload, `Put` makes the record and queues the job,
  `Answer` is the `get` with which `submit` ends, after the lock is given back.
- *Worker.*  `Take`, `Ingest`, then `CleanUp` and `Forget`, or `CleanUpFails`.  The
  removal of the file and the update of the record are two steps, since readers and
  submissions may come between them.
- *Shutdown.*  `Drain`, `Cancel` (`_cancel_queued_job`), `Cancelled` (the `None` that
  ends the worker), `Joined` or `JoinTimesOut`, `Sweep` for what is left, and
  `ShutdownEnds`.  The worker goes on taking jobs while shutdown drains.
- *Start* does nothing while a shutdown that timed out has not been repeated, since
  the manager still counts as started.

Abstractions.  A job is one submission.  Of the staged file the model keeps whether
file and directory are there; of the outcome only the status; what `ingest` does
is `Ingest`, with any outcome.  Which of the ended jobs is evicted is left open
(the code takes the one updated first).  The cancellation of one job, and the
removal of one file by `Sweep`, are one action with the update of the record: the
worker cannot touch these jobs, and a reader sees `PROCESSING` until the record is
updated.  A process that dies is not modelled: it takes all the state with it, and
nothing at the next start looks at the staging directory.

### Bounds and why they are enough

`MaxFaults` (exceptions) and `MaxRestarts` (crashes and shutdowns) bound a
behaviour; the proofs have no such bound on the safety properties.

*Import.*  The hazards are between two requests (a retry, a copy, a starved
batch), between two entries of a batch, and between one fault or crash and the
recovery that follows; the instances have two requests (three for the copies
hidden by an error), at most two entries each, one fault and one restart.
`RetryLimit` is the 3 of the code.  A queue of one reaches the full-queue paths.

*Long persistence.*  A race needs two threads; the jobs are two receipts of one
content, a partial and a held reading of the first receipt, and one candidate
that contradicts the first job.  Two faults let a failure fail to be recorded.

*Finalization.*  `final_race` has three submissions: one that creates, and two
that resume in a race with the worker, also between its reads and its writes.  One batch of two entries that share a
material is the smallest in which one entry is completed while the other blocks.

*Templates, specifications and bindings.*  A race needs two clients.  Three
revisions are the smallest history in which a successor has a predecessor and a
third revision that may be in its way (two for bindings, whose take-overs are those
of the specifications); three days have a day before, the day of, and a day after a
take-over.  The declared periods are an open one, one inside it, and (for templates)
one that ends with it.  Commands on histories begin when all identities are there:
before that, the identities are created in every order.  A run ends when no revision
number is left, so that deadlock is not checked.

*Registration and Long workflow.*  Two registrars and two templates are needed for
a collision; of the four workbooks one has another title, one no date, one another
sample.  `load` starts with one approved and one reviewed template that both read a
workbook, and four bindings: a first revision for a row of the first template, two
alternative second ones, and one for the second template.  So both catalogs change
under a confirmation; and as one of the second revisions is over before the day of
inspection, that day can get back the catalog it had.

*Candidates.*  `judge` and `candidate` enumerate inputs (`judge` as jobs that were
loaded with them): one piece of evidence missing or none, every kind of sample, values on and beyond either limit, and rows
that disagree; two rows, so that they can disagree about model and supplier.

*Manual intake.*  A queue of one and a registry of two are the smallest that the
constructor allows; three jobs fill them, and the third needs an eviction.  One
file operation that fails or one join that times out, and two starts, so that a
manager works again after a shutdown.  `Repeats` is FALSE: a second shutdown after
one that timed out is left out (see "Observed").

*Store.*  Two preservations of the same bytes, which share a blob; two failing
operations, so that one can fail and then its clean-up; one kill, one edit, which makes
a second content.  `intake_stores` adds a second store object.

*Package.*  Three invocations: an install, an update of it, and one more that meets
what they left; two versions and two data directories.

*Review and replacement.*  Two requests race, three in all (with retries); three
results are a chain of the allowed length and one beyond; one is within the limits
of both Masters, the others only within those of the earlier one.  The configuration
changes while somebody can read it, at most two times in a history (`MaxEdits`; beside a
comparison a second time only between the two readings of a successor), and what changes
no candidate is left out (`Configuring`, `Shown`).  Where requests race, only the
result within the limits is also decided as suspect, and of the two with the same
evidence one is only decided through a replacement.  With `ChainLimit = 2` and three results, no request of the run is answered
that a chain is too long or a cycle: these two branches of `ChainIssues` are modelled and
covered by the proofs, but not reached by TLC.  The comparison runs
beside commands that come one by one, since a reader sees only what they commit, and
its ranges share a result.

*Panels.*  One choice of files, one change of project, one lost answer; two batches,
one pair, one change of the evidence (told by its version), one answer that fails or is
about something else.  A decision on another pair than the one that was ticked is
therefore out of reach of the run.  With them an answer of every request can come before and after each of the
changes.

## 3. Runs

| Run | Instance | Shows |
|---|---|---|
| `bulk_crash` | two requests with one key, two copies of a file; one tampered file, one poisoned link, one fault, one restart | `AcceptedFileIsKept`, `ReceiptProvesUpload`, `DispatchedOnce`, `VerdictIsExact`, `OneBatchPerKey`, and that `BulkImport` implements `DurableIntake` |
| `bulk_progress` | two batches with copies, revisions and other LOTs, a queue of one, one poisoned entry, one restart, fairness | `OneReadyPerLot`; every other batch finishes |
| `bulk_samebytes` | three submissions of one file | **violated**: finding 1 |
| `final_race` | three submissions of one batch of two entries, one fault, one restart | commands are settled, but for a resumption between a read and its verdict; completed entries and intent are kept |
| `final_callers` | a submission and its resumption, one entry that may be tampered with, another thread that confirms its material, one restart, fairness | what is shown as completed is in Long; tampered evidence is not; the command ends |
| `final_receipt` | the receipt fields the two writers really store | **violated**: finding 2 |
| `configuration` | six parts: `template`, `specs`, `bindings` (two clients, three revisions, three days), `register`, `judge`, `load` | each history implements `EffectiveHistory`, each specification `ItemConfiguration`, `AuditTellsAll`, `CatalogsTellAll`, `AmbiguityIsTold`, `PendingRowsAreBound`, `LoadedWasTrue` |
| `long_replay` | part `load` | **violated**: finding 3 |
| `intake_jobs` | four parts: `jobs`, `store`, `package`, `panel`, with fairness for jobs and panel | uploads are accounted for, final and processed; a receipt has its blob, a failure leaves only what its clean-up failed to remove; code survives, answers are true; late answers are dropped, an open batch is followed |
| `intake_stores` | two store objects over one root | **violated**: finding 4 |
| `results` | five parts: `long`, `candidate`, `review`, `history`, `panel` | no material is loaded twice; candidates are sound; decisions stand, chains do not branch, official results are proven, `DataTrust` is implemented; a comparison is evidence; decisions are what was confirmed |
| `review_retry` | one caller, three requests, a Master that changes between two readings | **violated**: finding 5 |

A part shares no state with the others and its behaviours are its own; parts share
a run because they are about the same thing and need no run of their own.

The other finalization runs give both receipts the same fields, as the tests do
when they seed a row with the receipt of its checkpoint; otherwise every entry
would be refused and nothing behind `Verify` would be explored.

### What the central properties say

- `IntakePromise`, `EffectivePromise`, `PromisesToReaders`, `ImplementsTrust` are
  refinements: commands, versions, races, queues and crashes disappear, and what
  is left is what a submitter, a reader of a history and a reader of official data
  may rely on.  `PromisesToReaders` is two: every history implements
  `EffectiveHistory`, and every specification, with its item and on every day, the
  `ItemConfiguration` that `DataReview` assumes (`ReviewsGetTheirMasters`).
- `CatalogsTellAll`: the checks of an approval are on an item and a Mapping revision
  that no version of the history protects.  The catalogs of every day load all the
  same, because a disposition is final and an approval of a template is never taken back.
- `AmbiguityIsTold`: two drafts can both be approved and make each other's workbook
  unreadable; whoever made it happen was told.
- `LoadedWasTrue`: a confirmation reads two catalogs in two sessions; what it loads
  is what both gave at one moment, the one at which it was shown.  It need not be
  what they give when it is confirmed: between the two sessions of the confirmation
  another template may make the workbook ambiguous, and a binding that is superseded
  for other days only can give the day its old catalog back.
- `PendingRowsAreBound`: the candidate and the repository decide with two different
  functions which binding a row has; what is loaded as pending satisfies both.
- `CommandIsSettled`: a command that has ended tells what became of its entries.  The
  worker reads a plan and then writes its verdict without a lock or a version, so there
  is an exception, and the property says that there is no other: entries that wait under
  a `BLOCKED` command were resumed between that read and that write (`late`).  Nothing
  waits under a `COMPLETED` one.
- `TamperedIsNotLoaded`: evidence that is rewritten before the worker checks its entry is
  never completed; the check and the completion are not one transaction, so that what is
  rewritten after the check is out of its reach (`Completing`).
- `FailureLeavesNothing`: when nobody is inside the store and no process was killed, a
  temporary file is there only if the clean-up of a failed preservation failed in turn,
  at or before that file, and a blob without a receipt only if the clean-up of a
  preservation that had made it failed.
- `DecisionsStand`: every decision ever stored can be replayed from the rows as they are
  now, and so can a replacement if and only if its evidence did not change between the
  two readings of its successor (`Moved`, finding 5).
- `AnswersAreTrue`: who is told that a request is stored asked for exactly that, decided
  on the rows it confirmed; a decision, and a replacement that is replayed, also on the
  item and the Master it confirmed.
- `AnswerIsEvidence`: what a comparison shows of either range fits together although it
  was read in many moments, and no replacement that moved is shown (but see "Observed").
- `CodeSurvives`, `ToldIsTrue`: whatever fails and whenever the tool is killed, a
  version that was verified is on the disk, and the answer says which.

### Fairness

*Import.*  `FairSpec` assumes weak fairness of the worker thread (it is one loop
that never waits without a timeout), of `Start` and `Exit` (the operator restarts
a server that is down; a stopping worker is joined), of each submission (a thread
that runs to its end), and of the expiry of a deferral (the clock).  No fairness
is assumed of faults, crashes, tampering or clients.  The deferral of a batch is
assumed not to expire while the worker is still in the pass that deferred it: the
delay is one second from `_stage_receipt_link_retry`, and a longer pass, or two
batches with endless link failures, can keep the others waiting in the code.
`EveryBatchFinishes` therefore speaks of one poisoned batch.

*Finalization.*  Weak fairness of the worker, of `Start`, of `Exit`, and of a
submission that has begun.  Two exceptions in a row (the mark of an entry fails,
then `_block_unexpected`, bulk_finalization.py l.431-440, fails too) leave a
command `PROCESSING` until the next start; `EveryCommandEnds` is checked without
faults.  Without the other caller it also holds with one, and TLC shows it violated
with two.

*Manual intake.*  Weak fairness of the worker, of a shutdown and of submissions that
have begun: they are threads of a process, `ingest` is assumed to return, and
the join has a timeout.  Nobody is bound to submit, to start or to shut down.

*Bulk panel.*  Weak fairness of the browser (renderings, effects and timers that are
due run), of the network (a request on its way is answered, or lost at most
`MaxLostAnswers` times, and answers are delivered), and of the batches (the server
ends what it accepted: `EveryBatchFinishes`).  No fairness of the user.

## 4. Proofs

*`BulkImportProofs`* proves `Spec => []IInv` for every set of requests, every
assignment of files, keys and suppliers, every queue capacity, retry limit,
number of faults and of restarts, from `ConstantsAssumption`.  The safety
properties alone are not inductive: that an unlinked entry keeps its file
needs to know where the worker is (it unlinks only after the receipt, or after
the end, of the entry in hand), that the entry in hand belongs to the batch in
hand and is claimed, that a submission in flight has its files, and that rows
exist exactly for committed batches.  `IInv` adds these as `ProcessInv`,
`SubmissionInv`, `CommittedInv` and `WorkerInv`; each action has one lemma.
`FinalityOfEnds` is the action property `TerminalIsFinal`, from the same
invariant.

What becomes of an entry is a second invariant on top of it, `ResultInv`.  What endangers
`OneReadyPerLot` is the moment between `Evaluate`, which compares a candidate with the
ready ones, and `Complete`, which writes its outcome.  `DecisionInv` says that the verdict
in the worker's hand is still true then (the ready candidates that claim its LOT have its
bytes), since nothing but the worker makes an entry ready.
`OutcomeInv` says that only an error ends an entry without its receipt.  With that,
`ImplementsIntake` is the refinement of `DurableIntake`: for every request, what it was
answered, which files were accepted, which are proven by a receipt and what was said of
them (`Accepted`, `ProofOf`, `OutcomeOf`, `VerdictOf`) changes as the abstract
specification allows, or not at all.  It needs that `None` is none of the outcomes
(`NoneAssumption`), as NULL is none of the words in the column.

*`LongPersistenceProofs`* proves `Spec => []LongInv` for every set of threads,
candidates and jobs, finite or not, and every relation between them, from `LongAssumption` and
`NoneAssumption`.  Why it is needed: that a material is written once follows from
there being one owner (`OwnerInv`), and that a job in hand can still be
materialised follows from what its thread remembers (`CallInv`): the job it
claimed owns its material, and an owner it saw finished is still finished when it
inserts.  `DataStep` says what any step may do to the jobs and the rows, `Memory`
that no step falsifies what another thread remembers; every other lemma argues
from these two, with one lemma per action.  `FinalJobsStay` is the action property
`JobsAreFinal`.

*`BulkFinalizationProofs`* proves that commands are settled, that what is shown as
completed is in Long, that an intent is kept, and that rewritten evidence is not loaded,
for every number of batches, entries, submissions, other callers of the Long persistence,
faults and restarts, from `FinalizationAssumption` and `LongConstants`.  The worker is one
of many callers of the Long persistence, so that the proof does not look into it:
`LP == INSTANCE LongPersistenceProofs` brings its theorems along, `SameSteps` and
`SamePersist` say that a step of this module is one of that, and `LongInv` is a conjunct
of `FinalizationInv` (`LongPart`).  `JobsAreFinal` is what `CompletedIsInLong` rests on:
an entry is marked on an answer that was true when it was given, and a job that is
loaded stays so.  The rest of `FinalizationInv` is what is needed to know that the answer
is about this entry: the plan of a batch is there with its command (`PlanInv`), what a
resumption read belongs to that batch (`ReadInv`), and what the worker holds is a command
that is there, an entry of it, and the call for its candidate (`WorkInv`).
Since the worker writes on what it read earlier, `WorkInv` also says what of that still
holds (`SeenTruly`): nothing but the worker completes or blocks an entry, so that an entry
it saw ended is ended, or was put back since and is in `late`; and an entry it is about to
write is still open.  So the exception of `CommandIsSettled` is exact.
`TamperedIsNotLoaded` is about a step; it needs that the evidence of an entry that was
rewritten stays so, and that nothing but `Verify`, which reads it, takes such an entry to
`Persist` (`Doubted`).

*`ConfigurationProofs`* is about both kinds of history.  For `MappingTemplates` it proves `Spec => []MappingInv` for every number of
clients and revisions, every calendar and every set of declared periods, from
`PeriodsAssumption` and `MappingAssumption`.  That periods are disjoint is not
inductive: an approval writes on the strength of checks made earlier.
`CommandInv` says that what a client read still holds as long as the history has
the version that it read, and each commit begins by comparing that version.
`RowInv` says that a resolved end comes from a decision, so that the second
decision about a predecessor, which `Decided` refuses, is the only way to find one;
this is what makes the audit of a supersession true.  `EffectivePeriodsProofs` has
the facts about periods: `ApprovalKeepsDisjoint`, `SupersessionKeepsDisjoint` and
what readers see of each change.  `EffectivePromiseHolds` is the refinement:
`Approve` and `Supersede` are the steps of the same name of `EffectiveHistory`, and
every other step is a stutter.

For `MasterConfig` it proves `CatalogsTellAll` and `PromisesToReaders` for
every number of administrators, items, histories and revisions, from
`ConfigAssumption` and `PeriodsAssumption`.  `ConfigInv` has two halves.  `HistoryInv`:
the periods of a history are disjoint, a resolved end comes from a take-over, and
what is approved could be approved now.  `OrderInv`: what an order read of the rows
(`StillSo`) holds as long as the history has the version it read, whereas
`Approvable`, which no version of the history protects, holds whatever the versions
are; `ItemsStep` is why: a disposition is written over a candidate only, as the
version of the item is compared, and an approval of a Mapping revision is never taken
back.  The facts about rows alone (`SoundApproval`, `SoundTakeOver`) rest on
`EffectivePeriodsProofs`, as those of the templates do.

`ReviewsAreServed` is the seam to data review.  Seen from one day, an approval adds its
revision to the day or to none (`ApprovalStanding`); a take-over puts its revision in the
place of its predecessor, or ends that one and leaves the day to nobody
(`TakeOverStanding`); a draft and a review show in the version only.  That
at most one revision is in force (`OnePerDay`), and that a disposition is written over a
candidate only, come from `ConfigInv`.

*`LongWorkflowProofs`* proves `AmbiguityIsTold`, `LoadedWasTrue` and `PendingRowsAreBound`
for every number of registrars, loaders, templates and bindings, every workbook and every
selection of finitely many rows (`RegistrationAssumption`; a request lists them).
`RegistryInv` and `AskedInv` say that templates keep their design (`Develops`): of a
template only its status and what was told of it change, and what is approved stays
approved.  *Ambiguity*: two approved templates that collide after a step collided before
it, unless the step approved one of them; whoever did takes a second look (`Reload`), and
finds the other.  *What was true*: once two
templates claim a workbook they always do (`Claimed`), because an approval is never taken
back, so that a confirmation which still finds one template proves that there was no other
one at the showing (`WasRead`, `HoldsSo`); the bindings need no such argument, since the
showing reads them at that very moment.  *What is
pending*: `CandidateIsBound` is about the pure functions, for every preview, every intake
and every catalog: if no row is held for lack of a binding, `TrustedBinding` gives each
one it.

*`IntakeProofs`* has the components that take in files, and the panel that shows them.

*Store.*  It proves `ReceiptHasBlob` and `FailureLeavesNothing` for every
number of preservations, contents, failing operations, kills and edits of a source,
from `StoreAssumption` and `OneStore`: all preservations go through one store object.
`OneStore` is an assumption of the theorems and not of the module, as the code does
not have it: with two store objects finding 4 is a behaviour.  That a receipt has its
blob is not inductive: a failed preservation removes a blob after it looked for
receipts, and another one writes a receipt after it looked for the blob.  `LockInv`
(who is inside holds the lock, hence at most one) and `FilesInv` (what was found when
it looked is still so) close the gap.  `UndoneInv` accounts for what is there without a
receipt: every temporary file, and every such blob, is one that its preservation is still
to use or to remove, or one of which a clean-up is recorded as failed.  So the lock is the only thing that two
store objects lack.

*Manual intake.*  It proves `UploadsAreAccounted` and `ShownIsFinal` for every set of
jobs, both capacities, every number of failing file operations, of starts, and of
shutdowns that time out and are called again (`Repeats` may be TRUE), from
`IntakeAssumption`.  `UploadsAreAccounted` is not inductive: that a waiting job has its
file needs to know who may still remove it.  `IntakeInv` adds who holds the submission
lock and what shutdown and the worker know of each other (`Exclusive`); that a job which
is `QUEUED` is in the queue, or was drained by shutdown and is not yet treated
(`QueueInv`); that a record names a path as long as there is something on the disk, so
that it is not evicted, and that the worker's job is such a one (`JobInv`, `WorkerInv`);
and that the registry and the queue stay below their capacities while somebody was
promised room (`RoomInv`), because only the holder of the lock adds to either.  The one
action that adds to the queue without having checked it, `Cancelled`, finds it empty.

*Package.*  `CodeIsNeverLost` and `ToolTellsTheTruth`, for every number of invocations,
versions and data directories and every failure and kill, from `PackageAssumption`.
`CodeSurvives` only says that something is left; `PackageInv` says where.  `BeforeInv`: at
every step, the tree that was installed before is in its place, or under the name of the
backup or of the tombstone, and nothing else has been put where it must go back to.
`AcceptedInv`: an update is never to an older version, and what is relied upon after the
commit point is the new tree.  `SpareInv`: as long as the new tree may still be taken
back, a tree that keeps the promise is somewhere else.

*Bulk panel.*  `NoLateAnswerIsShown`, for every number of choices, batches, scopes and lost
answers.  `PanelInv` says what a request remembers of the page that sent it: one of the
present generation was sent for the scope that is rendered, so that the comparison of
generations is enough for what is shown to belong to it (`ShownInv`).

*`ResultsProofs`* is about the corrections of results: `ReviewCandidate`, `DataReview`,
`ResultReplacement` and `HistoricalComparison`.  It proves the five properties that
`results` checks of them, and the refinement `ImplementsTrust`, for every number of
results, callers, requests and readings, every configuration and every limit of a
chain, from `ReplacementAssumption`, `ComparisonAssumption` and those of `DataReview`.
None is inductive.  `ReviewInv` has four parts.  `TablesInv`: every result is as it
was loaded, or shows the one decision about it, or that decision and the one link from
it; two decisions never share a command, two links never an end.  `CallersInv`: for every step of a request, what its session
may rely on (`Knows`): what it read is what is stored, unless the version has moved on
since, and the request it was made for is one that a session really makes.
`EvidenceInv`: a decision was taken on the candidate its request confirmed, a link holds
the pair its request confirmed, and the decision on a successor was taken on the same
rows, if not on the same item and Masters.  `TrueAnswer` of every caller, from which
`AnswersAreTrue` follows.  All four are needed: a write is allowed on what was read, and only the compare and swap of the
versions turns that into what is stored.  A write that goes through is a `DecisionLands`
or a `PairLands`, stated without the caller, and every property, and every step of
`DataTrust`, is argued from these two.  `CandidateSound` says, for every reading of a
result and every configuration, that what is fit for VALID is evaluated, and judged as
its Master revision says.

`ConfigurationOK` is the part of `CallersInv` about the surroundings: `ItemConfiguration`
never has two Masters in force (`ConfigurationStepOK`), which `MasterConfig` keeps.
`ShownCandidates` follows: the candidate a caller is shown, and the one that a decision
rebuilds from rows, item and Masters read at different moments, are both sound.

The comparison reads while all this happens.  `ComparisonInv` says what its cache may be
trusted with: known links are stored, both ends of a link that is not fresh are loaded,
and what was once proven stays proven (`CacheInv`); whatever was looked up has all its
links, since no later command gives a settled result a predecessor (`LookupInv`); and
what is shown stays true forever (`ShownInv`), as the rows it rests on are settled.

Of the panel, `DecisionsAreConfirmed` says that what is decided is what the user had
ticked.  `HistoryPanelInv`: what is ticked is what is on display; nothing is ticked while
evidence is being loaded; and at most one request is alive, so that its answer cannot
replace the evidence under a box.

*Only model-checked.*  Liveness (`EveryBatchFinishes`, `EveryCommandEnds`, `EveryJobEnds`,
`OpenBatchIsFollowed`) is out of the prover's reach.  The five violations are single
behaviours, which TLC shows; the theorems about the store assume the one object that
`intake_stores` does without.  `CandidatesAreSound` is the enumeration of inputs in
`MCResults`; the theorem `CandidateSound` says the same of every input, and
`ShownCandidates` of every candidate of a behaviour.  What a recursive
definition computes for every input cannot be proved either: that a chain is as long as
`ResultReplacement` counts it is only checked on the chains of the run.

## 5. Findings

1. *A copy hidden by an error* (`bulk_samebytes`).  `_complete` looks at the first
   earlier entry with the same bytes only.  If that one ended as an error without a
   receipt, two further copies both become ready candidates.
2. *The receipts of row and checkpoint differ* (`final_receipt`).
   `_validated_checkpoint` compares the receipt of the checkpoint (twelve fields)
   with the one of the row (five fields, `_receipt_payload`), so that an entry that
   was really imported is refused as a mismatch although nothing was rewritten.
3. *A replay is refused* (`long_replay`).  `claim` compares the basis of an exact
   replay with the stored one, and the basis holds the revision of the whole binding
   catalog of the day.  Once a binding for a row of another template is approved, the
   same workbook with the same selections is answered with an integrity error;
   ADR 0002 calls exact replay idempotent.
4. *A receipt without its original* (`intake_stores`).  A failed preservation removes
   the blob it made unless a receipt is there.  The lock belongs to the store object;
   `main.py` makes several over one root, so that another preservation may have found
   the blob and be about to write its receipt.
5. *A replacement that can never be replayed* (`review_retry`).  `_decide_once` confirms
   a pair, reads the basis of the successor again (`result_replacement.py` l.276-283) and
   decides on that second candidate, compared with nothing but itself (l.859-903), while
   the stored link keeps the digest of the first.  If the item or a Master changes in
   between, the replacement is stored and answered as decided, on a Master that nobody
   confirmed; `_replay` (l.566-567) and the comparison then refuse it for ever.  The impact
   document says "Exact retry replays".

### Observed

Noticed while modelling; no finding, since nothing in the repository says otherwise
or no run is spent on it.

- *Finalization.*  An exception in `_finish_command` leaves a `BLOCKED` command with
  completed entries only, which a resumption repairs.  A resumption that commits after
  the worker has read the plan, and before it writes its verdict (`_finish_command`,
  `_block_unexpected`), is answered and lost: its entries wait under a command that is
  `BLOCKED` and that nothing sweeps, until it is submitted once more.  A resumption that read
  blocked rows before another one did can put an entry the worker holds back to
  `PENDING`, whereupon the worker's mark fails and the command is blocked; a
  completed command can be queued again by such a resumption, which does no harm.
- *Long.*  An owner that failed makes every later receipt of its material
  `RECOVERY_REQUIRED` (ADR 0002 says so).  The text of a formula is taken for a
  model or a LOT (`_exact_text_value`, long_candidate.py l.239).  A candidate that was
  answered `LONG_CANDIDATE_STALE` has to be shown again before it can be confirmed.
- *Histories.*  A successor with a shorter period than its predecessor leaves the days
  after it to nobody.
- *Manual intake.*  A second `shutdown` after one that timed out puts a `None` into
  the queue although the worker has ended by then; the worker of the next `start`
  takes it and ends, and uploads are accepted that are never processed (the run has
  `Repeats = FALSE`).  A submission can be answered with "not found" although it was
  accepted, when its job ends and is evicted before the final `get`; a job whose
  staged file cannot be removed is shown as `PROCESSING`, and keeps its place in the
  registry, until shutdown; a refused upload whose staged file cannot be removed
  leaves a file that no record names.
- *Review.*  An identical request sent twice at once: the slower copy looks for its
  command or pair before, and reads the rows after, the first one commits, and is told
  `DATA_REVIEW_CANDIDATE_STALE` (or that a pair is ineligible) although exactly its
  decision is stored.  Only a write that fails as stale looks for the command again
  (`data_review.py` l.297), while the impact document (l.512) calls a command id
  idempotent for the same payload.
- *Replacement.*  A result may become `SUSPECT` without samples (policy
  `ZERO_ALLOWED`, `long_candidate.py` l.401-411).  It is offered as a predecessor, but the
  table of replacements requires a measurement on either side, so that every attempt is
  refused as stale.
- *Comparison.*  A result that both ranges contain, looked up for the left side while
  pending and made VALID by a replacement before the right side is read, is shown on
  the right without the chain that made it so: the shared cache says that it has no
  link.  A predecessor may be shown as VALID on the left and its successor as VALID on the
  right, each as it was when it was read; `AnswerIsEvidence` asks for agreement within a
  side only.
- *Bulk panel.*  `api/bulk.ts` (213, 240) turns an abort while a body is read into an
  error of its own, so that the panel shows it and stops to poll; the clients of
  configuration and Mapping pass an abort on.  A poll's answer that comes between a
  reload's answer and the rendering overwrites the batch that was reloaded.  An error
  that is shown while a command runs leaves the polling stopped after the command.
- *History panel.*  The selection is not disabled while a replacement candidate loads
  (725, 735), and the candidate is accepted against the pair of the request (316): it
  can be shown under another selection, and is decided as the pair it names.  While a
  comparison loads, results of the old one can still be selected.

## 6. Plan

Done, in the order of importance: import, Long persistence, finalization, templates,
intake; then the store, registration, preview, candidate and Long workflow; Master
configuration; review, replacement and comparison; the package tool; two panels; the
configuration under the reviews.
What is worth adding, in this order:

1. *Composition.*  The store as the `Preserve` of the import and the `ingest` of the
   intake.  Each side of these seams has its theorems; what is missing is that the one
   keeps what the other assumes, as `BulkFinalizationProofs` shows of the Long
   persistence and `ReviewsAreServed` of the configuration under `DataReview`.
2. *Faults.*  Two invocations of the package tool at once; a killed process of the
   intake, whose staged files nothing looks for.

*Not modelled, and why.*  The workbook scanner parses spreadsheets: its outcome is a
free choice where a modelled component calls it.  The read model of the Mapping
workspace, mappings proposed by an AI, reports and listings only read.  The contents
of Audit rows, schema, HTTP parsing and rendering are I/O; what a transaction writes is
one action of a module, and what it reads before is another wherever others can commit
in between.  What Long rows contain, beyond the row groups and bindings of
`LongCandidate`, are conversions of one value to another without a state.  The other
panels are forms around one request each, with the aborts and generations of the two
that are modelled.  The order in which the application starts and stops its three
managers is left out; they share nothing in memory.  Build and gate scripts are
sequential developer tooling.  An exception other than `SQLAlchemyError` in
`_block_unexpected` would end the finalization worker; it is left out because no
statement in that function raises one.
