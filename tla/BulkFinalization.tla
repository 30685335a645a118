--------------------------- MODULE BulkFinalization ---------------------------
(***************************************************************************)
(* The finalization of a terminal Bulk batch: an explicit command loads    *)
(* the Long rows of all its ready candidates.                              *)
(*                                                                         *)
(* A client submits one command for a batch; its rows are the command and  *)
(* a plan of the eligible entries.  One worker thread takes commands from  *)
(* a bounded queue and, for each entry of the plan, checks the evidence    *)
(* that the import left, confirms the rebuilt candidate with the Long      *)
(* persistence (module LongPersistence, which other threads call too) and  *)
(* marks the entry.  A blocked command is resumed by submitting it again.  *)
(* Rows survive a crash, the queue does not.  A transaction reads without  *)
(* a lock and writes rows by their identity alone: where another one can   *)
(* matter in between, its reads and its writes are two actions.            *)
(***************************************************************************)
EXTENDS Naturals, Sequences, FiniteSets

CONSTANTS
  Batches,        \* terminal batches with ready candidates
  EntriesOf,      \* the eligible entries of a batch, by ordinal
  CandidateOf,    \* the Long candidate of an eligible entry
  Requests,       \* submissions of a finalization
  Asks,           \* what a submission asks: [batch, reason]
  QueueCapacity,  \* bound of the in-process queue
  ReceiptFields,  \* the fields of a receipt in the prepared checkpoint
  LinkedFields,   \* the fields of a receipt in the row of the entry
  Tamperable,     \* entries whose rows may be rewritten by others
  OthersConfirm,  \* candidates that other threads confirm
  MaxRestarts,    \* bound: crashes and shutdowns in a behaviour
  \* Long persistence; one of its callers is the worker
  Callers, Worker, Candidates, Jobs, JobOf, SourceOf, MaterialOf, LoadOf, MaxFaults, None

Range(s) == {s[i] : i \in DOMAIN s}
Entries == UNION {Range(EntriesOf[b]) : b \in Batches}

ASSUME FinalizationAssumption ==
  /\ Worker \in Callers
  /\ \A r \in Requests : Asks[r].batch \in Batches
  /\ \A b \in Batches : \A i, j \in DOMAIN EntriesOf[b] :
       EntriesOf[b][i] = EntriesOf[b][j] => i = j
  /\ \A a, b \in Batches : a # b => Range(EntriesOf[a]) \cap Range(EntriesOf[b]) = {}
  /\ CandidateOf \in [Entries -> Candidates]
  /\ OthersConfirm \subseteq Candidates /\ Tamperable \subseteq Entries
  /\ QueueCapacity \in Nat \ {0}
  /\ MaxRestarts \in Nat
  /\ None \notin Batches /\ None \notin Entries

VARIABLES
  \* clients: progress of each submission, the rows it read as blocked, and the
  \* commands its sweep found
  request, read, found,
  \* database: what has been done to the evidence of each entry, commands in
  \* the order of their creation, their rows, the rows of their plans
  evidence, order, command, plan,
  \* process
  mode, queue, scheduled,
  \* worker: where it is, command and entry in hand, code of its refusal, and the
  \* plan as it read it before it gives its verdict
  pc, cur, ent, code, seen,
  \* history: entries that a resumption put back between that read and the verdict
  late,
  restarts,
  \* Long persistence
  source, job, rows, call, faults

Long == INSTANCE LongPersistence
ASSUME LongConstants == Long!LongAssumption /\ Long!NoneAssumption

clientVars == <<request, read, found>>
dataVars   == <<evidence, order, command, plan>>
procVars   == <<mode, queue, scheduled>>
workVars   == <<pc, cur, ent, code, seen>>
longVars   == <<source, job, rows, call>>
boundVars  == <<restarts, faults>>
vars == <<clientVars, dataVars, procVars, workVars, late, longVars, boundVars>>

Open     == {"PENDING", "PROCESSING"}
Live     == {"QUEUED", "PROCESSING"}
InFlight == {"create", "blocked", "resume", "enqueue", "sweep", "found"}
Codes    == {"BASIS_STALE", "SOURCE_PROOF_MISMATCH", "CHECKPOINT_INTEGRITY", "CANDIDATE_STALE",
             "INTEGRITY_ERROR", "LONG_FAILED", "LONG_NOT_PENDING", "UNEXPECTED_FAILURE"}
Statuses == Open \cup {"NONE", "COMPLETED", "BLOCKED"}
Unread   == [e \in Entries |-> "NONE"]

Waiting     == [status |-> "PENDING", code |-> None]
Blocked(c)  == [status |-> "BLOCKED", code |-> c]
EntriesIn(b) == Range(EntriesOf[b])

TypeOK ==
  /\ request \in [Requests -> InFlight \cup {"idle", "done", "refused", "lost"}]
  /\ read \in [Requests -> SUBSET Entries]
  /\ found \in [Requests -> Seq(Batches)]
  /\ evidence \in [Entries -> {"sound", "row", "checkpoint"}]
  /\ order \in Seq(Batches)
  /\ command \in [Batches -> [status : Live \cup {"NONE", "COMPLETED", "BLOCKED"},
                              reason : {Asks[r].reason : r \in Requests} \cup {None}]]
  /\ plan \in [Entries -> [status : Statuses, code : Codes \cup {None}]]
  /\ mode \in {"up", "stopping", "down"}
  /\ queue \in Seq(Batches) /\ Len(queue) <= QueueCapacity
  /\ scheduled \in SUBSET Batches
  /\ pc \in {"off", "idle", "open", "next", "claim", "verify", "await", "block", "completed",
             "blocked", "finish", "finishing", "recover", "recovering", "release", "sweep"}
  /\ cur \in Batches \cup {None}
  /\ ent \in Entries \cup {None}
  /\ code \in Codes \cup {None}
  /\ seen \in [Entries -> Statuses] /\ late \in SUBSET Entries
  /\ restarts \in 0 .. MaxRestarts
  /\ Long!LongTypeOK

Init ==
  /\ request = [r \in Requests |-> "idle"]
  /\ read = [r \in Requests |-> {}] /\ found = [r \in Requests |-> <<>>]
  /\ evidence = [e \in Entries |-> "sound"]
  /\ order = <<>>
  /\ command = [b \in Batches |-> [status |-> "NONE", reason |-> None]]
  /\ plan = [e \in Entries |-> [status |-> "NONE", code |-> None]]
  /\ mode = "down" /\ queue = <<>> /\ scheduled = {}
  /\ pc = "off" /\ cur = None /\ ent = None /\ code = None /\ seen = Unread
  /\ late = {}
  /\ restarts = 0
  /\ Long!Init

-----------------------------------------------------------------------------
(* The schedule.                                                           *)

\* _enqueue.
Enqueue(b) ==
  IF b \in scheduled \/ Len(queue) >= QueueCapacity
    THEN UNCHANGED <<queue, scheduled>>
    ELSE queue' = Append(queue, b) /\ scheduled' = scheduled \cup {b}

\* recoverable_command_ids: commands that are not done, the oldest first.
Recoverable == SelectSeq(order, LAMBDA b : command[b].status \in Live)

\* The loop of _sweep_recoverable, over a queue q and a schedule held: whatever
\* is not scheduled is queued until the queue is full.
EnqueueAll(commands, q, held) ==
  LET wanted == SelectSeq(commands, LAMBDA b : b \notin held)
      free   == QueueCapacity - Len(q)
      taken  == SubSeq(wanted, 1, IF Len(wanted) < free THEN Len(wanted) ELSE free)
  IN  queue' = q \o taken /\ scheduled' = held \cup Range(taken)

-----------------------------------------------------------------------------
(* Submission.  What submit reads is not locked until its first write: two *)
(* submissions of one batch can both find no command, or both find it      *)
(* blocked, and write in any order with the worker in between.  A sweep    *)
(* reads the commands first and queues them afterwards.                    *)

Batch(r) == Asks[r].batch
SameIntent(r) == command[Batch(r)].reason = Asks[r].reason
Continue(r, label) == request' = [request EXCEPT ![r] = label]

\* _verify_small_bulk_evidence: what the row of an entry says of its receipt,
\* Mapping and candidate is what their digests were taken of.
SmallEvidence(e) == evidence[e] # "row"

\* _candidate, against the digest that the client sends: the rows of the batch
\* are those it looked at.  A checkpoint enters by its recorded digest alone.
CandidateUnchanged(b) == \A e \in EntriesIn(b) : SmallEvidence(e)

\* submit, up to the command.
SubmitRead(r) ==
  LET b == Batch(r)
  IN  /\ mode = "up" /\ request[r] = "idle"
      /\ IF ~ CandidateUnchanged(b)
           THEN Continue(r, "refused")
         ELSE IF command[b].status = "NONE"
           THEN Continue(r, "create")
         ELSE IF ~ SameIntent(r)
           THEN Continue(r, "refused")
         ELSE Continue(r, CASE command[b].status \in Live -> "enqueue"
                            [] command[b].status = "BLOCKED" -> "blocked"
                            [] command[b].status = "COMPLETED" -> "sweep")
      /\ UNCHANGED <<read, found, dataVars, procVars, workVars, late, longVars, boundVars>>

\* submit, the entries of a command it found blocked.
SubmitBlocked(r) ==
  /\ request[r] = "blocked"
  /\ Continue(r, "resume")
  /\ read' = [read EXCEPT ![r] = {e \in EntriesIn(Batch(r)) : plan[e].status = "BLOCKED"}]
  /\ UNCHANGED <<found, dataVars, procVars, workVars, late, longVars, boundVars>>

\* _concurrent_replay: the submission that comes second goes on with the
\* command of the first if it asks the same, and is refused otherwise.
ReplayConcurrent(r) ==
  /\ Continue(r, IF SameIntent(r) THEN "enqueue" ELSE "refused")
  /\ UNCHANGED dataVars

\* submit, the insertion.  One command per batch.
SubmitCreate(r) ==
  LET b == Batch(r)
  IN  /\ request[r] = "create"
      /\ IF command[b].status # "NONE"
           THEN ReplayConcurrent(r)
           ELSE /\ Continue(r, "enqueue")
                /\ order' = Append(order, b)
                /\ command' = [command EXCEPT ![b] = [status |-> "QUEUED",
                                                      reason |-> Asks[r].reason]]
                /\ plan' = [e \in Entries |-> IF e \in EntriesIn(b) THEN Waiting ELSE plan[e]]
                /\ UNCHANGED evidence
      /\ UNCHANGED <<read, found, procVars, workVars, late, longVars, boundVars>>

\* The rows that were read as blocked are pending again, whatever they are now.
Resumed(r) ==
  /\ late' = IF pc \in {"finishing", "recovering"} /\ cur = Batch(r) THEN late \cup read[r]
             ELSE late
  /\ command' = [command EXCEPT ![Batch(r)].status = "QUEUED"]
  /\ plan' = [e \in Entries |-> IF e \in read[r] THEN Waiting ELSE plan[e]]
  /\ UNCHANGED <<evidence, order>>

\* Fault: nothing keeps a completed row from being put back.
ResumeUnchecked(r) ==
  /\ request[r] = "resume"
  /\ Continue(r, "enqueue") /\ read' = [read EXCEPT ![r] = {}]
  /\ Resumed(r)
  /\ UNCHANGED <<found, procVars, workVars, longVars, boundVars>>

\* submit, the resumption of a blocked command.  A row that was completed
\* meanwhile keeps its Long job, which the shape constraint of a pending row
\* refuses: the transaction is rolled back and the command replayed.
SubmitResume(r) ==
  /\ request[r] = "resume"
  /\ Continue(r, "enqueue") /\ read' = [read EXCEPT ![r] = {}]
  /\ IF \E e \in read[r] : plan[e].status = "COMPLETED" THEN UNCHANGED <<dataVars, late>>
     ELSE Resumed(r)
  /\ UNCHANGED <<found, procVars, workVars, longVars, boundVars>>

SubmitEnqueue(r) ==
  /\ request[r] = "enqueue"
  /\ Continue(r, "sweep")
  /\ Enqueue(Batch(r))
  /\ UNCHANGED <<read, found, dataVars, mode, workVars, late, longVars, boundVars>>

\* _sweep_recoverable of a client: the reads, then the queue.
SubmitSweep(r) ==
  /\ request[r] = "sweep"
  /\ Continue(r, "found")
  /\ found' = [found EXCEPT ![r] = IF mode = "up" THEN Recoverable ELSE <<>>]
  /\ UNCHANGED <<read, dataVars, procVars, workVars, late, longVars, boundVars>>

SubmitDone(r) ==
  /\ request[r] = "found"
  /\ Continue(r, "done") /\ found' = [found EXCEPT ![r] = <<>>]
  /\ EnqueueAll(found[r], queue, scheduled)
  /\ UNCHANGED <<read, dataVars, mode, workVars, late, longVars, boundVars>>

\* The database fails before the commit.
SubmitFails(r) ==
  /\ request[r] \in {"create", "blocked", "resume"}
  /\ faults < MaxFaults /\ faults' = faults + 1
  /\ Continue(r, "refused") /\ read' = [read EXCEPT ![r] = {}]
  /\ UNCHANGED <<found, dataVars, procVars, workVars, late, longVars, restarts>>

Submit(r) ==
  \/ SubmitBlocked(r) \/ SubmitCreate(r) \/ SubmitResume(r)
  \/ SubmitEnqueue(r) \/ SubmitSweep(r) \/ SubmitDone(r)

-----------------------------------------------------------------------------
(* The worker.                                                             *)

Aside == UNCHANGED <<clientVars, mode, longVars, boundVars>>
Alone == Aside /\ UNCHANGED <<seen, late>>

Take ==
  /\ mode = "up" /\ pc = "idle" /\ queue # <<>>
  /\ cur' = Head(queue) /\ queue' = Tail(queue) /\ pc' = "open"
  /\ UNCHANGED <<dataVars, scheduled, ent, code>> /\ Alone

\* _sweep_recoverable of the worker, which alone ends commands: after each
\* command, and while its queue is empty.
Sweep ==
  /\ \/ pc = "sweep"
     \/ pc = "idle" /\ queue = <<>> /\ mode = "up"
  /\ IF mode = "up" THEN EnqueueAll(Recoverable, queue, scheduled)
     ELSE UNCHANGED <<queue, scheduled>>
  /\ pc' = "idle"
  /\ UNCHANGED <<dataVars, cur, ent, code>> /\ Alone

\* The commands that exist and have not ended.
LiveCommands == {b \in Batches : command[b].status \in Live}

\* _process_command.
OpenCommand ==
  /\ pc = "open"
  /\ IF cur \notin LiveCommands
       THEN pc' = "release" /\ UNCHANGED command
       ELSE pc' = "next" /\ command' = [command EXCEPT ![cur].status = "PROCESSING"]
  /\ UNCHANGED <<evidence, order, plan, queue, scheduled, cur, ent, code>> /\ Alone

\* The rows of the plan that are still to be done, and the one of lowest ordinal.
Pending(b) == {e \in Entries : e \in EntriesIn(b) /\ plan[e].status = "PENDING"}
IsFirstPending(e, b) ==
  /\ e \in Pending(b)
  /\ \E i \in DOMAIN EntriesOf[b] :
       EntriesOf[b][i] = e /\ \A k \in 1 .. i - 1 : EntriesOf[b][k] \notin Pending(b)

\* _claim_next: the row is read, and written whatever was resumed in between.
ReadNext ==
  /\ pc = "next"
  /\ IF mode # "up" \/ Pending(cur) = {}
       THEN pc' = "finish" /\ UNCHANGED ent
       ELSE pc' = "claim" /\ ent' \in {e \in Entries : IsFirstPending(e, cur)}
  /\ UNCHANGED <<dataVars, queue, scheduled, cur, code>> /\ Alone

ClaimNext ==
  /\ pc = "claim" /\ pc' = "verify"
  /\ plan' = [plan EXCEPT ![ent].status = "PROCESSING"]
  /\ UNCHANGED <<evidence, order, command, queue, scheduled, cur, ent, code>> /\ Alone

Refuse(c) == pc' = "block" /\ code' = c

\* Fault: the checkpoint is taken as it is.
VerifyNothing ==
  /\ pc = "verify"
  /\ IF evidence[ent] = "row" THEN Refuse("BASIS_STALE") /\ UNCHANGED longVars
     ELSE /\ Long!Confirm(Worker, CandidateOf[ent])
          /\ pc' = "await" /\ UNCHANGED code
  /\ UNCHANGED <<clientVars, dataVars, procVars, cur, ent, seen, late, boundVars>>

\* _verify_rebuilt_checkpoint: the Mapping of now may give another candidate
\* than the one of the checkpoint.
RebuiltOtherwise == Refuse("CANDIDATE_STALE") /\ UNCHANGED longVars

\* The rebuilt candidate, being the prepared one, is confirmed.
ConfirmRebuilt ==
  /\ Long!Confirm(Worker, CandidateOf[ent])
  /\ pc' = "await" /\ UNCHANGED code

\* _validated_checkpoint: the evidence of the entry against its plan, the
\* receipt in the checkpoint against the one of the row, the checkpoint against
\* its digests.  Only then is the candidate rebuilt.
Verify ==
  /\ pc = "verify"
  /\ IF ~ SmallEvidence(ent) THEN Refuse("BASIS_STALE") /\ UNCHANGED longVars
     ELSE IF LinkedFields # ReceiptFields
       THEN Refuse("SOURCE_PROOF_MISMATCH") /\ UNCHANGED longVars
     ELSE IF evidence[ent] = "checkpoint"
       THEN Refuse("CHECKPOINT_INTEGRITY") /\ UNCHANGED longVars
     ELSE RebuiltOtherwise \/ ConfirmRebuilt
  /\ UNCHANGED <<clientVars, dataVars, procVars, cur, ent, seen, late, boundVars>>

\* The worker is one of the callers of the Long persistence.
Persist ==
  /\ pc = "await" /\ Long!Persist(Worker)
  /\ UNCHANGED <<clientVars, dataVars, procVars, workVars, late, boundVars>>

Answered == pc = "await" /\ call[Worker].pc = "idle"

LongRefuses ==
  /\ Answered /\ call[Worker].answer \notin {"COMPLETED_PENDING", "REUSED"}
  /\ Refuse(IF call[Worker].answer = "ERROR" THEN "LONG_FAILED" ELSE "LONG_NOT_PENDING")
  /\ UNCHANGED <<dataVars, queue, scheduled, cur, ent>> /\ Alone

\* _locked_plan: the entry in hand must still be the one that was claimed;
\* otherwise it raises, and nothing catches that before the worker.
LockPlan(label) ==
  /\ IF plan[ent].status = "PROCESSING" THEN pc' = label /\ UNCHANGED <<ent, code>>
     ELSE pc' = "recover" /\ ent' = None /\ code' = None
  /\ UNCHANGED <<dataVars, queue, scheduled, cur>> /\ Alone

\* Fault: any answer of the Long persistence completes the entry.
LockAnyway == Answered /\ call[Worker].answer # "ERROR" /\ LockPlan("completed")

\* _mark_completed and _mark_blocked, the read.
LockCompleted ==
  Answered /\ call[Worker].answer \in {"COMPLETED_PENDING", "REUSED"} /\ LockPlan("completed")

LockBlocked == pc = "block" /\ LockPlan("blocked")

\* The write: the row may have been put back since it was read.
Mark(row) ==
  /\ pc' = "next" /\ ent' = None /\ code' = None
  /\ plan' = [plan EXCEPT ![ent] = row]
  /\ UNCHANGED <<evidence, order, command, queue, scheduled, cur>> /\ Alone

MarkCompleted == pc = "completed" /\ Mark([status |-> "COMPLETED", code |-> None])
MarkBlocked   == pc = "blocked" /\ Mark(Blocked(code))

\* The worker reads the plan of its command, and forgets it after its verdict.
ReadPlan(label) ==
  /\ pc' = label
  /\ seen' = [e \in Entries |-> IF e \in EntriesIn(cur) THEN plan[e].status ELSE "NONE"]
  /\ late' = late \ EntriesIn(cur)

Verdict(status) ==
  /\ pc' = "release" /\ seen' = Unread
  /\ command' = [command EXCEPT ![cur].status = status]

Saw(statuses) == \E e \in Entries : seen[e] \in statuses

\* _finish_command, the reads.
ReadToFinish ==
  /\ pc = "finish" /\ ReadPlan("finishing")
  /\ UNCHANGED <<dataVars, queue, scheduled, cur, ent, code>> /\ Aside

\* Fault: a command of which any entry is completed is completed.
FinishEarly ==
  /\ pc = "finishing"
  /\ Verdict(IF Saw({"COMPLETED"}) THEN "COMPLETED"
             ELSE IF Saw({"BLOCKED"}) THEN "BLOCKED" ELSE "QUEUED")
  /\ UNCHANGED <<evidence, order, plan, queue, scheduled, cur, ent, code, late>> /\ Aside

\* The verdict is about the plan that was read, and is written over whatever
\* status the command has by now.
Finish ==
  /\ pc = "finishing"
  /\ Verdict(IF Saw(Open) THEN "QUEUED"
             ELSE IF Saw({"BLOCKED"}) THEN "BLOCKED" ELSE "COMPLETED")
  /\ UNCHANGED <<evidence, order, plan, queue, scheduled, cur, ent, code, late>> /\ Aside

\* _block_unexpected, the reads: a command that has ended is left alone.
ReadToRecover ==
  /\ pc = "recover" /\ ent' = None /\ code' = None
  /\ IF cur \notin LiveCommands THEN pc' = "release" /\ UNCHANGED <<seen, late>>
     ELSE ReadPlan("recovering")
  /\ UNCHANGED <<dataVars, queue, scheduled, cur>> /\ Aside

\* The entries that were open when they were read are blocked, with the command.
Recover ==
  /\ pc = "recovering" /\ Verdict("BLOCKED")
  /\ plan' = [e \in Entries |-> IF seen[e] \in Open THEN Blocked("UNEXPECTED_FAILURE")
                                ELSE plan[e]]
  /\ UNCHANGED <<evidence, order, queue, scheduled, cur, ent, code, late>> /\ Aside

\* Fault: the schedule keeps a command that was worked on.
ReleaseNothing ==
  /\ pc = "release" /\ pc' = "sweep" /\ cur' = None
  /\ UNCHANGED <<dataVars, queue, scheduled, ent, code>> /\ Alone

\* _worker, after a command.
Release ==
  /\ pc = "release" /\ pc' = "sweep" /\ cur' = None
  /\ scheduled' = scheduled \ {cur}
  /\ UNCHANGED <<dataVars, queue, ent, code>> /\ Alone

WorkerStep ==
  \/ Take \/ Sweep \/ OpenCommand \/ ReadNext \/ ClaimNext \/ Verify \/ Persist \/ LongRefuses
  \/ LockCompleted \/ LockBlocked \/ MarkCompleted \/ MarkBlocked
  \/ ReadToFinish \/ Finish \/ ReadToRecover \/ Recover \/ Release

\* An exception in the worker's own transactions.  One of the checks blocks the
\* entry; any other ends the command, and one that is raised while the command
\* is being blocked is only logged.
Raise ==
  /\ faults < MaxFaults /\ faults' = faults + 1
  /\ seen' = Unread
  /\ \/ /\ pc = "verify" /\ Refuse("INTEGRITY_ERROR")
        /\ UNCHANGED ent
     \/ /\ \/ pc \in {"open", "next", "claim", "block", "completed", "blocked", "finish",
                      "finishing"}
           \/ Answered
        /\ pc' = "recover" /\ ent' = None /\ code' = None
     \/ /\ pc \in {"recover", "recovering"}
        /\ pc' = "release" /\ UNCHANGED <<ent, code>>
  /\ UNCHANGED <<clientVars, dataVars, procVars, cur, late, longVars, restarts>>

-----------------------------------------------------------------------------
(* Other callers of the Long persistence, the process, the environment.    *)

OtherPersist(p) ==
  /\ mode # "down" /\ p # Worker
  /\ Long!Persist(p) \/ \E c \in OthersConfirm : Long!Confirm(p, c)
  /\ UNCHANGED <<clientVars, dataVars, procVars, workVars, late, boundVars>>

PersistFails(p) ==
  /\ faults < MaxFaults /\ faults' = faults + 1
  /\ Long!CallFails(p)
  /\ UNCHANGED <<clientVars, dataVars, procVars, workVars, late, restarts>>

\* start: what was being worked on is taken up again.
Start ==
  /\ mode = "down" /\ mode' = "up" /\ pc' = "idle"
  /\ plan' = [e \in Entries |-> IF plan[e].status = "PROCESSING" THEN Waiting ELSE plan[e]]
  /\ command' = [b \in Batches |-> IF command[b].status = "PROCESSING"
                                      THEN [command[b] EXCEPT !.status = "QUEUED"]
                                      ELSE command[b]]
  /\ EnqueueAll(Recoverable, <<>>, {})
  /\ UNCHANGED <<clientVars, evidence, order, cur, ent, code, seen, late, longVars, boundVars>>

\* What a process that ends forgets.
Gone ==
  /\ mode' = "down" /\ queue' = <<>> /\ scheduled' = {}
  /\ pc' = "off" /\ cur' = None /\ ent' = None /\ code' = None /\ seen' = Unread
  /\ request' = [r \in Requests |-> IF request[r] \in InFlight THEN "lost" ELSE request[r]]
  /\ read' = [r \in Requests |-> {}] /\ found' = [r \in Requests |-> <<>>]
  /\ Long!CallsDie
  /\ UNCHANGED <<dataVars, late, faults>>

\* shutdown: the worker ends its entry, the command stays for the next start.
Stop ==
  /\ mode = "up" /\ mode' = "stopping"
  /\ restarts < MaxRestarts /\ restarts' = restarts + 1
  /\ UNCHANGED <<clientVars, dataVars, queue, scheduled, workVars, late, longVars, faults>>

Exit ==
  /\ mode = "stopping" /\ pc = "idle"
  /\ Gone /\ UNCHANGED restarts

Crash ==
  /\ mode # "down"
  /\ restarts < MaxRestarts /\ restarts' = restarts + 1
  /\ Gone

\* Something else rewrites the row of an imported entry, or its checkpoint.
Tamper(e, part) ==
  /\ evidence[e] = "sound"
  /\ evidence' = [evidence EXCEPT ![e] = part]
  /\ UNCHANGED <<clientVars, order, command, plan, procVars, workVars, late, longVars, boundVars>>

Next ==
  \/ \E r \in Requests : SubmitRead(r) \/ Submit(r) \/ SubmitFails(r)
  \/ WorkerStep \/ Raise
  \/ \E p \in Callers : OtherPersist(p) \/ PersistFails(p)
  \/ Start \/ Stop \/ Exit \/ Crash
  \/ \E e \in Tamperable : Tamper(e, "row") \/ Tamper(e, "checkpoint")

Spec == Init /\ [][Next]_vars

FairSpec ==
  /\ Spec
  /\ WF_vars(WorkerStep) /\ WF_vars(Start) /\ WF_vars(Exit)
  /\ WF_vars(\E r \in Requests : Submit(r))

-----------------------------------------------------------------------------
(* Safety.                                                                 *)

\* "can complete only with COMPLETED_PENDING or REUSED Long jobs": an entry that
\* is shown as completed has its job, the rows of its material are in Long
\* exactly once.
CompletedIsInLong ==
  \A e \in Entries :
    plan[e].status = "COMPLETED" =>
      LET j == JobOf[CandidateOf[e]]
      IN  /\ job[j].status \in {"COMPLETED_PENDING", "REUSED"}
          /\ \E k \in Jobs : MaterialOf[k] = MaterialOf[j] /\ rows[k] = 1

\* A command that has ended tells what became of its entries, although clients
\* resume it, and the worker fails, in the middle of them. One exception: a
\* resumption that is committed after the worker has read the plan, and before
\* it writes its verdict, is lost with the command BLOCKED over the entries it put
\* back; nothing else leaves an entry open, and none is left in work.
CommandIsSettled ==
  \A b \in Batches : \A e \in EntriesIn(b) :
    /\ command[b].status = "COMPLETED" => plan[e].status = "COMPLETED"
    /\ command[b].status = "BLOCKED" =>
         \/ plan[e].status \in {"COMPLETED", "BLOCKED"}
         \/ plan[e].status = "PENDING" /\ e \in late

\* An entry in Long is never put back, and the stated reason never replaced.
IntentIsKept ==
  [][ /\ \A e \in Entries : plan[e].status = "COMPLETED" => plan'[e] = plan[e]
      /\ \A b \in Batches : command[b].status # "NONE" =>
           command'[b].reason = command[b].reason ]_vars

\* The worker has checked the evidence of e and is completing it.
Completing(e) == pc \in {"await", "completed"} /\ ent = e

\* Evidence that is rewritten before the check of its entry never reaches Long
\* through this entry, whatever is resumed, retried or restarted afterwards.
TamperedIsNotLoaded ==
  \A e \in Tamperable :
    [](evidence[e] # "sound" /\ plan[e].status # "COMPLETED" /\ ~ Completing(e)
       => [](plan[e].status # "COMPLETED"))

\* Only tampered evidence is refused: an entry of which nothing was rewritten
\* does not fail the proof of its source.
UntamperedIsNotRefused ==
  \A e \in Entries : plan[e].code = "SOURCE_PROOF_MISMATCH" => evidence[e] # "sound"

\* Every submitted command ends.
EveryCommandEnds ==
  \A b \in Batches : command[b].status \in Live ~> command[b].status \in {"COMPLETED", "BLOCKED"}
=============================================================================
