------------------------------ MODULE IntakeJobs ------------------------------
(***************************************************************************)
(* The manual intake: uploads that are staged, queued for one worker, and  *)
(* shown to their readers from a bounded registry in memory.               *)
(*                                                                         *)
(* The submission lock is held by one submission, or by shutdown, over     *)
(* several steps; the registry has a lock of its own, which is held within *)
(* one action.  The worker takes neither but for single updates.           *)
(***************************************************************************)
EXTENDS Naturals, Sequences, FiniteSets

CONSTANTS
  Jobs,              \* one submission each
  QueueCapacity,
  RegistryCapacity,
  MaxFaults,         \* bound: file operations that fail, joins that time out
  MaxStarts,         \* bound: calls of start
  Repeats,           \* whether a shutdown that timed out is called again
  Stop               \* what shutdown puts into the queue to end the worker

\* The checks of the constructor.
ASSUME IntakeAssumption ==
  /\ QueueCapacity \in Nat \ {0} /\ RegistryCapacity \in Nat
  /\ RegistryCapacity >= QueueCapacity + 1
  /\ MaxFaults \in Nat /\ MaxStarts \in Nat /\ Repeats \in BOOLEAN
  /\ Stop \notin Jobs /\ "free" \notin Jobs \cup {Stop}

VARIABLES
  server,      \* whether the manager is started, and accepts
  lock,        \* who holds the submission lock: a job, Stop for shutdown, "free"
  submission,  \* how far the submission of each job is
  record,      \* the registry: status of each job, and whether it names a staged file
  disk,        \* what there is of each job below the staging root
  queue,
  worker,      \* where the worker is, and with which job
  stopping,    \* where shutdown is, and which jobs it has still to treat
  faults, starts

memory == <<server, record, queue>>
vars == <<memory, lock, submission, disk, worker, stopping, faults, starts>>

Ended    == {"MAPPING_REQUIRED", "RAW_PRESERVED_SCAN_FAILED", "ERROR"}
Record   == [status : {"NONE", "QUEUED", "PROCESSING"} \cup Ended, path : BOOLEAN]
NoRecord == [status |-> "NONE", path |-> FALSE]

Registered == {j \in Jobs : record[j].status # "NONE"}

TypeOK ==
  /\ server \in {"down", "up", "closing"}
  /\ lock \in Jobs \cup {Stop, "free"}
  /\ submission \in [Jobs -> {"new", "stage", "put", "answer", "accepted", "lost", "refused"}]
  /\ record \in [Jobs -> Record] /\ Cardinality(Registered) <= RegistryCapacity
  /\ disk \in [Jobs -> {"nothing", "directory", "file"}]
  /\ queue \in Seq(Jobs \cup {Stop}) /\ Len(queue) <= QueueCapacity
  /\ worker \in [pc : {"none", "get", "ingest", "clean", "forget", "ended"}, job : Jobs \cup {Stop}]
  /\ stopping \in [pc : {"idle", "drain", "cancel", "join", "clean"}, todo : SUBSET Jobs]
  /\ faults \in 0 .. MaxFaults /\ starts \in 0 .. MaxStarts

Init ==
  /\ server = "down" /\ lock = "free" /\ queue = <<>>
  /\ submission = [j \in Jobs |-> "new"]
  /\ record = [j \in Jobs |-> NoRecord]
  /\ disk = [j \in Jobs |-> "nothing"]
  /\ worker = [pc |-> "none", job |-> Stop]
  /\ stopping = [pc |-> "idle", todo |-> {}]
  /\ faults = 0 /\ starts = 0

\* start.
Start ==
  /\ server = "down" /\ lock = "free" /\ starts < MaxStarts
  /\ server' = "up" /\ worker' = [worker EXCEPT !.pc = "get"] /\ starts' = starts + 1
  /\ UNCHANGED <<lock, submission, record, disk, queue, stopping, faults>>

\* _cleanup_staged_path: it removes the file and its directory, or raises an OSError
\* and leaves both or the directory.
Removes(j) == disk' = [disk EXCEPT ![j] = "nothing"] /\ UNCHANGED faults
RemovesNot(j) ==
  /\ faults < MaxFaults /\ faults' = faults + 1
  /\ \E left \in {"directory", disk[j]} : disk' = [disk EXCEPT ![j] = left]

-----------------------------------------------------------------------------
(* submit.                                                                 *)

\* Fault: an ended job is evicted although it still names a staged file.
EndedJobs == {j \in Registered : record[j].status \in Ended}

Evictable == {j \in Registered : record[j].status \in Ended /\ ~ record[j].path}

\* _evict_terminal_records_locked: what is left of a full registry.
Left ==
  IF Cardinality(Registered) < RegistryCapacity \/ Evictable = {}
    THEN {Registered} ELSE {Registered \ {j} : j \in Evictable}

Refuse(j) == submission' = [submission EXCEPT ![j] = "refused"]

SubmitUnavailable(j) ==
  /\ submission[j] = "new" /\ lock = "free" /\ server # "up"
  /\ Refuse(j)
  /\ UNCHANGED <<memory, lock, disk, worker, stopping, faults, starts>>

\* The checks of submit; the eviction stays when the queue turns out to be full.
SubmitCheck(j) ==
  /\ submission[j] = "new" /\ lock = "free" /\ server = "up"
  /\ \E left \in Left :
       /\ record' = [k \in Jobs |-> IF k \in left THEN record[k] ELSE NoRecord]
       /\ IF Cardinality(left) >= RegistryCapacity \/ Len(queue) >= QueueCapacity
            THEN Refuse(j) /\ UNCHANGED lock
            ELSE submission' = [submission EXCEPT ![j] = "stage"] /\ lock' = j
  /\ UNCHANGED <<server, queue, disk, worker, stopping, faults, starts>>

\* _stage_upload.
Stage(j) ==
  /\ submission[j] = "stage"
  /\ submission' = [submission EXCEPT ![j] = "put"]
  /\ disk' = [disk EXCEPT ![j] = "file"]
  /\ UNCHANGED <<memory, lock, worker, stopping, faults, starts>>

\* The upload is refused or cannot be written; what was staged is removed, or not.
StageFails(j) ==
  /\ submission[j] = "stage" /\ Refuse(j) /\ lock' = "free"
  /\ \/ UNCHANGED <<disk, faults>>
     \/ /\ faults < MaxFaults /\ faults' = faults + 1
        /\ \E left \in {"directory", "file"} : disk' = [disk EXCEPT ![j] = left]
  /\ UNCHANGED <<memory, worker, stopping, starts>>

\* The record and the place in the queue; without a place all is taken back.
Put(j) ==
  /\ submission[j] = "put" /\ lock' = "free"
  /\ IF Len(queue) < QueueCapacity
       THEN /\ record' = [record EXCEPT ![j] = [status |-> "QUEUED", path |-> TRUE]]
            /\ queue' = Append(queue, j)
            /\ submission' = [submission EXCEPT ![j] = "answer"]
            /\ UNCHANGED disk
       ELSE Refuse(j) /\ disk' = [disk EXCEPT ![j] = "nothing"] /\ UNCHANGED <<record, queue>>
  /\ UNCHANGED <<server, worker, stopping, faults, starts>>

\* get, after the lock is given back: the job may have ended and been evicted.
Answer(j) ==
  /\ submission[j] = "answer"
  /\ submission' = [submission EXCEPT ![j] = IF j \in Registered THEN "accepted" ELSE "lost"]
  /\ UNCHANGED <<memory, lock, disk, worker, stopping, faults, starts>>

Goes(j) == Stage(j) \/ Put(j) \/ Answer(j)
Submit(j) == SubmitUnavailable(j) \/ SubmitCheck(j) \/ StageFails(j) \/ Goes(j)

-----------------------------------------------------------------------------
(* The worker.                                                             *)

Ends(j, status) == record' = [record EXCEPT ![j].status = status]

\* _worker_loop and the beginning of _process.
Take ==
  /\ worker.pc = "get" /\ queue # <<>>
  /\ queue' = Tail(queue)
  /\ LET j == Head(queue)
     IN  IF j = Stop
           THEN worker' = [worker EXCEPT !.pc = "ended"] /\ UNCHANGED record
           ELSE IF record[j].status # "QUEUED"
             THEN UNCHANGED <<worker, record>>
             ELSE worker' = [pc |-> "ingest", job |-> j] /\ Ends(j, "PROCESSING")
  /\ UNCHANGED <<server, lock, submission, disk, stopping, faults, starts>>

\* ingest and _apply_outcome, or _set_error.
Ingest ==
  LET j == worker.job
  IN  /\ worker.pc = "ingest"
      /\ \E status \in Ended : (disk[j] # "file" => status = "ERROR") /\ Ends(j, status)
      /\ worker' = [worker EXCEPT !.pc = "clean"]
      /\ UNCHANGED <<server, queue, lock, submission, disk, stopping, faults, starts>>

\* The clean-up of _process.
CleanUp ==
  /\ worker.pc = "clean" /\ Removes(worker.job)
  /\ worker' = [worker EXCEPT !.pc = "forget"]
  /\ UNCHANGED <<memory, lock, submission, stopping, starts>>

CleanUpFails ==
  /\ worker.pc = "clean" /\ RemovesNot(worker.job) /\ Ends(worker.job, "ERROR")
  /\ worker' = [worker EXCEPT !.pc = "get"]
  /\ UNCHANGED <<server, queue, lock, submission, stopping, starts>>

Forget ==
  /\ worker.pc = "forget"
  /\ record' = [record EXCEPT ![worker.job].path = FALSE]
  /\ worker' = [worker EXCEPT !.pc = "get"]
  /\ UNCHANGED <<server, queue, lock, submission, disk, stopping, faults, starts>>

Worker == Take \/ Ingest \/ CleanUp \/ CleanUpFails \/ Forget

-----------------------------------------------------------------------------
(* shutdown.                                                               *)

ShutdownBegins ==
  /\ stopping.pc = "idle" /\ lock = "free"
  /\ (server = "up" \/ (server = "closing" /\ Repeats))
  /\ lock' = Stop /\ server' = "closing"
  /\ stopping' = [pc |-> "drain", todo |-> {}]
  /\ UNCHANGED <<submission, record, disk, queue, worker, faults, starts>>

\* Fault: what is drained is not cancelled.
DrainAndDrop ==
  /\ stopping.pc = "drain" /\ queue # <<>>
  /\ queue' = Tail(queue)
  /\ UNCHANGED <<stopping, server, record, lock, submission, disk, worker, faults, starts>>

\* The worker may take the next one before shutdown does.
Drain ==
  /\ stopping.pc = "drain" /\ queue # <<>>
  /\ queue' = Tail(queue)
  /\ stopping' = [stopping EXCEPT !.todo = @ \cup ({Head(queue)} \ {Stop})]
  /\ UNCHANGED <<server, record, lock, submission, disk, worker, faults, starts>>

Drained ==
  /\ stopping.pc = "drain" /\ queue = <<>>
  /\ stopping' = [stopping EXCEPT !.pc = "cancel"]
  /\ UNCHANGED <<memory, lock, submission, disk, worker, faults, starts>>

Treated(j) == stopping' = [stopping EXCEPT !.todo = @ \ {j}]

\* _cancel_queued_job; an OSError of the clean-up is suppressed.
Cancel(j) ==
  /\ stopping.pc = "cancel" /\ j \in stopping.todo /\ Treated(j)
  /\ IF record[j].status # "QUEUED"
       THEN UNCHANGED <<record, disk, faults>>
       ELSE \/ Removes(j) /\ record' = [record EXCEPT ![j] = [status |-> "ERROR", path |-> FALSE]]
            \/ RemovesNot(j) /\ Ends(j, "ERROR")
  /\ UNCHANGED <<server, queue, lock, submission, worker, starts>>

\* The worker is told to end.
Cancelled ==
  /\ stopping.pc = "cancel" /\ stopping.todo = {}
  /\ queue' = Append(queue, Stop) /\ lock' = "free"
  /\ stopping' = [stopping EXCEPT !.pc = "join"]
  /\ UNCHANGED <<server, record, submission, disk, worker, faults, starts>>

Staged == {j \in Registered : record[j].path}

Joined ==
  /\ stopping.pc = "join" /\ worker.pc = "ended"
  /\ stopping' = [pc |-> "clean", todo |-> Staged]
  /\ UNCHANGED <<memory, lock, submission, disk, worker, faults, starts>>

\* The worker is still at work after the timeout: an error, and nothing is cleaned up.
JoinTimesOut ==
  /\ stopping.pc = "join" /\ worker.pc # "ended"
  /\ faults < MaxFaults /\ faults' = faults + 1
  /\ stopping' = [stopping EXCEPT !.pc = "idle"]
  /\ UNCHANGED <<memory, lock, submission, disk, worker, starts>>

\* The staged files that are left.
Sweep(j) ==
  /\ stopping.pc = "clean" /\ j \in stopping.todo /\ Treated(j)
  /\ \/ Removes(j) /\ record' = [record EXCEPT ![j].path = FALSE]
     \/ RemovesNot(j) /\ UNCHANGED record
  /\ UNCHANGED <<server, queue, lock, submission, worker, starts>>

ShutdownEnds ==
  /\ stopping.pc = "clean" /\ stopping.todo = {}
  /\ server' = "down" /\ worker' = [worker EXCEPT !.pc = "none"]
  /\ stopping' = [stopping EXCEPT !.pc = "idle"]
  /\ UNCHANGED <<record, queue, lock, submission, disk, faults, starts>>

Shutdown ==
  \/ Drain \/ Drained \/ Cancelled \/ Joined \/ ShutdownEnds
  \/ \E j \in Jobs : Cancel(j) \/ Sweep(j)

Next ==
  \/ Start \/ ShutdownBegins \/ Shutdown \/ JoinTimesOut \/ Worker
  \/ \E j \in Jobs : Submit(j)

Spec == Init /\ [][Next]_vars

\* Threads that have begun run on; nobody is bound to start, stop or submit.
FairSpec == Spec /\ WF_vars(Worker) /\ WF_vars(Shutdown) /\ \A j \in Jobs : WF_vars(Goes(j))

-----------------------------------------------------------------------------
(* Safety.                                                                 *)

\* What submit found free is still free when it comes back from staging the upload,
\* although the registry is unlocked meanwhile.
RoomIsKept ==
  \A j \in Jobs : submission[j] \in {"stage", "put"} =>
    Cardinality(Registered) < RegistryCapacity /\ Len(queue) < QueueCapacity

\* A job that waits or is in work has its file, whatever shutdown removes.
FileWhileNeeded ==
  \A j \in Jobs :
    record[j].status = "QUEUED" \/ (worker.pc = "ingest" /\ worker.job = j) =>
      record[j].path /\ disk[j] = "file"

\* Nothing of an accepted job stays on the disk but what its record names, so that
\* shutdown finds it; a job that is shown as ended has left nothing.
NothingIsForgotten ==
  \A j \in Jobs :
    submission[j] \in {"answer", "accepted", "lost"} /\ disk[j] # "nothing" =>
      j \in Registered /\ record[j].path

\* Whatever submit, the worker and shutdown do between one another's steps: an upload
\* has the room it was promised, its file as long as that is needed, and a record of
\* it as long as there is one.
UploadsAreAccounted == RoomIsKept /\ FileWhileNeeded /\ NothingIsForgotten

\* Fault: readers get the status as it is.
StatusOf(j) == record[j].status

\* _snapshot: the status that a reader gets.
Shown(j) ==
  IF record[j].status \in Ended /\ record[j].path THEN "PROCESSING" ELSE record[j].status

\* A reader who was told that a job has ended never gets another answer, unless the
\* job is evicted.
ShownIsFinal ==
  [][\A j \in Jobs : Shown(j) \in Ended => Shown(j)' \in {Shown(j), "NONE"}]_vars

\* Every accepted job ends, also when the manager shuts down.
EveryJobEnds ==
  \A j \in Jobs : submission[j] = "answer" ~> j \notin Registered \/ record[j].status \in Ended
=============================================================================
