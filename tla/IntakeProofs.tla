----------------------------- MODULE IntakeProofs ------------------------------
(***************************************************************************)
(* Proofs about what works on files, the four components that MCIntake     *)
(* runs side by side:                                                      *)
(*  - IntakeJobs, for every set of jobs, both capacities, every number of  *)
(*    failing file operations, of starts and of repeated shutdowns;        *)
(*  - OriginalStore with one store object, for every number of             *)
(*    preservations, contents, failing operations, kills and edits.  With  *)
(*    two store objects over one root ReceiptHasBlob does not hold         *)
(*    (MCIntake finds the behaviour); the proof shows that the lock is all *)
(*    that is missing there: nothing but LockInv makes use of there being  *)
(*    one;                                                                 *)
(*  - PackageInstall, for every number of runs of the tool, and whatever   *)
(*    file operations fail in them;                                        *)
(*  - BulkPanel, for every number of scopes, choices and lost answers.     *)
(***************************************************************************)
EXTENDS IntakeJobs, OriginalStore, PackageInstall, BulkPanel, FiniteSetTheorems, TLAPS

-----------------------------------------------------------------------------
(* The manual jobs: the inductive invariant.                               *)

Has(s, x) == \E i \in 1 .. Len(s) : s[i] = x
InQueue(j) == Has(queue, j)

\* The submission lock, and what shutdown and the worker know of each other.
Exclusive ==
  /\ \A j \in Jobs : submission[j] \in {"stage", "put"} <=> lock = j
  /\ lock = Stop <=> stopping.pc \in {"drain", "cancel"}
  /\ lock \in Jobs => server = "up"
  /\ stopping.pc # "idle" => server = "closing"
  /\ worker.pc = "none" <=> server = "down"
  /\ stopping.pc = "clean" => worker.pc = "ended"

\* A job that waits is in the queue, or shutdown has drained it and not yet treated it.
Waits(j) == InQueue(j) \/ (stopping.pc \in {"drain", "cancel"} /\ j \in stopping.todo)

QueueInv ==
  /\ stopping.pc = "cancel" => queue = <<>>
  /\ server # "up" /\ stopping.pc # "drain" => \A j \in Jobs : ~ InQueue(j)
  /\ \A j \in Jobs : record[j].status = "QUEUED" => Waits(j)

\* A record is there after the submission only, and has a path as long as there is
\* something on the disk.
JobInv(j) ==
  /\ record[j].status = "NONE" => ~ record[j].path
  /\ submission[j] \in {"new", "stage", "put", "refused"} => record[j].status = "NONE"
  /\ submission[j] = "put" => disk[j] = "file"
  /\ record[j].status = "QUEUED" => record[j].path /\ disk[j] = "file"
  /\ stopping.pc = "clean" /\ j \in stopping.todo => record[j].path
  /\ submission[j] \in {"answer", "accepted", "lost"} /\ disk[j] # "nothing" => record[j].path

\* The job in hand keeps its path, so that it is not evicted.
WorkerInv ==
  /\ worker.pc \in {"ingest", "clean",
    "forget"} => worker.job \in Jobs /\ record[worker.job].path
  /\ worker.pc = "ingest" =>
       record[worker.job].status = "PROCESSING" /\ disk[worker.job] = "file"
  /\ worker.pc \in {"clean", "forget"} => record[worker.job].status \in Ended
  /\ worker.pc = "forget" => disk[worker.job] = "nothing"

RoomInv ==
  /\ IsFiniteSet(Registered) /\ Cardinality(Registered) <= RegistryCapacity
  /\ Len(queue) <= QueueCapacity
  /\ RoomIsKept

Types ==
  /\ server \in {"down", "up", "closing"}
  /\ lock \in Jobs \cup {Stop, "free"}
  /\ submission \in [Jobs -> {"new", "stage", "put", "answer", "accepted", "lost", "refused"}]
  /\ record \in [Jobs -> Record]
  /\ disk \in [Jobs -> {"nothing", "directory", "file"}]
  /\ queue \in Seq(Jobs \cup {Stop})
  /\ worker \in [pc : {"none", "get", "ingest", "clean", "forget", "ended"},
    job : Jobs \cup {Stop}]
  /\ stopping \in [pc : {"idle", "drain", "cancel", "join", "clean"}, todo : SUBSET Jobs]
  /\ faults \in 0 .. MaxFaults /\ starts \in 0 .. MaxStarts

Control == Types /\ Exclusive
IntakeInv ==
  /\ Control /\ QueueInv /\ WorkerInv /\ RoomInv
  /\ \A j \in Jobs : JobInv(j)

-----------------------------------------------------------------------------
(* Queues, and the actions of the jobs.                                    *)

LEMMA TakenFromQueue ==
  ASSUME NEW S, NEW s \in Seq(S), s # <<>>
  PROVE  /\ Tail(s) \in Seq(S) /\ Head(s) \in S /\ Len(Tail(s)) = Len(s) - 1
         /\ \A x : Has(Tail(s), x) => Has(s, x)
         /\ \A x : Has(s, x) => x = Head(s) \/ Has(Tail(s), x)
         /\ Has(s, Head(s))
<1>1. /\ Len(s) \in Nat \ {0} /\ Tail(s) \in Seq(S) /\ Len(Tail(s)) = Len(s) - 1
      /\ Head(s) = s[1] /\ \A i \in 1 .. Len(s) - 1 : Tail(s)[i] = s[i + 1]
  OBVIOUS
<1>2. ASSUME NEW x, Has(Tail(s), x) PROVE Has(s, x)
  <2>1. PICK i \in 1 .. Len(s) - 1 : s[i + 1] = x BY <1>1, <1>2 DEF Has
  <2>2. i + 1 \in 1 .. Len(s) BY <1>1
  <2> QED BY <2>1, <2>2 DEF Has
<1>3. ASSUME NEW x, Has(s, x), x # Head(s) PROVE Has(Tail(s), x)
  <2>1. PICK i \in 1 .. Len(s) : s[i] = x BY <1>3 DEF Has
  <2>2. i - 1 \in 1 .. Len(s) - 1 /\ Tail(s)[i - 1] = x BY <1>1, <1>3, <2>1
  <2> QED BY <1>1, <2>2 DEF Has
<1>4. Head(s) \in S /\ Has(s, Head(s)) BY <1>1 DEF Has
<1> QED BY <1>1, <1>2, <1>3, <1>4

LEMMA AddedToQueue ==
  ASSUME NEW S, NEW s \in Seq(S), NEW e \in S
  PROVE  /\ Append(s, e) \in Seq(S) /\ Len(Append(s, e)) = Len(s) + 1
         /\ \A x : Has(Append(s, e), x) <=> Has(s, x) \/ x = e
<1>1. /\ Len(s) \in Nat /\ Append(s, e) \in Seq(S) /\ Len(Append(s, e)) = Len(s) + 1
      /\ Append(s, e)[Len(s) + 1] = e /\ \A i \in 1 .. Len(s) : Append(s, e)[i] = s[i]
  OBVIOUS
<1> DEFINE t == Append(s, e)
<1> HIDE DEF t
<1>2. /\ Len(s) \in Nat /\ Len(t) = Len(s) + 1
      /\ t[Len(s) + 1] = e /\ \A i \in 1 .. Len(s) : t[i] = s[i]
  BY <1>1 DEF t
<1>3. ASSUME NEW x PROVE Has(t, x) <=> Has(s, x) \/ x = e
  <2>1. \A i \in 1 .. Len(s) + 1 : i = Len(s) + 1 \/ i \in 1 .. Len(s) BY <1>2
  <2>2. Len(s) + 1 \in 1 .. Len(s) + 1 /\ \A i \in 1 .. Len(s) : i \in 1 .. Len(s) + 1 BY <1>2
  <2> QED BY <1>2, <2>1, <2>2 DEF Has
<1> QED BY <1>1, <1>3 DEF t

LEMMA RecordUpdates ==
  ASSUME NEW r \in [Jobs -> Record], NEW j \in Jobs
  PROVE  /\ \A x \in Ended \cup {"PROCESSING"} : [r EXCEPT ![j].status = x] \in [Jobs -> Record]
         /\ \A b \in BOOLEAN : [r EXCEPT ![j].path = b] \in [Jobs -> Record]
<1>1. r[j] \in Record OBVIOUS
<1>2. \A x \in Ended \cup {"PROCESSING"} : [r[j] EXCEPT !.status = x] \in Record
  BY <1>1 DEF Record
<1>3. \A b \in BOOLEAN : [r[j] EXCEPT !.path = b] \in Record BY <1>1 DEF Record
<1> QED BY <1>2, <1>3

LEMMA Actions ==
  ASSUME [Next]_vars
  PROVE  \/ UNCHANGED vars \/ Start \/ ShutdownBegins \/ Drain \/ Drained \/ Cancelled
         \/ Joined \/ JoinTimesOut \/ ShutdownEnds
         \/ Take \/ Ingest \/ CleanUp \/ CleanUpFails \/ Forget
         \/ \E j \in Jobs : \/ Cancel(j) \/ Sweep(j) \/ SubmitUnavailable(j) \/ SubmitCheck(j)
                            \/ StageFails(j) \/ Stage(j) \/ Put(j) \/ Answer(j)
BY DEF Next, Shutdown, Worker, Submit, Goes

LEMMA JobsTypesStep ==
  ASSUME IntakeInv, [Next]_vars
  PROVE  Types'
<1> USE IntakeAssumption DEF IntakeInv, Control, Types
<1>1. CASE UNCHANGED vars BY <1>1 DEF vars, memory, Types
<1>2. CASE Start
  <2>1. starts' \in 0 .. MaxStarts BY <1>2 DEF Start
  <2>2. worker' \in [pc : {"none", "get", "ingest", "clean", "forget", "ended"},
    job : Jobs \cup {Stop}]
    BY <1>2 DEF Start
  <2> QED BY <1>2, <2>1, <2>2 DEF Start, memory
<1>3. CASE ShutdownBegins BY <1>3 DEF ShutdownBegins, memory
<1>4. CASE Drain BY <1>4, TakenFromQueue DEF Drain, memory
<1>5. CASE Drained BY <1>5 DEF Drained, memory
<1>6. CASE Cancelled BY <1>6, AddedToQueue DEF Cancelled, memory
<1>7. CASE Joined BY <1>7 DEF Joined, Staged, Registered, memory
<1>8. CASE JoinTimesOut BY <1>8 DEF JoinTimesOut, memory
<1>9. CASE ShutdownEnds BY <1>9 DEF ShutdownEnds, memory
<1>10. CASE Take
  <2>1. queue' \in Seq(Jobs \cup {Stop}) /\ Head(queue) \in Jobs \cup {Stop}
    BY <1>10, TakenFromQueue DEF Take
  <2>2. \A j \in Jobs : [record EXCEPT ![j].status = "PROCESSING"] \in [Jobs -> Record]
    BY RecordUpdates
  <2>4. record' \in [Jobs -> Record]
    <3>1. CASE Head(queue) = Stop BY <1>10, <3>1 DEF Take
    <3>2. CASE Head(queue) # Stop BY <1>10, <2>1, <2>2, <3>2 DEF Take, Ends
    <3> QED BY <3>1, <3>2
  <2>3. worker' \in [pc : {"none", "get", "ingest", "clean", "forget", "ended"},
    job : Jobs \cup {Stop}]
    BY <1>10, <2>1 DEF Take
  <2> QED BY <1>10, <2>1, <2>3, <2>4 DEF Take
<1>11. CASE Ingest
  <2>1. worker.job \in Jobs BY <1>11 DEF Ingest, WorkerInv
  <2>2. record' \in [Jobs -> Record] BY <1>11, <2>1, RecordUpdates DEF Ingest, Ends
  <2> QED BY <1>11, <2>1, <2>2 DEF Ingest
<1>12. CASE CleanUp
  <2>1. worker.job \in Jobs BY <1>12 DEF CleanUp, WorkerInv
  <2> QED BY <1>12, <2>1 DEF CleanUp, Removes, memory
<1>13. CASE CleanUpFails
  <2>1. worker.job \in Jobs BY <1>13 DEF CleanUpFails, WorkerInv
  <2>2. record' \in [Jobs -> Record] BY <1>13, <2>1, RecordUpdates DEF CleanUpFails, Ends, Ended
  <2>3. disk' \in [Jobs -> {"nothing", "directory", "file"}] /\ faults' \in 0 .. MaxFaults
    BY <1>13, <2>1 DEF CleanUpFails, RemovesNot
  <2> QED BY <1>13, <2>2, <2>3 DEF CleanUpFails
<1>14. CASE Forget
  <2>1. worker.job \in Jobs BY <1>14 DEF Forget, WorkerInv
  <2>2. record' \in [Jobs -> Record] BY <1>14, <2>1, RecordUpdates DEF Forget
  <2> QED BY <1>14, <2>2 DEF Forget
<1>15. ASSUME NEW i \in Jobs, Cancel(i) PROVE Types'
  <2>1. stopping' \in [pc : {"idle", "drain", "cancel", "join", "clean"}, todo : SUBSET Jobs]
    BY <1>15 DEF Cancel, Treated
  <2>2. record' \in [Jobs -> Record]
    <3>1. [record EXCEPT ![i] = [status |-> "ERROR", path |-> FALSE]] \in [Jobs -> Record]
      BY DEF Record, Ended
    <3>2. [record EXCEPT ![i].status = "ERROR"] \in [Jobs -> Record]
      BY RecordUpdates DEF Ended
    <3> QED BY <1>15, <3>1, <3>2 DEF Cancel, Ends
  <2>3. disk' \in [Jobs -> {"nothing", "directory", "file"}] /\ faults' \in 0 .. MaxFaults
    BY <1>15 DEF Cancel, Removes, RemovesNot
  <2> QED BY <1>15, <2>1, <2>2, <2>3 DEF Cancel
<1>16. ASSUME NEW i \in Jobs, Sweep(i) PROVE Types'
  <2>1. stopping' \in [pc : {"idle", "drain", "cancel", "join", "clean"}, todo : SUBSET Jobs]
    BY <1>16 DEF Sweep, Treated
  <2>2. record' \in [Jobs -> Record]
    <3>1. [record EXCEPT ![i].path = FALSE] \in [Jobs -> Record] BY RecordUpdates
    <3> QED BY <1>16, <3>1 DEF Sweep
  <2>3. disk' \in [Jobs -> {"nothing", "directory", "file"}] /\ faults' \in 0 .. MaxFaults
    BY <1>16 DEF Sweep, Removes, RemovesNot
  <2> QED BY <1>16, <2>1, <2>2, <2>3 DEF Sweep
<1>17. ASSUME NEW i \in Jobs, SubmitUnavailable(i)
  PROVE Types' BY <1>17 DEF SubmitUnavailable, Refuse, memory
<1>18. ASSUME NEW i \in Jobs, SubmitCheck(i) PROVE Types'
  <2>1. record' \in [Jobs -> Record] BY <1>18 DEF SubmitCheck, NoRecord, Record
  <2> QED BY <1>18, <2>1 DEF SubmitCheck, Refuse
<1>19. ASSUME NEW i \in Jobs, StageFails(i) PROVE Types' BY <1>19 DEF StageFails, Refuse, memory
<1>20. ASSUME NEW i \in Jobs, Stage(i) PROVE Types' BY <1>20 DEF Stage, memory
<1>21. ASSUME NEW i \in Jobs, Put(i) PROVE Types'
  <2>1. Append(queue, i) \in Seq(Jobs \cup {Stop}) BY AddedToQueue
  <2>2. [record EXCEPT ![i] = [status |-> "QUEUED", path |-> TRUE]] \in [Jobs -> Record]
    BY DEF Record
  <2> QED BY <1>21, <2>1, <2>2 DEF Put, Refuse
<1>22. ASSUME NEW i \in Jobs, Answer(i) PROVE Types' BY <1>22 DEF Answer, memory
<1> QED
  BY <1>1, <1>2, <1>3, <1>4, <1>5, <1>6, <1>7, <1>8, <1>9, <1>10, <1>11, <1>12, <1>13, <1>14,
    <1>15, <1>16, <1>17, <1>18, <1>19, <1>20, <1>21, <1>22, Actions

LEMMA ExclusiveStep ==
  ASSUME IntakeInv, [Next]_vars
  PROVE  Exclusive'
<1> USE IntakeAssumption DEF IntakeInv, Control, Types, Exclusive
<1>1. CASE UNCHANGED vars BY <1>1 DEF vars, memory, Exclusive
<1>2. CASE Start BY <1>2 DEF Start, memory
<1>3. CASE ShutdownBegins BY <1>3 DEF ShutdownBegins, memory
<1>4. CASE Drain BY <1>4 DEF Drain, memory
<1>5. CASE Drained BY <1>5 DEF Drained, memory
<1>6. CASE Cancelled BY <1>6 DEF Cancelled, memory
<1>7. CASE Joined BY <1>7 DEF Joined, Staged, Registered, memory
<1>8. CASE JoinTimesOut BY <1>8 DEF JoinTimesOut, memory
<1>9. CASE ShutdownEnds BY <1>9 DEF ShutdownEnds, memory
<1>10. CASE Take BY <1>10 DEF Take, Ends, memory
<1>11. CASE Ingest BY <1>11 DEF Ingest, Ends, memory
<1>12. CASE CleanUp BY <1>12 DEF CleanUp, Removes, memory
<1>13. CASE CleanUpFails BY <1>13 DEF CleanUpFails, RemovesNot, Ends, memory
<1>14. CASE Forget BY <1>14 DEF Forget, memory
<1>15. ASSUME NEW i \in Jobs, Cancel(i)
  PROVE Exclusive' BY <1>15 DEF Cancel, Treated, Removes, RemovesNot, Ends, memory
<1>16. ASSUME NEW i \in Jobs, Sweep(i)
  PROVE Exclusive' BY <1>16 DEF Sweep, Treated, Removes, RemovesNot, memory
<1>17. ASSUME NEW i \in Jobs, SubmitUnavailable(i)
  PROVE Exclusive' BY <1>17 DEF SubmitUnavailable, Refuse, memory
<1>18. ASSUME NEW i \in Jobs, SubmitCheck(i)
  PROVE Exclusive' BY <1>18 DEF SubmitCheck, Refuse, Left, Evictable, Registered, memory
<1>19. ASSUME NEW i \in Jobs, StageFails(i)
  PROVE Exclusive' BY <1>19 DEF StageFails, Refuse, memory
<1>20. ASSUME NEW i \in Jobs, Stage(i) PROVE Exclusive' BY <1>20 DEF Stage, memory
<1>21. ASSUME NEW i \in Jobs, Put(i) PROVE Exclusive' BY <1>21 DEF Put, Refuse, memory
<1>22. ASSUME NEW i \in Jobs, Answer(i) PROVE Exclusive' BY <1>22 DEF Answer, memory
<1> QED
  BY <1>1, <1>2, <1>3, <1>4, <1>5, <1>6, <1>7, <1>8, <1>9, <1>10, <1>11, <1>12, <1>13, <1>14,
    <1>15, <1>16, <1>17, <1>18, <1>19, <1>20, <1>21, <1>22, Actions

LEMMA EmptyQueue == \A x : ~ Has(<<>>, x)
BY DEF Has

\* What SubmitCheck keeps of the registry: all, or all but an ended job without a file.
LEMMA Kept ==
  ASSUME NEW left \in Left
  PROVE  /\ left \subseteq Registered
         /\ \A j \in Registered : record[j].status \notin Ended \/ record[j].path => j \in left
BY DEF Left, Evictable

LEMMA Evicts ==
  ASSUME NEW i \in Jobs, SubmitCheck(i), NEW j \in Jobs
  PROVE  /\ record'[j] = record[j] \/ record'[j] = NoRecord
         /\ record[j].status \notin Ended \cup {"NONE"} \/ (record[j].path /\ record[j].status # "NONE")
              => record'[j] = record[j]
<1>1. PICK left \in Left : record' = [k \in Jobs |-> IF k \in left THEN record[k] ELSE NoRecord]
  BY DEF SubmitCheck
<1>2. record'[j] = IF j \in left THEN record[j] ELSE NoRecord BY <1>1
<1>3. record[j].status # "NONE" => j \in Registered BY DEF Registered
<1> QED BY <1>2, <1>3, Kept

\* The worker takes the head of the queue: it ends, passes over it, or processes it.
LEMMA TakeFacts ==
  ASSUME IntakeInv, Take
  PROVE  LET j == Head(queue)
         IN  /\ UNCHANGED <<server, lock, submission, disk, stopping, faults, starts>>
             /\ \/ j = Stop /\ worker' = [worker EXCEPT !.pc = "ended"] /\ UNCHANGED record
                \/ j \in Jobs /\ record[j].status # "QUEUED" /\ UNCHANGED <<worker, record>>
                \/ /\ j \in Jobs /\ record[j].status = "QUEUED"
                   /\ worker' = [pc |-> "ingest", job |-> j]
                   /\ record' = [record EXCEPT ![j].status = "PROCESSING"]
                   /\ record'[j].status = "PROCESSING" /\ record'[j].path = record[j].path
                   /\ \A k \in Jobs : k # j => record'[k] = record[k]
<1> DEFINE j == Head(queue)
<1>1. j \in Jobs \cup {Stop} BY TakenFromQueue DEF Take, IntakeInv, Control, Types
<1>2. \A k \in Jobs : record[k] \in Record /\ record \in [Jobs -> Record]
  BY DEF IntakeInv, Control, Types
<1> HIDE DEF j
<1>3. CASE j = Stop BY <1>3 DEF Take, j
<1>4. CASE j # Stop /\ record[j].status # "QUEUED" BY <1>1, <1>4 DEF Take, j
<1>5. CASE j # Stop /\ record[j].status = "QUEUED"
  <2>1. j \in Jobs BY <1>1, <1>5
  <2>2. record' = [record EXCEPT ![j].status = "PROCESSING"]
        /\ worker' = [pc |-> "ingest", job |-> j]
    BY <1>5 DEF Take, Ends, j
  <2>3. /\ record'[j].status = "PROCESSING" /\ record'[j].path = record[j].path
        /\ \A k \in Jobs : k # j => record'[k] = record[k]
    BY <1>2, <2>1, <2>2 DEF Record
  <2> QED BY <1>5, <2>1, <2>2, <2>3 DEF Take, j
<1> QED BY <1>3, <1>4, <1>5 DEF Take, j

\* A drained job that still waits becomes an error, without its file or with its path.
LEMMA CancelFacts ==
  ASSUME IntakeInv, NEW i \in Jobs, Cancel(i)
  PROVE  /\ stopping.pc = "cancel" /\ stopping' = [stopping EXCEPT !.todo = @ \ {i}]
         /\ UNCHANGED <<server, queue, lock, submission, worker, starts>>
         /\ \A k \in Jobs : k # i => record'[k] = record[k] /\ disk'[k] = disk[k]
         /\ \/ record[i].status # "QUEUED" /\ UNCHANGED <<record, disk>>
            \/ /\ record[i].status = "QUEUED" /\ record'[i].status = "ERROR"
               /\ disk'[i] = "nothing" \/ record'[i].path
<1>1. record \in [Jobs -> Record] /\ disk \in [Jobs -> {"nothing", "directory", "file"}]
  BY DEF IntakeInv, Control, Types
<1>2. record[i].status = "QUEUED" => record[i].path BY DEF IntakeInv, JobInv
<1>3. CASE record[i].status # "QUEUED" BY <1>3 DEF Cancel, Treated
<1>4. CASE record[i].status = "QUEUED" /\ Removes(i)
           /\ record' = [record EXCEPT ![i] = [status |-> "ERROR", path |-> FALSE]]
  BY <1>1, <1>4 DEF Cancel, Treated, Removes
<1>5. CASE record[i].status = "QUEUED" /\ RemovesNot(i)
           /\ record' = [record EXCEPT ![i].status = "ERROR"]
  <2>1. record'[i].status = "ERROR" /\ record'[i].path BY <1>1, <1>2, <1>5 DEF Record
  <2>2. \A k \in Jobs : k # i => record'[k] = record[k] /\ disk'[k] = disk[k]
    BY <1>1, <1>5 DEF RemovesNot
  <2> QED BY <1>5, <2>1, <2>2 DEF Cancel, Treated
<1> QED BY <1>3, <1>4, <1>5 DEF Cancel, Ends

LEMMA QueueStep ==
  ASSUME IntakeInv, [Next]_vars
  PROVE  QueueInv'
<1> USE IntakeAssumption DEF IntakeInv, Control, Types, Exclusive, QueueInv, Waits, InQueue
<1>1. CASE UNCHANGED vars BY <1>1 DEF vars, memory, QueueInv
<1>2. CASE Start BY <1>2 DEF Start, memory
<1>3. CASE ShutdownBegins BY <1>3 DEF ShutdownBegins, memory
<1>4. CASE Drain
  <2>1. /\ queue' = Tail(queue)
        /\ \A x : Has(queue, x) => x = Head(queue) \/ Has(Tail(queue), x)
    BY <1>4, TakenFromQueue DEF Drain
  <2>2. \A j \in Jobs : j = Head(queue) => j \in stopping'.todo BY <1>4 DEF Drain
  <2> QED BY <1>4, <2>1, <2>2 DEF Drain
<1>5. CASE Drained BY <1>5, EmptyQueue DEF Drained, memory
<1>6. CASE Cancelled
  <2>1. \A j \in Jobs : ~ Has(queue, j) BY <1>6 DEF Cancelled
  <2>2. \A j \in Jobs : ~ Has(queue', j)
    <3>1. \A x : Has(Append(queue, Stop), x) <=> Has(queue, x) \/ x = Stop BY AddedToQueue
    <3> QED BY <1>6, <2>1, <3>1 DEF Cancelled
  <2>3. \A j \in Jobs : record[j].status # "QUEUED" BY <1>6, <2>1 DEF Cancelled
  <2> QED BY <1>6, <2>2, <2>3 DEF Cancelled
<1>7. CASE Joined BY <1>7 DEF Joined, Staged, Registered, memory
<1>8. CASE JoinTimesOut BY <1>8 DEF JoinTimesOut, memory
<1>9. CASE ShutdownEnds BY <1>9 DEF ShutdownEnds, memory
<1>10. CASE Take
  <2>1. /\ queue' = Tail(queue) /\ \A x : Has(Tail(queue), x) => Has(queue, x)
        /\ \A x : Has(queue, x) => x = Head(queue) \/ Has(Tail(queue), x)
    BY <1>10, TakenFromQueue DEF Take
  <2>2. ASSUME NEW j \in Jobs, record'[j].status = "QUEUED"
        PROVE  record[j].status = "QUEUED" /\ j # Head(queue)
    BY <1>10, <2>2, TakeFacts
  <2>3. server' = server /\ stopping' = stopping BY <1>10 DEF Take
  <2>4. stopping.pc # "cancel" BY <1>10 DEF Take
  <2> QED BY <2>1, <2>2, <2>3, <2>4
<1>11. CASE Ingest
  <2>1. \A j \in Jobs : record'[j].status = "QUEUED" => record[j].status = "QUEUED"
    BY <1>11 DEF Ingest, Ends, WorkerInv, Ended
  <2> QED BY <1>11, <2>1 DEF Ingest
<1>12. CASE CleanUp BY <1>12 DEF CleanUp, Removes, memory
<1>13. CASE CleanUpFails
  <2>1. \A j \in Jobs : record'[j].status = "QUEUED" => record[j].status = "QUEUED"
    BY <1>13 DEF CleanUpFails, Ends, WorkerInv
  <2> QED BY <1>13, <2>1 DEF CleanUpFails
<1>14. CASE Forget BY <1>14 DEF Forget, memory
<1>15. ASSUME NEW i \in Jobs, Cancel(i) PROVE QueueInv' BY <1>15, CancelFacts
<1>16. ASSUME NEW i \in Jobs, Sweep(i) PROVE QueueInv'
  <2>1. \A j \in Jobs : record'[j].status = record[j].status BY <1>16 DEF Sweep, Record
  <2>2. stopping'.pc = "clean" /\ stopping.pc = "clean" /\ UNCHANGED <<server, queue>>
    BY <1>16 DEF Sweep, Treated
  <2> QED BY <2>1, <2>2
<1>17. ASSUME NEW i \in Jobs, SubmitUnavailable(i)
  PROVE QueueInv' BY <1>17 DEF SubmitUnavailable, Refuse, memory
<1>18. ASSUME NEW i \in Jobs, SubmitCheck(i) PROVE QueueInv'
  <2>1. \A j \in Jobs : record'[j] = record[j] \/ record'[j] = NoRecord BY <1>18, Evicts
  <2>2. NoRecord.status = "NONE" BY DEF NoRecord
  <2> QED BY <1>18, <2>1, <2>2 DEF SubmitCheck, Refuse
<1>19. ASSUME NEW i \in Jobs, StageFails(i)
  PROVE QueueInv' BY <1>19 DEF StageFails, Refuse, memory
<1>20. ASSUME NEW i \in Jobs, Stage(i) PROVE QueueInv' BY <1>20 DEF Stage, memory
<1>21. ASSUME NEW i \in Jobs, Put(i) PROVE QueueInv'
  <2>1. CASE UNCHANGED <<record, queue>> BY <1>21, <2>1 DEF Put
  <2>2. CASE queue' = Append(queue, i) /\ record' = [record EXCEPT ![i] = [status |-> "QUEUED",
    path |-> TRUE]]
    <3>1. \A x : Has(queue', x) <=> Has(queue, x) \/ x = i BY <2>2, AddedToQueue
    <3>2. \A j \in Jobs : j # i => record'[j] = record[j] BY <2>2
    <3>3. server = "up" /\ server' = server /\ stopping' = stopping BY <1>21 DEF Put
    <3> QED BY <3>1, <3>2, <3>3
  <2> QED BY <1>21, <2>1, <2>2 DEF Put
<1>22. ASSUME NEW i \in Jobs, Answer(i) PROVE QueueInv' BY <1>22 DEF Answer, memory
<1> QED
  BY <1>1, <1>2, <1>3, <1>4, <1>5, <1>6, <1>7, <1>8, <1>9, <1>10, <1>11, <1>12, <1>13, <1>14,
    <1>15, <1>16, <1>17, <1>18, <1>19, <1>20, <1>21, <1>22, Actions

LEMMA WorkerStep ==
  ASSUME IntakeInv, [Next]_vars
  PROVE  WorkerInv'
<1> USE IntakeAssumption DEF IntakeInv, Control, Types, Exclusive, WorkerInv, JobInv, Ended
<1>1. CASE UNCHANGED vars BY <1>1 DEF vars, memory, WorkerInv
<1>2. CASE Start BY <1>2 DEF Start, memory
<1>3. CASE ShutdownBegins BY <1>3 DEF ShutdownBegins, memory
<1>4. CASE Drain BY <1>4 DEF Drain, memory
<1>5. CASE Drained BY <1>5 DEF Drained, memory
<1>6. CASE Cancelled BY <1>6 DEF Cancelled, memory
<1>7. CASE Joined BY <1>7 DEF Joined, Staged, Registered, memory
<1>8. CASE JoinTimesOut BY <1>8 DEF JoinTimesOut, memory
<1>9. CASE ShutdownEnds BY <1>9 DEF ShutdownEnds, memory
<1>10. CASE Take
  <2>1. worker.pc = "get" BY <1>10 DEF Take
  <2> QED BY <1>10, <2>1, TakeFacts
<1>11. CASE Ingest BY <1>11 DEF Ingest, Ends, memory
<1>12. CASE CleanUp BY <1>12 DEF CleanUp, Removes, memory
<1>13. CASE CleanUpFails BY <1>13 DEF CleanUpFails, RemovesNot, Ends, memory
<1>14. CASE Forget BY <1>14 DEF Forget, memory
<1>15. ASSUME NEW i \in Jobs, Cancel(i)
  PROVE WorkerInv' BY <1>15 DEF Cancel, Treated, Removes, RemovesNot, Ends, memory
<1>16. ASSUME NEW i \in Jobs, Sweep(i)
  PROVE WorkerInv' BY <1>16 DEF Sweep, Treated, Removes, RemovesNot, memory
<1>17. ASSUME NEW i \in Jobs, SubmitUnavailable(i)
  PROVE WorkerInv' BY <1>17 DEF SubmitUnavailable, Refuse, memory
<1>18. ASSUME NEW i \in Jobs, SubmitCheck(i) PROVE WorkerInv'
  <2>1. worker' = worker /\ disk' = disk BY <1>18 DEF SubmitCheck
  <2>2. ASSUME worker.pc \in {"ingest", "clean", "forget"}
    PROVE record'[worker.job] = record[worker.job]
    BY <1>18, <2>2, Evicts
  <2> QED BY <2>1, <2>2
<1>19. ASSUME NEW i \in Jobs, StageFails(i)
  PROVE WorkerInv' BY <1>19 DEF StageFails, Refuse, memory
<1>20. ASSUME NEW i \in Jobs, Stage(i) PROVE WorkerInv' BY <1>20 DEF Stage, memory
<1>21. ASSUME NEW i \in Jobs, Put(i) PROVE WorkerInv' BY <1>21 DEF Put, Refuse, memory
<1>22. ASSUME NEW i \in Jobs, Answer(i) PROVE WorkerInv' BY <1>22 DEF Answer, memory
<1> QED
  BY <1>1, <1>2, <1>3, <1>4, <1>5, <1>6, <1>7, <1>8, <1>9, <1>10, <1>11, <1>12, <1>13, <1>14,
    <1>15, <1>16, <1>17, <1>18, <1>19, <1>20, <1>21, <1>22, Actions

LEMMA JobStep ==
  ASSUME IntakeInv, [Next]_vars
  PROVE  \A j \in Jobs : JobInv(j)'
<1> USE IntakeAssumption
  DEF IntakeInv, Control, Types, Exclusive, QueueInv, WorkerInv, JobInv, Ended
<1>1. CASE UNCHANGED vars BY <1>1 DEF vars, memory, JobInv
<1>2. CASE Start BY <1>2 DEF Start, memory
<1>3. CASE ShutdownBegins BY <1>3 DEF ShutdownBegins, memory
<1>4. CASE Drain BY <1>4 DEF Drain, memory
<1>5. CASE Drained BY <1>5 DEF Drained, memory
<1>6. CASE Cancelled BY <1>6 DEF Cancelled, memory
<1>7. CASE Joined BY <1>7 DEF Joined, Staged, Registered, memory
<1>8. CASE JoinTimesOut BY <1>8 DEF JoinTimesOut, memory
<1>9. CASE ShutdownEnds BY <1>9 DEF ShutdownEnds, memory
<1>10. CASE Take BY <1>10, TakeFacts
<1>11. CASE Ingest BY <1>11 DEF Ingest, Ends, memory
<1>12. CASE CleanUp BY <1>12 DEF CleanUp, Removes, memory
<1>13. CASE CleanUpFails BY <1>13 DEF CleanUpFails, RemovesNot, Ends, memory
<1>14. CASE Forget BY <1>14 DEF Forget, memory
<1>15. ASSUME NEW i \in Jobs, Cancel(i) PROVE \A j \in Jobs : JobInv(j)' BY <1>15, CancelFacts
<1>16. ASSUME NEW i \in Jobs, Sweep(i) PROVE \A j \in Jobs : JobInv(j)'
  <2>1. ASSUME NEW j \in Jobs, j # i PROVE JobInv(j)'
    BY <1>16, <2>1 DEF Sweep, Treated, Removes, RemovesNot
  <2>2. JobInv(i)'
    <3>1. /\ record[i].path /\ record[i] \in Record /\ i \notin stopping'.todo
          /\ record[i].status \notin {"NONE", "QUEUED"}
      BY <1>16 DEF Sweep, Treated, Waits, InQueue
    <3>2. record'[i].status = record[i].status
          /\ (disk'[i] = "nothing" \/ record'[i].path)
      BY <1>16, <3>1 DEF Sweep, Removes, RemovesNot, Record
    <3>3. submission[i] \notin {"new", "stage", "put", "refused"} /\ submission' = submission
      BY <1>16, <3>1 DEF Sweep
    <3> QED BY <3>1, <3>2, <3>3
  <2> QED BY <2>1, <2>2
<1>17. ASSUME NEW i \in Jobs, SubmitUnavailable(i)
  PROVE \A j \in Jobs : JobInv(j)' BY <1>17 DEF SubmitUnavailable, Refuse, memory
<1>18. ASSUME NEW i \in Jobs, SubmitCheck(i) PROVE \A j \in Jobs : JobInv(j)'
  <2>1. ASSUME NEW j \in Jobs, record'[j] = record[j] PROVE JobInv(j)'
    BY <1>18, <2>1 DEF SubmitCheck, Refuse
  <2>2. ASSUME NEW j \in Jobs, record'[j] = NoRecord, record'[j] # record[j] PROVE JobInv(j)'
    <3>1. ~ record[j].path BY <1>18, <2>2, Evicts DEF NoRecord
    <3>2. NoRecord.status = "NONE" /\ ~ NoRecord.path BY DEF NoRecord
    <3> QED BY <1>18, <2>2, <3>1, <3>2 DEF SubmitCheck, Refuse
  <2> QED BY <1>18, <2>1, <2>2, Evicts
<1>19. ASSUME NEW i \in Jobs, StageFails(i)
  PROVE \A j \in Jobs : JobInv(j)' BY <1>19 DEF StageFails, Refuse, memory
<1>20. ASSUME NEW i \in Jobs, Stage(i)
  PROVE \A j \in Jobs : JobInv(j)' BY <1>20 DEF Stage, memory
<1>21. ASSUME NEW i \in Jobs, Put(i)
  PROVE \A j \in Jobs : JobInv(j)' BY <1>21 DEF Put, Refuse, memory
<1>22. ASSUME NEW i \in Jobs, Answer(i)
  PROVE \A j \in Jobs : JobInv(j)' BY <1>22 DEF Answer, memory
<1> QED
  BY <1>1, <1>2, <1>3, <1>4, <1>5, <1>6, <1>7, <1>8, <1>9, <1>10, <1>11, <1>12, <1>13, <1>14,
    <1>15, <1>16, <1>17, <1>18, <1>19, <1>20, <1>21, <1>22, Actions

\* No new record, nothing added to the queue, no new promise of room.
Roomy ==
  /\ \A j \in Jobs : record'[j].status # "NONE" => record[j].status # "NONE"
  /\ Len(queue') \in Nat /\ Len(queue') <= Len(queue)
  /\ \A j \in Jobs : submission'[j] \in {"stage", "put"} => submission[j] \in {"stage", "put"}

LEMMA RoomyKeepsRoom ==
  ASSUME IntakeInv, Roomy
  PROVE  RoomInv'
<1>1. /\ IsFiniteSet(Registered) /\ Cardinality(Registered) <= RegistryCapacity
      /\ Len(queue) \in Nat /\ Len(queue) <= QueueCapacity
      /\ RegistryCapacity \in Nat /\ QueueCapacity \in Nat
  BY IntakeAssumption DEF IntakeInv, Control, Types, RoomInv
<1>2. Registered' \subseteq Registered BY DEF Roomy, Registered
<1>3. IsFiniteSet(Registered') /\ Cardinality(Registered') <= Cardinality(Registered)
  BY <1>1, <1>2, FS_Subset
<1>4. Cardinality(Registered) \in Nat /\ Cardinality(Registered') \in Nat
  BY <1>1, <1>3, FS_CardinalityType
<1>5. Len(queue') \in Nat /\ Len(queue') <= Len(queue) BY DEF Roomy
<1>6. Cardinality(Registered') <= RegistryCapacity /\ Len(queue') <= QueueCapacity
  BY <1>1, <1>3, <1>4, <1>5
<1>7. ASSUME NEW j \in Jobs, submission'[j] \in {"stage", "put"}
      PROVE  Cardinality(Registered') < RegistryCapacity /\ Len(queue') < QueueCapacity
  <2>1. Cardinality(Registered) < RegistryCapacity /\ Len(queue) < QueueCapacity
    BY <1>7 DEF Roomy, IntakeInv, RoomInv, RoomIsKept
  <2> QED BY <1>1, <1>3, <1>4, <1>5, <2>1
<1> QED BY <1>3, <1>6, <1>7 DEF RoomInv, RoomIsKept, Registered

LEMMA RoomStep ==
  ASSUME IntakeInv, [Next]_vars
  PROVE  RoomInv'
<1>0. /\ queue \in Seq(Jobs \cup {Stop}) /\ Len(queue) \in Nat /\ record \in [Jobs -> Record]
      /\ Len(queue) <= QueueCapacity /\ QueueCapacity \in Nat \ {0} /\ RegistryCapacity \in Nat
      /\ worker.job \in Jobs \cup {Stop}
      /\ submission \in [Jobs -> {"new", "stage", "put", "answer", "accepted", "lost",
        "refused"}]
      /\ stopping.pc = "cancel" => queue = <<>>
      /\ \A j \in Jobs : submission[j] \in {"stage", "put"} <=> lock = j
      /\ lock = Stop <=> stopping.pc \in {"drain", "cancel"}
  BY IntakeAssumption DEF IntakeInv, Control, Types, RoomInv, QueueInv, Exclusive
<1>00. ASSUME NEW i \in Jobs, SubmitCheck(i), lock' = i
       PROVE  RoomInv'
  <2>1. PICK left \in Left :
          /\ record' = [k \in Jobs |-> IF k \in left THEN record[k] ELSE NoRecord]
          /\ ~ (Cardinality(left) >= RegistryCapacity \/ Len(queue) >= QueueCapacity)
             \/ (lock' = lock)
    BY <1>00 DEF SubmitCheck
  <2>2. lock = "free" /\ lock' # lock /\ queue' = queue
    BY <1>00, IntakeAssumption DEF SubmitCheck
  <2>3. left \subseteq Registered BY Kept
  <2>4. Registered' = left
    <3>1. \A j \in Jobs : record'[j].status # "NONE" <=> j \in left
      BY <2>1, <2>3 DEF Registered, NoRecord
    <3>2. left \subseteq Jobs BY <2>3 DEF Registered
    <3> QED BY <3>1, <3>2 DEF Registered
  <2>5. IsFiniteSet(left) /\ Cardinality(left) \in Nat
    BY <2>3, FS_Subset, FS_CardinalityType DEF IntakeInv, RoomInv
  <2>6. Cardinality(left) < RegistryCapacity /\ Len(queue) < QueueCapacity
    BY <1>0, <2>1, <2>2, <2>5
  <2> QED BY <1>0, <2>2, <2>4, <2>5, <2>6 DEF RoomInv, RoomIsKept
<1>1. CASE UNCHANGED vars BY <1>0, <1>1, RoomyKeepsRoom DEF vars, memory, Roomy
<1>2. CASE Start BY <1>2, <1>0, RoomyKeepsRoom DEF Roomy, Start, memory
<1>3. CASE ShutdownBegins BY <1>3, <1>0, RoomyKeepsRoom DEF Roomy, ShutdownBegins, memory
<1>4. CASE Drain BY <1>4, <1>0, TakenFromQueue, RoomyKeepsRoom DEF Drain, Roomy
<1>5. CASE Drained BY <1>5, <1>0, RoomyKeepsRoom DEF Roomy, Drained, memory
<1>6. CASE Cancelled
  <2>1. queue = <<>> /\ Len(queue) = 0 BY <1>6, <1>0 DEF Cancelled
  <2>2. Len(Append(queue, Stop)) = 1 BY <1>0, <2>1, AddedToQueue
  <2>3. \A j \in Jobs : submission[j] \notin {"stage", "put"}
    BY <1>6, <1>0, IntakeAssumption DEF Cancelled
  <2>4. RoomInv BY DEF IntakeInv
  <2> QED BY <1>6, <1>0, <2>2, <2>3, <2>4 DEF Cancelled, RoomInv, RoomIsKept, Registered
<1>7. CASE Joined BY <1>7, <1>0, RoomyKeepsRoom DEF Roomy, Joined, Staged, Registered, memory
<1>8. CASE JoinTimesOut BY <1>8, <1>0, RoomyKeepsRoom DEF Roomy, JoinTimesOut, memory
<1>9. CASE ShutdownEnds BY <1>9, <1>0, RoomyKeepsRoom DEF Roomy, ShutdownEnds, memory
<1>10. CASE Take
  <2>1. queue' = Tail(queue) /\ Len(queue') = Len(queue) - 1 /\ Len(queue) - 1 \in Nat
    BY <1>10, <1>0, TakenFromQueue DEF Take
  <2>2. \A j \in Jobs : record'[j].status # "NONE" => record[j].status # "NONE"
    BY <1>10, TakeFacts
  <2> QED BY <1>10, <1>0, <2>1, <2>2, TakeFacts, RoomyKeepsRoom DEF Roomy
<1>11. CASE Ingest BY <1>11, <1>0, RoomyKeepsRoom DEF Roomy, Ingest, Ends, IntakeInv, WorkerInv
<1>12. CASE CleanUp BY <1>12, <1>0, RoomyKeepsRoom DEF Roomy, CleanUp, Removes, memory
<1>13. CASE CleanUpFails
  <2>1. worker.job \in Jobs /\ record[worker.job].status \in Ended
    BY <1>13 DEF CleanUpFails, IntakeInv, WorkerInv
  <2>2. ASSUME NEW j \in Jobs, record[j].status = "NONE" PROVE record'[j] = record[j]
    <3>1. j # worker.job BY <2>1, <2>2 DEF Ended
    <3> QED BY <1>13, <1>0, <2>1, <3>1 DEF CleanUpFails, Ends
  <2>3. \A j \in Jobs : record'[j].status # "NONE" => record[j].status # "NONE" BY <2>2
  <2> QED BY <1>13, <1>0, <2>3, RoomyKeepsRoom DEF Roomy, CleanUpFails
<1>14. CASE Forget BY <1>14, <1>0, RoomyKeepsRoom DEF Roomy, Forget, Record
<1>15. ASSUME NEW i \in Jobs, Cancel(i)
  PROVE RoomInv' BY <1>15, <1>0, CancelFacts, RoomyKeepsRoom DEF Roomy
<1>16. ASSUME NEW i \in Jobs, Sweep(i)
  PROVE RoomInv' BY <1>16, <1>0, RoomyKeepsRoom DEF Roomy, Sweep, Record
<1>17. ASSUME NEW i \in Jobs, SubmitUnavailable(i)
  PROVE RoomInv' BY <1>17, <1>0, RoomyKeepsRoom DEF Roomy, SubmitUnavailable, Refuse, memory
<1>18. ASSUME NEW i \in Jobs, SubmitCheck(i) PROVE RoomInv'
  <2>1. CASE lock' = i BY <1>18, <1>00, <2>1
  <2>2. CASE lock' # i
    <3>1. \A j \in Jobs : submission'[j] \in {"stage", "put"} => submission[j] \in {"stage",
      "put"}
      BY <1>18, <1>0, <2>2 DEF SubmitCheck, Refuse
    <3>2. \A j \in Jobs : record'[j].status # "NONE" => record[j].status # "NONE"
      BY <1>18, Evicts DEF NoRecord
    <3> QED BY <1>18, <1>0, <3>1, <3>2, RoomyKeepsRoom DEF Roomy, SubmitCheck
  <2> QED BY <2>1, <2>2
<1>19. ASSUME NEW i \in Jobs, StageFails(i)
  PROVE RoomInv' BY <1>19, <1>0, RoomyKeepsRoom DEF Roomy, StageFails, Refuse, memory
<1>20. ASSUME NEW i \in Jobs, Stage(i)
  PROVE RoomInv' BY <1>20, <1>0, RoomyKeepsRoom DEF Roomy, Stage, memory
<1>21. ASSUME NEW i \in Jobs, Put(i) PROVE RoomInv'
  <2>1. CASE UNCHANGED <<record, queue>>
    BY <1>21, <1>0, <2>1, RoomyKeepsRoom DEF Roomy, Put, Refuse
  <2>2. CASE /\ queue' = Append(queue, i) /\ Len(queue) < QueueCapacity
             /\ record' = [record EXCEPT ![i] = [status |-> "QUEUED", path |-> TRUE]]
    <3>1. Len(queue') \in Nat /\ Len(queue') <= QueueCapacity BY <1>0, <2>2, AddedToQueue
    <3>2. Registered' = Registered \cup {i} BY <1>0, <2>2 DEF Registered
    <3>3. IsFiniteSet(Registered) /\ Cardinality(Registered) < RegistryCapacity
      BY <1>21 DEF Put, IntakeInv, RoomInv, RoomIsKept
    <3>4. /\ IsFiniteSet(Registered') /\ Cardinality(Registered) \in Nat
          /\ Cardinality(Registered') \in {Cardinality(Registered), Cardinality(Registered) + 1}
      BY <3>2, <3>3, FS_AddElement, FS_CardinalityType
    <3>5. Cardinality(Registered') <= RegistryCapacity BY <1>0, <3>3, <3>4
    <3>6. \A j \in Jobs : submission'[j] \notin {"stage", "put"}
      BY <1>21, <1>0, <2>2 DEF Put, Refuse
    <3> QED BY <3>1, <3>4, <3>5, <3>6 DEF RoomInv, RoomIsKept
  <2> QED BY <1>21, <2>1, <2>2 DEF Put
<1>22. ASSUME NEW i \in Jobs, Answer(i)
  PROVE RoomInv' BY <1>22, <1>0, RoomyKeepsRoom DEF Roomy, Answer, memory
<1> QED
  BY <1>1, <1>2, <1>3, <1>4, <1>5, <1>6, <1>7, <1>8, <1>9, <1>10, <1>11, <1>12, <1>13, <1>14,
    <1>15, <1>16, <1>17, <1>18, <1>19, <1>20, <1>21, <1>22, Actions

-----------------------------------------------------------------------------
(* The theorems about the jobs.                                            *)

LEMMA InitHolds == Init => IntakeInv
<1> SUFFICES ASSUME Init PROVE IntakeInv OBVIOUS
<1>1. Types BY IntakeAssumption DEF Init, Types, NoRecord, Record
<1>2. Exclusive BY IntakeAssumption DEF Init, Exclusive
<1>3. QueueInv BY EmptyQueue DEF Init, QueueInv, InQueue, NoRecord
<1>4. WorkerInv BY DEF Init, WorkerInv
<1>5. RoomInv
  <2>1. Registered = {} BY DEF Init, Registered, NoRecord
  <2> QED BY <2>1, FS_EmptySet, IntakeAssumption DEF Init, RoomInv, RoomIsKept
<1>6. \A j \in Jobs : JobInv(j) BY DEF Init, JobInv, NoRecord
<1> QED BY <1>1, <1>2, <1>3, <1>4, <1>5, <1>6 DEF IntakeInv, Control

LEMMA Inductive == IntakeInv /\ [Next]_vars => IntakeInv'
<1> SUFFICES ASSUME IntakeInv, [Next]_vars PROVE IntakeInv' OBVIOUS
<1> QED BY JobsTypesStep, ExclusiveStep, QueueStep, WorkerStep, JobStep, RoomStep
        DEF IntakeInv, Control

\* Shutdown and the worker leave each other's jobs alone: the registry, the queue and
\* the staged files always agree on what is still to be done.
THEOREM IntakeInvariance == Spec => []IntakeInv
BY InitHolds, Inductive, PTL DEF Spec

\* The registry and the queue keep within their capacities.
THEOREM TypesAreKept == Spec => []TypeOK
<1>1. IntakeInv => TypeOK BY DEF IntakeInv, Control, Types, RoomInv, TypeOK
<1> QED BY <1>1, IntakeInvariance, PTL

\* An upload has the room it was promised, its file as long as that is needed, and a
\* record of it as long as there is one.
THEOREM UploadsAreAlwaysAccounted == Spec => []UploadsAreAccounted
<1>1. IntakeInv => UploadsAreAccounted
  <2> SUFFICES ASSUME IntakeInv PROVE UploadsAreAccounted OBVIOUS
  <2>1. RoomIsKept BY DEF IntakeInv, RoomInv
  <2>2. FileWhileNeeded BY DEF IntakeInv, WorkerInv, JobInv, FileWhileNeeded
  <2>3. NothingIsForgotten BY DEF IntakeInv, JobInv, NothingIsForgotten, Registered
  <2> QED BY <2>1, <2>2, <2>3 DEF UploadsAreAccounted
<1> QED BY <1>1, IntakeInvariance, PTL

\* Once readers are told that a job has ended, its record stays as it is or goes.
LEMMA EndedStays ==
  ASSUME IntakeInv, [Next]_vars, NEW j \in Jobs, Shown(j) \in Ended
  PROVE  Shown(j)' \in {Shown(j), "NONE"}
<1> DEFINE Goal == Shown(j)' \in {Shown(j), "NONE"}
<1> SUFFICES Goal OBVIOUS
<1>0. /\ record \in [Jobs -> Record] /\ "PROCESSING" \notin Ended /\ "NONE" \notin Ended
      /\ "QUEUED" \notin Ended
  BY DEF IntakeInv, Control, Types, Ended
<1>1. record[j].status \in Ended /\ ~ record[j].path /\ Shown(j) = record[j].status
  BY <1>0 DEF Shown
<1>2. ASSUME record'[j] = record[j] PROVE Goal BY <1>2 DEF Shown
<1>3. ASSUME record'[j] = NoRecord PROVE Goal BY <1>3 DEF Shown, NoRecord, Ended
<1>4. worker.pc \in {"ingest", "clean", "forget"} => worker.job # j
  BY <1>1 DEF IntakeInv, WorkerInv
<1>5. ASSUME UNCHANGED record PROVE Goal BY <1>2, <1>5
<1> HIDE DEF Goal
<1>6. CASE Take
  <2>1. record[j].status # "QUEUED" BY <1>0, <1>1
  <2>2. record' = record \/ record'[j] = record[j] BY <1>6, <2>1, TakeFacts
  <2> QED BY <1>2, <1>5, <2>2
<1>7. CASE Ingest \/ CleanUpFails \/ Forget
  <2>1. worker.job # j BY <1>4, <1>7 DEF Ingest, CleanUpFails, Forget
  <2>2. CASE Ingest
    <3>1. PICK status : record' = [record EXCEPT ![worker.job].status = status]
      BY <2>2 DEF Ingest, Ends
    <3> QED BY <1>0, <1>2, <2>1, <3>1
  <2>3. CASE CleanUpFails BY <1>0, <1>2, <2>1, <2>3 DEF CleanUpFails, Ends
  <2>4. CASE Forget BY <1>0, <1>2, <2>1, <2>4 DEF Forget
  <2> QED BY <1>7, <2>2, <2>3, <2>4
<1>8. ASSUME NEW i \in Jobs, Cancel(i) PROVE Goal BY <1>0, <1>1, <1>2, <1>5, <1>8, CancelFacts
<1>9. ASSUME NEW i \in Jobs, Sweep(i) PROVE Goal
  <2>1. i # j BY <1>1, <1>9 DEF Sweep, IntakeInv, JobInv
  <2> QED BY <1>0, <1>2, <1>9, <2>1 DEF Sweep
<1>10. ASSUME NEW i \in Jobs, SubmitCheck(i) PROVE Goal BY <1>2, <1>3, <1>10, Evicts
<1>11. ASSUME NEW i \in Jobs, Put(i) PROVE Goal
  <2>1. i # j BY <1>0, <1>1, <1>11 DEF Put, IntakeInv, JobInv
  <2> QED BY <1>0, <1>2, <1>11, <2>1 DEF Put
<1>12. CASE \/ UNCHANGED vars \/ Start \/ ShutdownBegins \/ Drain \/ Drained \/ Cancelled
            \/ Joined \/ JoinTimesOut \/ ShutdownEnds \/ CleanUp
  <2>1. UNCHANGED record
    BY <1>12 DEF vars, memory, Start, ShutdownBegins, Drain, Drained, Cancelled, Joined,
       JoinTimesOut, ShutdownEnds, CleanUp
  <2> QED BY <1>5, <2>1
<1>13. ASSUME NEW i \in Jobs, SubmitUnavailable(i) \/ StageFails(i) \/ Stage(i) \/ Answer(i)
       PROVE  Goal
  BY <1>5, <1>13 DEF SubmitUnavailable, StageFails, Stage, Answer, memory
<1>14. CASE \E i \in Jobs : \/ Cancel(i) \/ Sweep(i) \/ SubmitUnavailable(i) \/ SubmitCheck(i)
                         \/ StageFails(i) \/ Stage(i) \/ Put(i) \/ Answer(i)
  BY <1>8, <1>9, <1>10, <1>11, <1>13, <1>14
<1> QED BY <1>6, <1>7, <1>12, <1>14, Actions

\* A reader who was told that a job has ended never gets another answer, unless the job
\* is evicted.
THEOREM EndedIsFinal == Spec => ShownIsFinal
<1>1. IntakeInv /\ [Next]_vars =>
        [\A j \in Jobs : Shown(j) \in Ended => Shown(j)' \in {Shown(j), "NONE"}]_vars
  BY EndedStays
<1> QED BY <1>1, IntakeInvariance, PTL DEF Spec, ShownIsFinal

-----------------------------------------------------------------------------
(* The store of original files: the inductive invariant.                   *)

\* All preservations go through the same store object.
OneStore == \A u, v \in Uploads : StoreOf[u] = StoreOf[v]

Inside == {"open", "copy", "compare", "look", "place", "receipt", "replace", "stored",
           "discard", "undo", "withdraw", "unlink", "failed"}

\* Who is inside preserve holds the lock of its store.
LockInv == \A u \in Uploads : at[u] \in Inside => Held(u)

\* What a preservation knows of the files where it stands.
KnowsFiles(u) ==
  /\ at[u] \in {"look", "place"} => copied[u] = hashed[u]
  /\ at[u] \in {"receipt", "replace"} => hashed[u] \in blobs
  /\ at[u] = "unlink" => ~ HasReceipt(hashed[u])
  /\ at[u] \in {"stored", "reading"} => Receipt(u) \in receipts

FilesInv == \A u \in Uploads : KnowsFiles(u)

\* As long as nobody was killed, what is left in the directories is what a
\* preservation in progress has still to remove, or what its clean-up failed at.
StillRemoves(t) ==
  \/ t.file = "copy" /\ at[t.upload] \in {"copy", "compare", "look", "place", "discard", "undo"}
  \/ t.file = "receipt" /\ at[t.upload] \in {"replace", "undo", "withdraw"}
StillHasBlob(u, x) ==
  /\ made[u] /\ hashed[u] = x
  /\ at[u] \in {"receipt", "replace", "undo", "withdraw", "unlink"}

UndoneInv ==
  mishaps.kills = 0 =>
    /\ \A t \in leftovers : StillRemoves(t) \/ FileLeft(t)
    /\ \A x \in blobs :
         HasReceipt(x) \/ BlobLeft(x) \/ \E u \in Uploads : StillHasBlob(u, x)

StoreInv ==
  /\ StoreTypeOK /\ LockInv /\ FilesInv /\ UndoneInv
  /\ ReceiptHasBlob

-----------------------------------------------------------------------------
(* Facts about the lock.                                                   *)

LEMMA Holders ==
  ASSUME NEW u, NEW v
  PROVE  Nobody # [by |-> u] /\ ([by |-> u] = [by |-> v] => u = v)
<1>1. "nobody" \in DOMAIN Nobody /\ "nobody" \notin DOMAIN [by |-> u] BY DEF Nobody
<1>2. [by |-> u].by = u /\ [by |-> v].by = v OBVIOUS
<1> QED BY <1>1, <1>2

\* With one store object, at most one preservation is inside.
LEMMA Alone ==
  ASSUME OneStore, LockInv, NEW u \in Uploads, NEW v \in Uploads,
         at[u] \in Inside, at[v] \in Inside
  PROVE  u = v
<1>1. StoreOf[u] = StoreOf[v] BY DEF OneStore
<1>2. [by |-> u] = [by |-> v] BY <1>1 DEF LockInv, Held
<1> QED BY <1>2, Holders

\* A step of one preservation leaves what another one knows alone.
Others(u) ==
  \A v \in Uploads \ {u} :
    at'[v] = at[v] /\ hashed'[v] = hashed[v] /\ copied'[v] = copied[v] /\ made'[v] = made[v]

\* The steps of one preservation.
StoreActs(u) == StoreStep(u) \/ Fault(u) \/ ClearingFails(u) \/ EditSource(u)

LEMMA OthersStay ==
  ASSUME StoreTypeOK, NEW u \in Uploads, StoreActs(u)
  PROVE  Others(u)
<1> USE DEF StoreTypeOK, Others, Goto
<1>1. CASE HashSource(u) BY <1>1 DEF HashSource
<1>2. CASE Acquire(u) BY <1>2 DEF Acquire
<1>3. CASE OpenCopy(u) BY <1>3 DEF OpenCopy
<1>4. CASE Copy(u) BY <1>4 DEF Copy
<1>5. CASE Compare(u) BY <1>5 DEF Compare
<1>6. CASE LookForBlob(u) BY <1>6 DEF LookForBlob
<1>7. CASE PlaceBlob(u) BY <1>7 DEF PlaceBlob
<1>8. CASE WriteReceipt(u) BY <1>8 DEF WriteReceipt
<1>9. CASE PutReceipt(u) BY <1>9 DEF PutReceipt
<1>10. CASE DropCopy(u) BY <1>10 DEF DropCopy
<1>11. CASE Undo(u) BY <1>11 DEF Undo
<1>12. CASE Withdraw(u) BY <1>12 DEF Withdraw
<1>13. CASE Unlink(u) BY <1>13 DEF Unlink
<1>14. CASE Release(u) BY <1>14 DEF Release
<1>15. CASE OpenSource(u) BY <1>15 DEF OpenSource
<1>16. CASE Fault(u) BY <1>16 DEF Fault
<1>17. CASE ClearingFails(u) BY <1>17 DEF ClearingFails
<1>18. CASE EditSource(u) BY <1>18 DEF EditSource
<1> QED BY <1>1, <1>2, <1>3, <1>4, <1>5, <1>6, <1>7, <1>8, <1>9, <1>10, <1>11, <1>12, <1>13,
        <1>14, <1>15, <1>16, <1>17, <1>18
        DEF StoreActs, StoreStep

-----------------------------------------------------------------------------
(* Every step preserves each part of the invariant.                        *)

LEMMA StoreTypesStep ==
  ASSUME StoreTypeOK, NEW u \in Uploads, StoreActs(u)
  PROVE  StoreTypeOK'
<1> USE StoreAssumption DEF StoreTypeOK, Goto, Without, files
<1> Temp(u, "copy") \in [upload : Uploads, file : {"copy", "receipt"}]
    /\ Temp(u, "receipt") \in [upload : Uploads, file : {"copy", "receipt"}]
  BY DEF Temp
<1>1. CASE HashSource(u) BY <1>1 DEF HashSource
<1>2. CASE Acquire(u) BY <1>2 DEF Acquire, Stores
<1>3. CASE OpenCopy(u) BY <1>3 DEF OpenCopy
<1>4. CASE Copy(u) BY <1>4 DEF Copy
<1>5. CASE Compare(u) BY <1>5 DEF Compare
<1>6. CASE LookForBlob(u) BY <1>6 DEF LookForBlob
<1>7. CASE PlaceBlob(u) BY <1>7 DEF PlaceBlob
<1>8. CASE WriteReceipt(u) BY <1>8 DEF WriteReceipt
<1>9. CASE PutReceipt(u)
  <2>1. Receipt(u) \in [upload : Uploads, content : Contents] BY DEF Receipt
  <2> QED BY <1>9, <2>1 DEF PutReceipt
<1>10. CASE DropCopy(u) BY <1>10 DEF DropCopy
<1>11. CASE Undo(u) BY <1>11 DEF Undo
<1>12. CASE Withdraw(u) BY <1>12 DEF Withdraw
<1>13. CASE Unlink(u) BY <1>13 DEF Unlink
<1>14. CASE Release(u) BY <1>14 DEF Release
<1>15. CASE OpenSource(u)
  <2>1. \E x \in {"scanned", "missing"} : at' = [at EXCEPT ![u] = x]
    BY <1>15 DEF OpenSource
  <2> QED BY <1>15, <2>1 DEF OpenSource
<1>16. CASE Fault(u) BY <1>16 DEF Fault
<1>17. CASE ClearingFails(u)
  <2>1. at[u] \in {"undo", "withdraw", "unlink"} =>
          Abandonment(u) \in [upload : Uploads, step : {"undo", "withdraw", "unlink"},
                         content : Contents, made : BOOLEAN]
    BY DEF Abandonment
  <2>2. /\ at' = [at EXCEPT ![u] = IF at[u] = "discard" THEN "undo" ELSE "failed"]
        /\ abandoned' = IF at[u] = "discard" THEN abandoned ELSE abandoned \cup {Abandonment(u)}
        /\ at[u] \in {"discard", "undo", "withdraw", "unlink"}
    BY <1>17 DEF ClearingFails
  <2>3. abandoned' \subseteq [upload : Uploads, step : {"undo", "withdraw", "unlink"},
                            content : Contents, made : BOOLEAN]
    BY <2>1, <2>2
  <2> QED BY <1>17, <2>2, <2>3 DEF ClearingFails
<1>18. CASE EditSource(u) BY <1>18 DEF EditSource
<1> QED BY <1>1, <1>2, <1>3, <1>4, <1>5, <1>6, <1>7, <1>8, <1>9, <1>10, <1>11, <1>12, <1>13,
        <1>14, <1>15, <1>16, <1>17, <1>18
        DEF StoreActs, StoreStep

LEMMA LockStep ==
  ASSUME StoreTypeOK, LockInv, NEW u \in Uploads, StoreActs(u)
  PROVE  LockInv'
<1> SUFFICES ASSUME NEW v \in Uploads, at'[v] \in Inside PROVE Held(v)'
  BY DEF LockInv
<1>1. CASE Acquire(u)
  <2>1. holder' = [holder EXCEPT ![StoreOf[u]] = [by |-> u]] /\ holder[StoreOf[u]] = Nobody
        /\ at' = [at EXCEPT ![u] = "open"]
    BY <1>1 DEF Acquire, Goto
  <2>2. StoreOf[u] \in Stores /\ StoreOf[v] \in Stores BY DEF Stores
  <2>3. CASE v = u BY <2>1, <2>2, <2>3 DEF Held, StoreTypeOK
  <2>4. CASE v # u
    <3>1. Held(v) BY <2>1, <2>4 DEF LockInv, StoreTypeOK
    <3>2. StoreOf[v] # StoreOf[u] BY <2>1, <3>1, Holders DEF Held
    <3> QED BY <2>1, <2>2, <3>1, <3>2 DEF Held, StoreTypeOK
  <2> QED BY <2>3, <2>4
<1>2. CASE Release(u)
  <2>1. holder' = [holder EXCEPT ![StoreOf[u]] = Nobody] /\ Held(u)
        /\ at'[u] \notin Inside /\ (v # u => at'[v] = at[v])
    BY <1>2 DEF Release, StoreTypeOK, Inside
  <2>2. v # u /\ Held(v) BY <2>1 DEF LockInv
  <2>3. StoreOf[v] # StoreOf[u] BY <2>1, <2>2, Holders DEF Held
  <2>4. StoreOf[u] \in Stores /\ StoreOf[v] \in Stores BY DEF Stores
  <2> QED BY <2>1, <2>2, <2>3, <2>4 DEF Held, StoreTypeOK
<1>3. CASE ~ Acquire(u) /\ ~ Release(u)
  <2>1. UNCHANGED holder /\ (at'[u] \in Inside => at[u] \in Inside)
    <3> USE DEF StoreTypeOK, Goto, Inside
    <3>1. CASE HashSource(u) BY <3>1 DEF HashSource
    <3>2. CASE OpenCopy(u) BY <3>2 DEF OpenCopy
    <3>3. CASE Copy(u) BY <3>3 DEF Copy
    <3>4. CASE Compare(u) BY <3>4 DEF Compare
    <3>5. CASE LookForBlob(u) BY <3>5 DEF LookForBlob
    <3>6. CASE PlaceBlob(u) BY <3>6 DEF PlaceBlob
    <3>7. CASE WriteReceipt(u) BY <3>7 DEF WriteReceipt
    <3>8. CASE PutReceipt(u) BY <3>8 DEF PutReceipt
    <3>9. CASE DropCopy(u) BY <3>9 DEF DropCopy
    <3>10. CASE Undo(u) BY <3>10 DEF Undo
    <3>11. CASE Withdraw(u) BY <3>11 DEF Withdraw
    <3>12. CASE Unlink(u) BY <3>12 DEF Unlink
    <3>13. CASE OpenSource(u) BY <3>13 DEF OpenSource
    <3>14. CASE Fault(u) BY <3>14 DEF Fault
    <3>15. CASE ClearingFails(u) BY <3>15 DEF ClearingFails
    <3>16. CASE EditSource(u) BY <3>16 DEF EditSource
    <3> QED BY <1>3, <3>1, <3>2, <3>3, <3>4, <3>5, <3>6, <3>7, <3>8, <3>9, <3>10, <3>11,
            <3>12, <3>13, <3>14, <3>15, <3>16
            DEF StoreActs, StoreStep
  <2>2. at[v] \in Inside BY <2>1, OthersStay DEF Others
  <2> QED BY <2>1, <2>2 DEF LockInv, Held
<1> QED BY <1>1, <1>2, <1>3

\* Receipts stay, blobs stay but for the one a handler unlinks, and no receipt
\* is written but by a preservation that is inside.
LEMMA FilesOnlyGrow ==
  ASSUME StoreTypeOK, NEW u \in Uploads, StoreActs(u)
  PROVE  /\ receipts \subseteq receipts'
         /\ receipts' # receipts =>
              at[u] = "replace" /\ receipts' = receipts \cup {Receipt(u)}
         /\ \A x \in blobs \ blobs' : at[u] = "unlink" /\ x = hashed[u]
         /\ blobs' \ blobs # {} =>
              at[u] = "place" /\ blobs' = blobs \cup {copied[u]} /\ at'[u] = "receipt"
              /\ made'[u] = TRUE
<1> USE DEF StoreTypeOK, Goto
<1>1. CASE PutReceipt(u) BY <1>1 DEF PutReceipt
<1>2. CASE Unlink(u) BY <1>2 DEF Unlink
<1>3. CASE PlaceBlob(u) BY <1>3 DEF PlaceBlob
<1>4. CASE UNCHANGED <<blobs, receipts>> BY <1>4
<1>5. PutReceipt(u) \/ Unlink(u) \/ PlaceBlob(u) \/ UNCHANGED <<blobs, receipts>>
  BY DEF StoreActs, StoreStep, HashSource, Acquire, OpenCopy, Copy, Compare, LookForBlob,
         WriteReceipt, DropCopy, Undo, Withdraw, Release, OpenSource, Fault, ClearingFails,
         EditSource, files
<1> QED BY <1>1, <1>2, <1>3, <1>4, <1>5

LEMMA FilesStep ==
  ASSUME OneStore, StoreTypeOK, LockInv, FilesInv, NEW u \in Uploads, StoreActs(u)
  PROVE  FilesInv'
<1> SUFFICES ASSUME NEW v \in Uploads PROVE KnowsFiles(v)' BY DEF FilesInv
<1>1. KnowsFiles(u) /\ KnowsFiles(v) BY DEF FilesInv
<1>2. CASE v # u
  <2>1. at'[v] = at[v] /\ hashed'[v] = hashed[v] /\ copied'[v] = copied[v]
    BY <1>2, OthersStay DEF Others
  <2>2. at[v] \in Inside => at[u] \notin Inside BY <1>2, Alone
  <2>3. at[v] \in {"receipt", "replace"} => hashed[v] \in blobs'
    BY <1>1, <2>2, FilesOnlyGrow DEF KnowsFiles, Inside
  <2>4. at[v] = "unlink" => receipts' = receipts
    BY <2>2, FilesOnlyGrow DEF Inside
  <2>5. at[v] \in {"stored", "reading"} => Receipt(v)' \in receipts'
    BY <1>1, <2>1, FilesOnlyGrow DEF KnowsFiles, Receipt
  <2> QED BY <1>1, <2>1, <2>3, <2>4, <2>5 DEF KnowsFiles, HasReceipt
<1>3. CASE v = u
  <2> USE <1>1, <1>3 DEF StoreTypeOK, Goto, KnowsFiles, files
  <2>1. CASE HashSource(u) BY <2>1 DEF HashSource
  <2>2. CASE Acquire(u) BY <2>2 DEF Acquire
  <2>3. CASE OpenCopy(u) BY <2>3 DEF OpenCopy
  <2>4. CASE Copy(u) BY <2>4 DEF Copy
  <2>5. CASE Compare(u) BY <2>5 DEF Compare
  <2>6. CASE LookForBlob(u) BY <2>6 DEF LookForBlob
  <2>7. CASE PlaceBlob(u) BY <2>7 DEF PlaceBlob
  <2>8. CASE WriteReceipt(u) BY <2>8 DEF WriteReceipt, Receipt
  <2>9. CASE PutReceipt(u) BY <2>9 DEF PutReceipt, Receipt
  <2>10. CASE DropCopy(u) BY <2>10 DEF DropCopy
  <2>11. CASE Undo(u) BY <2>11 DEF Undo
  <2>12. CASE Withdraw(u) BY <2>12 DEF Withdraw, HasReceipt
  <2>13. CASE Unlink(u) BY <2>13 DEF Unlink
  <2>14. CASE Release(u) BY <2>14 DEF Release, Receipt
  <2>15. CASE OpenSource(u) BY <2>15 DEF OpenSource
  <2>16. CASE Fault(u) BY <2>16 DEF Fault
  <2>17. CASE ClearingFails(u) BY <2>17 DEF ClearingFails
  <2>18. CASE EditSource(u) BY <2>18 DEF EditSource, HasReceipt, Receipt
  <2> QED BY <2>1, <2>2, <2>3, <2>4, <2>5, <2>6, <2>7, <2>8, <2>9, <2>10, <2>11, <2>12,
          <2>13, <2>14, <2>15, <2>16, <2>17, <2>18
          DEF StoreActs, StoreStep
<1> QED BY <1>2, <1>3

LEMMA ReceiptsStep ==
  ASSUME StoreTypeOK, FilesInv, ReceiptHasBlob, NEW u \in Uploads, StoreActs(u)
  PROVE  ReceiptHasBlob'
<1>1. KnowsFiles(u) BY DEF FilesInv
<1>2. ASSUME NEW r \in receipts' PROVE r.content \in blobs'
  <2>1. CASE r \in receipts
    <3>1. r.content \in blobs BY <2>1 DEF ReceiptHasBlob
    <3>2. at[u] = "unlink" => r.content # hashed[u] BY <1>1, <2>1 DEF KnowsFiles, HasReceipt
    <3>3. \A x \in blobs \ blobs' : at[u] = "unlink" /\ x = hashed[u] BY FilesOnlyGrow
    <3> QED BY <3>1, <3>2, <3>3
  <2>2. CASE r \notin receipts
    <3>1. at[u] = "replace" /\ r = Receipt(u) BY <1>2, <2>2, FilesOnlyGrow
    <3>2. r.content = hashed[u] BY <3>1 DEF Receipt
    <3> QED BY <1>1, <3>1, <3>2, FilesOnlyGrow DEF KnowsFiles
  <2> QED BY <2>1, <2>2
<1>3. ASSUME NEW v \in Uploads PROVE at'[v] # "missing"
  <2>1. CASE v # u BY <2>1, OthersStay DEF Others, ReceiptHasBlob
  <2>2. CASE v = u
    <3> USE <2>2 DEF StoreTypeOK, Goto
    <3>1. CASE OpenSource(u)
      <4>1. Receipt(u) \in receipts BY <1>1, <3>1 DEF OpenSource, KnowsFiles
      <4>2. hashed[u] \in blobs BY <4>1 DEF ReceiptHasBlob, Receipt
      <4> QED BY <3>1, <4>2 DEF OpenSource
    <3>2. CASE ~ OpenSource(u)
      <4>1. at[u] # "missing" BY DEF ReceiptHasBlob
      <4> QED BY <3>2, <4>1
          DEF StoreActs, StoreStep, HashSource, Acquire, OpenCopy, Copy, Compare, LookForBlob,
              PlaceBlob, WriteReceipt, PutReceipt, DropCopy, Undo, Withdraw, Unlink, Release,
              Fault, ClearingFails, EditSource
    <3> QED BY <3>1, <3>2
  <2> QED BY <2>1, <2>2
<1> QED BY <1>2, <1>3 DEF ReceiptHasBlob

\* Of the temporary files a step touches those of its own preservation only: it
\* removes one, or makes one it will remove; and what failed is never forgotten.
LEMMA LeftoversStep ==
  ASSUME StoreTypeOK, NEW u \in Uploads, StoreActs(u)
  PROVE  /\ abandoned \subseteq abandoned'
         /\ \A t \in leftovers' \ leftovers : t = Temp(u, "copy") \/ t = Temp(u, "receipt")
         /\ mishaps'.kills = mishaps.kills
<1> USE DEF StoreTypeOK, Without, files
<1>1. abandoned \subseteq abandoned'
  BY DEF StoreActs, StoreStep, HashSource, Acquire, OpenCopy, Copy, Compare, LookForBlob,
         PlaceBlob, WriteReceipt, PutReceipt, DropCopy, Undo, Withdraw, Unlink, Release,
         OpenSource, Fault, ClearingFails, EditSource
<1>2. \A t \in leftovers' \ leftovers : t = Temp(u, "copy") \/ t = Temp(u, "receipt")
  BY DEF StoreActs, StoreStep, HashSource, Acquire, OpenCopy, Copy, Compare, LookForBlob,
         PlaceBlob, WriteReceipt, PutReceipt, DropCopy, Undo, Withdraw, Unlink, Release,
         OpenSource, Fault, ClearingFails, EditSource
<1>3. mishaps'.kills = mishaps.kills
  BY DEF StoreActs, StoreStep, HashSource, Acquire, OpenCopy, Copy, Compare, LookForBlob,
         PlaceBlob, WriteReceipt, PutReceipt, DropCopy, Undo, Withdraw, Unlink, Release,
         OpenSource, Fault, ClearingFails, EditSource
<1> QED BY <1>1, <1>2, <1>3

\* A temporary file is removed, or can still be, or its clean-up has failed.
LEMMA OwnLeftovers ==
  ASSUME StoreTypeOK, NEW u \in Uploads, StoreActs(u), NEW t \in leftovers', t.upload = u,
         t \in leftovers => StillRemoves(t) \/ FileLeft(t)
  PROVE  StillRemoves(t)' \/ FileLeft(t)'
<1>1. t \in leftovers /\ FileLeft(t) => FileLeft(t)' BY LeftoversStep DEF FileLeft
<1>2. t = Temp(u, "copy") \/ t = Temp(u, "receipt")
  <2>1. t \in [upload : Uploads, file : {"copy", "receipt"}] BY StoreTypesStep DEF StoreTypeOK
  <2> QED BY <2>1 DEF Temp
<1>3. /\ Temp(u, "copy").upload = u /\ Temp(u, "copy").file = "copy"
      /\ Temp(u, "receipt").upload = u /\ Temp(u, "receipt").file = "receipt"
  BY DEF Temp
<1>4. t \in leftovers => StillRemoves(t) \/ FileLeft(t)' BY <1>1
<1> USE <1>2, <1>3, <1>4 DEF StoreTypeOK, Goto, StillRemoves, Without, files
<1>5. CASE HashSource(u) BY <1>5 DEF HashSource
<1>6. CASE Acquire(u) BY <1>6 DEF Acquire
<1>7. CASE OpenCopy(u) BY <1>7 DEF OpenCopy
<1>8. CASE Copy(u) BY <1>8 DEF Copy
<1>9. CASE Compare(u) BY <1>9 DEF Compare
<1>10. CASE LookForBlob(u) BY <1>10 DEF LookForBlob
<1>11. CASE PlaceBlob(u) BY <1>11 DEF PlaceBlob
<1>12. CASE WriteReceipt(u) BY <1>12 DEF WriteReceipt
<1>13. CASE PutReceipt(u) BY <1>13 DEF PutReceipt
<1>14. CASE DropCopy(u) BY <1>14 DEF DropCopy
<1>15. CASE Undo(u) BY <1>15 DEF Undo
<1>16. CASE Withdraw(u) BY <1>16 DEF Withdraw
<1>17. CASE Unlink(u) BY <1>17 DEF Unlink
<1>18. CASE Release(u) BY <1>18 DEF Release
<1>19. CASE OpenSource(u) BY <1>19 DEF OpenSource
<1>20. CASE Fault(u) BY <1>20 DEF Fault
<1>21. CASE ClearingFails(u)
  <2>1. CASE at[u] = "discard" BY <1>21, <2>1 DEF ClearingFails
  <2>2. CASE at[u] # "discard"
    <3>1. abandoned' = abandoned \cup {Abandonment(u)} /\ UNCHANGED leftovers
          /\ at[u] \in {"undo", "withdraw", "unlink"}
      BY <1>21, <2>2 DEF ClearingFails
    <3>2. Abandonment(u).upload = u /\ Abandonment(u).step = at[u] BY DEF Abandonment
    <3>3. Abandonment(u) \in abandoned' BY <3>1
    <3> QED BY <3>1, <3>2, <3>3 DEF FileLeft
  <2> QED BY <2>1, <2>2
<1>22. CASE EditSource(u) BY <1>22 DEF EditSource
<1> QED BY <1>5, <1>6, <1>7, <1>8, <1>9, <1>10, <1>11, <1>12, <1>13, <1>14, <1>15, <1>16,
        <1>17, <1>18, <1>19, <1>20, <1>21, <1>22
        DEF StoreActs, StoreStep

\* A blob a preservation made is removed, or handed over to a receipt, or its
\* clean-up has failed.
LEMMA OwnBlob ==
  ASSUME StoreTypeOK, NEW u \in Uploads, StoreActs(u), NEW x \in blobs', StillHasBlob(u, x)
  PROVE  HasReceipt(x)' \/ BlobLeft(x)' \/ StillHasBlob(u, x)'
<1>1. made[u] /\ hashed[u] = x /\ at[u] \in {"receipt", "replace", "undo", "withdraw", "unlink"}
  BY DEF StillHasBlob
<1>2. HasReceipt(x) => HasReceipt(x)' BY FilesOnlyGrow DEF HasReceipt
<1>3. Receipt(u).content = x BY <1>1 DEF Receipt
<1> USE <1>1 DEF StoreTypeOK, Goto, StillHasBlob
<1>4. CASE WriteReceipt(u)
  <2>1. CASE Receipt(u) \in receipts BY <1>2, <1>3, <2>1 DEF HasReceipt
  <2>2. CASE Receipt(u) \notin receipts BY <1>4, <2>2 DEF WriteReceipt
  <2> QED BY <2>1, <2>2
<1>5. CASE PutReceipt(u)
  <2>1. Receipt(u) \in receipts' BY <1>5 DEF PutReceipt
  <2> QED BY <1>3, <2>1 DEF HasReceipt
<1>6. CASE Undo(u) BY <1>6 DEF Undo
<1>7. CASE Withdraw(u)
  <2>1. CASE HasReceipt(x) BY <1>2, <2>1
  <2>2. CASE ~ HasReceipt(x) BY <1>7, <2>2 DEF Withdraw
  <2> QED BY <2>1, <2>2
<1>8. CASE Unlink(u)
  <2>1. x \notin blobs' BY <1>8 DEF Unlink
  <2> QED BY <2>1
<1>9. CASE Fault(u) BY <1>9 DEF Fault
<1>10. CASE ClearingFails(u)
  <2>1. Abandonment(u) \in abandoned' BY <1>10 DEF ClearingFails
  <2>2. Abandonment(u).content = x /\ Abandonment(u).made BY DEF Abandonment
  <2> QED BY <2>1, <2>2 DEF BlobLeft
<1> QED BY <1>4, <1>5, <1>6, <1>7, <1>8, <1>9, <1>10
    DEF StoreActs, StoreStep, HashSource, Acquire, OpenCopy, Copy, Compare, LookForBlob,
        PlaceBlob, DropCopy, Release, OpenSource, EditSource

\* What is left is what somebody removes, a receipt names, or a clean-up failed at.
LEMMA UndoneStep ==
  ASSUME StoreTypeOK, FilesInv, UndoneInv, NEW u \in Uploads, StoreActs(u)
  PROVE  UndoneInv'
<1> SUFFICES ASSUME mishaps'.kills = 0
             PROVE  /\ \A t \in leftovers' : StillRemoves(t)' \/ FileLeft(t)'
                    /\ \A x \in blobs' :
                         HasReceipt(x)' \/ BlobLeft(x)'
                         \/ \E v \in Uploads : StillHasBlob(v, x)'
  BY DEF UndoneInv
<1>1. mishaps.kills = 0 BY LeftoversStep
<1>2. /\ \A t \in leftovers : StillRemoves(t) \/ FileLeft(t)
      /\ \A x \in blobs :
           HasReceipt(x) \/ BlobLeft(x) \/ \E v \in Uploads : StillHasBlob(v, x)
  BY <1>1 DEF UndoneInv
<1>3. ASSUME NEW t \in leftovers' PROVE StillRemoves(t)' \/ FileLeft(t)'
  <2>1. t.upload \in Uploads BY StoreTypesStep, <1>3 DEF StoreTypeOK
  <2>2. CASE t.upload # u
    <3>1. t \in leftovers BY <1>3, <2>2, LeftoversStep DEF Temp
    <3>2. FileLeft(t) => FileLeft(t)' BY LeftoversStep DEF FileLeft
    <3>3. at'[t.upload] = at[t.upload] BY <2>1, <2>2, OthersStay DEF Others
    <3> QED BY <1>2, <3>1, <3>2, <3>3 DEF StillRemoves
  <2>3. CASE t.upload = u BY <1>2, <1>3, <2>3, OwnLeftovers
  <2> QED BY <2>2, <2>3
<1>4. ASSUME NEW x \in blobs'
      PROVE  HasReceipt(x)' \/ BlobLeft(x)' \/ \E v \in Uploads : StillHasBlob(v, x)'
  <2>1. HasReceipt(x) => HasReceipt(x)' BY FilesOnlyGrow DEF HasReceipt
  <2>2. BlobLeft(x) => BlobLeft(x)' BY LeftoversStep DEF BlobLeft
  <2>3. CASE x \notin blobs
    <3>1. /\ at[u] = "place" /\ x = copied[u] /\ at'[u] = "receipt" /\ made'[u] = TRUE
      BY <1>4, <2>3, FilesOnlyGrow
    <3>2. copied[u] = hashed[u] BY <3>1 DEF FilesInv, KnowsFiles
    <3>3. hashed'[u] = hashed[u]
      BY <3>1 DEF StoreTypeOK, Goto, StoreActs, StoreStep, HashSource, Acquire, OpenCopy, Copy,
         Compare, LookForBlob, PlaceBlob, WriteReceipt, PutReceipt, DropCopy, Undo, Withdraw,
         Unlink, Release, OpenSource, Fault, ClearingFails, EditSource
    <3> QED BY <3>1, <3>2, <3>3 DEF StillHasBlob
  <2>4. ASSUME NEW v \in Uploads, StillHasBlob(v, x), v # u PROVE StillHasBlob(v, x)'
    BY <2>4, OthersStay DEF Others, StillHasBlob
  <2>5. ASSUME StillHasBlob(u, x) PROVE HasReceipt(x)' \/ BlobLeft(x)' \/ StillHasBlob(u, x)'
    BY <1>4, <2>5, OwnBlob
  <2> QED BY <1>2, <2>1, <2>2, <2>3, <2>4, <2>5
<1> QED BY <1>3, <1>4

LEMMA KillStep ==
  ASSUME StoreInv, Kill
  PROVE  StoreInv'
<1> USE DEF StoreInv, Kill, StoreTypeOK, files
<1>1. StoreTypeOK' BY StoreAssumption
<1>2. \A u \in Uploads : at'[u] \in {"idle", "scanned"} OBVIOUS
<1>3. LockInv' BY <1>2 DEF LockInv, Inside
<1>4. FilesInv' BY <1>2 DEF FilesInv, KnowsFiles
<1>5. mishaps'.kills # 0 OBVIOUS
<1>6. UndoneInv' BY <1>5 DEF UndoneInv
<1>7. ReceiptHasBlob'
  <2>1. UNCHANGED <<blobs, receipts>> OBVIOUS
  <2> QED BY <1>2, <2>1 DEF ReceiptHasBlob
<1> QED BY <1>1, <1>3, <1>4, <1>6, <1>7

-----------------------------------------------------------------------------
(* The theorems about the store.                                           *)

LEMMA StoreInvInit == StoreInit => StoreInv
<1> SUFFICES ASSUME StoreInit PROVE StoreInv OBVIOUS
<1> USE StoreAssumption DEF StoreInit
<1>1. StoreTypeOK
  <2>1. mishaps \in [faults : 0 .. MaxFileFaults, kills : 0 .. MaxKills, edits : 0 .. MaxEdits]
    OBVIOUS
  <2> QED BY <2>1 DEF StoreTypeOK
<1>2. LockInv /\ FilesInv BY DEF LockInv, FilesInv, KnowsFiles, Inside
<1>3. UndoneInv /\ ReceiptHasBlob BY DEF UndoneInv, ReceiptHasBlob
<1> QED BY <1>1, <1>2, <1>3 DEF StoreInv

\* StoreInv is inductive as long as all preservations of the process go through
\* one store object, whatever is preserved, edited, fails or is killed.
THEOREM StoreInvariance == OneStore => (StoreSpec => []StoreInv)
<1> SUFFICES ASSUME OneStore PROVE StoreSpec => []StoreInv OBVIOUS
<1>1. StoreInit => StoreInv BY StoreInvInit
<1>2. StoreInv /\ [StoreNext]_storeVars => StoreInv'
  <2> SUFFICES ASSUME StoreInv, [StoreNext]_storeVars PROVE StoreInv' OBVIOUS
  <2>1. CASE Kill BY <2>1, KillStep
  <2>2. ASSUME NEW u \in Uploads, StoreActs(u) PROVE StoreInv'
    BY <2>2, StoreTypesStep, LockStep, FilesStep, ReceiptsStep, UndoneStep DEF StoreInv
  <2>3. CASE UNCHANGED storeVars
    BY <2>3 DEF storeVars, files, StoreInv, StoreTypeOK, LockInv, FilesInv, KnowsFiles,
       UndoneInv, StillRemoves, StillHasBlob, FileLeft, BlobLeft, ReceiptHasBlob, Held,
       HasReceipt, Receipt
  <2> QED BY <2>1, <2>2, <2>3 DEF StoreNext, StoreActs
<1> QED BY <1>1, <1>2, PTL DEF StoreSpec

\* A receipt never outlives or precedes its original, and no reader of a receipt
\* finds the original gone: what preserve promises, with one store object.
THEOREM ReceiptsHaveBlobs == OneStore => (StoreSpec => []ReceiptHasBlob)
<1> SUFFICES ASSUME OneStore PROVE StoreSpec => []ReceiptHasBlob OBVIOUS
<1>1. StoreInv => ReceiptHasBlob BY DEF StoreInv
<1> QED BY <1>1, StoreInvariance, PTL

\* A preservation that fails leaves neither a temporary file nor a blob that no
\* receipt names, unless the process was killed: what it leaves, its own clean-up
\* failed at, and a file that the clean-up got past is gone.
THEOREM FailuresLeaveNothing == OneStore => (StoreSpec => []FailureLeavesNothing)
<1> SUFFICES ASSUME OneStore PROVE StoreSpec => []FailureLeavesNothing OBVIOUS
<1>1. StoreInv => FailureLeavesNothing
  <2> SUFFICES ASSUME StoreInv, mishaps.kills = 0, \A u \in Uploads : ~ Held(u)
               PROVE  /\ \A t \in leftovers : FileLeft(t)
                      /\ \A x \in blobs : HasReceipt(x) \/ BlobLeft(x)
    BY DEF FailureLeavesNothing
  <2>1. \A u \in Uploads : at[u] \notin Inside BY DEF StoreInv, LockInv
  <2>2. \A t \in leftovers : t.upload \in Uploads BY DEF StoreInv, StoreTypeOK
  <2>3. \A t \in leftovers : FileLeft(t)
    BY <2>1, <2>2 DEF StoreInv, UndoneInv, StillRemoves, Inside
  <2>4. \A x \in blobs : HasReceipt(x) \/ BlobLeft(x)
    BY <2>1 DEF StoreInv, UndoneInv, StillHasBlob, Inside
  <2> QED BY <2>3, <2>4
<1> QED BY <1>1, StoreInvariance, PTL

-----------------------------------------------------------------------------
(* The package tool.                                                       *)

Trees == [version : Nat, root : DataRoots \cup {"none"}, whole : BOOLEAN, receipt : BOOLEAN]
Installing == {"stage", "provision", "move", "swap", "verify", "undo swap", "delete new",
               "undo move", "undo stage", "delete stage", "discard backup"}
Removing == {"bury", "buried", "discard tombstone"}

\* Whether a directory keeps the promise, and not as a tree in the making.
Survives(n) == n[1] # "stage" /\ At(n).whole /\ At(n).version >= promised

PackageTypes ==
  /\ tree \in [Names -> Trees]
  /\ step \in {"idle", "discarding"} \cup Installing \cup Removing
  /\ count \in 0 .. MaxInvocations
  /\ step # "idle" => count # 0
  /\ promised \in Nat
  /\ job = [action |-> job.action, version |-> job.version, root |-> job.root,
            before |-> job.before, swapped |-> job.swapped, moved |-> job.moved,
            clean |-> job.clean]
  /\ job.version \in Nat /\ job.root \in DataRoots \cup {"none"} /\ job.before \in Trees
  /\ job.swapped \in BOOLEAN /\ job.moved \in BOOLEAN /\ job.clean \in BOOLEAN
  /\ step \in Installing => job.action \in {"install", "update"}
  /\ step \in Removing => job.action = "remove"

\* Where the tree is that was the installation when the invocation began: in its
\* place, or under the name of the backup or of the tombstone.
BeforeInv ==
  /\ step \in {"stage", "provision", "move"} =>
       At(Install) = job.before /\ ~ job.swapped /\ ~ job.moved
  /\ step \in {"swap", "undo move"} =>
       IF job.moved THEN ~ There(Install) /\ At(Backup) = job.before
                    ELSE At(Install) = job.before
  /\ step = "swap" => ~ job.swapped
  /\ step = "verify" => job.swapped
  /\ step = "delete new" => job.swapped
  /\ step \in {"verify", "undo swap", "delete new"} =>
       IF job.moved THEN At(Backup) = job.before /\ (job.swapped \/ ~ There(Install))
                    ELSE IF job.swapped THEN job.before = Absent ELSE At(Install) = job.before
  /\ step \in {"undo stage", "delete stage"} /\ job.clean => At(Install) = job.before
  /\ step = "bury" => ~ job.moved /\ At(Install) = job.before
  /\ step = "buried" => job.moved /\ At(Tombstone) = job.before /\ job.before # Absent
  /\ step = "buried" \/ step = "discard tombstone"
       \/ (step = "discarding" /\ job.action = "remove") => ~ There(Install)

\* What an invocation was accepted for, and what it has made of it.
AcceptedInv ==
  /\ step # "idle" => told = "nothing"
  /\ step # "idle" /\ job.action = "update" =>
       job.version >= job.before.version /\ job.before.whole
  /\ step = "bury" => At(Install).receipt
  /\ step = "discard backup" \/ (step = "discarding" /\ job.action # "remove") =>
       At(Install) = Tree(job.version, job.root, TRUE) /\ promised = job.version
  /\ step = "discard tombstone" \/ (step = "discarding" /\ job.action = "remove") =>
       promised = 0

\* The new tree is not yet relied upon while it may still be taken back.
SpareInv ==
  step \in {"verify", "undo swap", "delete new"} /\ job.swapped /\ promised # 0 =>
    \E n \in Names \ {Install} : Survives(n)

PackageInv ==
  /\ PackageTypes /\ BeforeInv /\ AcceptedInv /\ SpareInv
  /\ CodeSurvives /\ ToldIsTrue

-----------------------------------------------------------------------------
(* The names, and what an effect leaves of the trees.                      *)

LEMMA NamesOfAnInvocation ==
  ASSUME PackageTypes, step # "idle"
  PROVE  /\ Install \in Names /\ NewTree \in Names /\ Backup \in Names /\ Tombstone \in Names
         /\ Install # NewTree /\ Install # Backup /\ Install # Tombstone
         /\ NewTree # Backup /\ NewTree # Tombstone
         /\ NewTree[1] = "stage" /\ Backup[1] # "stage" /\ Tombstone[1] # "stage"
         /\ Install[1] # "stage"
<1>1. count \in 1 .. MaxInvocations
  <2>1. count \in 0 .. MaxInvocations /\ count # 0 BY DEF PackageTypes
  <2> QED BY <2>1, PackageAssumption
<1>2. <<"stage", count>> \in {"stage", "backup", "remove"} \X (1 .. MaxInvocations) BY <1>1
<1>3. <<"backup", count>> \in {"stage", "backup", "remove"} \X (1 .. MaxInvocations) BY <1>1
<1>4. <<"remove", count>> \in {"stage", "backup", "remove"} \X (1 .. MaxInvocations) BY <1>1
<1> QED BY <1>2, <1>3, <1>4 DEF Names, Install, NewTree, Backup, Tombstone

LEMMA InstallIsNamed == Install \in Names /\ Install[1] # "stage"
BY DEF Names, Install

LEMMA AbsentIsATree ==
  /\ Absent \in Trees /\ Absent.version = 0 /\ ~ Absent.whole /\ ~ Absent.receipt
  /\ \A v \in Versions, d \in DataRoots, complete \in BOOLEAN :
       /\ Tree(v, d, complete) \in Trees /\ Tree(v, d, complete) # Absent
       /\ Tree(v, d, complete).version = v /\ Tree(v, d, complete).whole = complete
<1>1. \A v \in Versions : v \in Nat /\ v # 0 BY PackageAssumption
<1> QED BY <1>1 DEF Absent, Tree, Trees

LEMMA NotOlder == \A x \in Nat : x >= x
OBVIOUS

LEMMA WholeTree ==
  \A v, d : Tree(v, d, TRUE).whole /\ Tree(v, d, TRUE).version = v /\ Tree(v, d, TRUE).root = d
BY DEF Tree

\* Only what is under one name changes.
Only(n) == tree' \in [Names -> Trees] /\ \A m \in Names \ {n} : tree'[m] = tree[m]

\* What is under one name is now under another.
Moves(from, to) ==
  /\ tree' \in [Names -> Trees]
  /\ tree'[to] = tree[from] /\ tree'[from] = Absent /\ tree[to] = Absent
  /\ \A m \in Names \ {from, to} : tree'[m] = tree[m]

LEMMA RenamedMoves ==
  ASSUME tree \in [Names -> Trees], NEW from \in Names, NEW to \in Names, from # to,
         Renamed(from, to)
  PROVE  Moves(from, to)
BY AbsentIsATree DEF Renamed, Moves, There, At

LEMMA GnawedOnly ==
  ASSUME tree \in [Names -> Trees], NEW n \in Names, Gnawed(n)
  PROVE  Only(n)
<1>1. PICK receipt \in {At(n).receipt, FALSE} :
        tree' = [tree EXCEPT ![n].whole = FALSE, ![n].receipt = receipt]
  BY DEF Gnawed
<1>2. receipt \in BOOLEAN BY DEF At, Trees
<1>3. tree' = [tree EXCEPT ![n] = [[tree[n] EXCEPT !.whole = FALSE] EXCEPT !.receipt = receipt]]
  BY <1>1
<1>4. [[tree[n] EXCEPT !.whole = FALSE] EXCEPT !.receipt = receipt] \in Trees
  BY <1>2 DEF Trees
<1> QED BY <1>3, <1>4 DEF Only

LEMMA DeletedOnly ==
  ASSUME tree \in [Names -> Trees], NEW n \in Names, Deleted(n)
  PROVE  Only(n) /\ tree'[n] = Absent
BY AbsentIsATree DEF Deleted, Only

\* The promise is kept by an effect on a tree on which it does not rest ...
LEMMA OthersSurvive ==
  ASSUME NEW n \in Names, Only(n), promised' = promised, promised # 0,
         NEW s \in Names \ {n}, Survives(s)
  PROVE  Survives(s)'
BY DEF Only, Survives, At

\* ... and by a renaming of any tree that is not in the making.
LEMMA RenamedSurvive ==
  ASSUME NEW from \in Names, NEW to \in Names, from # to, Moves(from, to), to[1] # "stage",
         promised' = promised, NEW s \in Names, Survives(s)
  PROVE  \E m \in Names \ {from} : Survives(m)' /\ (s = from => m = to) /\ (s # from => m = s)
<1>1. CASE s = from
  BY <1>1 DEF Moves, Survives, At
<1>2. CASE s # from
  <2>1. s # to BY AbsentIsATree DEF Moves, Survives, At
  <2> QED BY <1>2, <2>1 DEF Moves, Survives, At
<1> QED BY <1>1, <1>2

-----------------------------------------------------------------------------
(* Steps that leave the trees alone.                                       *)

LEMMA SurvivesStays ==
  ASSUME UNCHANGED <<tree, promised>>
  PROVE  /\ \A n : Survives(n)' = Survives(n)
         /\ CodeSurvives' = CodeSurvives
BY DEF Survives, CodeSurvives, At

LEMMA InvokeKeeps ==
  ASSUME PackageInv, Invoke
  PROVE  PackageInv'
<1>0. /\ tree \in [Names -> Trees] /\ promised \in Nat /\ count \in 0 .. MaxInvocations
      /\ step = "idle" /\ UNCHANGED <<tree, promised>>
      /\ count' = count + 1 /\ count < MaxInvocations
  BY DEF PackageInv, PackageTypes, Invoke
<1>1. PICK action \in {"install", "update", "remove"}, v \in Versions, d \in DataRoots :
        /\ job' = [NoJob EXCEPT !.action = action, !.version = v, !.root = d,
                                !.before = At(Install)]
        /\ IF Acceptable(action, v, d)
             THEN Go(IF action = "remove" THEN "bury" ELSE "stage") /\ told' = "nothing"
             ELSE End("refused")
  BY DEF Invoke
<1>2. job' = [action |-> action, version |-> v, root |-> d, before |-> At(Install),
              swapped |-> FALSE, moved |-> FALSE, clean |-> TRUE]
  BY <1>1 DEF NoJob
<1>3. At(Install)' = At(Install) /\ At(Install) \in Trees BY <1>0, InstallIsNamed DEF At
<1>4. v \in Nat BY PackageAssumption
<1>5. count' \in 0 .. MaxInvocations /\ count' # 0 BY <1>0, PackageAssumption
<1>6. /\ \/ action = "remove" /\ step' \in {"bury", "idle"}
         \/ action # "remove" /\ step' \in {"stage", "idle"}
      /\ step' # "idle" => Acceptable(action, v, d) /\ told' = "nothing"
      /\ told' \in {"nothing", "refused"}
  BY <1>1 DEF Go, End
<1>7. PackageTypes' BY <1>0, <1>2, <1>3, <1>4, <1>5, <1>6 DEF PackageTypes, Installing, Removing
<1>8. BeforeInv' BY <1>2, <1>3, <1>6 DEF BeforeInv
<1>9. AcceptedInv' BY <1>2, <1>3, <1>6 DEF AcceptedInv, Acceptable
<1>10. SpareInv' BY <1>6 DEF SpareInv
<1>11. ToldIsTrue' BY <1>2, <1>3, <1>6 DEF ToldIsTrue
<1>12. CodeSurvives' BY <1>0, SurvivesStays DEF PackageInv
<1> QED BY <1>7, <1>8, <1>9, <1>10, <1>11, <1>12 DEF PackageInv

\* Fail, FailToUndo, FailToClear, KillTool, LeaveLeftover and Removed.
LEMMA IdleStepsKeep ==
  ASSUME PackageInv,
         Fail \/ FailToUndo \/ FailToClear \/ KillTool \/ LeaveLeftover \/ Removed
  PROVE  PackageInv'
<1>0. /\ tree \in [Names -> Trees] /\ promised \in Nat /\ UNCHANGED <<tree, count>>
      /\ At(Install)' = At(Install) /\ At(Backup)' = At(Backup)
      /\ At(Tombstone)' = At(Tombstone)
      /\ There(Install)' = There(Install)
  BY DEF PackageInv, PackageTypes, Fail, FailToUndo, FailToClear, KillTool, LeaveLeftover,
         Removed, At, There, Backup, Tombstone
<1>1. CASE Fail
  <2>1. /\ step \in {"stage", "provision", "move", "swap", "verify"} /\ step' = "undo swap"
        /\ UNCHANGED <<job, told, promised>>
    BY <1>1 DEF Fail, Go
  <2>2. PackageTypes' BY <1>0, <2>1 DEF PackageInv, PackageTypes, Installing, Removing
  <2>3. BeforeInv' BY <1>0, <2>1 DEF PackageInv, BeforeInv
  <2>4. AcceptedInv' BY <1>0, <2>1 DEF PackageInv, AcceptedInv
  <2>5. SpareInv' BY <1>0, <2>1, SurvivesStays DEF PackageInv, SpareInv, BeforeInv
  <2>6. ToldIsTrue' BY <1>0, <2>1 DEF PackageInv, ToldIsTrue
  <2> QED BY <1>0, <2>1, <2>2, <2>3, <2>4, <2>5, <2>6, SurvivesStays DEF PackageInv
<1>2. CASE FailToUndo
  <2>1. /\ step \in {"undo swap", "delete new", "undo move"} /\ step' = "undo stage"
        /\ job' = [job EXCEPT !.clean = FALSE] /\ UNCHANGED <<told, promised>>
    BY <1>2 DEF FailToUndo, Go
  <2>2. /\ ~ job'.clean /\ job'.action = job.action /\ job'.version = job.version
        /\ job'.before = job.before /\ job'.root = job.root /\ job'.swapped = job.swapped
        /\ job'.moved = job.moved
        /\ job' = [action |-> job'.action, version |-> job'.version, root |-> job'.root,
                   before |-> job'.before, swapped |-> job'.swapped, moved |-> job'.moved,
                   clean |-> job'.clean]
    BY <2>1 DEF PackageInv, PackageTypes
  <2>3. PackageTypes' BY <1>0, <2>1, <2>2 DEF PackageInv, PackageTypes, Installing, Removing
  <2>4. BeforeInv' BY <1>0, <2>1, <2>2 DEF PackageInv, BeforeInv
  <2>5. AcceptedInv' BY <1>0, <2>1, <2>2 DEF PackageInv, AcceptedInv
  <2>6. SpareInv' BY <2>1 DEF SpareInv
  <2>7. ToldIsTrue' BY <1>0, <2>1, <2>2 DEF PackageInv, ToldIsTrue
  <2> QED BY <1>0, <2>1, <2>3, <2>4, <2>5, <2>6, <2>7, SurvivesStays DEF PackageInv
<1>3. CASE FailToClear \/ KillTool \/ LeaveLeftover
  <2>1. /\ step' = "idle" /\ UNCHANGED <<job, promised>>
        /\ \/ told' \in {"broken", "killed"}
           \/ /\ step \in {"discard backup", "discard tombstone", "discarding"}
              /\ told' = Committed
    BY <1>3 DEF FailToClear, KillTool, LeaveLeftover, End
  <2>2. PackageTypes' BY <1>0, <2>1 DEF PackageInv, PackageTypes, Installing, Removing
  <2>3. BeforeInv' BY <1>0, <2>1 DEF PackageInv, BeforeInv
  <2>4. AcceptedInv' BY <1>0, <2>1 DEF PackageInv, AcceptedInv
  <2>5. SpareInv' BY <2>1 DEF SpareInv
  <2>6. ToldIsTrue'
    BY <1>0, <2>1
    DEF PackageInv, ToldIsTrue, Committed, AcceptedInv, BeforeInv, PackageTypes, Installing,
        Removing
  <2> QED BY <1>0, <2>1, <2>2, <2>3, <2>4, <2>5, <2>6, SurvivesStays DEF PackageInv
<1>4. CASE Removed
  <2>1. /\ step = "buried" /\ step' = "discard tombstone" /\ promised' = 0
        /\ UNCHANGED <<job, told>>
    BY <1>4 DEF Removed, Go
  <2>2. PackageTypes' BY <1>0, <2>1 DEF PackageInv, PackageTypes, Installing, Removing
  <2>3. BeforeInv' BY <1>0, <2>1 DEF PackageInv, BeforeInv
  <2>4. AcceptedInv'
    BY <1>0, <2>1 DEF PackageInv, AcceptedInv, PackageTypes, Removing
  <2>5. SpareInv' BY <2>1 DEF SpareInv
  <2>6. ToldIsTrue' BY <1>0, <2>1 DEF PackageInv, ToldIsTrue
  <2>7. CodeSurvives' BY <2>1 DEF CodeSurvives
  <2> QED BY <2>2, <2>3, <2>4, <2>5, <2>6, <2>7 DEF PackageInv
<1> QED BY <1>1, <1>2, <1>3, <1>4

-----------------------------------------------------------------------------
(* Steps that write under one name.                                        *)

\* What the invariants say of the trees outside a stage survives a change of a stage.
LEMMA StageFrame ==
  ASSUME PackageTypes, step # "idle", Only(NewTree), UNCHANGED <<count, promised>>
  PROVE  /\ At(Install)' = At(Install) /\ At(Backup)' = At(Backup)
         /\ There(Install)' = There(Install)
         /\ tree' \in [Names -> Trees]
         /\ CodeSurvives => CodeSurvives'
<1>1. /\ At(Install)' = At(Install) /\ At(Backup)' = At(Backup)
      /\ There(Install)' = There(Install)
  BY NamesOfAnInvocation DEF Only, At, There, Backup
<1>2. ASSUME NEW s \in Names, s[1] # "stage" PROVE At(s)' = At(s)
  BY <1>2, NamesOfAnInvocation DEF Only, At
<1>3. CodeSurvives => CodeSurvives' BY <1>2 DEF CodeSurvives
<1> QED BY <1>1, <1>3 DEF Only

LEMMA StagingKeeps ==
  ASSUME PackageInv, MakeStage \/ FillStage
  PROVE  PackageInv'
<1>0. /\ PackageTypes /\ step \in {"stage", "provision"}
      /\ UNCHANGED <<job, told, count, promised>>
      /\ step = "stage" => step' = "provision"
      /\ step = "provision" => step' = IF job.action = "update" THEN "move" ELSE "swap"
  BY DEF PackageInv, MakeStage, FillStage, Go
<1>1. \E complete \in BOOLEAN :
        tree' = [tree EXCEPT ![NewTree] = Tree(job.version, job.root, complete)]
  BY DEF MakeStage, FillStage
<1>2. \A complete \in BOOLEAN : Tree(job.version, job.root, complete) \in Trees
  BY <1>0 DEF PackageTypes, Tree, Trees
<1>3. Only(NewTree)
  BY <1>0, <1>1, <1>2, NamesOfAnInvocation DEF PackageTypes, Only
<1>4. /\ At(Install)' = At(Install) /\ tree' \in [Names -> Trees]
      /\ CodeSurvives' /\ At(Backup)' = At(Backup)
  BY <1>0, <1>3, StageFrame DEF PackageInv
<1>5. PackageTypes' BY <1>0, <1>4 DEF PackageTypes, Installing, Removing
<1>6. BeforeInv' BY <1>0, <1>4 DEF PackageInv, BeforeInv
<1>7. AcceptedInv' BY <1>0, <1>4 DEF PackageInv, AcceptedInv
<1>8. SpareInv' BY <1>0 DEF SpareInv
<1>9. ToldIsTrue' BY <1>0, <1>4 DEF PackageInv, ToldIsTrue, There, At
<1> QED BY <1>4, <1>5, <1>6, <1>7, <1>8, <1>9 DEF PackageInv

LEMMA ClearingKeeps ==
  ASSUME PackageInv, UndoStage \/ DeleteStage
  PROVE  PackageInv'
<1>0. /\ PackageTypes /\ step \in {"undo stage", "delete stage"}
      /\ UNCHANGED <<job, count, promised>>
      /\ \/ step' = "delete stage" /\ told' = told
         \/ step' = "idle" /\ told' = RolledBack
  BY DEF PackageInv, UndoStage, DeleteStage, Go, End
<1>1. Only(NewTree)
  <2>1. CASE Gnawed(NewTree) BY <2>1, <1>0, GnawedOnly, NamesOfAnInvocation DEF PackageTypes
  <2>2. CASE Deleted(NewTree) BY <2>2, <1>0, DeletedOnly, NamesOfAnInvocation DEF PackageTypes
  <2>3. CASE UNCHANGED tree BY <2>3, <1>0 DEF Only, PackageTypes
  <2> QED BY <2>1, <2>2, <2>3 DEF UndoStage, DeleteStage
<1>2. /\ At(Install)' = At(Install) /\ tree' \in [Names -> Trees]
      /\ CodeSurvives' /\ There(Install)' = There(Install)
  BY <1>0, <1>1, StageFrame DEF PackageInv
<1>3. PackageTypes' BY <1>0, <1>2 DEF PackageTypes, Installing, Removing
<1>4. BeforeInv' BY <1>0, <1>2 DEF PackageInv, BeforeInv
<1>5. AcceptedInv' BY <1>0, <1>2 DEF PackageInv, AcceptedInv
<1>6. SpareInv' BY <1>0 DEF SpareInv
<1>7. ToldIsTrue' BY <1>0, <1>2 DEF PackageInv, ToldIsTrue, RolledBack, BeforeInv
<1> QED BY <1>2, <1>3, <1>4, <1>5, <1>6, <1>7 DEF PackageInv

\* UndoSwap and DeleteNew take the new tree away, on which nothing rests yet.
LEMMA TakingBackKeeps ==
  ASSUME PackageInv, UndoSwap \/ DeleteNew
  PROVE  PackageInv'
<1>0. /\ PackageTypes /\ step \in {"undo swap", "delete new"}
      /\ UNCHANGED <<job, told, count, promised>>
      /\ step' \in {"delete new", "undo move"}
  BY DEF PackageInv, UndoSwap, DeleteNew, Go
<1>1. /\ tree \in [Names -> Trees] /\ promised \in Nat
      /\ Install \in Names
  BY <1>0, InstallIsNamed DEF PackageTypes
<1>2. CASE step = "undo swap" /\ ~ (job.swapped /\ There(Install))
  <2>1. UNCHANGED <<tree, job, told, count, promised>> /\ step' = "undo move"
    BY <1>2 DEF UndoSwap, DeleteNew, Go
  <2>2. /\ At(Install)' = At(Install) /\ At(Backup)' = At(Backup)
        /\ There(Install)' = There(Install)
    BY <2>1 DEF At, There, Backup
  <2>3. PackageTypes' BY <1>0, <2>1 DEF PackageTypes, Installing, Removing
  <2>4. BeforeInv' BY <1>2, <2>1, <2>2 DEF PackageInv, BeforeInv, There, At
  <2>5. AcceptedInv' BY <1>2, <2>1, <2>2 DEF PackageInv, AcceptedInv
  <2>6. SpareInv' BY <2>1 DEF SpareInv
  <2>7. ToldIsTrue' BY <2>1, <2>2 DEF PackageInv, ToldIsTrue
  <2> QED BY <2>1, <2>3, <2>4, <2>5, <2>6, <2>7, SurvivesStays DEF PackageInv
<1>3. CASE step = "delete new" \/ (job.swapped /\ There(Install))
  <2>1. /\ job.swapped
        /\ \/ Gnawed(Install) /\ step' = "delete new"
           \/ Deleted(Install) /\ step' = "undo move"
    BY <1>0, <1>3 DEF UndoSwap, DeleteNew, Go, PackageInv, BeforeInv
  <2>2. Only(Install) /\ (step' = "undo move" => At(Install)' = Absent)
    BY <1>1, <2>1, GnawedOnly, DeletedOnly DEF At
  <2>3. At(Backup)' = At(Backup)
    BY <1>0, <2>2, NamesOfAnInvocation DEF Only, At, Backup
  <2>4. PackageTypes' BY <1>0, <2>2 DEF PackageTypes, Installing, Removing, Only
  <2>5. BeforeInv' BY <1>0, <2>1, <2>2, <2>3 DEF PackageInv, BeforeInv, There, At
  <2>6. AcceptedInv' BY <1>0 DEF PackageInv, AcceptedInv
  <2>7. promised # 0 => \E n \in Names \ {Install} : Survives(n)'
    <3>1. SUFFICES ASSUME promised # 0 PROVE \E n \in Names \ {Install} : Survives(n)'
      OBVIOUS
    <3>2. PICK s \in Names \ {Install} : Survives(s)
      BY <1>0, <2>1, <3>1 DEF PackageInv, SpareInv
    <3> QED BY <1>0, <1>1, <2>2, <3>1, <3>2, OthersSurvive
  <2>8. SpareInv' BY <1>0, <2>7 DEF SpareInv
  <2>9. ToldIsTrue'
    <3>1. told' = "nothing" BY <1>0 DEF PackageInv, AcceptedInv
    <3> QED BY <3>1 DEF ToldIsTrue
  <2>10. CodeSurvives' BY <1>0, <2>7 DEF CodeSurvives, Survives
  <2> QED BY <2>4, <2>5, <2>6, <2>8, <2>9, <2>10 DEF PackageInv
<1> QED BY <1>0, <1>2, <1>3

-----------------------------------------------------------------------------
(* Steps that rename.                                                      *)

\* A renaming between the installation and a backup or a tombstone.
LEMMA MovesKeepTheCode ==
  ASSUME PackageTypes, CodeSurvives, UNCHANGED promised,
         NEW from \in Names, NEW to \in Names, from # to, to[1] # "stage", Moves(from, to)
  PROVE  CodeSurvives'
<1>1. SUFFICES ASSUME promised # 0 PROVE CodeSurvives' BY DEF CodeSurvives
<1>2. PICK s \in Names : Survives(s) BY <1>1 DEF CodeSurvives, Survives
<1>3. \E m \in Names : Survives(m)' BY <1>2, RenamedSurvive
<1> QED BY <1>3 DEF CodeSurvives, Survives

LEMMA MoveOldKeeps ==
  ASSUME PackageInv, MoveOld
  PROVE  PackageInv'
<1>0. /\ PackageTypes /\ step = "move" /\ step' = "swap"
      /\ job' = [job EXCEPT !.moved = TRUE] /\ UNCHANGED <<told, count, promised>>
      /\ Renamed(Install, Backup) /\ tree \in [Names -> Trees]
  BY DEF PackageInv, PackageTypes, MoveOld, Go
<1>1. /\ job'.moved /\ job'.action = job.action /\ job'.version = job.version
      /\ job'.before = job.before /\ job'.root = job.root /\ job'.swapped = job.swapped
      /\ job'.clean = job.clean
      /\ job' = [action |-> job'.action, version |-> job'.version, root |-> job'.root,
                 before |-> job'.before, swapped |-> job'.swapped, moved |-> job'.moved,
                 clean |-> job'.clean]
  BY <1>0 DEF PackageTypes
<1>2. Moves(Install, Backup) /\ Install \in Names /\ Backup \in Names /\ Install # Backup
      /\ Backup[1] # "stage"
  BY <1>0, NamesOfAnInvocation, RenamedMoves
<1>3. At(Install)' = Absent /\ ~ There(Install)' /\ At(Backup)' = At(Install)
  BY <1>0, <1>2 DEF Moves, At, There, Backup, Install
<1>4. PackageTypes' BY <1>0, <1>1, <1>2 DEF PackageTypes, Installing, Removing, Moves
<1>5. BeforeInv' BY <1>0, <1>1, <1>3 DEF PackageInv, BeforeInv
<1>6. AcceptedInv' BY <1>0, <1>1 DEF PackageInv, AcceptedInv
<1>7. SpareInv' BY <1>0 DEF SpareInv
<1>8. ToldIsTrue' BY <1>0 DEF PackageInv, AcceptedInv, ToldIsTrue
<1>9. CodeSurvives' BY <1>0, <1>2, MovesKeepTheCode DEF PackageInv
<1> QED BY <1>4, <1>5, <1>6, <1>7, <1>8, <1>9 DEF PackageInv

LEMMA SwapNewKeeps ==
  ASSUME PackageInv, SwapNew
  PROVE  PackageInv'
<1>0. /\ PackageTypes /\ step = "swap" /\ step' = "verify"
      /\ job' = [job EXCEPT !.swapped = TRUE] /\ UNCHANGED <<told, count, promised>>
      /\ Renamed(NewTree, Install) /\ tree \in [Names -> Trees]
  BY DEF PackageInv, PackageTypes, SwapNew, Go
<1>1. /\ job'.swapped /\ job'.action = job.action /\ job'.version = job.version
      /\ job'.before = job.before /\ job'.root = job.root /\ job'.moved = job.moved
      /\ job'.clean = job.clean
      /\ job' = [action |-> job'.action, version |-> job'.version, root |-> job'.root,
                 before |-> job'.before, swapped |-> job'.swapped, moved |-> job'.moved,
                 clean |-> job'.clean]
  BY <1>0 DEF PackageTypes
<1>2. Moves(NewTree, Install) /\ Install \in Names /\ NewTree \in Names /\ Install # NewTree
      /\ Install[1] # "stage" /\ NewTree[1] = "stage" /\ Backup \in Names /\ Backup # Install
      /\ Backup # NewTree
  BY <1>0, NamesOfAnInvocation, RenamedMoves
<1>3. ~ There(Install) /\ At(Install) = Absent /\ At(Backup)' = At(Backup)
  BY <1>0, <1>2 DEF Renamed, Moves, At, There, Backup, Install
<1>4. PackageTypes' BY <1>0, <1>1, <1>2 DEF PackageTypes, Installing, Removing, Moves
<1>5. BeforeInv' BY <1>0, <1>1, <1>3 DEF PackageInv, BeforeInv
<1>6. AcceptedInv' BY <1>0, <1>1 DEF PackageInv, AcceptedInv
<1>7. promised # 0 => \E n \in Names \ {Install} : Survives(n)'
  <2>1. SUFFICES ASSUME promised # 0 PROVE \E n \in Names \ {Install} : Survives(n)'
    OBVIOUS
  <2>2. PICK s \in Names : Survives(s)
    BY <2>1 DEF PackageInv, CodeSurvives, Survives
  <2>3. s # Install BY <1>3, <2>2, AbsentIsATree DEF Survives
  <2>4. s # NewTree BY <1>2, <2>2 DEF Survives
  <2>5. At(s)' = At(s) BY <1>2, <2>3, <2>4 DEF Moves, At
  <2>6. Survives(s)' BY <1>0, <2>2, <2>5 DEF Survives
  <2> QED BY <2>3, <2>6
<1>8. SpareInv' BY <1>0, <1>7 DEF SpareInv
<1>9. ToldIsTrue' BY <1>0 DEF PackageInv, AcceptedInv, ToldIsTrue
<1>10. CodeSurvives' BY <1>0, <1>7 DEF CodeSurvives, Survives
<1> QED BY <1>4, <1>5, <1>6, <1>8, <1>9, <1>10 DEF PackageInv

LEMMA VerifyKeeps ==
  ASSUME PackageInv, Verify
  PROVE  PackageInv'
<1>0. /\ PackageTypes /\ step = "verify" /\ UNCHANGED <<tree, job, count>>
      /\ At(Install) = Tree(job.version, job.root, TRUE) /\ promised' = job.version
      /\ job.version \in Nat /\ told = "nothing" /\ job.action \in {"install", "update"}
      /\ \/ job.moved /\ step' = "discard backup" /\ told' = told
         \/ step' = "idle" /\ told' = "installed"
  BY DEF PackageInv, PackageTypes, AcceptedInv, Installing, Verify, Go, End
<1>1. /\ At(Install)' = At(Install) /\ At(Install)'.whole
      /\ At(Install)'.version >= promised'
  <2>1. At(Install)' = At(Install) BY <1>0 DEF At
  <2>2. At(Install).whole /\ At(Install).version = job.version BY <1>0, WholeTree
  <2>3. job.version >= job.version BY <1>0, NotOlder
  <2>4. At(Install).version >= promised' BY <1>0, <2>2, <2>3
  <2> QED BY <2>1, <2>2, <2>4
<1>2. PackageTypes' BY <1>0 DEF PackageTypes, Installing, Removing
<1>3. BeforeInv' BY <1>0 DEF PackageInv, BeforeInv
<1>4. AcceptedInv' BY <1>0, <1>1 DEF PackageInv, AcceptedInv
<1>5. SpareInv' BY <1>0 DEF SpareInv
<1>6. ToldIsTrue' BY <1>0, <1>1 DEF PackageInv, AcceptedInv, ToldIsTrue
<1>7. CodeSurvives' BY <1>1, InstallIsNamed DEF CodeSurvives
<1> QED BY <1>2, <1>3, <1>4, <1>5, <1>6, <1>7 DEF PackageInv

LEMMA UndoMoveKeeps ==
  ASSUME PackageInv, UndoMove
  PROVE  PackageInv'
<1>0. /\ PackageTypes /\ step = "undo move" /\ step' = "undo stage"
      /\ UNCHANGED <<job, told, count, promised>> /\ tree \in [Names -> Trees]
      /\ told = "nothing"
  BY DEF PackageInv, PackageTypes, AcceptedInv, UndoMove, Go
<1>1. tree' \in [Names -> Trees] /\ At(Install)' = job.before /\ CodeSurvives'
  <2>1. CASE job.moved /\ There(Backup)
    <3>1. Renamed(Backup, Install) BY <2>1 DEF UndoMove
    <3>2. Moves(Backup, Install) /\ Install \in Names /\ Backup \in Names
          /\ Install # Backup /\ Install[1] # "stage"
      BY <1>0, <3>1, NamesOfAnInvocation, RenamedMoves
    <3>3. At(Install)' = At(Backup) BY <3>2 DEF Moves, At
    <3>4. CodeSurvives' BY <1>0, <3>2, MovesKeepTheCode DEF PackageInv
    <3> QED BY <1>0, <2>1, <3>2, <3>3, <3>4 DEF PackageInv, BeforeInv, Moves
  <2>2. CASE ~ (job.moved /\ There(Backup))
    <3>1. UNCHANGED tree BY <2>2 DEF UndoMove
    <3>2. At(Install) = job.before
      BY <1>0, <2>2 DEF PackageInv, BeforeInv, There, At
    <3> QED BY <1>0, <3>1, <3>2, SurvivesStays DEF PackageInv, At
  <2> QED BY <2>1, <2>2
<1>2. PackageTypes' BY <1>0, <1>1 DEF PackageTypes, Installing, Removing
<1>3. BeforeInv' BY <1>0, <1>1 DEF PackageInv, BeforeInv
<1>4. AcceptedInv' BY <1>0 DEF PackageInv, AcceptedInv
<1>5. SpareInv' BY <1>0 DEF SpareInv
<1>6. ToldIsTrue' BY <1>0 DEF ToldIsTrue
<1> QED BY <1>1, <1>2, <1>3, <1>4, <1>5, <1>6 DEF PackageInv

LEMMA BuryKeeps ==
  ASSUME PackageInv, Bury
  PROVE  PackageInv'
<1>0. /\ PackageTypes /\ step = "bury" /\ step' = "buried"
      /\ job' = [job EXCEPT !.moved = TRUE] /\ UNCHANGED <<told, count, promised>>
      /\ Renamed(Install, Tombstone) /\ tree \in [Names -> Trees] /\ told = "nothing"
  BY DEF PackageInv, PackageTypes, AcceptedInv, Bury, Go
<1>1. /\ job'.moved /\ job'.action = job.action /\ job'.version = job.version
      /\ job'.before = job.before /\ job'.root = job.root /\ job'.swapped = job.swapped
      /\ job'.clean = job.clean
      /\ job' = [action |-> job'.action, version |-> job'.version, root |-> job'.root,
                 before |-> job'.before, swapped |-> job'.swapped, moved |-> job'.moved,
                 clean |-> job'.clean]
  BY <1>0 DEF PackageTypes
<1>2. Moves(Install, Tombstone) /\ Install \in Names /\ Tombstone \in Names
      /\ Install # Tombstone /\ Tombstone[1] # "stage"
  BY <1>0, NamesOfAnInvocation, RenamedMoves
<1>3. /\ At(Install)' = Absent /\ ~ There(Install)' /\ At(Tombstone)' = At(Install)
      /\ At(Install) # Absent
  BY <1>0, <1>2 DEF Renamed, Moves, At, There, Tombstone, Install
<1>4. PackageTypes' BY <1>0, <1>1, <1>2 DEF PackageTypes, Installing, Removing, Moves
<1>5. BeforeInv' BY <1>0, <1>1, <1>3 DEF PackageInv, BeforeInv
<1>6. AcceptedInv' BY <1>0, <1>1 DEF PackageInv, AcceptedInv
<1>7. SpareInv' BY <1>0 DEF SpareInv
<1>8. ToldIsTrue' BY <1>0 DEF ToldIsTrue
<1>9. CodeSurvives' BY <1>0, <1>2, MovesKeepTheCode DEF PackageInv
<1> QED BY <1>4, <1>5, <1>6, <1>7, <1>8, <1>9 DEF PackageInv

LEMMA UnburyKeeps ==
  ASSUME PackageInv, Unbury
  PROVE  PackageInv'
<1>0. /\ PackageTypes /\ step \in {"bury", "buried"} /\ step' = "idle"
      /\ told' = "rolled back"
      /\ UNCHANGED <<job, count, promised>> /\ tree \in [Names -> Trees]
  BY DEF PackageInv, PackageTypes, Unbury, End
<1>1. tree' \in [Names -> Trees] /\ At(Install)' = job.before /\ CodeSurvives'
  <2>1. CASE job.moved /\ There(Tombstone) /\ ~ There(Install)
    <3>1. Renamed(Tombstone, Install) BY <2>1 DEF Unbury
    <3>2. Moves(Tombstone, Install) /\ Install \in Names /\ Tombstone \in Names
          /\ Install # Tombstone /\ Install[1] # "stage"
      BY <1>0, <3>1, NamesOfAnInvocation, RenamedMoves
    <3>3. At(Install)' = At(Tombstone) BY <3>2 DEF Moves, At
    <3>4. CodeSurvives' BY <1>0, <3>2, MovesKeepTheCode DEF PackageInv
    <3> QED BY <1>0, <2>1, <3>2, <3>3, <3>4 DEF PackageInv, BeforeInv, Moves
  <2>2. CASE ~ (job.moved /\ There(Tombstone) /\ ~ There(Install))
    <3>1. UNCHANGED tree BY <2>2 DEF Unbury
    <3>2. At(Install) = job.before
      BY <1>0, <2>2 DEF PackageInv, BeforeInv, There, At
    <3> QED BY <1>0, <3>1, <3>2, SurvivesStays DEF PackageInv, At
  <2> QED BY <2>1, <2>2
<1>2. PackageTypes' BY <1>0, <1>1 DEF PackageTypes, Installing, Removing
<1>3. BeforeInv' BY <1>0, <1>1 DEF PackageInv, BeforeInv
<1>4. AcceptedInv' BY <1>0 DEF PackageInv, AcceptedInv
<1>5. SpareInv' BY <1>0 DEF SpareInv
<1>6. ToldIsTrue' BY <1>0, <1>1 DEF ToldIsTrue
<1> QED BY <1>1, <1>2, <1>3, <1>4, <1>5, <1>6 DEF PackageInv

\* What is discarded is not what the promise rests on: after an installation it
\* rests on the new tree, after a removal there is none.
LEMMA DiscardingKeeps ==
  ASSUME PackageInv, Discard \/ Discarded
  PROVE  PackageInv'
<1>0. /\ PackageTypes /\ step \in {"discard backup", "discard tombstone", "discarding"}
      /\ UNCHANGED <<job, count, promised>> /\ tree \in [Names -> Trees]
      /\ \/ step # "discarding" /\ step' = "discarding" /\ told' = told
         \/ step = "discarding" /\ step' = "idle" /\ told' = Committed
      /\ told = "nothing"
      /\ step = "discard backup" => job.action # "remove"
      /\ step = "discard tombstone" => job.action = "remove"
  BY DEF PackageInv, PackageTypes, AcceptedInv, Discard, Discarded, Go, End, Installing, Removing
<1>1. Only(Leftover) /\ Leftover \in Names /\ Leftover # Install /\ Install \in Names
  <2>1. Leftover \in Names /\ Leftover # Install /\ Install \in Names
    BY <1>0, NamesOfAnInvocation DEF Leftover
  <2>2. Gnawed(Leftover) \/ Deleted(Leftover) BY DEF Discard, Discarded
  <2> QED BY <1>0, <2>1, <2>2, GnawedOnly, DeletedOnly
<1>2. At(Install)' = At(Install) /\ There(Install)' = There(Install)
  BY <1>1 DEF Only, At, There
<1>3. PackageTypes' BY <1>0, <1>1 DEF PackageTypes, Installing, Removing, Only
<1>4. BeforeInv' BY <1>0, <1>2 DEF PackageInv, BeforeInv
<1>5. AcceptedInv' BY <1>0, <1>2 DEF PackageInv, AcceptedInv
<1>6. SpareInv' BY <1>0 DEF SpareInv
<1>7. ToldIsTrue'
  BY <1>0, <1>2 DEF PackageInv, AcceptedInv, BeforeInv, ToldIsTrue, Committed
<1>8. CodeSurvives'
  <2>1. CASE job.action = "remove"
    <3>1. promised' = 0 BY <1>0, <2>1 DEF PackageInv, AcceptedInv
    <3> QED BY <3>1 DEF CodeSurvives
  <2>2. CASE job.action # "remove"
    <3>1. At(Install)' = Tree(job.version, job.root, TRUE) /\ promised' = job.version
      BY <1>0, <1>2, <2>2 DEF PackageInv, AcceptedInv
    <3>2. At(Install)'.whole /\ At(Install)'.version = job.version BY <3>1, WholeTree
    <3>3. job.version >= job.version BY <1>0, NotOlder DEF PackageTypes
    <3>4. At(Install)'.version >= promised' BY <3>1, <3>2, <3>3
    <3> QED BY <3>2, <3>4, InstallIsNamed DEF CodeSurvives
  <2> QED BY <2>1, <2>2
<1> QED BY <1>3, <1>4, <1>5, <1>6, <1>7, <1>8 DEF PackageInv

-----------------------------------------------------------------------------
PackageTool == PackageInit /\ [][PackageNext]_packageVars

LEMMA PackageInvHolds == PackageTool => []PackageInv
<1>1. PackageInit => PackageInv
  <2>1. SUFFICES ASSUME PackageInit PROVE PackageInv OBVIOUS
  <2>2. PackageTypes
    BY <2>1, AbsentIsATree, PackageAssumption
    DEF PackageInit, PackageTypes, NoJob, Installing, Removing
  <2>3. At(Install) = Absent BY <2>1, InstallIsNamed DEF PackageInit, At
  <2> QED
    BY <2>1, <2>2, <2>3
    DEF PackageInv, PackageInit, BeforeInv, AcceptedInv, SpareInv, CodeSurvives, ToldIsTrue
<1>2. PackageInv /\ [PackageNext]_packageVars => PackageInv'
  <2>1. SUFFICES ASSUME PackageInv, [PackageNext]_packageVars PROVE PackageInv' OBVIOUS
  <2>2. CASE UNCHANGED packageVars
    <3>1. UNCHANGED <<tree, step, job, told, count, promised>> BY <2>2 DEF packageVars
    <3>0. /\ At(Install)' = At(Install) /\ At(Backup)' = At(Backup)
          /\ At(Tombstone)' = At(Tombstone) /\ There(Install)' = There(Install)
      BY <3>1 DEF At, There, Backup, Tombstone
    <3>a. PackageTypes' BY <2>1, <3>1 DEF PackageInv, PackageTypes
    <3>b. BeforeInv' BY <2>1, <3>0, <3>1 DEF PackageInv, BeforeInv
    <3>c. AcceptedInv' BY <2>1, <3>0, <3>1 DEF PackageInv, AcceptedInv
    <3>d. ToldIsTrue' BY <2>1, <3>0, <3>1 DEF PackageInv, ToldIsTrue
    <3>3. SpareInv' BY <2>1, <3>1, SurvivesStays DEF PackageInv, SpareInv
    <3> QED BY <2>1, <3>1, <3>a, <3>b, <3>c, <3>d, <3>3, SurvivesStays DEF PackageInv
  <2>3. CASE PackageNext
    BY <2>1, <2>3, InvokeKeeps, IdleStepsKeep, StagingKeeps, ClearingKeeps, TakingBackKeeps,
       MoveOldKeeps, SwapNewKeeps, VerifyKeeps, UndoMoveKeeps, BuryKeeps, UnburyKeeps,
       DiscardingKeeps
    DEF PackageNext
  <2> QED BY <2>1, <2>2, <2>3
<1> QED BY <1>1, <1>2, PTL DEF PackageTool

\* Whatever fails and wherever an invocation of the package tool is killed, the
\* version that was verified last is on the disk as a complete tree, for any number
\* of invocations, versions and data directories.
THEOREM CodeIsNeverLost == PackageTool => []CodeSurvives
<1>1. PackageInv => CodeSurvives BY DEF PackageInv
<1> QED BY <1>1, PackageInvHolds, PTL

\* What the package tool tells of its run is what is on the disk.
THEOREM ToolTellsTheTruth == PackageTool => []ToldIsTrue
<1>1. PackageInv => ToldIsTrue BY DEF PackageInv
<1> QED BY <1>1, PackageInvHolds, PTL

-----------------------------------------------------------------------------
(* The Bulk panel.                                                         *)

BatchRecords == [scope : Scopes, key : Nat, ended : BOOLEAN]
PageStates == [files : Nat, lookup : Nat, batch : [id : Nat, ended : BOOLEAN],
               error : BOOLEAN, busy : BOOLEAN]
Answers == {NoAnswer, [kind |-> "error"]} \cup [kind : {"snapshot"}, id : Nat, ended : BOOLEAN]
RequestStates == [by : {"command", "poll"}, op : {"create", "get"}, target : Nat,
                  scope : Scopes, generation : Nat, live : BOOLEAN, answer : Answers]

PanelTypes ==
  /\ batches \in Seq(BatchRecords)
  /\ stored \in [Scopes -> Nat]
  /\ scope \in Scopes /\ rendered \in Scopes
  /\ page \in PageStates
  /\ due \in {"nothing", "page", "poll"}
  /\ generation \in Nat /\ choices \in Nat

\* A batch of the server that belongs to the scope.
BatchOf(id, s) == id \in DOMAIN batches /\ batches[id].scope = s

\* What a request remembers: a request of the present generation is one of the
\* scope that is rendered.
Remembered(q) ==
  /\ q \in RequestStates
  /\ q.generation <= generation
  /\ q.generation = generation => q.scope = rendered
  /\ q.op = "get" => q.target \in DOMAIN batches
  /\ q.answer.kind = "snapshot" => q.answer.id \in DOMAIN batches

RequestsInv == \A q \in requests : Remembered(q)

\* What is on display is of the scope that is rendered, also while another is asked for.
ShownInv == page.batch # NoBatch => BatchOf(page.batch.id, rendered)
StoredInv == \A s \in Scopes : stored[s] # 0 => BatchOf(stored[s], s)
\* The poll asks for a batch that is there.
TimerInv == timer /\ due # "poll" => page.batch # NoBatch

PanelInv == PanelTypes /\ RequestsInv /\ ShownInv /\ StoredInv /\ TimerInv

-----------------------------------------------------------------------------
LEMMA AbortedIsRemembered ==
  ASSUME RequestsInv, NEW by
  PROVE  /\ \A q \in Dead(requests) :
              Remembered(q) /\ \E r \in requests : q.generation = r.generation
         /\ \A q \in Aborted(by) : Remembered(q)
<1>1. ASSUME NEW r \in requests PROVE Remembered([r EXCEPT !.live = FALSE])
  <2>1. r \in RequestStates BY DEF RequestsInv, Remembered
  <2>2. LET q == [r EXCEPT !.live = FALSE]
        IN  /\ q \in RequestStates /\ q.generation = r.generation /\ q.scope = r.scope
            /\ q.op = r.op /\ q.target = r.target /\ q.answer = r.answer
    BY <2>1 DEF RequestStates
  <2> QED BY <2>2 DEF RequestsInv, Remembered
<1>2. ASSUME NEW r \in requests PROVE [r EXCEPT !.live = FALSE].generation = r.generation
  BY DEF RequestsInv, Remembered, RequestStates
<1> QED BY <1>1, <1>2 DEF RequestsInv, Dead, Aborted

\* A handler or a continuation of the page.
LEMMA SetPageKeepsTimer ==
  ASSUME PanelInv, NEW new \in PageStates, NEW accepted, SetPage(new, accepted),
         UNCHANGED timer
  PROVE  /\ page' = new /\ due' \in {"page", "poll"} /\ TimerInv'
         /\ page' \in PageStates
<1>1. due' # "poll" => new.batch = page.batch /\ due # "poll" BY DEF SetPage
<1> QED BY <1>1 DEF SetPage, PanelInv, TimerInv

\* What the server holds stays; more may come.
BatchesStay ==
  /\ batches' \in Seq(BatchRecords)
  /\ \A id \in DOMAIN batches : id \in DOMAIN batches' /\ batches'[id].scope = batches[id].scope

LEMMA SameBatchesStay == PanelTypes /\ UNCHANGED batches => BatchesStay
BY DEF PanelTypes, BatchesStay

LEMMA BatchOfStays ==
  ASSUME BatchesStay, NEW id, NEW s, BatchOf(id, s)
  PROVE  BatchOf(id, s)'
BY DEF BatchesStay, BatchOf

LEMMA RememberedStays ==
  ASSUME BatchesStay, UNCHANGED <<rendered, generation>>, NEW q, Remembered(q)
  PROVE  Remembered(q)'
BY DEF BatchesStay, Remembered

LEMMA ChooseFilesKeeps ==
  ASSUME PanelInv, ChooseFiles
  PROVE  PanelInv'
<1> DEFINE new == [page EXCEPT !.files = choices + 1, !.error = FALSE, !.batch = NoBatch]
<1>1. /\ SetPage(new, FALSE) /\ choices' = choices + 1
      /\ UNCHANGED <<batches, stored, scope, rendered, timer, requests, generation>>
  BY DEF ChooseFiles
<1>2. new \in PageStates /\ new.batch = NoBatch
  <2>1. choices + 1 \in Nat /\ page \in PageStates BY DEF PanelInv, PanelTypes
  <2>2. NoBatch \in [id : Nat, ended : BOOLEAN] BY DEF NoBatch
  <2> QED BY <2>1, <2>2 DEF PageStates
<1> HIDE DEF new
<1>3. page' = new /\ page' \in PageStates /\ due' \in {"page", "poll"} /\ TimerInv'
  BY <1>1, <1>2, SetPageKeepsTimer
<1>4. PanelTypes' BY <1>1, <1>3 DEF PanelInv, PanelTypes
<1>5. RequestsInv' BY <1>1 DEF PanelInv, RequestsInv, Remembered
<1>6. ShownInv' BY <1>2, <1>3 DEF ShownInv
<1>7. StoredInv' BY <1>1 DEF PanelInv, StoredInv, BatchOf
<1> QED BY <1>3, <1>4, <1>5, <1>6, <1>7 DEF PanelInv

LEMMA RunKeeps ==
  ASSUME PanelInv, NEW op \in {"create", "get"}, NEW target \in Nat, NEW lookup \in Nat,
         op = "get" => target \in DOMAIN batches, Run(op, target, lookup)
  PROVE  PanelInv'
<1> DEFINE new == [page EXCEPT !.busy = TRUE, !.error = FALSE, !.lookup = lookup]
<1> DEFINE q == [by |-> "command", op |-> op, target |-> target, scope |-> rendered,
                 generation |-> generation, live |-> TRUE, answer |-> NoAnswer]
<1>1. /\ SetPage(new, FALSE) /\ requests' = Aborted("command") \cup {q}
      /\ UNCHANGED <<batches, stored, scope, rendered, timer, generation, choices>>
  BY DEF Run
<1>2. new \in PageStates /\ new.batch = page.batch
  BY DEF PanelInv, PanelTypes, PageStates
<1>3. Remembered(q)
  <2>1. q \in RequestStates BY DEF PanelInv, PanelTypes, RequestStates, Answers
  <2>2. generation <= generation BY DEF PanelInv, PanelTypes
  <2> QED BY <2>1, <2>2 DEF Remembered, NoAnswer
<1> HIDE DEF new, q
<1>4. page' = new /\ page' \in PageStates /\ due' \in {"page", "poll"} /\ TimerInv'
  BY <1>1, <1>2, SetPageKeepsTimer
<1>5. PanelTypes' BY <1>1, <1>4 DEF PanelInv, PanelTypes
<1>6. BatchesStay BY <1>1, SameBatchesStay DEF PanelInv
<1>7. RequestsInv'
  BY <1>1, <1>3, <1>6, AbortedIsRemembered, RememberedStays DEF PanelInv, RequestsInv
<1>8. ShownInv' BY <1>1, <1>2, <1>4 DEF PanelInv, ShownInv, BatchOf
<1>9. StoredInv' BY <1>1 DEF PanelInv, StoredInv, BatchOf
<1> QED BY <1>4, <1>5, <1>7, <1>8, <1>9 DEF PanelInv

LEMMA CommandsKeep ==
  ASSUME PanelInv, SubmitFiles \/ Reload
  PROVE  PanelInv'
<1>1. CASE SubmitFiles
  BY <1>1, RunKeeps DEF SubmitFiles, PanelInv, PanelTypes, PageStates
<1>2. CASE Reload
  <2>1. PICK id \in DOMAIN batches : Run("get", id, id) BY <1>2 DEF Reload
  <2>2. id \in Nat BY DEF PanelInv, PanelTypes
  <2> QED BY <2>1, <2>2, RunKeeps
<1> QED BY <1>1, <1>2

\* ChangeScope and Redraw.
LEMMA ChangesOfDisplayKeep ==
  ASSUME PanelInv, Redraw \/ \E s \in Scopes : ChangeScope(s)
  PROVE  PanelInv'
<1>1. /\ UNCHANGED <<batches, stored, page, rendered, timer, requests, generation, choices>>
      /\ scope' \in Scopes /\ due' \in {"nothing", "page", "poll"}
      /\ due' # "poll" => due # "poll"
  BY DEF Redraw, ChangeScope, PanelInv, PanelTypes
<1>2. PanelTypes' BY <1>1 DEF PanelInv, PanelTypes
<1>3. RequestsInv' BY <1>1 DEF PanelInv, RequestsInv, Remembered
<1>4. ShownInv' BY <1>1 DEF PanelInv, ShownInv, BatchOf
<1>5. StoredInv' BY <1>1 DEF PanelInv, StoredInv, BatchOf
<1>6. TimerInv' BY <1>1 DEF PanelInv, TimerInv
<1> QED BY <1>2, <1>3, <1>4, <1>5, <1>6 DEF PanelInv

\* No request is of the generation that begins.
LEMMA ResetKeeps ==
  ASSUME PanelInv, Reset
  PROVE  PanelInv'
<1>1. /\ rendered' = scope /\ generation' = generation + 1 /\ requests' = Dead(requests)
      /\ page' = Fresh(scope) /\ due' = "poll" /\ timer' = FALSE
      /\ UNCHANGED <<batches, stored, scope, choices>>
  BY DEF Reset
<1>2. page' \in PageStates /\ page'.batch = NoBatch
  <2>1. stored[scope] \in Nat BY DEF PanelInv, PanelTypes
  <2> QED BY <1>1, <2>1 DEF Fresh, PageStates, NoBatch
<1>3. PanelTypes' BY <1>1, <1>2 DEF PanelInv, PanelTypes
<1>4. ASSUME NEW q \in requests' PROVE Remembered(q)'
  <2>1. Remembered(q) BY <1>1, <1>4, AbortedIsRemembered DEF PanelInv
  <2>2. q.generation \in Nat /\ q.generation <= generation /\ generation \in Nat
    BY <2>1 DEF Remembered, RequestStates, PanelInv, PanelTypes
  <2>3. q.generation <= generation' /\ q.generation # generation' BY <1>1, <2>2
  <2> QED BY <1>1, <2>1, <2>3 DEF Remembered
<1>5. RequestsInv' BY <1>4 DEF RequestsInv
<1>6. ShownInv' BY <1>2 DEF ShownInv
<1>7. StoredInv' BY <1>1 DEF PanelInv, StoredInv, BatchOf
<1>8. TimerInv' BY <1>1 DEF TimerInv
<1> QED BY <1>3, <1>5, <1>6, <1>7, <1>8 DEF PanelInv

LEMMA StartPollKeeps ==
  ASSUME PanelInv, StartPoll
  PROVE  PanelInv'
<1>1. /\ requests' = Aborted("poll") /\ due' = "nothing"
      /\ UNCHANGED <<batches, stored, scope, page, rendered, generation, choices>>
  BY DEF StartPoll
<1>2. timer' => page.batch # NoBatch BY DEF StartPoll, ShownOpen
<1>3. PanelTypes' BY <1>1 DEF PanelInv, PanelTypes
<1>4. BatchesStay BY <1>1, SameBatchesStay DEF PanelInv
<1>5. RequestsInv'
  BY <1>1, <1>4, AbortedIsRemembered, RememberedStays DEF PanelInv, RequestsInv
<1>6. ShownInv' BY <1>1 DEF PanelInv, ShownInv, BatchOf
<1>7. StoredInv' BY <1>1 DEF PanelInv, StoredInv, BatchOf
<1>8. TimerInv' BY <1>1, <1>2 DEF TimerInv
<1> QED BY <1>3, <1>5, <1>6, <1>7, <1>8 DEF PanelInv

LEMMA PollFiresKeeps ==
  ASSUME PanelInv, PollFires
  PROVE  PanelInv'
<1> DEFINE q == [by |-> "poll", op |-> "get", target |-> page.batch.id, scope |-> rendered,
                 generation |-> generation, live |-> TRUE, answer |-> NoAnswer]
<1>1. /\ timer /\ due = "nothing" /\ timer' = FALSE /\ requests' = requests \cup {q}
      /\ UNCHANGED <<batches, stored, scope, page, rendered, due, generation, choices>>
  BY DEF PollFires, Settled
<1>2. page.batch.id \in DOMAIN batches
  BY <1>1 DEF PanelInv, TimerInv, ShownInv, BatchOf
<1>3. Remembered(q)
  <2>1. page.batch.id \in Nat BY DEF PanelInv, PanelTypes, PageStates
  <2>2. q \in RequestStates BY <2>1 DEF PanelInv, PanelTypes, RequestStates, Answers
  <2>3. generation <= generation BY DEF PanelInv, PanelTypes
  <2> QED BY <1>2, <2>2, <2>3 DEF Remembered, NoAnswer
<1> HIDE DEF q
<1>4. PanelTypes' BY <1>1 DEF PanelInv, PanelTypes
<1>5. BatchesStay BY <1>1, SameBatchesStay DEF PanelInv
<1>6. RequestsInv' BY <1>1, <1>3, <1>5, RememberedStays DEF PanelInv, RequestsInv
<1>7. ShownInv' BY <1>1 DEF PanelInv, ShownInv, BatchOf
<1>8. StoredInv' BY <1>1 DEF PanelInv, StoredInv, BatchOf
<1>9. TimerInv' BY <1>1 DEF TimerInv
<1> QED BY <1>4, <1>6, <1>7, <1>8, <1>9 DEF PanelInv

\* Serve, Lose and EndBatch: the server and the way to it.
LEMMA AwayKeeps ==
  ASSUME PanelInv, BatchesStay, RequestsInv',
         UNCHANGED <<stored, scope, page, rendered, due, timer, generation, choices>>
  PROVE  PanelInv'
<1>1. PanelTypes' BY DEF PanelInv, PanelTypes, BatchesStay
<1>2. ShownInv' BY BatchOfStays DEF PanelInv, ShownInv
<1>3. StoredInv' BY BatchOfStays DEF PanelInv, StoredInv
<1>4. TimerInv' BY DEF PanelInv, TimerInv
<1> QED BY <1>1, <1>2, <1>3, <1>4 DEF PanelInv

LEMMA RepliedIsRemembered ==
  ASSUME RequestsInv, BatchesStay, UNCHANGED <<rendered, generation>>, NEW q \in requests,
         NEW a \in Answers, Replied(q, a), a.kind = "snapshot" => a.id \in DOMAIN batches'
  PROVE  RequestsInv'
<1> DEFINE r == [q EXCEPT !.answer = a]
<1>1. Remembered(q) BY DEF RequestsInv
<1>2. /\ r \in RequestStates /\ r.generation = q.generation /\ r.scope = q.scope
      /\ r.op = q.op /\ r.target = q.target /\ r.answer = a
  BY <1>1 DEF Remembered, RequestStates
<1>3. requests' = (requests \ {q}) \cup {r} BY DEF Replied
<1> HIDE DEF r
<1>4. Remembered(r)' BY <1>1, <1>2, RememberedStays DEF Remembered
<1> QED BY <1>3, <1>4, RememberedStays DEF RequestsInv

LEMMA LoseKeeps ==
  ASSUME PanelInv, NEW q \in requests, Lose(q)
  PROVE  PanelInv'
<1>1. /\ Replied(q, [kind |-> "error"])
      /\ UNCHANGED <<batches, stored, scope, page, rendered, due, timer, generation, choices>>
  BY DEF Lose
<1>2. BatchesStay BY <1>1, SameBatchesStay DEF PanelInv
<1>3. [kind |-> "error"] \in Answers /\ [kind |-> "error"].kind # "snapshot" BY DEF Answers
<1>4. RequestsInv' BY <1>1, <1>2, <1>3, RepliedIsRemembered DEF PanelInv
<1> QED BY <1>1, <1>2, <1>4, AwayKeeps

LEMMA EndBatchKeeps ==
  ASSUME PanelInv, NEW id \in DOMAIN batches, EndBatch(id)
  PROVE  PanelInv'
<1>1. /\ batches' = [batches EXCEPT ![id].ended = TRUE]
      /\ UNCHANGED <<stored, scope, page, rendered, due, timer, requests, generation, choices>>
  BY DEF EndBatch
<1>2. batches \in Seq(BatchRecords) /\ batches[id] \in BatchRecords
  BY DEF PanelInv, PanelTypes
<1>3. BatchesStay
  <2> DEFINE b == [batches[id] EXCEPT !.ended = TRUE]
  <2>1. b \in BatchRecords /\ b.scope = batches[id].scope BY <1>2 DEF BatchRecords
  <2>2. batches' = [batches EXCEPT ![id] = b] BY <1>1
  <2> HIDE DEF b
  <2>3. batches' \in Seq(BatchRecords) /\ DOMAIN batches' = DOMAIN batches
    BY <1>2, <2>1, <2>2
  <2> QED BY <2>1, <2>2, <2>3 DEF BatchesStay
<1>4. RequestsInv' BY <1>1, <1>3, RememberedStays DEF PanelInv, RequestsInv
<1> QED BY <1>1, <1>3, <1>4, AwayKeeps

LEMMA ServeKeeps ==
  ASSUME PanelInv, NEW q \in requests, Serve(q)
  PROVE  PanelInv'
<1> DEFINE b == [scope |-> q.scope, key |-> q.target, ended |-> FALSE]
<1> DEFINE longer == Append(batches, b)
<1>1. /\ batches \in Seq(BatchRecords) /\ Remembered(q)
      /\ UNCHANGED <<stored, scope, page, rendered, due, timer, generation, choices>>
  BY DEF PanelInv, PanelTypes, RequestsInv, Serve
<1>2. b \in BatchRecords BY <1>1 DEF Remembered, RequestStates, BatchRecords
<1>3. /\ longer \in Seq(BatchRecords) /\ Len(longer) = Len(batches) + 1
      /\ DOMAIN longer = 1 .. Len(batches) + 1 /\ longer[Len(batches) + 1] = b
      /\ \A id \in DOMAIN batches : id \in DOMAIN longer /\ longer[id] = batches[id]
  BY <1>1, <1>2
<1>4. \/ batches' = longer /\ Replied(q, SnapshotOf(longer, Len(longer)))
      \/ /\ UNCHANGED batches
         /\ \E id \in DOMAIN batches : Replied(q, SnapshotOf(batches, id))
      \/ UNCHANGED batches /\ Replied(q, [kind |-> "error"])
  BY <1>1 DEF Serve, Remembered, RequestStates
<1> HIDE DEF b, longer
<1>5. ASSUME NEW bs \in Seq(BatchRecords), NEW id \in DOMAIN bs
      PROVE  SnapshotOf(bs, id) \in Answers /\ SnapshotOf(bs, id).id = id
  <2>1. bs[id] \in BatchRecords /\ id \in Nat OBVIOUS
  <2> QED BY <2>1 DEF SnapshotOf, Answers, BatchRecords
<1>6. CASE batches' = longer /\ Replied(q, SnapshotOf(longer, Len(longer)))
  <2>1. BatchesStay BY <1>3, <1>6 DEF BatchesStay
  <2>2. Len(longer) \in DOMAIN longer BY <1>1, <1>3
  <2>3. /\ SnapshotOf(longer, Len(longer)) \in Answers
        /\ SnapshotOf(longer, Len(longer)).id = Len(longer)
    BY <1>3, <1>5, <2>2
  <2>4. RequestsInv' BY <1>1, <1>6, <2>1, <2>2, <2>3, RepliedIsRemembered DEF PanelInv
  <2> QED BY <1>1, <2>1, <2>4, AwayKeeps
<1>7. CASE UNCHANGED batches /\ \E id \in DOMAIN batches : Replied(q, SnapshotOf(batches, id))
  <2>1. BatchesStay BY <1>7, SameBatchesStay DEF PanelInv
  <2>2. PICK id \in DOMAIN batches : Replied(q, SnapshotOf(batches, id)) BY <1>7
  <2>3. SnapshotOf(batches, id) \in Answers /\ SnapshotOf(batches, id).id = id
    BY <1>1, <1>5
  <2>4. RequestsInv' BY <1>1, <1>7, <2>1, <2>2, <2>3, RepliedIsRemembered DEF PanelInv
  <2> QED BY <1>1, <2>1, <2>4, AwayKeeps
<1>8. CASE UNCHANGED batches /\ Replied(q, [kind |-> "error"])
  <2>1. BatchesStay BY <1>8, SameBatchesStay DEF PanelInv
  <2>2. [kind |-> "error"] \in Answers /\ [kind |-> "error"].kind # "snapshot" BY DEF Answers
  <2>3. RequestsInv' BY <1>1, <1>8, <2>1, <2>2, RepliedIsRemembered DEF PanelInv
  <2> QED BY <1>1, <2>1, <2>3, AwayKeeps
<1> QED BY <1>4, <1>6, <1>7, <1>8

\* An answer is shown only if its request is of the present generation, so that
\* the scope it was longer for is the one that is rendered.
LEMMA AcceptKeeps ==
  ASSUME PanelInv, NEW q \in requests, q.generation = generation,
         q.answer.kind = "snapshot", Accept(q), requests' = requests \ {q},
         UNCHANGED <<batches, scope, rendered, timer, generation, choices>>
  PROVE  PanelInv'
<1> DEFINE mine == batches[q.answer.id].scope = q.scope
<1> DEFINE command == q.by = "command"
<1> DEFINE shown == IF mine THEN [id |-> q.answer.id, ended |-> q.answer.ended] ELSE NoBatch
<1> DEFINE new == [page EXCEPT !.batch = shown, !.error = @ \/ ~ mine,
                               !.busy = @ /\ ~ command,
                               !.lookup = IF mine /\ command THEN q.answer.id ELSE @]
<1>1. /\ SetPage(new, TRUE)
      /\ stored' = IF mine /\ command THEN [stored EXCEPT ![q.scope] = q.answer.id] ELSE stored
  BY DEF Accept
<1>2. /\ Remembered(q) /\ q.answer.id \in Nat /\ q.answer.ended \in BOOLEAN
      /\ q.answer.id \in DOMAIN batches /\ q.scope = rendered /\ q.scope \in Scopes
  BY DEF PanelInv, RequestsInv, Remembered, RequestStates, Answers, NoAnswer
<1>3. shown \in [id : Nat, ended : BOOLEAN] BY <1>2 DEF NoBatch
<1>4. shown # NoBatch => BatchOf(shown.id, rendered)
  BY <1>2 DEF BatchOf
<1> HIDE DEF shown
<1>5. new \in PageStates /\ new.batch = shown
  BY <1>2, <1>3 DEF PanelInv, PanelTypes, PageStates
<1> HIDE DEF new
<1>6. page' = new /\ page' \in PageStates /\ due' \in {"page", "poll"} /\ TimerInv'
  BY <1>1, <1>5, SetPageKeepsTimer
<1>7. stored' \in [Scopes -> Nat] /\ StoredInv'
  <2>1. CASE mine /\ command
    <3>1. stored' = [stored EXCEPT ![q.scope] = q.answer.id] BY <1>1, <2>1
    <3>2. BatchOf(q.answer.id, q.scope)' BY <1>2, <2>1 DEF BatchOf
    <3> QED BY <1>2, <3>1, <3>2 DEF PanelInv, PanelTypes, StoredInv, BatchOf
  <2>2. CASE ~ (mine /\ command)
    <3>1. stored' = stored BY <1>1, <2>2
    <3> QED BY <3>1 DEF PanelInv, PanelTypes, StoredInv, BatchOf
  <2> QED BY <2>1, <2>2
<1>8. PanelTypes' BY <1>6, <1>7 DEF PanelInv, PanelTypes
<1>9. RequestsInv' BY DEF PanelInv, RequestsInv, Remembered
<1>10. ShownInv' BY <1>4, <1>5, <1>6 DEF ShownInv, BatchOf
<1> QED BY <1>6, <1>7, <1>8, <1>9, <1>10 DEF PanelInv

LEMMA TellKeeps ==
  ASSUME PanelInv, NEW q \in requests, Tell(q), requests' = requests \ {q},
         UNCHANGED <<batches, scope, rendered, timer, generation, choices>>
  PROVE  PanelInv'
<1> DEFINE new == [page EXCEPT !.error = TRUE, !.busy = @ /\ q.by # "command"]
<1>1. SetPage(new, FALSE) /\ UNCHANGED stored BY DEF Tell
<1>2. new \in PageStates /\ new.batch = page.batch BY DEF PanelInv, PanelTypes, PageStates
<1> HIDE DEF new
<1>3. page' = new /\ page' \in PageStates /\ due' \in {"page", "poll"} /\ TimerInv'
  BY <1>1, <1>2, SetPageKeepsTimer
<1>4. PanelTypes' BY <1>1, <1>3 DEF PanelInv, PanelTypes
<1>5. RequestsInv' BY DEF PanelInv, RequestsInv, Remembered
<1>6. ShownInv' BY <1>2, <1>3 DEF PanelInv, ShownInv, BatchOf
<1>7. StoredInv' BY <1>1 DEF PanelInv, StoredInv, BatchOf
<1> QED BY <1>3, <1>4, <1>5, <1>6, <1>7 DEF PanelInv

LEMMA DeliverKeeps ==
  ASSUME PanelInv, NEW q \in requests, Deliver(q)
  PROVE  PanelInv'
<1>1. /\ requests' = requests \ {q}
      /\ UNCHANGED <<batches, scope, rendered, timer, generation, choices>>
  BY DEF Deliver
<1>2. CASE q.generation = generation /\ q.answer.kind = "snapshot" /\ Accept(q)
  BY <1>1, <1>2, AcceptKeeps
<1>3. CASE Tell(q)
  BY <1>1, <1>3, TellKeeps
<1>4. CASE UNCHANGED <<page, due, stored>>
  BY <1>1, <1>4
  DEF PanelInv, PanelTypes, RequestsInv, Remembered, ShownInv, StoredInv, TimerInv, BatchOf
<1> QED BY <1>2, <1>3, <1>4 DEF Deliver

-----------------------------------------------------------------------------
PanelSpec == PanelInit /\ [][PanelNext]_panelVars

LEMMA PanelInvHolds == PanelSpec => []PanelInv
<1>1. PanelInit => PanelInv
  <2>1. SUFFICES ASSUME PanelInit PROVE PanelInv OBVIOUS
  <2>2. page \in PageStates /\ page.batch = NoBatch
    BY <2>1 DEF PanelInit, PageStates, NoBatch
  <2>3. /\ batches \in Seq(BatchRecords) /\ stored \in [Scopes -> Nat]
        /\ scope \in Scopes /\ rendered \in Scopes /\ due = "nothing" /\ timer = FALSE
        /\ generation \in Nat /\ choices \in Nat
    BY <2>1 DEF PanelInit
  <2>4. PanelTypes BY <2>2, <2>3 DEF PanelTypes
  <2> QED
    BY <2>1, <2>2, <2>4
    DEF PanelInit, PanelInv, RequestsInv, ShownInv, StoredInv, TimerInv
<1>2. PanelInv /\ [PanelNext]_panelVars => PanelInv'
  <2>1. SUFFICES ASSUME PanelInv, [PanelNext]_panelVars PROVE PanelInv' OBVIOUS
  <2>2. CASE UNCHANGED panelVars
    BY <2>1, <2>2
    DEF panelVars, PanelInv, PanelTypes, RequestsInv, Remembered, ShownInv, StoredInv, TimerInv,
        BatchOf
  <2>3. CASE PanelNext
    BY <2>1, <2>3, ChooseFilesKeeps, CommandsKeep, ChangesOfDisplayKeep, ResetKeeps,
       StartPollKeeps, PollFiresKeeps, LoseKeeps, EndBatchKeeps, ServeKeeps, DeliverKeeps
    DEF PanelNext, Browser, Network, Batches
  <2> QED BY <2>1, <2>2, <2>3
<1> QED BY <1>1, <1>2, PTL DEF PanelSpec

\* However requests, answers, losses and changes of project interleave, a settled
\* page never shows a batch of another project than its own, nor does the browser
\* remember one.
THEOREM NoLateAnswerIsShown == PanelSpec => []LateAnswersAreDropped
<1>1. PanelInv => LateAnswersAreDropped
  BY DEF PanelInv, ShownInv, StoredInv, LateAnswersAreDropped, Settled, BatchOf
<1> QED BY <1>1, PanelInvHolds, PTL
===============================================================================
