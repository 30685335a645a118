--------------------------- MODULE BulkImportProofs ---------------------------
(***************************************************************************)
(* Proofs about BulkImport, for every number of submissions, files and     *)
(* readings, every queue capacity and every number of faults and crashes.  *)
(***************************************************************************)
EXTENDS BulkImport, FiniteSetTheorems, TLAPS

-----------------------------------------------------------------------------
(* What a step may change, and in which action.                            *)

LEMMA EntryOfBatch == \A e \in Entries : Batch(e) \in Requests /\ e[1] = Batch(e)
BY DEF Entries, Batch

\* The entry rows are written by a submission, by ten steps of the worker and
\* by start.
LEMMA RowChanges ==
  ASSUME [Next]_vars
  PROVE  \/ UNCHANGED row
         \/ \E r \in Requests : SubmitInsert(r)
         \/ Claim \/ Link \/ Unpath \/ Complete \/ TerminalError \/ DiscardPath
         \/ StageRetry \/ Recover \/ Start
BY DEF Next, Submit, Worker, Stage, SubmitRead, SubmitEnqueue, SubmitFails,
  DeferralExpires, Tamper, Take, Sweep, Open, NextEntry, Check, Preserve, LinkFails,
  Scan, Unlink, Evaluate, DiscardFile, Finish, RecoverUnlink, Done, Raise, Stop, Exit,
  Crash, vars, clientVars, dataVars, diskVars, procVars, workVars, boundVars

\* The batch rows.
LEMMA BatchChanges ==
  ASSUME [Next]_vars
  PROVE  \/ UNCHANGED batch
         \/ \E r \in Requests : SubmitInsert(r)
         \/ Open \/ Finish \/ Recover \/ Start
BY DEF Next, Submit, Worker, Stage, SubmitRead, SubmitEnqueue, SubmitFails,
  DeferralExpires, Tamper, Take, Sweep, NextEntry, Claim, Check, Preserve, Link,
  LinkFails, Scan, Unlink, Unpath, Evaluate, Complete, TerminalError, DiscardFile,
  DiscardPath, StageRetry, RecoverUnlink, Done, Raise, Stop, Exit,
  Crash, vars, clientVars, dataVars, diskVars, procVars, workVars, boundVars

\* The staged copies.
LEMMA FileChanges ==
  ASSUME [Next]_vars
  PROVE  \/ UNCHANGED file
         \/ \E r \in Requests : Stage(r) \/ SubmitRead(r) \/ SubmitInsert(r) \/ SubmitFails(r)
         \/ \E e \in Entries : Tamper(e)
         \/ Unlink \/ DiscardFile \/ RecoverUnlink \/ Start
BY DEF Next, Submit, Worker, SubmitEnqueue,
  DeferralExpires, Take, Sweep, Open, NextEntry, Claim, Check, Preserve, Link,
  LinkFails, Scan, Unpath, Evaluate, Complete, TerminalError,
  DiscardPath, StageRetry, Finish, Recover, Done, Raise, Stop, Exit,
  Crash, vars, clientVars, dataVars, diskVars, procVars, workVars, boundVars

\* The stored originals.
LEMMA RawChanges ==
  ASSUME [Next]_vars
  PROVE  UNCHANGED raw \/ Preserve
BY DEF Next, Submit, Worker, Stage, SubmitRead, SubmitInsert, SubmitEnqueue, SubmitFails,
  DeferralExpires, Tamper, Take, Sweep, Open, NextEntry, Claim, Check, Link, LinkFails,
  Scan, Unlink, Unpath, Evaluate, Complete, TerminalError, DiscardFile, DiscardPath,
  StageRetry, Finish, Recover, RecoverUnlink, Done, Raise, Start, Stop, Exit,
  Crash, vars, clientVars, dataVars, diskVars, procVars, workVars, boundVars

\* What clients see.
LEMMA ClientChanges ==
  ASSUME [Next]_vars
  PROVE  \/ UNCHANGED <<request, answer>>
         \/ \E r \in Requests : Stage(r) \/ SubmitRead(r) \/ SubmitInsert(r)
                                \/ SubmitEnqueue(r) \/ SubmitFails(r)
         \/ Crash
BY DEF Next, Submit, Worker, DeferralExpires, Tamper, Take, Sweep, Open, NextEntry,
  Claim, Check, Preserve, Link, LinkFails, Scan, Unlink, Unpath, Evaluate, Complete,
  TerminalError, DiscardFile, DiscardPath, StageRetry, Finish, Recover, RecoverUnlink,
  Done, Raise, Start, Stop, Exit, vars, clientVars, dataVars, diskVars, procVars,
  workVars, boundVars

\* The schedule.
LEMMA ScheduleChanges ==
  ASSUME [Next]_vars
  PROVE  \/ UNCHANGED <<queue, scheduled, cur>>
         \/ \E r \in Requests : SubmitEnqueue(r)
         \/ Take \/ Sweep \/ Done \/ Start \/ Exit \/ Crash
BY DEF Next, Submit, Worker, Stage, SubmitRead, SubmitInsert, SubmitFails,
  DeferralExpires, Tamper, Open, NextEntry, Claim, Check, Preserve, Link, LinkFails,
  Scan, Unlink, Unpath, Evaluate, Complete, TerminalError, DiscardFile, DiscardPath,
  StageRetry, Finish, Recover, RecoverUnlink, Raise, Stop,
  vars, clientVars, dataVars, diskVars, procVars, workVars, boundVars

-----------------------------------------------------------------------------
(* Type correctness.                                                       *)

LEMMA SettledType ==
  ASSUME row \in [Entries -> EntryRow],
         NEW e \in Entries, NEW v \in Verdict, NEW prior \in Entries \cup {None}
  PROVE  Settled(e, prior, v) \in EntryRow
<1> DEFINE x == row[e]
           o == IF prior # None /\ row[e].receipt /\ row[prior].receipt
                  THEN "DUPLICATE_CANDIDATE" ELSE v.outcome
           rd == IF o = "CANDIDATE_READY" THEN v.reading ELSE None
<1>1. x \in EntryRow
  OBVIOUS
<1>2. o \in Outcomes \cup {None} /\ rd \in Readings \cup {None}
  BY DEF Verdict, Outcomes
<1>3. Settled(e, prior, v) = [x EXCEPT !.status = "TERMINAL", !.outcome = o, !.reading = rd]
  BY DEF Settled
<1> HIDE DEF x, o, rd
<1> QED
  BY <1>1, <1>2, <1>3 DEF EntryRow

LEMMA SettleType ==
  ASSUME row \in [Entries -> EntryRow], NEW e \in Entries, NEW v \in Verdict, Settle(e, v)
  PROVE  row' \in [Entries -> EntryRow]
<1>1. CASE row[e].status = "TERMINAL"
  BY <1>1 DEF Settle
<1>2. CASE row[e].status # "TERMINAL"
  <2>1. PICK prior \in Entries \cup {None} : row' = [row EXCEPT ![e] = Settled(e, prior, v)]
    BY <1>2 DEF Settle, FirstSameBytes, SameBytes
  <2> QED
    BY <2>1, SettledType
<1> QED
  BY <1>1, <1>2

LEMMA NextAttemptType == \A n \in 0 .. RetryLimit : NextAttempt(n) \in 0 .. RetryLimit
BY ConstantsAssumption DEF NextAttempt

LEMMA EntryInHand == ASSUME IInv, pc \in AtEntry PROVE ent \in Entries
BY DEF IInv, WorkerInv, EntriesOf

LEMMA RowType == ASSUME IInv, [Next]_vars PROVE row' \in [Entries -> EntryRow]
<1>0. row \in [Entries -> EntryRow] /\ verdict \in Verdict
  BY DEF IInv, TypeOK
<1>1. CASE UNCHANGED row
  BY <1>0, <1>1
<1>2. ASSUME NEW r \in Requests, SubmitInsert(r) PROVE row' \in [Entries -> EntryRow]
  <2>1. 0 \in 0 .. RetryLimit
    BY ConstantsAssumption
  <2>2. NoRow \in EntryRow
    BY <2>1 DEF NoRow, EntryRow
  <2>3. NewRow \in EntryRow
    BY <2>2 DEF NewRow, EntryRow
  <2> QED
    BY <1>0, <1>2, <2>3 DEF SubmitInsert, dataVars
<1>3. CASE Claim
  <2>1. row[ent].attempts \in 0 .. RetryLimit /\ ent \in Entries
    BY <1>0, <1>3, EntryInHand DEF Claim, AtEntry, EntryRow
  <2>2. PICK n \in 0 .. RetryLimit : n = NextAttempt(row[ent].attempts)
    BY <2>1, NextAttemptType
  <2>3. [row[ent] EXCEPT !.status = "PROCESSING", !.attempts = n] \in EntryRow
    BY <1>0, <2>1 DEF EntryRow
  <2> QED
    BY <1>0, <1>3, <2>1, <2>2, <2>3 DEF Claim
<1>4. CASE Link \/ Unpath \/ DiscardPath \/ StageRetry
  <2>1. ent \in Entries
    BY <1>4, EntryInHand DEF Link, Unpath, DiscardPath, StageRetry, AtEntry
  <2>2. /\ [row[ent] EXCEPT !.receipt = TRUE] \in EntryRow
        /\ [row[ent] EXCEPT !.status = "STAGED"] \in EntryRow
        /\ \A b \in BOOLEAN : [row[ent] EXCEPT !.staged = b] \in EntryRow
    BY <1>0, <2>1 DEF EntryRow
  <2>3. row[ent].staged \in BOOLEAN /\ row[ent].receipt \in BOOLEAN
    BY <1>0, <2>1 DEF EntryRow
  <2> QED
    BY <1>0, <1>4, <2>1, <2>2, <2>3 DEF Link, Unpath, DiscardPath, StageRetry
<1>5. CASE Complete \/ TerminalError
  <2>1. ent \in Entries
    BY <1>5, EntryInHand DEF Complete, TerminalError, AtEntry
  <2>2. [NoVerdict EXCEPT !.outcome = "ERROR"] \in Verdict
    BY DEF NoVerdict, Verdict, Outcomes
  <2> QED
    BY <1>0, <1>5, <2>1, <2>2, SettleType DEF Complete, TerminalError
<1>6. CASE Recover
  <2>1. \A e \in Entries : Recovered(e) \in EntryRow
    BY <1>0 DEF Recovered, EntryRow, Outcomes
  <2> QED
    BY <1>0, <1>6, <2>1 DEF Recover
<1>7. CASE Start
  <2>1. \A e \in Entries : [row[e] EXCEPT !.status = "STAGED"] \in EntryRow
    BY <1>0 DEF EntryRow
  <2> QED
    BY <1>0, <1>7, <2>1 DEF Start
<1> QED
  BY <1>1, <1>2, <1>3, <1>4, <1>5, <1>6, <1>7, RowChanges

LEMMA BatchType ==
  ASSUME IInv, [Next]_vars
  PROVE  batch' \in [Requests -> Active \cup Completed \cup {"NONE"}]
<1> USE DEF IInv, TypeOK
<1>1. CASE UNCHANGED batch
  BY <1>1
<1>2. ASSUME NEW r \in Requests, SubmitInsert(r)
      PROVE  batch' \in [Requests -> Active \cup Completed \cup {"NONE"}]
  BY <1>2 DEF SubmitInsert, dataVars, Active
<1>3. CASE Open
  BY <1>3 DEF Open, Active
<1>4. CASE Finish
  BY <1>4 DEF Finish, Active, Completed, BatchVerdict
<1>5. CASE Recover
  BY <1>5 DEF Recover, Active
<1>6. CASE Start
  BY <1>6 DEF Start, Active
<1> QED
  BY <1>1, <1>2, <1>3, <1>4, <1>5, <1>6, BatchChanges

LEMMA FileType ==
  ASSUME IInv, [Next]_vars
  PROVE  file' \in [Entries -> Contents \cup {"absent"}]
<1> USE DEF IInv, TypeOK, Contents
<1>1. CASE UNCHANGED file
  BY <1>1
<1>2. ASSUME NEW r \in Requests, Stage(r) \/ SubmitRead(r) \/ SubmitInsert(r) \/ SubmitFails(r)
      PROVE  file' \in [Entries -> Contents \cup {"absent"}]
  BY <1>2 DEF Stage, SubmitRead, SubmitInsert, SubmitFails, Replay, Refuse, DropStagedFiles
<1>3. ASSUME NEW e \in Entries, Tamper(e)
      PROVE  file' \in [Entries -> Contents \cup {"absent"}]
  BY <1>3 DEF Tamper
<1>4. CASE Unlink \/ DiscardFile \/ RecoverUnlink
  BY <1>4 DEF Unlink, DiscardFile, RecoverUnlink
<1>5. CASE Start
  BY <1>5 DEF Start
<1> QED
  BY <1>1, <1>2, <1>3, <1>4, <1>5, FileChanges

LEMMA RawType == ASSUME IInv, [Next]_vars PROVE raw' \in [Entries -> SUBSET Contents]
<1> USE DEF IInv, TypeOK
<1>1. CASE UNCHANGED raw
  BY <1>1
<1>2. CASE Preserve
  BY <1>2 DEF Preserve
<1> QED
  BY <1>1, <1>2, RawChanges

LEMMA ClientType ==
  ASSUME IInv, [Next]_vars
  PROVE  /\ request' \in [Requests -> InFlight \cup
                            {"idle", "created", "replayed", "refused", "lost"}]
         /\ answer' \in [Requests -> Requests \cup {None}]
<1> DEFINE Progress == InFlight \cup {"idle", "created", "replayed", "refused", "lost"}
           Answers == [Requests -> Requests \cup {None}]
<1>0. request \in [Requests -> Progress] /\ answer \in Answers
  BY DEF IInv, TypeOK
<1>1. {"idle", "staged", "admitted", "committed", "created", "replayed", "refused", "lost"}
        \subseteq Progress
  BY DEF InFlight
<1> SUFFICES request' \in [Requests -> Progress] /\ answer' \in Answers
  OBVIOUS
<1> HIDE DEF Progress
<1>2. ASSUME NEW r \in Requests, Refuse(r) \/ \E b \in Winner(r) : Replay(r, b)
      PROVE  request' \in [Requests -> Progress] /\ answer' \in Answers
  <2>1. Winner(r) \subseteq Requests
    BY DEF Winner
  <2>2. CASE Refuse(r)
    BY <1>0, <1>1, <2>2 DEF Refuse
  <2>3. ASSUME NEW b \in Winner(r), Replay(r, b)
        PROVE  request' \in [Requests -> Progress] /\ answer' \in Answers
    BY <1>0, <1>1, <2>1, <2>3 DEF Replay
  <2> QED
    BY <1>2, <2>2, <2>3
<1>3. ASSUME NEW r \in Requests,
             Stage(r) \/ SubmitRead(r) \/ SubmitInsert(r) \/ SubmitEnqueue(r) \/ SubmitFails(r)
      PROVE  request' \in [Requests -> Progress] /\ answer' \in Answers
  <2>1. CASE Stage(r) \/ SubmitEnqueue(r)
    BY <1>0, <1>1, <2>1 DEF Stage, SubmitEnqueue
  <2>2. CASE SubmitRead(r)
    BY <1>0, <1>1, <1>2, <2>2 DEF SubmitRead
  <2>3. CASE SubmitInsert(r)
    BY <1>0, <1>1, <1>2, <2>3 DEF SubmitInsert
  <2>4. CASE SubmitFails(r)
    BY <1>2, <2>4 DEF SubmitFails
  <2> QED
    BY <1>3, <2>1, <2>2, <2>3, <2>4
<1>4. CASE UNCHANGED <<request, answer>>
  BY <1>0, <1>4
<1>5. CASE Crash
  BY <1>0, <1>1, <1>5 DEF Crash
<1> QED
  BY <1>3, <1>4, <1>5, ClientChanges

\* EnqueueNext leaves the queue alone or appends to it an active batch that is
\* not held, when there is room.
LEMMA EnqueueNextCases ==
  ASSUME NEW held, EnqueueNext(held)
  PROVE  \/ queue' = queue /\ scheduled' = held
         \/ \E b \in ActiveBatches \ held :
              /\ ~ Len(queue) >= QueueCapacity
              /\ queue' = Append(queue, b) /\ scheduled' = held \cup {b}
BY DEF EnqueueNext

\* Appending below the capacity keeps a queue of requests within it.
LEMMA AppendWithinCapacity ==
  ASSUME NEW q \in Seq(Requests), NEW b \in Requests, ~ Len(q) >= QueueCapacity
  PROVE  Append(q, b) \in Seq(Requests) /\ Len(Append(q, b)) <= QueueCapacity
<1>1. QueueCapacity \in Nat
  BY ConstantsAssumption
<1> QED
  BY <1>1

LEMMA StartQueue ==
  ASSUME TypeOK, Start
  PROVE  /\ queue' \in Seq(Requests) /\ Len(queue') <= QueueCapacity
         /\ scheduled' = {queue'[i] : i \in DOMAIN queue'}
         /\ \A i, j \in DOMAIN queue' : queue'[i] = queue'[j] => i = j
         /\ \A i \in DOMAIN queue' : queue'[i] \in ActiveBatches
<1> DEFINE size == Cardinality(ActiveBatches)
           n == IF size < QueueCapacity THEN size ELSE QueueCapacity
<1>1. size \in Nat /\ QueueCapacity \in Nat
  BY ConstantsAssumption, FS_Subset, FS_CardinalityType DEF ActiveBatches
<1>2. n \in Nat /\ n <= QueueCapacity
  BY <1>1
<1>3. PICK q \in [1 .. n -> ActiveBatches] :
        FirstActive(q, ActiveBatches) /\ queue' = q /\ scheduled' = {q[i] : i \in DOMAIN q}
  BY DEF Start
<1> HIDE DEF n
<1>4. q \in Seq(Requests) /\ Len(q) = n
  BY <1>2, <1>3 DEF ActiveBatches
<1>5. \A i, j \in DOMAIN q : i < j => createdAt[q[i]] < createdAt[q[j]]
  BY <1>3 DEF FirstActive
<1>6. \A i \in DOMAIN q : q[i] \in ActiveBatches /\ createdAt[q[i]] \in Nat
  BY <1>3 DEF ActiveBatches, TypeOK
<1>7. \A i, j \in DOMAIN q : q[i] = q[j] => i = j
  BY <1>2, <1>3, <1>5, <1>6
<1> QED
  BY <1>2, <1>3, <1>4, <1>6, <1>7

LEMMA ScheduleType ==
  ASSUME IInv, [Next]_vars
  PROVE  /\ queue' \in Seq(Requests) /\ Len(queue') <= QueueCapacity
         /\ scheduled' \in SUBSET Requests /\ cur' \in Requests \cup {None}
<1>0. /\ queue \in Seq(Requests) /\ Len(queue) <= QueueCapacity
      /\ scheduled \in SUBSET Requests /\ cur \in Requests \cup {None}
      /\ ActiveBatches \subseteq Requests
  BY DEF IInv, TypeOK, ActiveBatches
<1>1. CASE UNCHANGED <<queue, scheduled, cur>>
  BY <1>0, <1>1
<1>2. ASSUME NEW r \in Requests, SubmitEnqueue(r)
      PROVE  /\ queue' \in Seq(Requests) /\ Len(queue') <= QueueCapacity
             /\ scheduled' \in SUBSET Requests /\ cur' = cur
  BY <1>0, <1>2, AppendWithinCapacity DEF SubmitEnqueue, Enqueue, workVars
<1>3. CASE Take
  <2>1. QueueCapacity \in Nat
    BY ConstantsAssumption
  <2> QED
    BY <1>0, <1>3, <2>1 DEF Take
<1>4. CASE Sweep
  <2>1. cur' = cur /\ EnqueueNext(scheduled)
    BY <1>4 DEF Sweep, workVars
  <2> QED
    BY <1>0, <2>1, EnqueueNextCases, AppendWithinCapacity
<1>5. CASE Done
  BY <1>0, <1>5, EnqueueNextCases, AppendWithinCapacity DEF Done
<1>6. CASE Start
  BY <1>0, <1>6, StartQueue DEF Start, IInv
<1>7. CASE Exit \/ Crash
  <2>1. QueueCapacity \in Nat
    BY ConstantsAssumption
  <2>2. queue' = <<>> /\ scheduled' = {} /\ cur' = None
    BY <1>7 DEF Exit, Crash, ProcessGone
  <2> QED
    BY <2>1, <2>2
<1> QED
  BY <1>0, <1>1, <1>2, <1>3, <1>4, <1>5, <1>6, <1>7, ScheduleChanges

\* Where the worker is and what it holds in its hands.
LEMMA WorkerMoves ==
  ASSUME Worker
  PROVE  /\ pc \in WorkerPCs /\ pc' \in WorkerPCs
         /\ Take \/ Sweep \/ Done \/ (/\ cur' = cur
                                      /\ pc \notin {"idle", "leave"}
                                      /\ pc' \notin {"idle", "leave"})
<1>1. CASE Take \/ Done
  BY <1>1 DEF Take, Done, Goto, WorkerPCs
<1>2. CASE Sweep
  BY <1>2 DEF Sweep, workVars, WorkerPCs
<1>3. CASE Open \/ NextEntry \/ Claim \/ Check \/ Preserve \/ Link \/ LinkFails \/ Scan
  BY <1>3 DEF Open, NextEntry, Claim, Check, Preserve, Link, LinkFails, Scan, ScanRefuses, Goto, WorkerPCs
<1>4. CASE Unlink \/ Unpath \/ Evaluate \/ Complete \/ TerminalError \/ DiscardFile
           \/ DiscardPath \/ StageRetry \/ Finish \/ Recover \/ RecoverUnlink
  BY <1>4 DEF Unlink, Unpath, Evaluate, Complete, TerminalError, DiscardFile, DiscardPath,
    StageRetry, Finish, Recover, RecoverUnlink, Goto, WorkerPCs
<1>5. CASE Raise
  BY <1>5 DEF Raise, Handler, Goto, WorkerPCs
<1> QED
  BY <1>1, <1>2, <1>3, <1>4, <1>5 DEF Worker

\* Apart from the worker, only the life of the process moves it.
LEMMA PcChanges == ASSUME [Next]_vars PROVE UNCHANGED pc \/ Worker \/ Start \/ Exit \/ Crash
BY DEF Next, Submit, Stage, SubmitRead, SubmitInsert, SubmitEnqueue, SubmitFails,
  DeferralExpires, Tamper, Stop, vars, workVars

LEMMA ModeChanges == ASSUME [Next]_vars PROVE UNCHANGED mode \/ Start \/ Stop \/ Exit \/ Crash
BY DEF Next, Submit, Worker, Stage, SubmitRead, SubmitInsert, SubmitEnqueue, SubmitFails,
  DeferralExpires, Tamper, Take, Sweep, Open, NextEntry, Claim, Check, Preserve, Link,
  LinkFails, Scan, Unlink, Unpath, Evaluate, Complete, TerminalError, DiscardFile,
  DiscardPath, StageRetry, Finish, Recover, RecoverUnlink, Done, Raise, vars, procVars

LEMMA PcType == ASSUME IInv, [Next]_vars PROVE pc' \in WorkerPCs \cup {"off"}
<1>1. pc \in WorkerPCs \cup {"off"}
  BY DEF IInv, TypeOK
<1>2. CASE Start \/ Exit \/ Crash
  BY <1>2 DEF Start, Exit, Crash, ProcessGone, WorkerPCs
<1> QED
  BY <1>1, <1>2, PcChanges, WorkerMoves

LEMMA HandType ==
  ASSUME IInv, [Next]_vars
  PROVE  /\ ent' \in Entries \cup {None} /\ todo' \in SUBSET Entries
         /\ hand' \in Contents \cup {None}
<1>0. /\ ent \in Entries \cup {None} /\ todo \in SUBSET Entries
      /\ hand \in Contents \cup {None}
  BY DEF IInv, TypeOK
<1>1. CASE UNCHANGED <<ent, todo, hand>>
  BY <1>0, <1>1
<1>2. CASE Open \/ NextEntry \/ Recover
  BY <1>0, <1>2 DEF Open, NextEntry, Recover, EntriesOf
<1>3. CASE Preserve
  <2>1. pc = "preserve"
    BY <1>3 DEF Preserve
  <2>2. ent \in Entries
    BY <2>1, EntryInHand DEF AtEntry
  <2>3. file[ent] \in Contents \cup {"absent"}
    BY <2>2 DEF IInv, TypeOK
  <2> QED
    BY <1>0, <1>3, <2>3 DEF Preserve
<1>4. CASE Done \/ Exit \/ Crash
  BY <1>4 DEF Done, Exit, Crash, ProcessGone
<1>5. UNCHANGED <<ent, todo, hand>> \/ Open \/ NextEntry \/ Recover \/ Preserve \/ Done \/ Exit \/ Crash
  BY DEF Next, Submit, Worker, Stage, SubmitRead, SubmitInsert, SubmitEnqueue, SubmitFails,
    DeferralExpires, Tamper, Take, Sweep, Claim, Check, Link, LinkFails, Scan, Unlink, Unpath,
    Evaluate, Complete, TerminalError, DiscardFile, DiscardPath, StageRetry, Finish,
    RecoverUnlink, Raise, Start, Stop, vars, workVars
<1> QED
  BY <1>1, <1>2, <1>3, <1>4, <1>5

LEMMA VerdictType == ASSUME IInv, [Next]_vars PROVE verdict' \in Verdict
<1>0. verdict \in Verdict
  BY DEF IInv, TypeOK
<1>1. /\ NoVerdict \in Verdict
      /\ \A o \in Outcomes : [NoVerdict EXCEPT !.outcome = o] \in Verdict
      /\ \A o \in Outcomes, rd \in Readings : [outcome |-> o, reading |-> rd] \in Verdict
  BY DEF NoVerdict, Verdict
<1>2. HoldOutcomes \cup {"SCAN_FAILED", "ERROR"} \subseteq Outcomes
  BY DEF Outcomes
<1>3. CASE Scan
  BY <1>0, <1>1, <1>2, <1>3 DEF Scan, ScanRefuses
<1>4. CASE Evaluate
  <2>1. \A rd \in Readings : Classify(ReadyPriors(ent), Bytes(ent), rd) \in Outcomes
    BY DEF Classify, Outcomes
  <2> QED
    BY <1>1, <1>2, <1>4, <2>1 DEF Evaluate, Held, Classified
<1>5. CASE verdict' \in {verdict, NoVerdict}
  BY <1>0, <1>1, <1>5
<1>6. verdict' \in {verdict, NoVerdict} \/ Scan \/ Evaluate
  BY DEF Next, Submit, Worker, Stage, SubmitRead, SubmitInsert, SubmitEnqueue, SubmitFails,
    DeferralExpires, Tamper, Take, Sweep, Open, NextEntry, Claim, Check, Preserve, Link,
    LinkFails, Unlink, Unpath, Complete, TerminalError, DiscardFile, DiscardPath, StageRetry,
    Finish, Recover, RecoverUnlink, Done, Raise, Start, Stop, Exit, Crash, ProcessGone,
    vars, workVars
<1> QED
  BY <1>3, <1>4, <1>5, <1>6

LEMMA BoundType ==
  ASSUME IInv, [Next]_vars
  PROVE  /\ createdAt' \in [Requests -> Nat]
         /\ mode' \in {"up", "stopping", "down"} /\ deferred' \in SUBSET Requests
         /\ faults' \in 0 .. MaxFaults /\ restarts' \in 0 .. MaxRestarts
<1>0. /\ createdAt \in [Requests -> Nat]
      /\ mode \in {"up", "stopping", "down"} /\ deferred \in SUBSET Requests
      /\ cur \in Requests \cup {None}
      /\ faults \in 0 .. MaxFaults /\ restarts \in 0 .. MaxRestarts
      /\ MaxFaults \in Nat /\ MaxRestarts \in Nat
  BY ConstantsAssumption DEF IInv, TypeOK
<1>1. createdAt' \in [Requests -> Nat]
  <2>1. ASSUME NEW r \in Requests, SubmitRead(r) PROVE createdAt' \in [Requests -> Nat]
    <3>1. Cardinality({x \in Requests : createdAt[x] > 0}) \in Nat
      BY ConstantsAssumption, FS_Subset, FS_CardinalityType
    <3> QED
      BY <1>0, <2>1, <3>1 DEF SubmitRead
  <2>2. UNCHANGED createdAt \/ \E r \in Requests : SubmitRead(r)
    BY DEF Next, Submit, Worker, Stage, SubmitInsert, SubmitEnqueue, SubmitFails,
      DeferralExpires, Tamper, Take, Sweep, Open, NextEntry, Claim, Check, Preserve, Link,
      LinkFails, Scan, Unlink, Unpath, Evaluate, Complete, TerminalError, DiscardFile,
      DiscardPath, StageRetry, Finish, Recover, RecoverUnlink, Done, Raise, Start, Stop,
      Exit, Crash, vars, clientVars
  <2> QED
    BY <1>0, <2>1, <2>2
<1>2. mode' \in {"up", "stopping", "down"}
  BY <1>0, ModeChanges DEF Start, Stop, Exit, Crash, ProcessGone
<1>3. deferred' \in SUBSET Requests
  <2>1. CASE StageRetry
    BY <1>0, <2>1 DEF IInv, ProcessInv, StageRetry
  <2>2. deferred' \subseteq deferred \/ StageRetry
    BY DEF Next, Submit, Worker, Stage, SubmitRead, SubmitInsert, SubmitEnqueue, SubmitFails,
      DeferralExpires, Tamper, Take, Sweep, Open, NextEntry, Claim, Check, Preserve, Link,
      LinkFails, Scan, Unlink, Unpath, Evaluate, Complete, TerminalError, DiscardFile,
      DiscardPath, Finish, Recover, RecoverUnlink, Done, Raise, Start, Stop,
      Exit, Crash, ProcessGone, vars, procVars
  <2> QED
    BY <1>0, <2>1, <2>2
<1>4. UNCHANGED faults \/ LinkFails \/ Raise \/ \E r \in Requests : SubmitFails(r)
  BY DEF Next, Submit, Worker, Stage, SubmitRead, SubmitInsert, SubmitEnqueue,
    DeferralExpires, Tamper, Take, Sweep, Open, NextEntry, Claim, Check, Preserve, Link,
    Scan, Unlink, Unpath, Evaluate, Complete, TerminalError, DiscardFile,
    DiscardPath, StageRetry, Finish, Recover, RecoverUnlink, Done, Start, Stop,
    Exit, Crash, vars, boundVars
<1>5. UNCHANGED restarts \/ Stop \/ Crash
  BY DEF Next, Submit, Worker, Stage, SubmitRead, SubmitInsert, SubmitEnqueue, SubmitFails,
    DeferralExpires, Tamper, Take, Sweep, Open, NextEntry, Claim, Check, Preserve, Link,
    LinkFails, Scan, Unlink, Unpath, Evaluate, Complete, TerminalError, DiscardFile,
    DiscardPath, StageRetry, Finish, Recover, RecoverUnlink, Done, Raise, Start,
    Exit, vars, boundVars
<1>6. faults' \in 0 .. MaxFaults
  <2>1. faults' = faults \/ (faults < MaxFaults /\ faults' = faults + 1)
    BY <1>4 DEF LinkFails, Raise, SubmitFails
  <2>2. faults \in 0 .. MaxFaults /\ MaxFaults \in Nat
    BY <1>0
  <2> QED
    BY <2>1, <2>2
<1>7. restarts' \in 0 .. MaxRestarts
  <2>1. restarts' = restarts \/ (restarts < MaxRestarts /\ restarts' = restarts + 1)
    BY <1>5 DEF Stop, Crash
  <2>2. restarts \in 0 .. MaxRestarts /\ MaxRestarts \in Nat
    BY <1>0
  <2> QED
    BY <2>1, <2>2
<1> QED
  BY <1>1, <1>2, <1>3, <1>6, <1>7

LEMMA TypeStep == ASSUME IInv, [Next]_vars PROVE TypeOK'
BY RowType, BatchType, FileType, RawType, ClientType, ScheduleType, PcType, HandType,
  VerdictType, BoundType DEF TypeOK

-----------------------------------------------------------------------------
(* The supporting invariants.                                              *)

\* Between the clients and the process.
LEMMA ProcessStep == ASSUME IInv, [Next]_vars PROVE ProcessInv'
<1>0. /\ mode = "down" <=> pc = "off"
      /\ mode # "up" => \A r \in Requests : request[r] \notin InFlight
      /\ cur = None <=> pc \in {"off", "idle", "leave"}
      /\ request \in [Requests -> InFlight \cup
                         {"idle", "created", "replayed", "refused", "lost"}]
      /\ \A i \in DOMAIN queue : queue[i] # None
      /\ queue \in Seq(Requests)
  BY ConstantsAssumption DEF IInv, ProcessInv, TypeOK
<1>1. (mode = "down" <=> pc = "off")'
  <2>1. CASE Worker
    BY <1>0, <2>1, WorkerMoves, ModeChanges DEF WorkerPCs, Start, Stop, Exit, Crash,
      ProcessGone
  <2>2. CASE Start \/ Stop \/ Exit \/ Crash
    BY <1>0, <2>2 DEF Start, Stop, Exit, Crash, ProcessGone, workVars
  <2> QED
    BY <1>0, <2>1, <2>2, PcChanges, ModeChanges
<1>2. (cur = None <=> pc \in {"off", "idle", "leave"})'
  <2>1. CASE Take
    BY <1>0, <2>1 DEF Take, Goto
  <2>2. CASE Done
    BY <2>2 DEF Done, Goto
  <2>3. CASE Sweep \/ UNCHANGED <<pc, cur>>
    BY <1>0, <2>3 DEF Sweep, workVars
  <2>4. CASE Start \/ Exit \/ Crash
    BY <1>0, <2>4 DEF Start, Exit, Crash, ProcessGone
  <2>5. CASE cur' = cur /\ pc \in WorkerPCs \ {"idle", "leave"} /\ pc' \in WorkerPCs \ {"idle", "leave"}
    BY <1>0, <2>5 DEF WorkerPCs
  <2>6. Worker \/ UNCHANGED <<pc, cur>> \/ Start \/ Exit \/ Crash
    BY DEF Next, Submit, Stage, SubmitRead, SubmitInsert, SubmitEnqueue, SubmitFails,
      DeferralExpires, Tamper, Stop, vars, workVars
  <2> QED
    BY <2>1, <2>2, <2>3, <2>4, <2>5, <2>6, WorkerMoves
<1>3. (mode # "up" => \A r \in Requests : request[r] \notin InFlight)'
  <2>1. CASE UNCHANGED <<mode, request>>
    BY <1>0, <2>1
  <2>2. CASE Start \/ Stop \/ Exit \/ Crash
    BY <1>0, <2>2 DEF Start, Stop, Exit, Crash, ProcessGone, clientVars, InFlight
  <2>3. ASSUME NEW r \in Requests,
               Stage(r) \/ SubmitRead(r) \/ SubmitInsert(r) \/ SubmitEnqueue(r) \/ SubmitFails(r)
        PROVE  mode' = "up"
    BY <1>0, <2>3 DEF Stage, SubmitRead, SubmitInsert, SubmitEnqueue, SubmitFails, InFlight,
                      procVars, ProcessInv, IInv, TypeOK
  <2>4. \/ UNCHANGED <<mode, request>>
        \/ Start \/ Stop \/ Exit \/ Crash
        \/ \E r \in Requests : Stage(r) \/ SubmitRead(r) \/ SubmitInsert(r)
                                \/ SubmitEnqueue(r) \/ SubmitFails(r)
    BY DEF Next, Submit, Worker, DeferralExpires, Tamper, Take, Sweep, Open, NextEntry,
      Claim, Check, Preserve, Link, LinkFails, Scan, Unlink, Unpath, Evaluate, Complete,
      TerminalError, DiscardFile, DiscardPath, StageRetry, Finish, Recover, RecoverUnlink,
      Done, Raise, vars, clientVars, procVars, workVars
  <2> QED
    BY <2>1, <2>2, <2>3, <2>4
<1> QED
  BY <1>1, <1>2, <1>3 DEF ProcessInv

LEMMA CurIsCommitted ==
  ASSUME IInv, pc \notin {"off", "idle", "leave"}
  PROVE  cur \in Requests /\ batch[cur] # "NONE"
<1>1. cur \in Requests
  BY DEF IInv, ProcessInv, TypeOK
<1>2. cur \in scheduled
  BY <1>1, ConstantsAssumption DEF IInv, DispatchedOnce
<1> QED
  BY <1>1, <1>2 DEF IInv, CommittedInv

\* Only the commit of a submission brings a batch into being, and none vanishes.
LEMMA BatchBorn ==
  ASSUME IInv, [Next]_vars, NEW b \in Requests
  PROVE  \/ batch[b] = "NONE" <=> batch'[b] = "NONE"
         \/ /\ batch[b] = "NONE" /\ batch'[b] = "STAGED"
            /\ request[b] = "admitted" /\ SubmitInsert(b)
<1>0. batch \in [Requests -> Active \cup Completed \cup {"NONE"}]
  BY DEF IInv, TypeOK
<1>1. CASE UNCHANGED batch
  BY <1>1
<1>2. ASSUME NEW r \in Requests, SubmitInsert(r), ~ UNCHANGED batch
      PROVE  /\ batch[r] = "NONE" /\ batch' = [batch EXCEPT ![r] = "STAGED"]
             /\ request[r] = "admitted"
  BY <1>2 DEF SubmitInsert, Winner, dataVars
<1>3. CASE Open
  BY <1>0, <1>3 DEF Open, Active
<1>4. CASE Finish
  <2>1. batch[cur] = "PROCESSING"
    BY <1>4 DEF IInv, WorkerInv, Finish
  <2> QED
    BY <1>0, <1>4, <2>1 DEF Finish, BatchVerdict
<1>5. CASE Recover
  BY <1>0, <1>5 DEF Recover, Active
<1>6. CASE Start
  BY <1>0, <1>6 DEF Start
<1> QED
  BY <1>0, <1>1, <1>2, <1>3, <1>4, <1>5, <1>6, BatchChanges

\* The progress of a submission, next to what becomes of its batch.
LEMMA RequestSteps ==
  ASSUME IInv, [Next]_vars, NEW r \in Requests
  PROVE  \/ request'[r] = request[r]
         \/ request[r] = "idle" /\ request'[r] = "staged"
              /\ file' = [e \in Entries |-> IF e[1] = r THEN "intact" ELSE file[e]]
         \/ request[r] = "staged" /\ request'[r] = "admitted" /\ UNCHANGED file
         \/ request[r] = "admitted" /\ request'[r] = "committed" /\ SubmitInsert(r)
         \/ request[r] = "committed" /\ request'[r] = "created"
         \/ request'[r] \in {"replayed", "refused", "lost"}
<1>0. request \in [Requests -> InFlight \cup
                     {"idle", "created", "replayed", "refused", "lost"}]
  BY DEF IInv, TypeOK
<1>1. CASE UNCHANGED <<request, answer>>
  BY <1>1
<1>2. ASSUME NEW x \in Requests, Refuse(x) \/ \E b \in Winner(x) : Replay(x, b)
      PROVE  request'[r] = request[r] \/ request'[r] \in {"replayed", "refused", "lost"}
  BY <1>0, <1>2 DEF Refuse, Replay
<1>3. ASSUME NEW x \in Requests, Stage(x) \/ SubmitEnqueue(x)
      PROVE  \/ request'[r] = request[r]
             \/ request[r] = "idle" /\ request'[r] = "staged"
                  /\ file' = [e \in Entries |-> IF e[1] = r THEN "intact" ELSE file[e]]
             \/ request[r] = "committed" /\ request'[r] = "created"
  BY <1>0, <1>3 DEF Stage, SubmitEnqueue
<1>4. ASSUME NEW x \in Requests, SubmitRead(x)
      PROVE  \/ request'[r] = request[r]
             \/ request[r] = "staged" /\ request'[r] = "admitted" /\ UNCHANGED file
             \/ request'[r] \in {"replayed", "refused", "lost"}
  BY <1>0, <1>2, <1>4 DEF SubmitRead
<1>5. ASSUME NEW x \in Requests, SubmitInsert(x)
      PROVE  \/ request'[r] = request[r]
             \/ request[r] = "admitted" /\ request'[r] = "committed" /\ SubmitInsert(r)
             \/ request'[r] \in {"replayed", "refused", "lost"}
  BY <1>0, <1>2, <1>5 DEF SubmitInsert
<1>6. ASSUME NEW x \in Requests, SubmitFails(x)
      PROVE  request'[r] = request[r] \/ request'[r] \in {"replayed", "refused", "lost"}
  BY <1>2, <1>6 DEF SubmitFails
<1>7. CASE Crash
  BY <1>0, <1>7 DEF Crash
<1> QED
  BY <1>1, <1>3, <1>4, <1>5, <1>6, <1>7, ClientChanges

\* Nobody takes the files of a submission that has not got its rows.
LEMMA UploadsKept ==
  ASSUME IInv, [Next]_vars, NEW r \in Requests, NEW e \in EntriesOf(r),
         request[r] \in {"staged", "admitted"}, request'[r] = request[r] \/ UNCHANGED file
  PROVE  file'[e] # "absent"
<1>0. /\ e \in Entries /\ e[1] = r /\ Batch(e) = r
      /\ file \in [Entries -> Contents \cup {"absent"}] /\ file[e] # "absent"
      /\ batch[r] = "NONE"
      /\ request \in [Requests -> InFlight \cup
                         {"idle", "created", "replayed", "refused", "lost"}]
  BY DEF EntriesOf, Batch, IInv, TypeOK, SubmissionInv
<1>1. CASE UNCHANGED file
  BY <1>0, <1>1
<1>2. ASSUME NEW x \in Requests, request'[r] = request[r],
             Stage(x) \/ SubmitRead(x) \/ SubmitInsert(x) \/ SubmitFails(x)
      PROVE  file'[e] # "absent"
  <2>1. CASE Stage(x)
    BY <1>0, <2>1 DEF Stage
  <2>2. CASE Refuse(x) \/ \E b \in Winner(x) : Replay(x, b)
    <3>1. request'[x] \notin {"staged", "admitted"}
      BY <1>0, <2>2 DEF Refuse, Replay
    <3>2. x # r
      BY <1>2, <3>1
    <3> QED
      BY <1>0, <2>2, <3>2 DEF Refuse, Replay, DropStagedFiles
  <2>3. CASE UNCHANGED file
    BY <1>0, <2>3
  <2>4. SubmitRead(x) => UNCHANGED file \/ Refuse(x) \/ \E b \in Winner(x) : Replay(x, b)
    BY DEF SubmitRead
  <2>5. SubmitInsert(x) => UNCHANGED file \/ Refuse(x) \/ \E b \in Winner(x) : Replay(x, b)
    BY DEF SubmitInsert
  <2>6. SubmitFails(x) => Refuse(x) \/ \E b \in Winner(x) : Replay(x, b)
    BY DEF SubmitFails
  <2> QED
    BY <1>2, <2>1, <2>2, <2>3, <2>4, <2>5, <2>6
<1>3. ASSUME NEW f \in Entries, Tamper(f) PROVE file'[e] # "absent"
  BY <1>0, <1>3 DEF Tamper
<1>4. CASE Unlink \/ DiscardFile
  <2>1. pc \in {"unlink", "discardFile"}
    BY <1>4 DEF Unlink, DiscardFile
  <2>2. batch[cur] # "NONE" /\ ent \in EntriesOf(cur)
    BY <2>1, CurIsCommitted DEF IInv, WorkerInv, AtEntry
  <2>3. e # ent
    BY <1>0, <2>2 DEF EntriesOf
  <2> QED
    BY <1>0, <1>4, <2>3 DEF Unlink, DiscardFile
<1>5. CASE RecoverUnlink
  <2>1. pc = "recoverUnlink"
    BY <1>5 DEF RecoverUnlink
  <2>2. batch[cur] # "NONE" /\ \A f \in todo : Batch(f) = cur
    BY <2>1, CurIsCommitted DEF IInv, WorkerInv
  <2> QED
    BY <1>0, <1>5, <2>2 DEF RecoverUnlink
<1>6. ~ Start
  BY DEF Start, IInv, ProcessInv, InFlight
<1> QED
  BY <1>1, <1>2, <1>3, <1>4, <1>5, <1>6, FileChanges

LEMMA SubmissionStep == ASSUME IInv, [Next]_vars PROVE SubmissionInv'
<1> SUFFICES ASSUME NEW r \in Requests
             PROVE  /\ request'[r] \in {"idle", "staged", "admitted"} => batch'[r] = "NONE"
                    /\ request'[r] \in {"committed", "created"} => batch'[r] # "NONE"
                    /\ request'[r] \in {"staged", "admitted"} =>
                         \A e \in EntriesOf(r) : file'[e] # "absent"
  BY DEF SubmissionInv
<1>0. /\ request[r] \in {"idle", "staged", "admitted"} => batch[r] = "NONE"
      /\ request[r] \in {"committed", "created"} => batch[r] # "NONE"
      /\ request \in [Requests -> InFlight \cup
                         {"idle", "created", "replayed", "refused", "lost"}]
      /\ batch \in [Requests -> Active \cup Completed \cup {"NONE"}]
  BY DEF IInv, SubmissionInv, TypeOK
<1>1. SubmitInsert(r) /\ batch[r] = "NONE" =>
        \/ request'[r] = "committed" /\ batch'[r] = "STAGED"
        \/ request'[r] \in {"replayed", "refused"}
  BY <1>0 DEF SubmitInsert, Refuse, Replay
<1>2. request'[r] \in {"idle", "staged", "admitted"} => batch'[r] = "NONE"
  BY <1>0, <1>1, RequestSteps, BatchBorn
<1>3. request'[r] \in {"committed", "created"} => batch'[r] # "NONE"
  <2>1. SubmitInsert(r) /\ request'[r] = "committed" => batch'[r] = "STAGED"
    BY <1>0 DEF SubmitInsert, Refuse, Replay
  <2> QED
    BY <1>0, <2>1, RequestSteps, BatchBorn
<1>4. ASSUME request'[r] \in {"staged", "admitted"}, NEW e \in EntriesOf(r)
      PROVE  file'[e] # "absent"
  <2>1. CASE /\ request[r] = "idle"
             /\ file' = [f \in Entries |-> IF f[1] = r THEN "intact" ELSE file[f]]
    BY <2>1 DEF EntriesOf
  <2>2. CASE request[r] \in {"staged", "admitted"} /\ (request'[r] = request[r] \/ UNCHANGED file)
    BY <2>2, UploadsKept
  <2> QED
    BY <1>4, <2>1, <2>2, RequestSteps
<1> QED
  BY <1>2, <1>3, <1>4

\* What a step of the worker on the entry in its hands does to the rows.
LEMMA HandRowSteps ==
  ASSUME IInv,
         Claim \/ Link \/ Unpath \/ Complete \/ TerminalError \/ DiscardPath \/ StageRetry
  PROVE  /\ ent \in Entries
         /\ \A e \in Entries \ {ent} : row'[e] = row[e]
         /\ row[ent].status = "TERMINAL" =>
              row'[ent] = [row[ent] EXCEPT !.staged = row'[ent].staged]
         /\ row[ent].receipt => row'[ent].receipt
         /\ row'[ent].receipt => row[ent].receipt \/ Link
         /\ row[ent].status # "NONE" => row'[ent].status # "NONE"
         /\ row'[ent].staged = row[ent].staged \/ Unpath \/ DiscardPath
<1>1. pc \in AtEntry
  BY DEF Claim, Link, Unpath, Complete, TerminalError, DiscardPath, StageRetry, AtEntry
<1>2. ent \in Entries
  BY <1>1, EntryInHand
<1>3. row \in [Entries -> EntryRow]
  BY DEF IInv, TypeOK
<1>4. row[ent] = [row[ent] EXCEPT !.staged = row[ent].staged]
  BY <1>2, <1>3 DEF EntryRow
<1>5. CASE Claim
  BY <1>2, <1>3, <1>4, <1>5 DEF Claim, EntryRow
<1>6. CASE Link
  <2>1. row[ent].status # "TERMINAL"
    BY <1>6 DEF Link, IInv, WorkerInv, Claimed, AtEntry
  <2> QED
    BY <1>2, <1>3, <1>6, <2>1 DEF Link, EntryRow
<1>7. CASE Unpath \/ DiscardPath
  BY <1>2, <1>3, <1>7 DEF Unpath, DiscardPath, EntryRow
<1>8. CASE Complete \/ TerminalError
  <2>1. \/ row' = row
        \/ /\ row[ent].status # "TERMINAL"
           /\ \E prior, v : row' = [row EXCEPT ![ent] = Settled(ent, prior, v)]
    BY <1>8 DEF Complete, TerminalError, Settle
  <2>2. \A prior, v : /\ Settled(ent, prior, v).receipt = row[ent].receipt
                      /\ Settled(ent, prior, v).staged = row[ent].staged
                      /\ Settled(ent, prior, v).status = "TERMINAL"
    BY <1>2, <1>3 DEF Settled, EntryRow
  <2> QED
    BY <1>2, <1>3, <1>4, <2>1, <2>2
<1>9. CASE StageRetry
  <2>1. row[ent].status # "TERMINAL"
    BY <1>9 DEF StageRetry, IInv, WorkerInv, Claimed, AtEntry
  <2> QED
    BY <1>2, <1>3, <1>9, <2>1 DEF StageRetry, EntryRow
<1> QED
  BY <1>2, <1>5, <1>6, <1>7, <1>8, <1>9

\* What recovery, in the process or by a restart, does to an entry.
LEMMA RecoveryRowSteps ==
  ASSUME IInv, Recover \/ Start, NEW e \in Entries
  PROVE  \/ row'[e] = row[e]
         \/ /\ row[e].status = "PROCESSING" /\ row'[e].receipt = row[e].receipt
            /\ \/ row'[e].status = "STAGED" /\ row'[e].staged = row[e].staged
               \/ row'[e].status = "TERMINAL"
<1>1. row[e] \in EntryRow
  BY DEF IInv, TypeOK
<1>2. /\ [row[e] EXCEPT !.status = "STAGED"].status = "STAGED"
      /\ [row[e] EXCEPT !.status = "STAGED"].receipt = row[e].receipt
      /\ [row[e] EXCEPT !.status = "STAGED"].staged = row[e].staged
      /\ Recovered(e).receipt = row[e].receipt
      /\ \/ Recovered(e) = [row[e] EXCEPT !.status = "STAGED"]
         \/ Recovered(e).status = "TERMINAL"
  BY <1>1 DEF Recovered, EntryRow
<1>3. \/ row'[e] = row[e]
      \/ row[e].status = "PROCESSING" /\ row'[e] = Recovered(e)
      \/ row[e].status = "PROCESSING" /\ row'[e] = [row[e] EXCEPT !.status = "STAGED"]
  BY DEF Recover, Start
<1> QED
  BY <1>2, <1>3

\* A row that is there stays there.
LEMMA RowStays ==
  ASSUME IInv, [Next]_vars, NEW e \in Entries, row[e].status # "NONE"
  PROVE  row'[e].status # "NONE"
<1>0. row \in [Entries -> EntryRow]
  BY DEF IInv, TypeOK
<1>1. ASSUME NEW r \in Requests, SubmitInsert(r) PROVE row'[e].status # "NONE"
  BY <1>0, <1>1 DEF SubmitInsert, dataVars, NewRow, NoRow
<1>2. CASE Claim \/ Link \/ Unpath \/ Complete \/ TerminalError \/ DiscardPath \/ StageRetry
  BY <1>2, HandRowSteps
<1>3. CASE Recover \/ Start
  BY <1>3, RecoveryRowSteps
<1> QED
  BY <1>1, <1>2, <1>3, RowChanges

LEMMA CommittedStep == ASSUME IInv, [Next]_vars PROVE CommittedInv'
<1>1. ASSUME NEW e \in Entries, batch'[Batch(e)] = "NONE" PROVE row'[e] = NoRow
  <2>0. /\ batch[Batch(e)] = "NONE" /\ row[e] = NoRow /\ Batch(e) \in Requests
        /\ row \in [Entries -> EntryRow] /\ row[e].status = "NONE"
    BY <1>1, BatchBorn, EntryOfBatch DEF IInv, CommittedInv, NoRow, TypeOK
  <2>1. CASE UNCHANGED row
    BY <2>0, <2>1
  <2>2. ASSUME NEW r \in Requests, SubmitInsert(r) PROVE row'[e] = NoRow
    <3>0. batch \in [Requests -> Active \cup Completed \cup {"NONE"}]
      BY DEF IInv, TypeOK
    <3>1. CASE UNCHANGED row
      BY <2>0, <3>1
    <3>2. CASE ~ UNCHANGED row
      <4>1. batch'[r] = "STAGED" /\ row' = [f \in Entries |-> IF f[1] = r THEN NewRow ELSE row[f]]
        BY <2>2, <3>0, <3>2 DEF SubmitInsert, dataVars
      <4> QED
        BY <1>1, <2>0, <4>1 DEF Batch
    <3> QED
      BY <3>1, <3>2
  <2>3. CASE Claim \/ Link \/ Unpath \/ Complete \/ TerminalError \/ DiscardPath \/ StageRetry
    <3>1. pc \in AtEntry
      BY <2>3 DEF Claim, Link, Unpath, Complete, TerminalError, DiscardPath, StageRetry, AtEntry
    <3>2. ent \in EntriesOf(cur) /\ batch[cur] = "PROCESSING"
      BY <3>1 DEF IInv, WorkerInv
    <3>3. e # ent
      BY <2>0, <3>2 DEF EntriesOf, Batch
    <3>4. row'[e] = row[e]
      BY <2>0, <2>3, <3>3 DEF Claim, Link, Unpath, Complete, TerminalError, DiscardPath,
                              StageRetry, Settle
    <3> QED
      BY <2>0, <3>4
  <2>4. CASE Recover \/ Start
    BY <2>0, <2>4 DEF Recover, Start
  <2> QED
    BY <2>1, <2>2, <2>3, <2>4, RowChanges
<1>2. ASSUME NEW b \in scheduled' PROVE batch'[b] # "NONE"
  <2>1. b \in Requests
    BY ScheduleType
  <2>2. batch[b] # "NONE"
    <3>0. \A c \in scheduled : batch[c] # "NONE"
      BY DEF IInv, CommittedInv
    <3>1. b \in scheduled \/ b \in ActiveBatches \/ request[b] = "committed"
      <4>1. CASE UNCHANGED <<queue, scheduled, cur>> \/ Take \/ Exit \/ Crash
        BY <1>2, <4>1 DEF Take, Exit, Crash, ProcessGone
      <4>2. ASSUME NEW r \in Requests, SubmitEnqueue(r)
            PROVE  b \in scheduled \/ request[b] = "committed"
        BY <1>2, <4>2 DEF SubmitEnqueue, Enqueue
      <4>3. CASE Sweep \/ Done
        BY <1>2, <4>3, EnqueueNextCases DEF Sweep, Done
      <4>4. CASE Start
        BY <1>2, <4>4, StartQueue DEF IInv
      <4> QED
        BY <4>1, <4>2, <4>3, <4>4, ScheduleChanges
    <3> QED
      BY <2>1, <3>0, <3>1 DEF ActiveBatches, Active, IInv, SubmissionInv
  <2> QED
    BY <2>1, <2>2, BatchBorn
<1>3. ASSUME NEW e \in Entries, batch'[Batch(e)] # "NONE" PROVE row'[e].status # "NONE"
  <2>0. /\ Batch(e) \in Requests /\ e[1] = Batch(e)
        /\ batch[Batch(e)] # "NONE" => row[e].status # "NONE"
    BY EntryOfBatch DEF IInv, CommittedInv
  <2>1. CASE batch[Batch(e)] # "NONE"
    BY <2>0, <2>1, RowStays
  <2>2. CASE SubmitInsert(Batch(e)) /\ batch[Batch(e)] = "NONE"
    BY <1>3, <2>0, <2>2 DEF SubmitInsert, dataVars, NewRow, NoRow
  <2> QED
    BY <1>3, <2>0, <2>1, <2>2, BatchBorn
<1> QED
  BY <1>1, <1>2, <1>3 DEF CommittedInv

\* A submission does not touch the rows of the batch the worker has.
LEMMA InsertElsewhere ==
  ASSUME IInv, NEW r \in Requests, SubmitInsert(r), pc \notin {"off", "idle", "leave"}
  PROVE  batch'[cur] = batch[cur] /\ \A e \in EntriesOf(cur) : row'[e] = row[e]
<1>0. batch[cur] # "NONE" /\ cur \in Requests
  BY CurIsCommitted
<1>1. /\ batch \in [Requests -> Active \cup Completed \cup {"NONE"}]
      /\ row \in [Entries -> EntryRow]
  BY DEF IInv, TypeOK
<1>2. CASE Winner(r) # {}
  BY <1>2 DEF SubmitInsert, dataVars
<1>3. CASE Winner(r) = {}
  <2>1. batch[r] = "NONE"
    BY <1>3 DEF Winner
  <2> QED
    BY <1>0, <1>1, <1>3, <2>1 DEF SubmitInsert, EntriesOf
<1> QED
  BY <1>2, <1>3

LEMMA WorkerStep == ASSUME IInv, [Next]_vars PROVE WorkerInv'
<1>0. /\ \A e \in todo : Batch(e) = cur
      /\ todo \in SUBSET Entries
      /\ pc \in AtEntry => ent \in EntriesOf(cur)
      /\ pc \in AtEntry \cup {"next", "finish"} => batch[cur] = "PROCESSING"
      /\ pc \in Claimed => row[ent].status = "PROCESSING"
      /\ pc \in Linked => row[ent].receipt
      /\ pc = "link" => hand \in raw[ent]
      /\ pc \in {"discardFile", "discardPath"} => row[ent].status = "TERMINAL"
      /\ pc = "recoverUnlink" => \A e \in todo : row[e].status = "TERMINAL"
  BY DEF IInv, WorkerInv, TypeOK
<1>1. /\ row \in [Entries -> EntryRow] /\ raw \in [Entries -> SUBSET Contents]
      /\ batch \in [Requests -> Active \cup Completed \cup {"NONE"}]
      /\ cur \in Requests \cup {None} /\ None \notin Requests
      /\ cur = None <=> pc \in {"off", "idle", "leave"}
  BY ConstantsAssumption DEF IInv, TypeOK, ProcessInv
<1>2. \A b : EntriesOf(b) \subseteq Entries
  BY DEF EntriesOf
<1>3. CASE UNCHANGED <<row, batch, raw, workVars>>
  BY <1>3 DEF WorkerInv, workVars, IInv
<1>4. ASSUME NEW r \in Requests, SubmitInsert(r) PROVE WorkerInv'
  <2>0. UNCHANGED <<raw, pc, cur, ent, todo, hand>>
    BY <1>4 DEF SubmitInsert, workVars
  <2>1. CASE pc \in {"off", "idle", "leave"}
    BY <1>0, <2>0, <2>1 DEF WorkerInv, AtEntry, Claimed, Linked
  <2>2. CASE pc \notin {"off", "idle", "leave"}
    <3>1. batch'[cur] = batch[cur] /\ \A e \in EntriesOf(cur) : row'[e] = row[e]
      BY <1>4, <2>2, InsertElsewhere
    <3>2. \A e \in todo : e \in EntriesOf(cur)
      BY <1>0 DEF EntriesOf, Batch
    <3> QED
      BY <1>0, <2>0, <3>1, <3>2 DEF WorkerInv, AtEntry, Claimed, Linked
  <2> QED
    BY <2>1, <2>2
<1>5. CASE Start \/ Exit \/ Crash
  <2>1. todo' = {} /\ pc' \in {"off", "idle", "leave"}
    <3>1. CASE Start
      <4>1. cur = None /\ todo' = todo /\ pc' = "idle"
        BY <1>1, <3>1 DEF Start, IInv, ProcessInv
      <4>2. \A e \in todo : Batch(e) = None /\ Batch(e) \in Requests
        BY <1>0, <4>1, EntryOfBatch
      <4> QED
        BY <1>1, <4>1, <4>2
    <3>2. CASE Exit \/ Crash
      BY <3>2 DEF Exit, Crash, ProcessGone
    <3> QED
      BY <1>5, <3>1, <3>2
  <2> QED
    BY <2>1 DEF WorkerInv, AtEntry, Claimed, Linked
<1>6. CASE Take \/ Done
  <2>1. todo' = {} /\ pc' \in {"open", "idle", "leave"}
    <3>1. CASE Take
      <4>1. cur = None /\ todo' = todo /\ pc' = "open"
        BY <1>1, <3>1 DEF Take, Goto
      <4>2. \A e \in todo : Batch(e) = None /\ Batch(e) \in Requests
        BY <1>0, <4>1, EntryOfBatch
      <4> QED
        BY <1>1, <4>1, <4>2
    <3>2. CASE Done
      BY <3>2 DEF Done, Goto
    <3> QED
      BY <1>6, <3>1, <3>2
  <2> QED
    BY <2>1 DEF WorkerInv, AtEntry, Claimed, Linked
<1>7. CASE Open
  <2>1. cur \in Requests
    BY <1>7, CurIsCommitted DEF Open
  <2> QED
    BY <1>0, <1>1, <1>7, <2>1 DEF Open, WorkerInv, AtEntry, Claimed, Linked, Goto, EntriesOf, Batch
<1>8. CASE NextEntry
  BY <1>0, <1>8 DEF NextEntry, WorkerInv, AtEntry, Claimed, Linked, Goto, dataVars, EntriesOf, Batch
<1>9. CASE Claim
  <2>1. ent \in Entries
    BY <1>9, EntryInHand DEF Claim, AtEntry
  <2>2. row[ent].status = "TERMINAL" =>
          row' = row /\ pc' = "next"
    BY <1>9 DEF Claim, Goto
  <2>3. row[ent].status # "TERMINAL" =>
          /\ pc' \in {"check", "unlink", "evaluate"}
          /\ row'[ent].status = "PROCESSING" /\ row'[ent].receipt = row[ent].receipt
          /\ pc' # "check" => row[ent].receipt
    BY <1>1, <1>9, <2>1 DEF Claim, Goto, EntryRow
  <2>4. UNCHANGED <<batch, raw, cur, ent, todo>> /\ pc = "claim"
    BY <1>9 DEF Claim, diskVars
  <2> QED
    BY <1>0, <2>2, <2>3, <2>4 DEF WorkerInv, AtEntry, Claimed, Linked
<1>10. CASE Check \/ LinkFails \/ Scan \/ Evaluate \/ Unlink \/ DiscardFile
  <2>1. UNCHANGED <<row, batch, raw, cur, ent, todo>>
    BY <1>10 DEF Check, LinkFails, Scan, Evaluate, Unlink, DiscardFile, dataVars, diskVars
  <2>2. \/ pc = "check" /\ pc' \in {"preserve", "settle"}
        \/ pc = "link" /\ pc' = "retry"
        \/ pc = "scan" /\ pc' \in {"unlink", "settle"}
        \/ pc = "evaluate" /\ pc' = "complete"
        \/ pc = "unlink" /\ pc' = "unpath"
        \/ pc = "discardFile" /\ pc' = "discardPath"
    BY <1>10 DEF Check, LinkFails, Scan, ScanRefuses, Evaluate, Unlink, DiscardFile, Goto
  <2> QED
    BY <1>0, <2>1, <2>2 DEF WorkerInv, AtEntry, Claimed, Linked
<1>11. CASE Preserve
  <2>1. ent \in Entries /\ UNCHANGED <<row, batch, cur, ent, todo>> /\ pc = "preserve"
    BY <1>11, EntryInHand DEF Preserve, AtEntry, dataVars
  <2>2. pc' = "settle" \/ (pc' = "link" /\ hand' \in raw'[ent])
    BY <1>1, <1>11, <2>1 DEF Preserve, Goto
  <2> QED
    BY <1>0, <2>1, <2>2 DEF WorkerInv, AtEntry, Claimed, Linked
<1>12. CASE Link
  <2>1. ent \in Entries /\ UNCHANGED <<batch, raw, cur, ent, todo>> /\ pc = "link"
    BY <1>12, EntryInHand DEF Link, AtEntry, diskVars
  <2>2. \/ pc' = "settle" /\ row' = row
        \/ pc' = "scan" /\ row'[ent].receipt /\ row'[ent].status = row[ent].status
    BY <1>1, <1>12, <2>1 DEF Link, Goto, EntryRow
  <2> QED
    BY <1>0, <2>1, <2>2 DEF WorkerInv, AtEntry, Claimed, Linked
<1>13. CASE Unpath
  <2>1. ent \in Entries /\ UNCHANGED <<batch, raw, cur, ent, todo>> /\ pc = "unpath"
    BY <1>13, EntryInHand DEF Unpath, AtEntry, diskVars
  <2>2. /\ pc' \in {"evaluate", "complete"}
        /\ row'[ent].receipt = row[ent].receipt /\ row'[ent].status = row[ent].status
    BY <1>1, <1>13, <2>1 DEF Unpath, Goto, EntryRow
  <2> QED
    BY <1>0, <2>1, <2>2 DEF WorkerInv, AtEntry, Claimed, Linked
<1>14. CASE Complete \/ DiscardPath \/ StageRetry
  <2>1. UNCHANGED <<batch, raw, cur, ent, todo>> /\ pc' \in {"next", "settle"} /\ pc \in AtEntry
    BY <1>14 DEF Complete, DiscardPath, StageRetry, AtEntry, diskVars, Goto
  <2> QED
    BY <1>0, <2>1 DEF WorkerInv, AtEntry, Claimed, Linked
<1>15. CASE TerminalError
  <2>1. /\ ent \in Entries /\ UNCHANGED <<batch, raw, cur, ent, todo>>
        /\ pc = "settle" /\ pc' = "discardFile"
    BY <1>15, EntryInHand DEF TerminalError, AtEntry, diskVars, Goto
  <2>2. row'[ent].status = "TERMINAL"
    <3>1. \A prior, v : [row EXCEPT ![ent] = Settled(ent, prior, v)][ent].status = "TERMINAL"
      BY <1>1, <2>1 DEF Settled, EntryRow
    <3> QED
      BY <1>15, <3>1 DEF TerminalError, Settle
  <2> QED
    BY <1>0, <2>1, <2>2 DEF WorkerInv, AtEntry, Claimed, Linked
<1>16. CASE Finish \/ RecoverUnlink
  BY <1>0, <1>16 DEF Finish, RecoverUnlink, WorkerInv, AtEntry, Claimed, Linked, Goto
<1>17. CASE Recover
  <2>1. CASE batch[cur] \in Active
    <3>1. /\ todo' = {e \in EntriesOf(cur) : Exhausted(e) /\ row[e].staged}
          /\ pc' = "recoverUnlink" /\ UNCHANGED cur
      BY <1>17, <2>1 DEF Recover, Goto
    <3>2. ASSUME NEW e \in todo' PROVE Batch(e) = cur' /\ row'[e].status = "TERMINAL"
      <4>1. /\ e \in Entries /\ e[1] = cur /\ Exhausted(e)
        BY <3>1 DEF EntriesOf
      <4>2. row'[e] = Recovered(e)
        BY <1>17, <2>1, <4>1 DEF Recover, Exhausted
      <4>3. Recovered(e).status = "TERMINAL"
        BY <1>1, <4>1 DEF Recovered, EntryRow
      <4> QED
        BY <3>1, <4>1, <4>2, <4>3 DEF Batch
    <3> QED
      BY <3>1, <3>2 DEF WorkerInv, AtEntry, Claimed, Linked
  <2>2. CASE batch[cur] \notin Active
    BY <1>0, <1>17, <2>2 DEF Recover, WorkerInv, AtEntry, Claimed, Linked, Goto
  <2> QED
    BY <2>1, <2>2
<1>18. CASE Raise
  <2>1. UNCHANGED <<row, batch, raw, cur, ent, todo>>
    BY <1>18 DEF Raise, dataVars, diskVars
  <2>2. pc' \in {"settle", "recover", "done"} /\ (pc' = "settle" => pc \in AtEntry)
    BY <1>18 DEF Raise, Handler, Goto, WorkerPCs, AtEntry
  <2> QED
    BY <1>0, <2>1, <2>2 DEF WorkerInv, AtEntry, Claimed, Linked
<1>19. \/ UNCHANGED <<row, batch, raw, workVars>>
       \/ Worker \/ Start \/ Exit \/ Crash \/ \E r \in Requests : SubmitInsert(r)
  BY DEF Next, Submit, Stage, SubmitRead, SubmitEnqueue, SubmitFails, DeferralExpires,
    Tamper, Stop, vars, dataVars, diskVars
<1>20. Sweep => UNCHANGED <<row, batch, raw, workVars>>
  BY DEF Sweep, dataVars, diskVars
<1> QED
  BY <1>3, <1>4, <1>5, <1>6, <1>7, <1>8, <1>9, <1>10, <1>11, <1>12, <1>13, <1>14, <1>15,
    <1>16, <1>17, <1>18, <1>19, <1>20 DEF Worker

-----------------------------------------------------------------------------
(* Steps never undo what has ended.                                        *)

LEMMA EntryKept ==
  ASSUME IInv, [Next]_vars, NEW e \in Entries
  PROVE  /\ row[e].status = "TERMINAL" =>
              row'[e] = [row[e] EXCEPT !.staged = row'[e].staged]
         /\ row[e].receipt => row'[e].receipt
<1>0. row \in [Entries -> EntryRow] /\ row[e] = [row[e] EXCEPT !.staged = row[e].staged]
  BY DEF IInv, TypeOK, EntryRow
<1>1. CASE row'[e] = row[e]
  BY <1>0, <1>1
<1>2. ASSUME NEW r \in Requests, SubmitInsert(r), row'[e] # row[e]
      PROVE  row[e].status = "NONE" /\ ~ row[e].receipt
  <2>1. e[1] = r /\ batch[r] = "NONE"
    BY <1>0, <1>2 DEF SubmitInsert, dataVars, Winner
  <2>2. row[e] = NoRow
    BY <2>1 DEF IInv, CommittedInv, Batch
  <2> QED
    BY <2>2 DEF NoRow
<1>3. CASE Claim \/ Link \/ Unpath \/ Complete \/ TerminalError \/ DiscardPath \/ StageRetry
  BY <1>1, <1>3, HandRowSteps
<1>4. CASE Recover \/ Start
  BY <1>1, <1>4, RecoveryRowSteps
<1> QED
  BY <1>0, <1>1, <1>2, <1>3, <1>4, RowChanges

LEMMA BatchKept ==
  ASSUME IInv, [Next]_vars, NEW b \in Requests, batch[b] \in Completed
  PROVE  batch'[b] = batch[b]
<1>0. batch \in [Requests -> Active \cup Completed \cup {"NONE"}]
  BY DEF IInv, TypeOK
<1>1. batch[b] \notin Active \cup {"NONE"}
  BY DEF Active, Completed
<1>2. ASSUME NEW r \in Requests, SubmitInsert(r) PROVE batch'[b] = batch[b]
  BY <1>0, <1>1, <1>2 DEF SubmitInsert, Winner, dataVars
<1>3. CASE Open \/ Recover \/ Start
  BY <1>0, <1>1, <1>3 DEF Open, Recover, Start, Active
<1>4. CASE Finish
  <2>1. batch[cur] = "PROCESSING"
    BY <1>4 DEF Finish, IInv, WorkerInv
  <2> QED
    BY <1>0, <1>1, <1>4, <2>1 DEF Finish, Active
<1> QED
  BY <1>2, <1>3, <1>4, BatchChanges

-----------------------------------------------------------------------------
(* The safety properties.                                                  *)

\* A batch that becomes finished becomes so with the verdict of its entries, all
\* of which have ended; afterwards neither it nor they change.
LEMMA VerdictStep == ASSUME IInv, [Next]_vars PROVE VerdictIsExact'
<1> SUFFICES ASSUME NEW b \in Requests, batch'[b] \in Completed
             PROVE  /\ \A e \in EntriesOf(b) : row'[e].status = "TERMINAL"
                    /\ batch'[b] = BatchVerdict({row'[e].outcome : e \in EntriesOf(b)})
  BY DEF VerdictIsExact
<1>0. /\ batch \in [Requests -> Active \cup Completed \cup {"NONE"}]
      /\ row \in [Entries -> EntryRow] /\ EntriesOf(b) \subseteq Entries
  BY DEF IInv, TypeOK, EntriesOf
<1>1. CASE batch[b] \in Completed
  <2>1. /\ batch'[b] = batch[b]
        /\ \A e \in EntriesOf(b) : row[e].status = "TERMINAL"
        /\ batch[b] = BatchVerdict({row[e].outcome : e \in EntriesOf(b)})
    BY <1>1, BatchKept DEF IInv, VerdictIsExact
  <2>2. \A e \in EntriesOf(b) : row'[e] = [row[e] EXCEPT !.staged = row'[e].staged]
    BY <1>0, <2>1, EntryKept
  <2>3. \A e \in EntriesOf(b) : row'[e].status = "TERMINAL" /\ row'[e].outcome = row[e].outcome
    BY <1>0, <2>1, <2>2 DEF EntryRow
  <2>4. {row'[e].outcome : e \in EntriesOf(b)} = {row[e].outcome : e \in EntriesOf(b)}
    BY <2>3
  <2> QED
    BY <2>1, <2>3, <2>4
<1>2. CASE batch[b] \notin Completed
  <2>1. Finish
    BY <1>0, <1>2, BatchChanges DEF SubmitInsert, Open, Recover, Start, Active, Completed, dataVars
  <2>2. b = cur /\ row' = row
    BY <1>0, <1>2, <2>1 DEF Finish
  <2>3. batch'[b] = IF \E e \in EntriesOf(b) : row[e].status # "TERMINAL" THEN "STAGED"
                    ELSE BatchVerdict({row[e].outcome : e \in EntriesOf(b)})
    BY <1>0, <2>1, <2>2 DEF Finish
  <2> QED
    BY <2>2, <2>3 DEF Completed
<1> QED
  BY <1>1, <1>2

\* The link is written only from an original that is intact, and originals are
\* only ever added to.
LEMMA ReceiptStep == ASSUME IInv, [Next]_vars PROVE ReceiptProvesUpload'
<1> SUFFICES ASSUME NEW e \in Entries, row'[e].receipt PROVE "intact" \in raw'[e]
  BY DEF ReceiptProvesUpload
<1>0. row \in [Entries -> EntryRow] /\ raw \in [Entries -> SUBSET Contents]
  BY DEF IInv, TypeOK
<1>1. raw[e] \subseteq raw'[e]
  BY <1>0, RawChanges DEF Preserve
<1>2. CASE row[e].receipt
  BY <1>1, <1>2 DEF IInv, ReceiptProvesUpload
<1>3. CASE ~ row[e].receipt /\ e = ent /\ Link
  BY <1>1, <1>3 DEF Link, IInv, WorkerInv
<1>4. CASE ~ row[e].receipt /\ ~ (e = ent /\ Link)
  <2>1. ASSUME NEW r \in Requests, SubmitInsert(r) PROVE ~ row'[e].receipt
    BY <1>0, <1>4, <2>1 DEF SubmitInsert, dataVars, NewRow, NoRow
  <2>2. CASE Claim \/ Link \/ Unpath \/ Complete \/ TerminalError \/ DiscardPath \/ StageRetry
    BY <1>4, <2>2, HandRowSteps
  <2>3. CASE Recover \/ Start
    BY <1>4, <2>3, RecoveryRowSteps
  <2> QED
    BY <1>4, <2>1, <2>2, <2>3, RowChanges
<1> QED
  BY <1>2, <1>3, <1>4

\* A file is unlinked where the row has its receipt or has ended, and a path is
\* cleared there too.
LEMMA KeptStep == ASSUME IInv, [Next]_vars PROVE AcceptedFileIsKept'
<1> SUFFICES ASSUME NEW e \in Entries, row'[e].status \in {"STAGED", "PROCESSING"},
                    ~ row'[e].receipt
             PROVE  row'[e].staged /\ file'[e] # "absent"
  BY DEF AcceptedFileIsKept
<1>0. /\ row \in [Entries -> EntryRow] /\ Batch(e) \in Requests /\ e[1] = Batch(e)
      /\ file \in [Entries -> Contents \cup {"absent"}]
      /\ batch \in [Requests -> Active \cup Completed \cup {"NONE"}]
      /\ row[e].status = "NONE" <=> batch[Batch(e)] = "NONE"
  BY EntryOfBatch DEF IInv, TypeOK, CommittedInv, NoRow
<1>1. CASE row[e].status = "NONE"
  <2>1. batch[Batch(e)] = "NONE" /\ batch'[Batch(e)] # "NONE"
    BY <1>0, <1>1, CommittedStep DEF CommittedInv, NoRow
  <2>2. SubmitInsert(Batch(e)) /\ request[Batch(e)] = "admitted" /\ batch'[Batch(e)] = "STAGED"
    BY <1>0, <2>1, BatchBorn
  <2>3. UNCHANGED file /\ row'[e] = NewRow
    BY <1>0, <2>1, <2>2 DEF SubmitInsert, dataVars
  <2>4. file[e] # "absent"
    BY <1>0, <2>2 DEF IInv, SubmissionInv, EntriesOf
  <2> QED
    BY <2>3, <2>4 DEF NewRow, NoRow
<1>2. CASE row[e].status # "NONE"
  <2>1. row[e].status # "TERMINAL" /\ ~ row[e].receipt
    <3>1. row[e].status = "TERMINAL" => row'[e].status = row[e].status
      <4>1. \A x : [row[e] EXCEPT !.staged = x].status = row[e].status
        BY <1>0 DEF EntryRow
      <4> QED
        BY <4>1, EntryKept
    <3> QED
      BY <3>1, EntryKept
  <2>2. row[e].staged /\ file[e] # "absent"
    BY <1>0, <1>2, <2>1 DEF IInv, AcceptedFileIsKept, EntryRow
  <2>3. row'[e].staged
    <3>1. CASE row'[e] = row[e]
      BY <2>2, <3>1
    <3>2. ASSUME NEW r \in Requests, SubmitInsert(r) PROVE row'[e] = row[e] \/ row'[e] = NewRow
      BY <1>0, <3>2 DEF SubmitInsert, dataVars
    <3>3. CASE Claim \/ Link \/ Complete \/ TerminalError \/ StageRetry
      <4>1. ~ Unpath /\ ~ DiscardPath
        BY <3>3 DEF Claim, Link, Complete, TerminalError, StageRetry, Unpath, DiscardPath
      <4> QED
        BY <2>2, <3>3, <4>1, HandRowSteps
    <3>4. CASE Unpath
      <4>1. row[ent].receipt
        BY <3>4 DEF Unpath, IInv, WorkerInv, Linked
      <4> QED
        BY <2>1, <2>2, <3>4, <4>1, HandRowSteps
    <3>5. CASE DiscardPath
      <4>1. row[ent].status = "TERMINAL"
        BY <3>5 DEF DiscardPath, IInv, WorkerInv
      <4> QED
        BY <2>1, <2>2, <3>5, <4>1, HandRowSteps
    <3>6. CASE Recover \/ Start
      BY <2>2, <3>6, RecoveryRowSteps
    <3> QED
      BY <3>1, <3>2, <3>3, <3>4, <3>5, <3>6, RowChanges DEF NewRow, NoRow
  <2>4. file'[e] # "absent"
    <3>1. CASE UNCHANGED file
      BY <2>2, <3>1
    <3>2. ASSUME NEW r \in Requests,
                 Stage(r) \/ SubmitRead(r) \/ SubmitInsert(r) \/ SubmitFails(r)
          PROVE  file'[e] # "absent"
      <4>1. CASE request[r] \in {"staged", "admitted"}
        <5>1. e[1] # r
          BY <1>0, <1>2, <4>1 DEF IInv, SubmissionInv
        <5>2. file' = file \/ DropStagedFiles(r)
          BY <3>2, <4>1 DEF Stage, SubmitRead, SubmitInsert, SubmitFails, Refuse, Replay
        <5> QED
          BY <1>0, <2>2, <5>1, <5>2 DEF DropStagedFiles
      <4>2. CASE request[r] \notin {"staged", "admitted"}
        BY <1>0, <2>2, <3>2, <4>2 DEF Stage, SubmitRead, SubmitInsert, SubmitFails
      <4> QED
        BY <4>1, <4>2
    <3>3. ASSUME NEW f \in Entries, Tamper(f) PROVE file'[e] # "absent"
      BY <1>0, <2>2, <3>3 DEF Tamper
    <3>4. CASE Unlink
      <4>1. row[ent].receipt
        BY <3>4 DEF Unlink, IInv, WorkerInv, Linked
      <4> QED
        BY <1>0, <2>1, <2>2, <3>4, <4>1 DEF Unlink
    <3>5. CASE DiscardFile
      <4>1. row[ent].status = "TERMINAL"
        BY <3>5 DEF DiscardFile, IInv, WorkerInv
      <4> QED
        BY <1>0, <2>1, <2>2, <3>5, <4>1 DEF DiscardFile
    <3>6. CASE RecoverUnlink
      <4>1. e \notin todo
        BY <2>1, <3>6 DEF RecoverUnlink, IInv, WorkerInv
      <4> QED
        BY <1>0, <2>2, <3>6, <4>1 DEF RecoverUnlink
    <3>7. CASE Start
      <4>1. e \in EntriesOf(Batch(e))
        BY <1>0 DEF EntriesOf
      <4> QED
        BY <1>0, <2>2, <3>7, <4>1 DEF Start
    <3> QED
      BY <3>1, <3>2, <3>3, <3>4, <3>5, <3>6, <3>7, FileChanges
  <2> QED
    BY <2>3, <2>4
<1> QED
  BY <1>1, <1>2

\* What is scheduled is what is queued and what is in hand.
LEMMA DispatchStep == ASSUME IInv, [Next]_vars PROVE DispatchedOnce'
<1>0. /\ scheduled = {queue[i] : i \in DOMAIN queue} \cup ({cur} \ {None})
      /\ \A i, j \in DOMAIN queue : queue[i] = queue[j] => i = j
      /\ \A i \in DOMAIN queue : queue[i] # cur
      /\ queue \in Seq(Requests) /\ cur \in Requests \cup {None} /\ None \notin Requests
      /\ cur = None <=> pc \in {"off", "idle", "leave"}
  BY ConstantsAssumption DEF IInv, DispatchedOnce, TypeOK, ProcessInv
<1>1. CASE UNCHANGED <<queue, scheduled, cur>>
  BY <1>0, <1>1 DEF DispatchedOnce
\* Appending a batch that is neither queued nor in hand.
<1>2. ASSUME NEW q \in Seq(Requests), NEW b \in Requests,
             \A i, j \in DOMAIN q : q[i] = q[j] => i = j, \A i \in DOMAIN q : q[i] # b
      PROVE  /\ {Append(q, b)[i] : i \in DOMAIN Append(q, b)} = {q[i] : i \in DOMAIN q} \cup {b}
             /\ \A i, j \in DOMAIN Append(q, b) : Append(q, b)[i] = Append(q, b)[j] => i = j
  <2>1. /\ DOMAIN Append(q, b) = DOMAIN q \cup {Len(q) + 1} /\ Len(q) + 1 \notin DOMAIN q
        /\ Append(q, b)[Len(q) + 1] = b
        /\ \A i \in DOMAIN q : Append(q, b)[i] = q[i]
    BY <1>2
  <2> QED
    BY <1>2, <2>1
<1>3. ASSUME NEW r \in Requests, SubmitEnqueue(r) PROVE DispatchedOnce'
  <2>1. CASE UNCHANGED <<queue, scheduled>>
    BY <1>0, <1>3, <2>1 DEF SubmitEnqueue, DispatchedOnce, workVars
  <2>2. CASE r \notin scheduled /\ queue' = Append(queue, r) /\ scheduled' = scheduled \cup {r}
    <3>1. cur' = cur /\ r # cur /\ \A i \in DOMAIN queue : queue[i] # r
      BY <1>0, <1>3, <2>2 DEF SubmitEnqueue, workVars
    <3> QED
      BY <1>0, <1>2, <2>2, <3>1 DEF DispatchedOnce
  <2> QED
    BY <1>3, <2>1, <2>2 DEF SubmitEnqueue, Enqueue
<1>4. CASE Take
  <2>1. /\ cur = None /\ cur' = queue[1] /\ queue # <<>> /\ queue' = Tail(queue)
        /\ scheduled' = scheduled
    BY <1>0, <1>4 DEF Take
  <2>2. /\ DOMAIN queue = 1 .. Len(queue) /\ Len(queue) \in Nat \ {0}
        /\ DOMAIN queue' = 1 .. Len(queue) - 1
        /\ \A i \in DOMAIN queue' : queue'[i] = queue[i + 1] /\ i + 1 \in DOMAIN queue
    BY <1>0, <2>1
  <2>3. \A i, j \in DOMAIN queue' : queue'[i] = queue'[j] => i = j
    BY <1>0, <2>2
  <2>4. \A i \in DOMAIN queue' : queue'[i] # cur'
    BY <1>0, <2>1, <2>2
  <2>5. {queue[i] : i \in DOMAIN queue} = {queue'[i] : i \in DOMAIN queue'} \cup {queue[1]}
    <3>1. ASSUME NEW i \in DOMAIN queue, i # 1
          PROVE  i - 1 \in DOMAIN queue' /\ queue[i] = queue'[i - 1]
      BY <2>2, <3>1
    <3>2. 1 \in DOMAIN queue
      BY <2>2
    <3> QED
      BY <2>2, <3>1, <3>2
  <2>6. cur' # None
    BY <1>0, <2>1, <2>2
  <2> QED
    BY <1>0, <2>1, <2>3, <2>4, <2>5, <2>6 DEF DispatchedOnce
<1>5. CASE Sweep \/ Done
  <2>1. PICK held : /\ EnqueueNext(held) /\ cur' = None
                    /\ held = {queue[i] : i \in DOMAIN queue}
    <3>1. CASE Sweep
      BY <1>0, <3>1 DEF Sweep, workVars
    <3>2. CASE Done
      BY <1>0, <3>2 DEF Done
    <3> QED
      BY <1>5, <3>1, <3>2
  <2>2. CASE queue' = queue /\ scheduled' = held
    BY <1>0, <2>1, <2>2 DEF DispatchedOnce
  <2>3. ASSUME NEW b \in ActiveBatches \ held,
               queue' = Append(queue, b), scheduled' = held \cup {b}
        PROVE  DispatchedOnce'
    <3>1. b \in Requests /\ \A i \in DOMAIN queue : queue[i] # b
      BY <2>1, <2>3 DEF ActiveBatches
    <3>2. queue' \in Seq(Requests)
      BY <1>0, <2>3, <3>1
    <3>3. \A i \in DOMAIN queue' : queue'[i] # None
      BY <1>0, <3>2
    <3> QED
      BY <1>0, <1>2, <2>1, <2>3, <3>1, <3>3 DEF DispatchedOnce
  <2> QED
    BY <2>1, <2>2, <2>3, EnqueueNextCases
<1>6. CASE Start
  <2>1. cur' = None
    BY <1>0, <1>6 DEF Start, IInv, ProcessInv
  <2>2. ActiveBatches \subseteq Requests
    BY DEF ActiveBatches
  <2> QED
    BY <1>0, <1>6, <2>1, <2>2, StartQueue DEF DispatchedOnce, IInv
<1>7. CASE Exit \/ Crash
  BY <1>7 DEF Exit, Crash, ProcessGone, DispatchedOnce
<1> QED
  BY <1>1, <1>3, <1>4, <1>5, <1>6, <1>7, ScheduleChanges

\* The insertion re-reads the key under the write lock, and an answer names a
\* batch that was found by the key or that the submission committed itself.
LEMMA KeyStep == ASSUME IInv, [Next]_vars PROVE OneBatchPerKey'
<1>0. /\ batch \in [Requests -> Active \cup Completed \cup {"NONE"}]
      /\ answer \in [Requests -> Requests \cup {None}] /\ None \notin Requests
      /\ answer' \in [Requests -> Requests \cup {None}]
      /\ \A a, b \in Requests :
           batch[a] # "NONE" /\ batch[b] # "NONE" /\ KeyOf[a] = KeyOf[b] => a = b
  BY ConstantsAssumption, ClientType DEF IInv, TypeOK, OneBatchPerKey
<1>1. ASSUME NEW a \in Requests, NEW b \in Requests,
             batch'[a] # "NONE", batch'[b] # "NONE", KeyOf[a] = KeyOf[b]
      PROVE  a = b
  <2>1. ASSUME NEW c \in Requests, NEW d \in Requests,
               SubmitInsert(c), batch[c] = "NONE", batch'[c] # "NONE"
        PROVE  /\ batch' = [batch EXCEPT ![c] = "STAGED"]
               /\ batch[d] # "NONE" => KeyOf[d] # KeyOf[c]
    BY <1>0, <2>1 DEF SubmitInsert, Winner, dataVars
  <2>2. CASE batch[a] # "NONE" /\ batch[b] # "NONE"
    BY <1>0, <1>1, <2>2
  <2>3. CASE batch[a] = "NONE"
    BY <1>0, <1>1, <2>1, <2>3, BatchBorn
  <2>4. CASE batch[b] = "NONE"
    BY <1>0, <1>1, <2>1, <2>4, BatchBorn
  <2> QED
    BY <2>2, <2>3, <2>4
<1>2. ASSUME NEW r \in Requests, answer'[r] # None
      PROVE  /\ batch[answer'[r]] # "NONE" /\ KeyOf[answer'[r]] = KeyOf[r]
             /\ SameManifest(r, answer'[r])
  <2>1. CASE answer'[r] = answer[r]
    BY <1>2, <2>1 DEF IInv, OneBatchPerKey
  <2>2. CASE \E b \in Winner(r) : SameManifest(r, b) /\ answer'[r] = b
    BY <2>2 DEF Winner
  <2>3. CASE answer'[r] = r /\ request[r] = "committed"
    BY <2>3 DEF IInv, SubmissionInv, SameManifest
  <2>4. ASSUME NEW x \in Requests,
               Refuse(x) \/ \E b \in Winner(x) : SameManifest(x, b) /\ Replay(x, b)
        PROVE  answer'[r] = answer[r] \/ \E b \in Winner(r) : SameManifest(r, b) /\ answer'[r] = b
    BY <1>0, <2>4 DEF Refuse, Replay
  <2>5. ASSUME NEW x \in Requests,
               Stage(x) \/ SubmitRead(x) \/ SubmitInsert(x) \/ SubmitFails(x)
        PROVE  \/ answer'[r] = answer[r]
               \/ Refuse(x) \/ \E b \in Winner(x) : SameManifest(x, b) /\ Replay(x, b)
    BY <2>5 DEF Stage, SubmitRead, SubmitInsert, SubmitFails
  <2>6. ASSUME NEW x \in Requests, SubmitEnqueue(x)
        PROVE  answer'[r] = answer[r] \/ (answer'[r] = r /\ request[r] = "committed")
    BY <1>0, <2>6 DEF SubmitEnqueue
  <2>7. Crash => answer' = answer
    BY DEF Crash
  <2> QED
    BY <2>1, <2>2, <2>3, <2>4, <2>5, <2>6, <2>7, ClientChanges
<1>3. \A r \in Requests : answer'[r] # None =>
        batch'[answer'[r]] # "NONE" /\ KeyOf[answer'[r]] = KeyOf[r] /\ SameManifest(r, answer'[r])
  BY <1>0, <1>2, BatchBorn
<1> QED
  BY <1>1, <1>3 DEF OneBatchPerKey, SameManifest

LEMMA InitIInv == Init => IInv
<1> SUFFICES ASSUME Init PROVE IInv
  OBVIOUS
<1> USE DEF Init
<1>1. NoRow \in EntryRow
  <2>1. 0 \in 0 .. RetryLimit
    BY ConstantsAssumption
  <2> QED
    BY <2>1 DEF NoRow, EntryRow
<1>2. QueueCapacity \in Nat /\ 0 \in 0 .. MaxFaults /\ 0 \in 0 .. MaxRestarts
  BY ConstantsAssumption
<1>3. /\ queue \in Seq(Requests) /\ Len(queue) <= QueueCapacity
      /\ faults \in 0 .. MaxFaults /\ restarts \in 0 .. MaxRestarts
      /\ createdAt \in [Requests -> Nat]
  BY <1>2
<1>4. row \in [Entries -> EntryRow] /\ verdict \in Verdict
  BY <1>1 DEF NoVerdict, Verdict
<1>5. TypeOK
  BY <1>3, <1>4 DEF TypeOK, Contents
<1>6. ProcessInv /\ SubmissionInv /\ WorkerInv
  BY DEF ProcessInv, SubmissionInv, WorkerInv, InFlight, AtEntry, Claimed, Linked
<1>7. CommittedInv /\ AcceptedFileIsKept /\ ReceiptProvesUpload
  BY EntryOfBatch DEF CommittedInv, AcceptedFileIsKept, ReceiptProvesUpload, NoRow
<1>8. DispatchedOnce /\ VerdictIsExact /\ OneBatchPerKey
  BY DEF DispatchedOnce, VerdictIsExact, OneBatchPerKey, Completed
<1> QED
  BY <1>5, <1>6, <1>7, <1>8 DEF IInv

LEMMA NextIInv == IInv /\ [Next]_vars => IInv'
BY TypeStep, ProcessStep, SubmissionStep, CommittedStep, WorkerStep, KeptStep, ReceiptStep,
  DispatchStep, VerdictStep, KeyStep DEF IInv

-----------------------------------------------------------------------------
(* What the outcomes of the entries rest on.                               *)

\* An entry has an outcome once it has ended, and only an error ends it without
\* its receipt.
OutcomeInv ==
  \A e \in Entries :
    /\ row[e].outcome \in IF row[e].status = "TERMINAL" THEN Outcomes ELSE {None}
    /\ row[e].status = "TERMINAL" /\ row[e].outcome # "ERROR" => row[e].receipt

\* The verdict the worker is about to write is still true when it is written:
\* the ready candidates of the supplier that claim its LOT have its bytes.
AloneWith(e, v) ==
  \A q \in Entries \ {e} :
    /\ row[q].outcome = "CANDIDATE_READY"
    /\ SupplierOf[Batch(q)] = SupplierOf[Batch(e)]
    /\ RevisionIdentity(row[q].reading) = RevisionIdentity(v.reading)
    => Bytes(q) = Bytes(e)

BeforeVerdict == {"claim", "check", "preserve", "link", "scan", "unlink", "unpath"}

DecisionInv ==
  /\ pc \in BeforeVerdict => verdict.outcome \in {None, "SCAN_FAILED", "ERROR"}
  /\ pc = "complete" => verdict.outcome # None
  /\ pc = "complete" /\ verdict.outcome = "CANDIDATE_READY" => AloneWith(ent, verdict)

ResultInv == IInv /\ OutcomeInv /\ DecisionInv /\ OneReadyPerLot

\* Of the ready candidates of the LOT it is compared with, a candidate that is
\* classified as ready has the bytes.
LEMMA ReadyIsAlone ==
  ASSUME NEW priors, NEW bytes, NEW rd, Classify(priors, bytes, rd) = "CANDIDATE_READY",
         NEW p \in priors, RevisionIdentity(p.reading) = RevisionIdentity(rd)
  PROVE  p.bytes = bytes
BY DEF Classify, IsSameLotRetest, IsRevision

\* Ending an entry: with the outcome it was given, or as a duplicate of an entry
\* that, like it, has its receipt.
LEMMA SettleSteps ==
  ASSUME IInv, pc \in AtEntry, NEW v \in Verdict, Settle(ent, v),
         v.outcome \in Outcomes, v.outcome # "ERROR" => row[ent].receipt
  PROVE  /\ ent \in Entries
         /\ \/ row' = row
            \/ /\ row[ent].status # "TERMINAL" /\ row'[ent].status = "TERMINAL"
               /\ \A e \in Entries \ {ent} : row'[e] = row[e]
               /\ row'[ent].receipt = row[ent].receipt
               /\ row'[ent].outcome \in Outcomes
               /\ row'[ent].outcome # "ERROR" => row[ent].receipt
               /\ row'[ent].outcome = "CANDIDATE_READY" =>
                    /\ v.outcome = "CANDIDATE_READY" /\ row'[ent].reading = v.reading
                    /\ SameBytes(ent) = {} \/ \E p \in SameBytes(ent) : ~ row[p].receipt
<1>1. ent \in Entries /\ row \in [Entries -> EntryRow] /\ "DUPLICATE_CANDIDATE" \in Outcomes
  BY EntryInHand DEF IInv, TypeOK, Outcomes
<1>2. CASE row[ent].status = "TERMINAL"
  BY <1>1, <1>2 DEF Settle
<1>3. CASE row[ent].status # "TERMINAL"
  <2>1. PICK prior \in IF SameBytes(ent) = {} THEN {None} ELSE FirstSameBytes(ent) :
          row' = [row EXCEPT ![ent] = Settled(ent, prior, v)]
    BY <1>3 DEF Settle
  <2> DEFINE duplicate == prior # None /\ row[ent].receipt /\ row[prior].receipt
             o == IF duplicate THEN "DUPLICATE_CANDIDATE" ELSE v.outcome
             rd == IF o = "CANDIDATE_READY" THEN v.reading ELSE None
             x == row[ent]
  <2>2. row'[ent] = [x EXCEPT !.status = "TERMINAL", !.outcome = o, !.reading = rd]
    BY <1>1, <2>1 DEF Settled
  <2>3. \A e \in Entries \ {ent} : row'[e] = row[e]
    BY <1>1, <2>1
  <2>4. x \in EntryRow
    BY <1>1
  <2>5. /\ o \in Outcomes
        /\ o # "ERROR" => x.receipt
        /\ o = "CANDIDATE_READY" =>
             v.outcome = "CANDIDATE_READY" /\ rd = v.reading /\ ~ duplicate /\ x.receipt
    BY <1>1
  <2>6. ~ duplicate /\ x.receipt =>
          SameBytes(ent) = {} \/ \E p \in SameBytes(ent) : ~ row[p].receipt
    <3>1. CASE SameBytes(ent) # {}
      <4>1. prior \in SameBytes(ent)
        BY <3>1 DEF FirstSameBytes
      <4>2. prior # None
        BY <4>1, ConstantsAssumption DEF SameBytes
      <4> QED
        BY <4>1, <4>2
    <3> QED
      BY <3>1
  <2> HIDE DEF duplicate, o, rd
  <2>7. /\ row'[ent].status = "TERMINAL" /\ row'[ent].receipt = x.receipt
        /\ row'[ent].outcome = o /\ row'[ent].reading = rd
    BY <2>2, <2>4 DEF EntryRow
  <2> QED
    BY <1>1, <1>3, <2>3, <2>5, <2>6, <2>7
<1> QED
  BY <1>2, <1>3

\* What _complete and _terminal_error write.
LEMMA ConclusionSteps ==
  ASSUME IInv, DecisionInv, Complete \/ TerminalError
  PROVE  /\ ent \in Entries
         /\ \/ row' = row
            \/ /\ row[ent].status # "TERMINAL" /\ row'[ent].status = "TERMINAL"
               /\ \A e \in Entries \ {ent} : row'[e] = row[e]
               /\ row'[ent].receipt = row[ent].receipt
               /\ row'[ent].outcome \in Outcomes
               /\ row'[ent].outcome # "ERROR" => row[ent].receipt
               /\ row'[ent].outcome = "CANDIDATE_READY" =>
                    /\ AloneWith(ent, verdict) /\ row'[ent].reading = verdict.reading
                    /\ SameBytes(ent) = {} \/ \E p \in SameBytes(ent) : ~ row[p].receipt
<1>1. CASE Complete
  <2>1. pc = "complete" /\ pc \in AtEntry /\ verdict \in Verdict /\ verdict.outcome \in Outcomes
    BY <1>1 DEF Complete, AtEntry, IInv, TypeOK, DecisionInv, Verdict
  <2>2. ent \in Entries
    BY <2>1, EntryInHand
  <2>3. CASE verdict.outcome # "ERROR" /\ ~ row[ent].receipt
    BY <1>1, <2>2, <2>3 DEF Complete
  <2>4. CASE ~ (verdict.outcome # "ERROR" /\ ~ row[ent].receipt)
    <3>1. Settle(ent, verdict)
      BY <1>1, <2>4 DEF Complete
    <3> QED
      BY <2>1, <2>4, <3>1, SettleSteps DEF DecisionInv
  <2> QED
    BY <2>3, <2>4
<1>2. CASE TerminalError
  <2> DEFINE v == [NoVerdict EXCEPT !.outcome = "ERROR"]
  <2>1. v \in Verdict /\ v.outcome = "ERROR" /\ v.outcome \in Outcomes
    BY DEF NoVerdict, Verdict, Outcomes
  <2>2. pc \in AtEntry /\ Settle(ent, v)
    BY <1>2 DEF TerminalError, AtEntry
  <2> HIDE DEF v
  <2> QED
    BY <2>1, <2>2, SettleSteps
<1> QED
  BY <1>1, <1>2

\* What a step makes of an entry: the worker or its recovery concludes one that
\* had not ended, and every other step leaves its outcome and reading alone.
LEMMA OutcomeSteps ==
  ASSUME IInv, OutcomeInv, DecisionInv, [Next]_vars, NEW e \in Entries
  PROVE  \/ /\ row'[e].outcome = row[e].outcome /\ row'[e].reading = row[e].reading
            /\ row'[e].status = "TERMINAL" <=> row[e].status = "TERMINAL"
         \/ /\ row[e].status # "TERMINAL" /\ row'[e].status = "TERMINAL"
            /\ \/ e = ent /\ (Complete \/ TerminalError)
               \/ Recover /\ row'[e].outcome = "ERROR"
<1>0. row \in [Entries -> EntryRow] /\ row[e] \in EntryRow
  BY DEF IInv, TypeOK
<1> DEFINE Alike(x) == /\ x.outcome = row[e].outcome /\ x.reading = row[e].reading
                       /\ x.status = "TERMINAL" <=> row[e].status = "TERMINAL"
<1>1. CASE row'[e] = row[e]
  BY <1>1
<1>2. ASSUME NEW r \in Requests, SubmitInsert(r) PROVE Alike(row'[e])
  <2>1. CASE UNCHANGED row
    BY <2>1
  <2>2. CASE ~ UNCHANGED row
    <3>1. /\ batch[r] = "NONE"
          /\ row' = [f \in Entries |-> IF f[1] = r THEN NewRow ELSE row[f]]
      BY <1>2, <2>2 DEF SubmitInsert, dataVars, Winner
    <3>2. e[1] = r => row[e] = NoRow
      BY <3>1 DEF IInv, CommittedInv, Batch
    <3> QED
      BY <3>1, <3>2 DEF NewRow, NoRow
  <2> QED
    BY <2>1, <2>2
<1>3. CASE Claim \/ Link \/ Unpath \/ DiscardPath \/ StageRetry
  <2>1. /\ ent \in Entries /\ \A f \in Entries \ {ent} : row'[f] = row[f]
    BY <1>3, HandRowSteps
  <2>2. CASE e = ent
    <3>1. CASE Claim
      BY <1>0, <1>1, <2>2, <3>1 DEF Claim, EntryRow
    <3>2. CASE Link \/ Unpath \/ DiscardPath
      BY <1>0, <1>1, <2>2, <3>2 DEF Link, Unpath, DiscardPath, EntryRow
    <3>3. CASE StageRetry
      <4>1. row[ent].status = "PROCESSING"
        BY <3>3 DEF StageRetry, IInv, WorkerInv, Claimed, AtEntry
      <4> QED
        BY <1>0, <2>2, <3>3, <4>1 DEF StageRetry, EntryRow
    <3> QED
      BY <1>3, <3>1, <3>2, <3>3
  <2> QED
    BY <1>1, <2>1, <2>2
<1>4. CASE Complete \/ TerminalError
  BY <1>1, <1>4, ConclusionSteps
<1>5. CASE Recover
  <2>1. \/ row'[e] = row[e]
        \/ row[e].status = "PROCESSING" /\ row'[e] = Recovered(e)
    BY <1>5 DEF Recover
  <2>2. \/ Recovered(e).status = "TERMINAL" /\ Recovered(e).outcome = "ERROR"
        \/ /\ Recovered(e).status = "STAGED" /\ Recovered(e).outcome = row[e].outcome
           /\ Recovered(e).reading = row[e].reading
    BY <1>0 DEF Recovered, EntryRow
  <2> QED
    BY <1>1, <1>5, <2>1, <2>2
<1>6. CASE Start
  <2>1. \/ row'[e] = row[e]
        \/ row[e].status = "PROCESSING" /\ row'[e] = [row[e] EXCEPT !.status = "STAGED"]
    BY <1>6 DEF Start
  <2> QED
    BY <1>0, <1>1, <2>1 DEF EntryRow
<1> QED
  BY <1>1, <1>2, <1>3, <1>4, <1>5, <1>6, RowChanges

LEMMA OutcomeStep == ASSUME IInv, OutcomeInv, DecisionInv, [Next]_vars PROVE OutcomeInv'
<1> SUFFICES ASSUME NEW e \in Entries
             PROVE  /\ row'[e].outcome \in IF row'[e].status = "TERMINAL" THEN Outcomes ELSE {None}
                    /\ row'[e].status = "TERMINAL" /\ row'[e].outcome # "ERROR" => row'[e].receipt
  BY DEF OutcomeInv
<1>0. /\ row[e].outcome \in IF row[e].status = "TERMINAL" THEN Outcomes ELSE {None}
      /\ row[e].status = "TERMINAL" /\ row[e].outcome # "ERROR" => row[e].receipt
  BY DEF OutcomeInv
<1>1. row[e].receipt => row'[e].receipt
  BY EntryKept
<1>2. CASE e = ent /\ (Complete \/ TerminalError)
  BY <1>0, <1>1, <1>2, ConclusionSteps
<1>3. "ERROR" \in Outcomes
  BY DEF Outcomes
<1> QED
  BY <1>0, <1>1, <1>2, <1>3, OutcomeSteps

\* A candidate that becomes ready is the one in hand, as _complete writes it.
LEMMA ReadyBorn ==
  ASSUME IInv, OutcomeInv, DecisionInv, [Next]_vars, NEW e \in Entries,
         row'[e].outcome = "CANDIDATE_READY"
  PROVE  \/ /\ row[e].outcome = "CANDIDATE_READY" /\ row'[e].reading = row[e].reading
         \/ e = ent /\ row[e].status # "TERMINAL" /\ (Complete \/ TerminalError)
BY OutcomeSteps

\* Between the classification of a candidate and the write nothing else becomes
\* ready: the worker is alone, and what a submission inserts has no outcome.
LEMMA DecisionStep == ASSUME IInv, OutcomeInv, DecisionInv, [Next]_vars PROVE DecisionInv'
<1>0. /\ pc \in BeforeVerdict => verdict.outcome \in {None, "SCAN_FAILED", "ERROR"}
      /\ pc = "complete" => verdict.outcome # None
      /\ pc = "complete" /\ verdict.outcome = "CANDIDATE_READY" => AloneWith(ent, verdict)
  BY DEF DecisionInv
<1>1. ASSUME UNCHANGED <<pc, ent, verdict>>, ~ Complete, ~ TerminalError PROVE DecisionInv'
  <2>1. ASSUME pc = "complete", AloneWith(ent, verdict) PROVE AloneWith(ent, verdict)'
    <3> SUFFICES ASSUME NEW q \in Entries \ {ent}, row'[q].outcome = "CANDIDATE_READY",
                        SupplierOf[Batch(q)] = SupplierOf[Batch(ent)],
                        RevisionIdentity(row'[q].reading) = RevisionIdentity(verdict.reading)
                 PROVE  Bytes(q) = Bytes(ent)
      BY <1>1 DEF AloneWith
    <3>1. row[q].outcome = "CANDIDATE_READY" /\ row'[q].reading = row[q].reading
      BY ReadyBorn
    <3> QED
      BY <2>1, <3>1 DEF AloneWith
  <2> QED
    BY <1>0, <1>1, <2>1 DEF DecisionInv
<1>2. CASE pc' \notin BeforeVerdict \cup {"complete"}
  BY <1>2 DEF DecisionInv, BeforeVerdict
<1>3. CASE NextEntry
  BY <1>3, <1>2 DEF NextEntry, Goto, DecisionInv, BeforeVerdict, NoVerdict
<1>4. CASE Claim \/ Check \/ Preserve \/ Link \/ Unlink
  <2>1. pc \in BeforeVerdict /\ verdict' = verdict /\ pc' # "complete"
    BY <1>4 DEF Claim, Check, Preserve, Link, Unlink, Goto, BeforeVerdict
  <2> QED
    BY <1>0, <2>1 DEF DecisionInv
<1>5. CASE Scan
  <2>1. pc \in BeforeVerdict /\ pc' # "complete"
    BY <1>5 DEF Scan, ScanRefuses, Goto, BeforeVerdict
  <2>2. verdict' = verdict \/ verdict'.outcome \in {"SCAN_FAILED", "ERROR"}
    BY <1>5 DEF Scan, ScanRefuses, NoVerdict
  <2> QED
    BY <1>0, <2>1, <2>2 DEF DecisionInv
<1>6. CASE Unpath
  <2>1. /\ pc \in BeforeVerdict /\ verdict' = verdict /\ pc' \in {"evaluate", "complete"}
        /\ pc' = "complete" => verdict.outcome # None
    BY <1>6 DEF Unpath, Goto, BeforeVerdict
  <2> QED
    BY <1>0, <2>1 DEF DecisionInv, BeforeVerdict
<1>7. CASE Evaluate
  <2>1. UNCHANGED <<row, ent>> /\ pc' = "complete"
    BY <1>7 DEF Evaluate, dataVars, Goto
  <2>2. ASSUME NEW o \in HoldOutcomes, verdict' = [NoVerdict EXCEPT !.outcome = o]
        PROVE  DecisionInv'
    <3>1. verdict'.outcome = o /\ o # "CANDIDATE_READY" /\ o # None
      BY <2>2, ConstantsAssumption, NoneAssumption DEF NoVerdict, Outcomes
    <3> QED
      BY <2>1, <3>1 DEF DecisionInv, BeforeVerdict
  <2>3. ASSUME NEW rd \in Readings,
               verdict' = [outcome |-> Classify(ReadyPriors(ent), Bytes(ent), rd), reading |-> rd]
        PROVE  DecisionInv'
    <3>1. /\ verdict'.outcome = Classify(ReadyPriors(ent), Bytes(ent), rd)
          /\ verdict'.reading = rd
      BY <2>3
    <3>2. Classify(ReadyPriors(ent), Bytes(ent), rd) # None
      BY NoneAssumption DEF Classify, Outcomes
    <3>3. ASSUME verdict'.outcome = "CANDIDATE_READY" PROVE AloneWith(ent, verdict)'
      <4> SUFFICES ASSUME NEW q \in Entries \ {ent}, row[q].outcome = "CANDIDATE_READY",
                          SupplierOf[Batch(q)] = SupplierOf[Batch(ent)],
                          RevisionIdentity(row[q].reading) = RevisionIdentity(rd)
                   PROVE  Bytes(q) = Bytes(ent)
        BY <2>1, <3>1 DEF AloneWith
      <4> DEFINE p == [bytes |-> Bytes(q), reading |-> row[q].reading]
      <4>1. p \in ReadyPriors(ent) /\ p.bytes = Bytes(q) /\ p.reading = row[q].reading
        BY DEF ReadyPriors
      <4> HIDE DEF p
      <4>2. RevisionIdentity(p.reading) = RevisionIdentity(rd)
        BY <4>1
      <4> DEFINE priors == ReadyPriors(ent)
                 bytes == Bytes(ent)
      <4>3. p \in priors /\ Classify(priors, bytes, rd) = "CANDIDATE_READY"
        BY <3>1, <3>3, <4>1
      <4> HIDE DEF priors, bytes
      <4>4. p.bytes = bytes
        BY <4>2, <4>3, ReadyIsAlone
      <4> QED
        BY <4>1, <4>4 DEF bytes
    <3> QED
      BY <2>1, <3>1, <3>2, <3>3 DEF DecisionInv, BeforeVerdict
  <2> QED
    BY <1>7, <2>2, <2>3 DEF Evaluate, Held, Classified
<1>8. CASE \/ Take \/ Open \/ LinkFails \/ Complete \/ TerminalError \/ DiscardFile \/ DiscardPath
           \/ StageRetry \/ Finish \/ Recover \/ RecoverUnlink \/ Done \/ Raise
           \/ Start \/ Exit \/ Crash
  <2>1. CASE Take \/ Open \/ LinkFails \/ Complete \/ TerminalError \/ DiscardFile \/ DiscardPath
    BY <1>2, <2>1 DEF Take, Open, LinkFails, Complete, TerminalError, DiscardFile, DiscardPath,
      Goto, BeforeVerdict
  <2>2. CASE StageRetry \/ Finish \/ Recover \/ RecoverUnlink \/ Done
    BY <1>2, <2>2 DEF StageRetry, Finish, Recover, RecoverUnlink, Done, Goto, BeforeVerdict
  <2>3. CASE Raise
    BY <1>2, <2>3 DEF Raise, Handler, Goto, WorkerPCs, BeforeVerdict
  <2>4. CASE Start \/ Exit \/ Crash
    BY <1>2, <2>4 DEF Start, Exit, Crash, ProcessGone, BeforeVerdict
  <2> QED
    BY <1>8, <2>1, <2>2, <2>3, <2>4
<1>9. \/ UNCHANGED <<pc, ent, verdict>>
      \/ NextEntry \/ Claim \/ Check \/ Preserve \/ Link \/ Unlink \/ Scan \/ Unpath \/ Evaluate
      \/ Take \/ Open \/ LinkFails \/ Complete \/ TerminalError \/ DiscardFile \/ DiscardPath
      \/ StageRetry \/ Finish \/ Recover \/ RecoverUnlink \/ Done \/ Raise
      \/ Start \/ Exit \/ Crash
  BY DEF Next, Submit, Worker, Stage, SubmitRead, SubmitInsert, SubmitEnqueue, SubmitFails,
    DeferralExpires, Tamper, Sweep, Stop, vars, workVars
<1> QED
  BY <1>1, <1>3, <1>4, <1>5, <1>6, <1>7, <1>8, <1>9

\* A pair of ready candidates with one LOT is either old, and then so is the
\* entry that hid the duplicate, or its younger one is the entry in hand.
LEMMA LotStep == ASSUME ResultInv, [Next]_vars PROVE OneReadyPerLot'
<1>0. IInv /\ OutcomeInv /\ DecisionInv /\ OneReadyPerLot
  BY DEF ResultInv
<1>1. row \in [Entries -> EntryRow]
  BY <1>0 DEF IInv, TypeOK
\* An entry that hides a duplicate goes on hiding it.
<1>2. ASSUME NEW e \in Entries, NEW p \in SameBytes(e), ~ row[p].receipt
      PROVE  p \in SameBytes(e)' /\ ~ row'[p].receipt
  <2>1. /\ p \in Entries \ {e} /\ row[p].status = "TERMINAL"
        /\ SupplierOf[Batch(p)] = SupplierOf[Batch(e)] /\ Bytes(p) = Bytes(e)
    BY DEF SameBytes
  <2>2. row'[p] = [row[p] EXCEPT !.staged = row'[p].staged] /\ row[p] \in EntryRow
    BY <1>0, <1>1, <2>1, EntryKept
  <2>3. row'[p].status = "TERMINAL" /\ row'[p].receipt = row[p].receipt
    BY <2>1, <2>2 DEF EntryRow
  <2> QED
    BY <1>2, <2>1, <2>3 DEF SameBytes
\* The entry in hand becomes ready next to another ready candidate of its LOT.
<1>3. ASSUME NEW e \in Entries, NEW f \in Entries \ {e}, e = ent, Complete \/ TerminalError,
             row[e].status # "TERMINAL",
             row'[e].outcome = "CANDIDATE_READY", row'[f].outcome = "CANDIDATE_READY",
             SupplierOf[Batch(e)] = SupplierOf[Batch(f)],
             RevisionIdentity(row'[e].reading) = RevisionIdentity(row'[f].reading)
      PROVE  /\ Bytes(e) = Bytes(f)
             /\ \E p \in SameBytes(e)' : ~ row'[p].receipt
             /\ \E p \in SameBytes(f)' : ~ row'[p].receipt
  <2>1. row[f].outcome = "CANDIDATE_READY" /\ row'[f].reading = row[f].reading
    BY <1>0, <1>3, ReadyBorn
  <2>2. row[f].status = "TERMINAL" /\ row[f].receipt
    BY <1>0, <2>1, NoneAssumption DEF OutcomeInv, Outcomes
  <2>3. row[e].outcome # "CANDIDATE_READY"
    BY <1>0, <1>3, NoneAssumption DEF OutcomeInv, Outcomes
  <2>4. /\ AloneWith(e, verdict) /\ row'[e].reading = verdict.reading
        /\ SameBytes(e) = {} \/ \E p \in SameBytes(e) : ~ row[p].receipt
    BY <1>0, <1>3, <2>3, ConclusionSteps
  <2>5. Bytes(f) = Bytes(e)
    BY <1>3, <2>1, <2>4 DEF AloneWith
  <2>6. f \in SameBytes(e)
    BY <1>3, <2>2, <2>5 DEF SameBytes
  <2>7. PICK p \in SameBytes(e) : ~ row[p].receipt
    BY <2>4, <2>6
  <2>8. p \in SameBytes(f)
    BY <1>3, <2>2, <2>5, <2>7 DEF SameBytes
  <2> QED
    BY <1>2, <1>3, <2>5, <2>7, <2>8
<1> SUFFICES ASSUME NEW e \in Entries, NEW f \in Entries, e # f,
                    SupplierOf[Batch(e)] = SupplierOf[Batch(f)],
                    row'[e].outcome = "CANDIDATE_READY", row'[f].outcome = "CANDIDATE_READY",
                    RevisionIdentity(row'[e].reading) = RevisionIdentity(row'[f].reading)
             PROVE  Bytes(e) = Bytes(f) /\ \E p \in SameBytes(e)' : ~ row'[p].receipt
  BY DEF OneReadyPerLot
<1>4. CASE e = ent /\ row[e].status # "TERMINAL" /\ (Complete \/ TerminalError)
  BY <1>3, <1>4
<1>5. CASE f = ent /\ row[f].status # "TERMINAL" /\ (Complete \/ TerminalError)
  BY <1>3, <1>5
<1>6. CASE /\ row[e].outcome = "CANDIDATE_READY" /\ row'[e].reading = row[e].reading
           /\ row[f].outcome = "CANDIDATE_READY" /\ row'[f].reading = row[f].reading
  <2>1. Bytes(e) = Bytes(f) /\ \E p \in SameBytes(e) : ~ row[p].receipt
    BY <1>0, <1>6 DEF OneReadyPerLot
  <2> QED
    BY <1>2, <2>1
<1> QED
  BY <1>0, <1>4, <1>5, <1>6, ReadyBorn

LEMMA InitResultInv == Init => ResultInv
<1> SUFFICES ASSUME Init PROVE ResultInv
  OBVIOUS
<1>1. IInv
  BY InitIInv
<1>2. \A e \in Entries : row[e].status = "NONE" /\ row[e].outcome = None
  BY DEF Init, NoRow
<1>3. OutcomeInv
  BY <1>2 DEF OutcomeInv
<1>4. DecisionInv
  BY DEF Init, DecisionInv, BeforeVerdict
<1>5. OneReadyPerLot
  BY <1>2, NoneAssumption DEF OneReadyPerLot, Outcomes
<1> QED
  BY <1>1, <1>3, <1>4, <1>5 DEF ResultInv

LEMMA NextResultInv == ResultInv /\ [Next]_vars => ResultInv'
BY NextIInv, OutcomeStep, DecisionStep, LotStep DEF ResultInv

-----------------------------------------------------------------------------
(* Every step keeps the promise of the intake or is not seen in it.        *)

\* A receipt appears on an entry when the link of the entry in hand is written.
LEMMA ReceiptSteps ==
  ASSUME IInv, [Next]_vars, NEW e \in Entries
  PROVE  row'[e].receipt = row[e].receipt \/ (Link /\ e = ent /\ row'[e].receipt)
<1>0. row[e].receipt \in BOOLEAN /\ row'[e].receipt \in BOOLEAN
  BY RowType DEF IInv, TypeOK, EntryRow
<1>1. ASSUME NEW r \in Requests, SubmitInsert(r) PROVE row'[e].receipt = row[e].receipt
  <2>1. CASE UNCHANGED row
    BY <2>1
  <2>2. CASE ~ UNCHANGED row
    <3>1. /\ batch[r] = "NONE"
          /\ row' = [f \in Entries |-> IF f[1] = r THEN NewRow ELSE row[f]]
      BY <1>1, <2>2 DEF SubmitInsert, dataVars, Winner
    <3>2. e[1] = r => row[e] = NoRow
      BY <3>1 DEF IInv, CommittedInv, Batch
    <3> QED
      BY <3>1, <3>2 DEF NewRow, NoRow
  <2> QED
    BY <2>1, <2>2
<1>2. CASE Claim \/ Link \/ Unpath \/ Complete \/ TerminalError \/ DiscardPath \/ StageRetry
  <2>1. e # ent => row'[e] = row[e]
    BY <1>2, HandRowSteps
  <2>2. e = ent => (row[e].receipt => row'[e].receipt) /\ (row'[e].receipt => row[e].receipt \/ Link)
    BY <1>2, HandRowSteps
  <2> QED
    BY <1>0, <2>1, <2>2
<1>3. CASE Recover \/ Start
  BY <1>3, RecoveryRowSteps
<1> QED
  BY <1>1, <1>2, <1>3, RowChanges

\* But for the commit of a submission and the end of a batch, the batches that
\* are accepted and the verdicts given stay what they are.
LEMMA BatchesAlike ==
  ASSUME IInv, [Next]_vars, ~ Finish, \A r \in Requests : ~ SubmitInsert(r)
  PROVE  Accepted' = Accepted /\ VerdictOf' = VerdictOf
<1>0. batch \in [Requests -> Active \cup Completed \cup {"NONE"}]
  BY DEF IInv, TypeOK
<1>1. ASSUME NEW b \in Requests
      PROVE  batch'[b] = batch[b] \/ (batch[b] \in Active /\ batch'[b] \in Active)
  <2>1. CASE UNCHANGED batch
    BY <2>1
  <2>2. CASE Open \/ Recover \/ Start
    BY <1>0, <2>2 DEF Open, Recover, Start, Active
  <2> QED
    BY <2>1, <2>2, BatchChanges
<1>2. \A b \in Requests : /\ batch'[b] = "NONE" <=> batch[b] = "NONE"
                          /\ batch'[b] \in Completed <=> batch[b] \in Completed
                          /\ batch[b] \in Completed => batch'[b] = batch[b]
  BY <1>1 DEF Active, Completed
<1> QED
  BY <1>2 DEF Accepted, VerdictOf

\* Several entries may end in one step: what they end with.
LEMMA ConcludeStep ==
  ASSUME ResultInv, [Next]_vars, Complete \/ TerminalError \/ Recover
  PROVE  \E concluded \in SUBSET Entries : Intake!Conclude(concluded)
<1>0. IInv /\ OutcomeInv /\ DecisionInv /\ OutcomeInv'
  BY OutcomeStep DEF ResultInv
<1>1. ~ Link /\ ~ Finish
  BY DEF Complete, TerminalError, Recover, Link, Finish
<1>2. \A r \in Requests : ~ SubmitInsert(r)
  BY DEF Complete, TerminalError, Recover, SubmitInsert, workVars, Goto
<1>3. Accepted' = Accepted /\ VerdictOf' = VerdictOf
  BY <1>0, <1>1, <1>2, BatchesAlike
<1>4. ProofOf' = ProofOf
  BY <1>0, <1>1, ReceiptSteps DEF ProofOf
<1> DEFINE S == {e \in Entries : row'[e].status = "TERMINAL" /\ row[e].status # "TERMINAL"}
           o == [e \in S |-> row'[e].outcome]
<1>5. o \in [S -> Outcomes]
  BY <1>0 DEF OutcomeInv
<1>6. \A e \in S : BatchOf[e] \in Accepted /\ OutcomeOf[e] = None
  <2> SUFFICES ASSUME NEW e \in S PROVE BatchOf[e] \in Accepted /\ OutcomeOf[e] = None
    OBVIOUS
  <2>1. row[e].outcome = None
    BY <1>0 DEF OutcomeInv
  <2>2. batch'[Batch(e)] # "NONE" /\ Batch(e) \in Requests
    BY <1>0, CommittedStep, EntryOfBatch DEF CommittedInv, NoRow
  <2>3. Batch(e) \in Accepted
    BY <1>3, <2>2 DEF Accepted
  <2> QED
    BY <2>1, <2>3 DEF BatchOf, OutcomeOf
<1>7. \A e \in S : o[e] # "ERROR" => ProofOf[e]
  <2>1. \A e \in S : o[e] # "ERROR" => row'[e].receipt
    BY <1>0 DEF OutcomeInv
  <2>2. \A e \in Entries : row'[e].receipt = ProofOf[e]
    BY <1>4 DEF ProofOf
  <2> QED
    BY <2>1, <2>2
<1>8. OutcomeOf' = [e \in Entries |-> IF e \in S THEN o[e] ELSE OutcomeOf[e]]
  <2>1. \A e \in Entries : row'[e].outcome = IF e \in S THEN o[e] ELSE row[e].outcome
    BY <1>0, OutcomeSteps
  <2> QED
    BY <2>1 DEF OutcomeOf
<1>9. S \in SUBSET Entries
  OBVIOUS
<1> HIDE DEF S, o
<1>10. Intake!Conclude(S)
  BY <1>3, <1>4, <1>5, <1>6, <1>7, <1>8 DEF Intake!Conclude
<1> QED
  BY <1>9, <1>10

\* A batch is closed with the verdict its entries give, once all have ended.
LEMMA CloseStep ==
  ASSUME ResultInv, [Next]_vars, Finish
  PROVE  UNCHANGED <<Accepted, ProofOf, OutcomeOf, VerdictOf>> \/ \E b \in Requests : Intake!Close(b)
<1>0. IInv /\ OutcomeInv /\ pc = "finish" /\ row' = row
  BY DEF ResultInv, Finish
<1>1. cur \in Requests /\ batch[cur] = "PROCESSING"
  BY <1>0, CurIsCommitted DEF IInv, WorkerInv
<1>2. batch \in [Requests -> Active \cup Completed \cup {"NONE"}]
  BY <1>0 DEF IInv, TypeOK
<1> DEFINE outcomes == {row[e].outcome : e \in EntriesOf(cur)}
           status == BatchVerdict(outcomes)
<1>3. status \in Completed /\ "PROCESSING" \notin Completed /\ "STAGED" \notin Completed
      /\ "NONE" \notin Completed
  BY DEF BatchVerdict, Completed
<1>4. ProofOf' = ProofOf /\ OutcomeOf' = OutcomeOf
  BY <1>0 DEF ProofOf, OutcomeOf
<1>5. \A b \in Requests \ {cur} : batch'[b] = batch[b]
  BY <1>2 DEF Finish
<1>6. CASE \E e \in EntriesOf(cur) : row[e].status # "TERMINAL"
  <2>1. batch'[cur] = "STAGED"
    BY <1>1, <1>2, <1>6 DEF Finish
  <2>2. Accepted' = Accepted /\ VerdictOf' = VerdictOf
    BY <1>1, <1>3, <1>5, <2>1 DEF Accepted, VerdictOf
  <2> QED
    BY <1>4, <2>2
<1>7. CASE \A e \in EntriesOf(cur) : row[e].status = "TERMINAL"
  <2>1. batch'[cur] = status
    BY <1>1, <1>2, <1>7 DEF Finish
  <2>2. outcomes = {OutcomeOf[e] : e \in {f \in Entries : BatchOf[f] = cur}}
    BY DEF EntriesOf, BatchOf, Batch, OutcomeOf
  <2>3. \A e \in Entries : BatchOf[e] = cur => OutcomeOf[e] # None
    BY <1>0, <1>7, NoneAssumption DEF OutcomeInv, EntriesOf, BatchOf, Batch, OutcomeOf
  <2>4. cur \in Accepted /\ VerdictOf[cur] = None
    BY <1>1, <1>3 DEF Accepted, VerdictOf
  <2>5. status = Intake!BatchVerdict(outcomes)
    BY DEF BatchVerdict, Intake!BatchVerdict
  <2> HIDE DEF outcomes, status
  <2>6. Accepted' = Accepted
    BY <1>1, <1>3, <1>5, <2>1 DEF Accepted
  <2>7. VerdictOf' = [VerdictOf EXCEPT ![cur] = status]
    BY <1>1, <1>3, <1>5, <2>1 DEF VerdictOf
  <2>8. Intake!Close(cur)
    BY <1>4, <2>2, <2>3, <2>4, <2>5, <2>6, <2>7 DEF Intake!Close
  <2> QED
    BY <1>1, <2>8
<1> QED
  BY <1>6, <1>7

\* A batch is accepted when the insertion of its rows commits.
LEMMA AcceptStep ==
  ASSUME ResultInv, [Next]_vars, NEW r \in Requests, SubmitInsert(r)
  PROVE  UNCHANGED <<Accepted, ProofOf, OutcomeOf, VerdictOf>> \/ Intake!Accept(r)
<1>0. IInv /\ OutcomeInv /\ DecisionInv
      /\ batch \in [Requests -> Active \cup Completed \cup {"NONE"}]
  BY DEF ResultInv, IInv, TypeOK
<1>1. CASE UNCHANGED dataVars
  BY <1>1 DEF dataVars, Accepted, ProofOf, OutcomeOf, VerdictOf
<1>2. CASE ~ UNCHANGED dataVars
  <2>1. batch[r] = "NONE" /\ batch' = [batch EXCEPT ![r] = "STAGED"] /\ pc' = pc
    BY <1>2 DEF SubmitInsert, Winner, workVars
  <2>2. r \notin Accepted /\ Accepted' = Accepted \cup {r}
    BY <1>0, <2>1 DEF Accepted
  <2>3. VerdictOf' = VerdictOf
    BY <1>0, <2>1 DEF VerdictOf, Completed
  <2>4. \A e \in Entries : row[e].outcome = row'[e].outcome /\ row[e].receipt = row'[e].receipt
    <3>1. row' = [f \in Entries |-> IF f[1] = r THEN NewRow ELSE row[f]]
      BY <1>2 DEF SubmitInsert
    <3>2. \A e \in Entries : e[1] = r => row[e] = NoRow
      BY <1>0, <2>1 DEF IInv, CommittedInv, Batch
    <3> QED
      BY <3>1, <3>2 DEF NewRow, NoRow
  <2>5. ProofOf' = ProofOf /\ OutcomeOf' = OutcomeOf
    BY <2>4 DEF ProofOf, OutcomeOf
  <2> QED
    BY <2>2, <2>3, <2>5 DEF Intake!Accept
<1> QED
  BY <1>1, <1>2

LEMMA ProveStep ==
  ASSUME ResultInv, [Next]_vars, Link
  PROVE  UNCHANGED <<Accepted, ProofOf, OutcomeOf, VerdictOf>> \/ \E e \in Entries : Intake!Prove(e)
<1>0. IInv /\ OutcomeInv /\ pc = "link" /\ batch' = batch /\ row \in [Entries -> EntryRow]
  BY DEF ResultInv, Link, IInv, TypeOK
<1>1. /\ ent \in Entries /\ ent \in EntriesOf(cur) /\ batch[cur] = "PROCESSING"
      /\ row[ent].status = "PROCESSING" /\ cur \in Requests
  BY <1>0, EntryInHand, CurIsCommitted DEF IInv, WorkerInv, AtEntry, Claimed
<1>2. Accepted' = Accepted /\ VerdictOf' = VerdictOf
  BY <1>0 DEF Accepted, VerdictOf
<1>3. CASE row' = row
  BY <1>2, <1>3 DEF ProofOf, OutcomeOf
<1>4. CASE row' = [row EXCEPT ![ent].receipt = TRUE]
  <2>1. \A e \in Entries : /\ row'[e].outcome = row[e].outcome
                           /\ row'[e].receipt = IF e = ent THEN TRUE ELSE row[e].receipt
    BY <1>0, <1>1, <1>4 DEF EntryRow
  <2>2. OutcomeOf' = OutcomeOf /\ ProofOf' = [ProofOf EXCEPT ![ent] = TRUE]
    BY <1>1, <2>1 DEF OutcomeOf, ProofOf
  <2>3. BatchOf[ent] \in Accepted /\ OutcomeOf[ent] = None
    BY <1>0, <1>1 DEF BatchOf, Batch, EntriesOf, Accepted, OutcomeOf, OutcomeInv
  <2> QED
    BY <1>1, <1>2, <2>2, <2>3 DEF Intake!Prove
<1> QED
  BY <1>3, <1>4 DEF Link

LEMMA PromiseStep ==
  ASSUME ResultInv, [Next]_vars
  PROVE  Intake!Next \/ UNCHANGED <<Accepted, ProofOf, OutcomeOf, VerdictOf>>
<1>1. CASE \E r \in Requests : SubmitInsert(r)
  BY <1>1, AcceptStep DEF Intake!Next
<1>2. CASE Link
  BY <1>2, ProveStep DEF Intake!Next
<1>3. CASE Complete \/ TerminalError \/ Recover
  BY <1>3, ConcludeStep DEF Intake!Next
<1>4. CASE Finish
  BY <1>4, CloseStep DEF Intake!Next
<1>5. CASE /\ ~ Link /\ ~ Complete /\ ~ TerminalError /\ ~ Recover /\ ~ Finish
           /\ \A r \in Requests : ~ SubmitInsert(r)
  <2>1. Accepted' = Accepted /\ VerdictOf' = VerdictOf
    BY <1>5, BatchesAlike DEF ResultInv
  <2>2. ProofOf' = ProofOf
    BY <1>5, ReceiptSteps DEF ResultInv, ProofOf
  <2>3. OutcomeOf' = OutcomeOf
    BY <1>5, OutcomeSteps DEF ResultInv, OutcomeOf
  <2> QED
    BY <2>1, <2>2, <2>3
<1> QED
  BY <1>1, <1>2, <1>3, <1>4, <1>5

LEMMA InitPromise == Init => Intake!Init
<1> SUFFICES ASSUME Init PROVE Intake!Init
  OBVIOUS
<1>1. Accepted = {} /\ VerdictOf = [b \in Requests |-> None]
  BY DEF Init, Accepted, VerdictOf, Completed
<1>2. ProofOf = [e \in Entries |-> FALSE] /\ OutcomeOf = [e \in Entries |-> None]
  BY DEF Init, NoRow, ProofOf, OutcomeOf
<1> QED
  BY <1>1, <1>2 DEF Intake!Init

-----------------------------------------------------------------------------
(* The theorems.                                                           *)

\* The inductive invariant holds throughout every behaviour.
THEOREM Invariance == Spec => []IInv
BY InitIInv, NextIInv, PTL DEF Spec

\* Every variable keeps its type; in particular the queue never overflows.
THEOREM TypeCorrect == Spec => []TypeOK
<1>1. IInv => TypeOK
  BY DEF IInv
<1> QED
  BY <1>1, Invariance, PTL

\* No accepted file is lost before its receipt is linked.
THEOREM NoUploadIsLost == Spec => []AcceptedFileIsKept
<1>1. IInv => AcceptedFileIsKept
  BY DEF IInv
<1> QED
  BY <1>1, Invariance, PTL

\* A linked receipt stands for the bytes that were uploaded.
THEOREM ReceiptsAreTrue == Spec => []ReceiptProvesUpload
<1>1. IInv => ReceiptProvesUpload
  BY DEF IInv
<1> QED
  BY <1>1, Invariance, PTL

\* The schedule is exactly what is queued and in hand, each batch once.
THEOREM OneDispatch == Spec => []DispatchedOnce
<1>1. IInv => DispatchedOnce
  BY DEF IInv
<1> QED
  BY <1>1, Invariance, PTL

\* A finished batch reports what became of its entries.
THEOREM ExactVerdict == Spec => []VerdictIsExact
<1>1. IInv => VerdictIsExact
  BY DEF IInv
<1> QED
  BY <1>1, Invariance, PTL

\* One key has one batch, and its answers went to those who sent its files.
THEOREM IdempotentSubmission == Spec => []OneBatchPerKey
<1>1. IInv => OneBatchPerKey
  BY DEF IInv
<1> QED
  BY <1>1, Invariance, PTL

\* No step reopens what has ended or takes a receipt back.
THEOREM FinalityOfEnds == Spec => TerminalIsFinal
<1>1. IInv /\ [Next]_vars =>
        [ /\ \A e \in Entries :
               /\ row[e].status = "TERMINAL" => row'[e] = [row[e] EXCEPT !.staged = row'[e].staged]
               /\ row[e].receipt => row'[e].receipt
          /\ \A b \in Requests : batch[b] \in Completed => batch'[b] = batch[b] ]_vars
  BY EntryKept, BatchKept
<1> QED
  BY <1>1, Invariance, PTL DEF Spec, TerminalIsFinal

\* The strengthened invariant, of the outcomes too, holds throughout.
THEOREM ResultInvariance == Spec => []ResultInv
BY InitResultInv, NextResultInv, PTL DEF Spec

\* Two ready candidates of a supplier never claim one LOT, unless an entry with
\* their bytes that ended without a receipt hid that they are duplicates.
THEOREM LotsAreClaimedOnce == Spec => []OneReadyPerLot
<1>1. ResultInv => OneReadyPerLot
  BY DEF ResultInv
<1> QED
  BY <1>1, ResultInvariance, PTL

\* The import with its worker, files, retries and crashes implements the promise
\* made to whoever submits a batch.
THEOREM ImplementsIntake == Spec => IntakePromise
<1>1. Init => Intake!Init
  BY InitPromise
<1>2. ResultInv /\ [Next]_vars => [Intake!Next]_<<Accepted, ProofOf, OutcomeOf, VerdictOf>>
  BY PromiseStep
<1> QED
  BY <1>1, <1>2, ResultInvariance, PTL DEF Spec, IntakePromise, Intake!Spec, Intake!vars
=============================================================================
