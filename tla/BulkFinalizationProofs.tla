------------------------ MODULE BulkFinalizationProofs ------------------------
(***************************************************************************)
(* Proofs about BulkFinalization, for every number of batches, entries,    *)
(* submissions, callers of the Long persistence, faults and restarts.      *)
(* What the Long persistence keeps comes from LongPersistenceProofs.       *)
(***************************************************************************)
EXTENDS BulkFinalization, TLAPS

LP == INSTANCE LongPersistenceProofs

-----------------------------------------------------------------------------
(* The Long persistence, as it is used here and as it is proved about.     *)

LEMMA SameSteps ==
  /\ \A p, c : Long!Confirm(p, c) => LP!Confirm(p, c)
  /\ \A p : Long!CallFails(p) => LP!CallFails(p)
  /\ Long!CallsDie => LP!CallsDie
  /\ Long!Init => LP!Init
<1>1. \A p, c : Long!Confirm(p, c) => LP!Confirm(p, c)
  BY DEF Long!Confirm, LP!Confirm, Long!NoCall, LP!NoCall, Long!NoOwner, LP!NoOwner
<1>2. \A p : Long!CallFails(p) => LP!CallFails(p)
  BY DEF Long!CallFails, LP!CallFails, Long!Answer, LP!Answer, Long!Goto, LP!Goto,
         Long!NoCall, LP!NoCall, Long!NoOwner, LP!NoOwner
<1>3. Long!CallsDie => LP!CallsDie
  BY DEF Long!CallsDie, LP!CallsDie, Long!NoCall, LP!NoCall, Long!NoOwner, LP!NoOwner
<1>4. Long!Init => LP!Init
  BY DEF Long!Init, LP!Init, Long!LongInit, LP!LongInit, Long!NoJob, LP!NoJob,
         Long!NoCall, LP!NoCall, Long!NoOwner, LP!NoOwner
<1> QED BY <1>1, <1>2, <1>3, <1>4

LEMMA SamePersist == \A p : Long!Persist(p) => LP!Persist(p)
<1> SUFFICES ASSUME NEW p PROVE Long!Persist(p) => LP!Persist(p) OBVIOUS
<1>1. Long!Lookup(p) => LP!Lookup(p)
  BY DEF Long!Lookup, LP!Lookup, Long!Asked, LP!Asked, Long!Answer, LP!Answer, Long!Goto,
         LP!Goto, Long!NoCall, LP!NoCall, Long!NoOwner, LP!NoOwner, Long!Owners, LP!Owners,
         Long!Seen, LP!Seen
<1>2. Long!Insert(p) => LP!Insert(p)
  BY DEF Long!Insert, LP!Insert, Long!Asked, LP!Asked, Long!Answer, LP!Answer, Long!Goto,
         LP!Goto, Long!NoCall, LP!NoCall, Long!NoOwner, LP!NoOwner, Long!Owners, LP!Owners,
         Long!Seen, LP!Seen, Long!ClaimedJob, LP!ClaimedJob, Long!Materialized,
         LP!Materialized
<1>3. Long!Materialize(p) => LP!Materialize(p)
  BY DEF Long!Materialize, LP!Materialize, Long!MayMaterialize, LP!MayMaterialize,
         Long!WriteRows, LP!WriteRows, Long!Asked, LP!Asked, Long!Goto, LP!Goto
<1>4. Long!RecordFailure(p) => LP!RecordFailure(p)
  BY DEF Long!RecordFailure, LP!RecordFailure, Long!Asked, LP!Asked, Long!Answer, LP!Answer,
         Long!NoCall, LP!NoCall, Long!NoOwner, LP!NoOwner
<1>5. Long!Result(p) => LP!Result(p)
  BY DEF Long!Result, LP!Result, Long!Asked, LP!Asked, Long!Answer, LP!Answer,
         Long!NoCall, LP!NoCall, Long!NoOwner, LP!NoOwner
<1> QED BY <1>1, <1>2, <1>3, <1>4, <1>5 DEF Long!Persist, LP!Persist

-----------------------------------------------------------------------------
(* The inductive invariant.                                                *)

CommandRows == [status : Live \cup {"NONE", "COMPLETED", "BLOCKED"},
                reason : {Asks[r].reason : r \in Requests} \cup {None}]
PlanRows == [status : Statuses, code : Codes \cup {None}]

TableTypes == command \in [Batches -> CommandRows] /\ plan \in [Entries -> PlanRows]

\* A batch has its plan since it has its command.
PlanInv ==
  \A b \in Batches : \A e \in EntriesIn(b) :
    plan[e].status = "NONE" <=> command[b].status = "NONE"

\* A resumption goes on with the command and the entries of its batch.
ReadInv ==
  /\ request \in [Requests -> InFlight \cup {"idle", "done", "refused", "lost"}]
  /\ read \in [Requests -> SUBSET Entries]
  /\ \A r \in Requests :
       /\ read[r] \subseteq EntriesIn(Batch(r))
       /\ request[r] \in {"blocked", "resume"} => command[Batch(r)].status # "NONE"

\* The job of an entry's candidate says that its material is in Long.
Loaded(e) == job[JobOf[CandidateOf[e]]].status \in {"COMPLETED_PENDING", "REUSED"}

\* The steps of the worker that are about a live command, those that are about one
\* of its entries, and those between the read of the plan and the verdict.
InHand  == {"claim", "verify", "await", "block", "completed", "blocked"}
Reading == {"finishing", "recovering"}
Busy    == InHand \cup Reading \cup {"next", "finish"}

\* What the worker holds: a command that has not ended, an entry of it, an answer
\* of the Long persistence about the candidate of the entry. An entry that it is
\* about to write is still open.
HandInv ==
  /\ code \in Codes \cup {None}
  /\ pc \in Busy => cur \in Batches /\ command[cur].status \in Live
  /\ pc \in InHand => ent \in EntriesIn(cur)
  /\ pc = "await" => call[Worker].cand = CandidateOf[ent]
  /\ pc \in {"claim", "completed", "blocked"} => plan[ent].status \in Open
  /\ pc = "completed" => Loaded(ent)

\* What the worker has seen of an entry still holds, unless it was put back.
SeenTruly(e) ==
  /\ seen[e] # "NONE"
  /\ seen[e] = "COMPLETED" => plan[e].status = "COMPLETED"
  /\ seen[e] = "BLOCKED" => \/ plan[e].status = "BLOCKED"
                            \/ plan[e].status = "PENDING" /\ e \in late
  /\ seen[e] \in Open => plan[e].status \in Open

SeenInv ==
  /\ seen \in [Entries -> Statuses]
  /\ pc \in Reading =>
       /\ \A e \in EntriesIn(cur) : SeenTruly(e)
       /\ \A e \in Entries : e \notin EntriesIn(cur) => seen[e] = "NONE"

WorkInv == HandInv /\ SeenInv

LongPart == LP!LongInv /\ \A p \in Callers : LP!Told(p)

CompletedInv == \A e \in Entries : plan[e].status = "COMPLETED" => Loaded(e)

FinalizationInv ==
  TableTypes /\ PlanInv /\ ReadInv /\ WorkInv /\ LongPart /\ CompletedInv /\ CommandIsSettled

-----------------------------------------------------------------------------
(* The entries of batches.                                                 *)

LEMMA OneBatchOfAnEntry ==
  /\ \A b \in Batches : EntriesIn(b) \subseteq Entries
  /\ \A e \in Entries : \E b \in Batches : e \in EntriesIn(b)
  /\ \A a, b \in Batches : \A e : e \in EntriesIn(a) /\ e \in EntriesIn(b) => a = b
<1>1. \A a, b \in Batches : a # b => Range(EntriesOf[a]) \cap Range(EntriesOf[b]) = {}
  BY FinalizationAssumption
<1> QED BY <1>1 DEF Entries, EntriesIn

LEMMA RowsOfAPlan ==
  /\ Waiting \in PlanRows /\ Waiting.status = "PENDING"
  /\ \A c \in Codes \cup {None} : Blocked(c) \in PlanRows /\ Blocked(c).status = "BLOCKED"
  /\ [status |-> "COMPLETED", code |-> None] \in PlanRows
BY DEF Waiting, Blocked, PlanRows, Statuses, Open

\* The command of b gets a status, if there is one.
StatusBecomes(b, s) ==
  /\ command' \in [Batches -> CommandRows]
  /\ \A a \in Batches : /\ command'[a].reason = command[a].reason
                        /\ command'[a].status = IF a = b THEN s ELSE command[a].status

LEMMA StatusIsSet ==
  ASSUME TableTypes, NEW b, NEW s \in Live \cup {"COMPLETED", "BLOCKED"},
         command' = [command EXCEPT ![b].status = s]
  PROVE  StatusBecomes(b, s)
<1>1. command \in [Batches -> CommandRows] BY DEF TableTypes
<1>2. CASE b \in Batches
  <2> DEFINE new == [command[b] EXCEPT !.status = s]
  <2>1. command[b] \in CommandRows BY <1>1, <1>2
  <2>2. new \in CommandRows /\ new.status = s /\ new.reason = command[b].reason
    BY <2>1 DEF CommandRows
  <2>3. command' = [command EXCEPT ![b] = new] OBVIOUS
  <2> HIDE DEF new
  <2> QED BY <1>1, <1>2, <2>2, <2>3 DEF StatusBecomes
<1>3. CASE b \notin Batches
  <2>1. \A a \in Batches : command'[a] = command[a] BY <1>1, <1>3
  <2>2. command' = command BY <1>1, <1>3
  <2> QED BY <1>1, <1>3, <2>2 DEF StatusBecomes
<1> QED BY <1>2, <1>3

\* A row of the plan changes.
RowBecomes(e, row) ==
  /\ plan' \in [Entries -> PlanRows]
  /\ \A x \in Entries : plan'[x] = IF x = e THEN row ELSE plan[x]

\* What a step may do to commands and plans.
Good ==
  /\ TableTypes' /\ PlanInv' /\ CommandIsSettled'
  /\ \A e \in Entries :
       /\ plan[e].status = "COMPLETED" => plan'[e] = plan[e]
       /\ plan'[e].status = "COMPLETED" => plan[e].status = "COMPLETED" \/ Loaded(e)
  /\ \A b \in Batches : command[b].status # "NONE" =>
       command'[b].status # "NONE" /\ command'[b].reason = command[b].reason

LEMMA UntouchedIsGood ==
  ASSUME FinalizationInv, UNCHANGED <<command, plan, late>>
  PROVE  Good
BY DEF FinalizationInv, Good, TableTypes, PlanInv, CommandIsSettled

-----------------------------------------------------------------------------
(* The steps on commands and plans.                                        *)

\* A change of status that tells the truth about a plan that stays.
LEMMA StatusIsGood ==
  ASSUME FinalizationInv, NEW b, NEW s \in Live \cup {"COMPLETED", "BLOCKED"},
         StatusBecomes(b, s), UNCHANGED <<plan, late>>, command[b].status # "NONE",
         s = "COMPLETED" => \A e \in EntriesIn(b) : plan[e].status = "COMPLETED",
         s = "BLOCKED" => \A e \in EntriesIn(b) :
           \/ plan[e].status \in {"COMPLETED", "BLOCKED"}
           \/ plan[e].status = "PENDING" /\ e \in late
  PROVE  Good
<1>1. s # "NONE" BY DEF Live
<1>2. TableTypes' BY DEF FinalizationInv, TableTypes, StatusBecomes
<1>3. PlanInv' BY <1>1 DEF FinalizationInv, PlanInv, StatusBecomes
<1>4. CommandIsSettled' BY DEF FinalizationInv, CommandIsSettled, StatusBecomes
<1> QED BY <1>1, <1>2, <1>3, <1>4 DEF Good, StatusBecomes

\* A row of an open entry of a command that has not ended changes.
LEMMA RowIsGood ==
  ASSUME FinalizationInv, NEW b \in Batches, command[b].status \in Live,
         NEW e \in EntriesIn(b), NEW row \in PlanRows, RowBecomes(e, row),
         UNCHANGED <<command, late>>, plan[e].status \in Open, row.status # "NONE",
         row.status = "COMPLETED" => Loaded(e)
  PROVE  Good
<1>1. TableTypes' BY DEF FinalizationInv, TableTypes, RowBecomes
<1>2. /\ plan[e].status \notin {"NONE", "COMPLETED", "BLOCKED"}
      /\ command[b].status \notin {"NONE", "COMPLETED", "BLOCKED"}
  BY DEF Open, Live
<1>3. PlanInv'
  BY <1>2, OneBatchOfAnEntry DEF FinalizationInv, PlanInv, RowBecomes
<1>4. CommandIsSettled'
  BY <1>2, OneBatchOfAnEntry DEF FinalizationInv, CommandIsSettled, RowBecomes
<1> QED BY <1>1, <1>2, <1>3, <1>4 DEF Good, RowBecomes

LEMMA SubmitCreateIsGood ==
  ASSUME FinalizationInv, NEW r \in Requests, SubmitCreate(r)
  PROVE  Good
<1> DEFINE b == Batch(r)
<1> DEFINE new == [status |-> "QUEUED", reason |-> Asks[r].reason]
<1>1. CASE command[b].status # "NONE"
  <2>1. UNCHANGED <<command, plan, late>>
    BY <1>1 DEF SubmitCreate, ReplayConcurrent, dataVars
  <2> QED BY <2>1, UntouchedIsGood
<1>2. CASE command[b].status = "NONE"
  <2>1. /\ command' = [command EXCEPT ![b] = new]
        /\ plan' = [e \in Entries |-> IF e \in EntriesIn(b) THEN Waiting ELSE plan[e]]
        /\ b \in Batches /\ UNCHANGED late
    BY <1>2, FinalizationAssumption DEF SubmitCreate, Batch
  <2>2. new \in CommandRows /\ new.status = "QUEUED" BY DEF CommandRows, Live
  <2> HIDE DEF new
  <2>3. TableTypes'
    BY <2>1, <2>2, RowsOfAPlan DEF FinalizationInv, TableTypes
  <2>4. \A a \in Batches : command'[a] = IF a = b THEN new ELSE command[a]
    BY <2>1 DEF FinalizationInv, TableTypes
  <2>5. \A e \in Entries : plan'[e] = IF e \in EntriesIn(b) THEN Waiting ELSE plan[e]
    BY <2>1
  <2>6. \A e \in EntriesIn(b) : plan[e].status = "NONE"
    BY <1>2, <2>1 DEF FinalizationInv, PlanInv
  <2> HIDE DEF b
  <2>7. PlanInv'
    BY <2>1, <2>2, <2>4, <2>5, RowsOfAPlan, OneBatchOfAnEntry DEF FinalizationInv, PlanInv
  <2>8. CommandIsSettled'
    BY <2>1, <2>2, <2>4, <2>5, RowsOfAPlan, OneBatchOfAnEntry
    DEF FinalizationInv, CommandIsSettled
  <2> QED BY <1>2, <2>3, <2>4, <2>5, <2>6, <2>7, <2>8, RowsOfAPlan DEF Good
<1> QED BY <1>1, <1>2

\* Rows that were completed since they were read undo the whole resumption.
LEMMA SubmitResumeIsGood ==
  ASSUME FinalizationInv, NEW r \in Requests, SubmitResume(r)
  PROVE  Good
<1> DEFINE b == Batch(r)
<1>1. CASE \E e \in read[r] : plan[e].status = "COMPLETED"
  <2>1. UNCHANGED <<command, plan, late>> BY <1>1 DEF SubmitResume, dataVars
  <2> QED BY <2>1, UntouchedIsGood
<1>2. CASE ~ \E e \in read[r] : plan[e].status = "COMPLETED"
  <2>1. /\ command' = [command EXCEPT ![b].status = "QUEUED"]
        /\ plan' = [e \in Entries |-> IF e \in read[r] THEN Waiting ELSE plan[e]]
        /\ b \in Batches /\ request[r] = "resume" /\ late \subseteq late'
    BY <1>2, FinalizationAssumption DEF SubmitResume, Resumed, Batch
  <2>2. StatusBecomes(b, "QUEUED") BY <2>1, StatusIsSet DEF FinalizationInv, Live
  <2>3. /\ read[r] \subseteq EntriesIn(b) /\ command[b].status # "NONE"
    BY <2>1 DEF FinalizationInv, ReadInv
  <2> HIDE DEF b
  <2>4. \A e \in Entries : plan'[e] = IF e \in read[r] THEN Waiting ELSE plan[e] BY <2>1
  <2>5. TableTypes'
    BY <2>1, <2>2, RowsOfAPlan DEF FinalizationInv, TableTypes, StatusBecomes
  <2>6. PlanInv'
    BY <2>1, <2>2, <2>3, <2>4, RowsOfAPlan, OneBatchOfAnEntry
    DEF FinalizationInv, PlanInv, StatusBecomes
  <2>7. CommandIsSettled'
    BY <2>1, <2>2, <2>3, <2>4, RowsOfAPlan, OneBatchOfAnEntry
    DEF FinalizationInv, CommandIsSettled, StatusBecomes
  <2> QED BY <1>2, <2>2, <2>4, <2>5, <2>6, <2>7, RowsOfAPlan DEF Good, StatusBecomes
<1> QED BY <1>1, <1>2

LEMMA OpenCommandIsGood ==
  ASSUME FinalizationInv, OpenCommand
  PROVE  Good
<1>1. UNCHANGED <<plan, late>> BY DEF OpenCommand, Alone
<1>2. CASE cur \notin LiveCommands
  <2>1. UNCHANGED command BY <1>2 DEF OpenCommand
  <2> QED BY <1>1, <2>1, UntouchedIsGood
<1>3. CASE cur \in LiveCommands
  <2>1. /\ command' = [command EXCEPT ![cur].status = "PROCESSING"]
        /\ cur \in Batches /\ command[cur].status # "NONE"
    BY <1>3 DEF OpenCommand, LiveCommands, Live
  <2>2. StatusBecomes(cur, "PROCESSING") BY <2>1, StatusIsSet DEF FinalizationInv, Live
  <2> QED BY <1>1, <2>1, <2>2, StatusIsGood DEF Live
<1> QED BY <1>2, <1>3

LEMMA ClaimNextIsGood ==
  ASSUME FinalizationInv, ClaimNext
  PROVE  Good
<1> DEFINE row == [plan[ent] EXCEPT !.status = "PROCESSING"]
<1>1. /\ pc = "claim" /\ UNCHANGED <<command, late>>
      /\ plan' = [plan EXCEPT ![ent].status = "PROCESSING"]
  BY DEF ClaimNext, Alone
<1>2. /\ cur \in Batches /\ command[cur].status \in Live
      /\ ent \in EntriesIn(cur) /\ plan[ent].status \in Open
  BY <1>1 DEF FinalizationInv, WorkInv, HandInv, Busy, InHand
<1>3. plan[ent] \in PlanRows /\ plan \in [Entries -> PlanRows] /\ ent \in Entries
  BY <1>2, OneBatchOfAnEntry DEF FinalizationInv, TableTypes
<1>4. row \in PlanRows /\ row.status = "PROCESSING" BY <1>3 DEF PlanRows, Statuses, Open
<1>5. plan' = [plan EXCEPT ![ent] = row] BY <1>1
<1> HIDE DEF row
<1>6. RowBecomes(ent, row) BY <1>3, <1>4, <1>5 DEF RowBecomes
<1> QED BY <1>1, <1>2, <1>4, <1>6, RowIsGood

LEMMA MarkIsGood ==
  ASSUME FinalizationInv, NEW row \in PlanRows, Mark(row), pc \in {"completed", "blocked"},
         row.status \in {"COMPLETED", "BLOCKED"}, row.status = "COMPLETED" => Loaded(ent)
  PROVE  Good
<1>1. UNCHANGED <<command, late>> /\ plan' = [plan EXCEPT ![ent] = row] BY DEF Mark, Alone
<1>2. /\ cur \in Batches /\ command[cur].status \in Live
      /\ ent \in EntriesIn(cur) /\ plan[ent].status \in Open
  BY DEF FinalizationInv, WorkInv, HandInv, Busy, InHand
<1>3. ent \in Entries BY <1>2, OneBatchOfAnEntry
<1>4. RowBecomes(ent, row) BY <1>1, <1>3 DEF RowBecomes, FinalizationInv, TableTypes
<1> QED BY <1>1, <1>2, <1>4, RowIsGood

LEMMA MarkCompletedIsGood ==
  ASSUME FinalizationInv, MarkCompleted
  PROVE  Good
<1>1. pc = "completed" /\ Mark([status |-> "COMPLETED", code |-> None]) BY DEF MarkCompleted
<1>2. Loaded(ent) BY <1>1 DEF FinalizationInv, WorkInv, HandInv
<1> QED BY <1>1, <1>2, MarkIsGood, RowsOfAPlan

LEMMA MarkBlockedIsGood ==
  ASSUME FinalizationInv, MarkBlocked
  PROVE  Good
<1>1. pc = "blocked" /\ Mark(Blocked(code)) BY DEF MarkBlocked
<1>2. code \in Codes \cup {None} BY DEF FinalizationInv, WorkInv, HandInv
<1>3. Blocked(code) \in PlanRows /\ Blocked(code).status = "BLOCKED" BY <1>2, RowsOfAPlan
<1> QED BY <1>1, <1>3, MarkIsGood

\* What the worker remembers before its verdict, entry by entry.
LEMMA SeenOfTheCommand ==
  ASSUME FinalizationInv, pc \in Reading
  PROVE  /\ cur \in Batches /\ command[cur].status \in Live
         /\ \A e \in EntriesIn(cur) :
              e \in Entries /\ SeenTruly(e) /\ seen[e] \in Open \cup {"COMPLETED", "BLOCKED"}
         /\ \A e \in Entries : e \notin EntriesIn(cur) => seen[e] = "NONE"
<1>1. cur \in Batches /\ command[cur].status \in Live
  BY DEF FinalizationInv, WorkInv, HandInv, Busy
<1>2. /\ \A e \in EntriesIn(cur) : e \in Entries /\ SeenTruly(e)
      /\ \A e \in Entries : e \notin EntriesIn(cur) => seen[e] = "NONE"
      /\ seen \in [Entries -> Statuses]
  BY <1>1, OneBatchOfAnEntry DEF FinalizationInv, WorkInv, SeenInv
<1> QED BY <1>1, <1>2 DEF SeenTruly, Statuses

LEMMA FinishIsGood ==
  ASSUME FinalizationInv, Finish
  PROVE  Good
<1> DEFINE s == IF Saw(Open) THEN "QUEUED" ELSE IF Saw({"BLOCKED"}) THEN "BLOCKED" ELSE "COMPLETED"
<1>1. /\ pc \in Reading /\ UNCHANGED <<plan, late>>
      /\ command' = [command EXCEPT ![cur].status = s]
  BY DEF Finish, Verdict, Reading
<1>2. s \in Live \cup {"COMPLETED", "BLOCKED"} BY DEF Live
<1>3. cur \in Batches /\ command[cur].status # "NONE" BY <1>1, SeenOfTheCommand DEF Live
<1>4. ASSUME NEW e \in EntriesIn(cur)
      PROVE  /\ seen[e] \in Open \cup {"COMPLETED", "BLOCKED"}
             /\ seen[e] = "COMPLETED" => plan[e].status = "COMPLETED"
             /\ seen[e] = "BLOCKED" => \/ plan[e].status = "BLOCKED"
                                       \/ plan[e].status = "PENDING" /\ e \in late
             /\ ~ Saw(Open) => seen[e] \notin Open
             /\ ~ Saw({"BLOCKED"}) => seen[e] # "BLOCKED"
  BY <1>1, SeenOfTheCommand DEF SeenTruly, Saw
<1>5. /\ s = "COMPLETED" => \A e \in EntriesIn(cur) : plan[e].status = "COMPLETED"
      /\ s = "BLOCKED" => \A e \in EntriesIn(cur) :
           \/ plan[e].status \in {"COMPLETED", "BLOCKED"}
           \/ plan[e].status = "PENDING" /\ e \in late
  BY <1>4
<1>6. StatusBecomes(cur, s)
  <2> HIDE DEF s
  <2> QED BY <1>1, <1>2, StatusIsSet DEF FinalizationInv
<1> HIDE DEF s
<1> QED BY <1>1, <1>2, <1>3, <1>5, <1>6, StatusIsGood

LEMMA RecoverIsGood ==
  ASSUME FinalizationInv, Recover
  PROVE  Good
<1> DEFINE row == Blocked("UNEXPECTED_FAILURE")
<1>1. /\ pc \in Reading /\ command' = [command EXCEPT ![cur].status = "BLOCKED"]
      /\ plan' = [e \in Entries |-> IF seen[e] \in Open THEN row ELSE plan[e]]
      /\ UNCHANGED late
  BY DEF Recover, Verdict, Reading
<1>2. row \in PlanRows /\ row.status = "BLOCKED" BY RowsOfAPlan DEF Codes
<1> HIDE DEF row
<1>3. StatusBecomes(cur, "BLOCKED") BY <1>1, StatusIsSet DEF FinalizationInv
<1>4. \A e \in Entries : plan'[e] = IF seen[e] \in Open THEN row ELSE plan[e] BY <1>1
<1>5. /\ cur \in Batches /\ command[cur].status # "NONE"
      /\ \A e \in EntriesIn(cur) : e \in Entries /\ SeenTruly(e)
                                  /\ seen[e] \in Open \cup {"COMPLETED", "BLOCKED"}
      /\ \A e \in Entries : e \notin EntriesIn(cur) => seen[e] \notin Open
  BY <1>1, SeenOfTheCommand DEF Live, Open
<1>6. TableTypes' BY <1>1, <1>2, <1>3 DEF FinalizationInv, TableTypes, StatusBecomes
<1>7. \A e \in Entries :
        /\ seen[e] \in Open => plan[e].status \in Open
        /\ plan'[e].status = "NONE" <=> plan[e].status = "NONE"
        /\ plan'[e].status = "COMPLETED" <=> plan[e].status = "COMPLETED"
  BY <1>2, <1>4, <1>5 DEF SeenTruly, Open
<1>8. PlanInv'
  BY <1>3, <1>5, <1>7, OneBatchOfAnEntry DEF FinalizationInv, PlanInv, StatusBecomes
<1>9. ASSUME NEW b \in Batches, NEW e \in EntriesIn(b), command'[b].status = "BLOCKED"
      PROVE  \/ plan'[e].status \in {"COMPLETED", "BLOCKED"}
             \/ plan'[e].status = "PENDING" /\ e \in late'
  <2>1. e \in Entries BY <1>9, OneBatchOfAnEntry
  <2>2. CASE b = cur
    BY <1>1, <1>2, <1>4, <1>5, <1>9, <2>1, <2>2 DEF SeenTruly
  <2>3. CASE b # cur
    <3>1. e \notin EntriesIn(cur) BY <1>5, <1>9, <2>3, OneBatchOfAnEntry
    <3>2. plan'[e] = plan[e] BY <1>4, <1>5, <2>1, <3>1
    <3>3. command[b].status = "BLOCKED" BY <1>3, <1>9, <2>3 DEF StatusBecomes
    <3> QED BY <1>1, <1>9, <3>2, <3>3 DEF FinalizationInv, CommandIsSettled
  <2> QED BY <2>2, <2>3
<1>10. ASSUME NEW b \in Batches, NEW e \in EntriesIn(b), command'[b].status = "COMPLETED"
       PROVE  plan'[e].status = "COMPLETED"
  <2>1. e \in Entries BY <1>10, OneBatchOfAnEntry
  <2>2. plan[e].status = "COMPLETED"
    BY <1>3, <1>10 DEF FinalizationInv, CommandIsSettled, StatusBecomes
  <2> QED BY <1>7, <2>1, <2>2
<1>11. CommandIsSettled' BY <1>9, <1>10 DEF CommandIsSettled
<1>12. \A e \in Entries : plan[e].status = "COMPLETED" => plan'[e] = plan[e]
  BY <1>4, <1>7 DEF Open
<1> QED BY <1>3, <1>6, <1>7, <1>8, <1>11, <1>12 DEF Good, StatusBecomes

\* Reading the plan of a command that has not ended.
LEMMA ReadingIsGood ==
  ASSUME FinalizationInv, ReadToFinish \/ ReadToRecover
  PROVE  Good
<1>1. UNCHANGED <<command, plan>> BY DEF ReadToFinish, ReadToRecover, dataVars
<1>2. CASE UNCHANGED late BY <1>1, <1>2, UntouchedIsGood
<1>3. CASE ~ UNCHANGED late
  <2>1. /\ late' = late \ EntriesIn(cur)
        /\ cur \in Batches /\ command[cur].status \in Live
    BY <1>3 DEF ReadToFinish, ReadToRecover, ReadPlan, LiveCommands, FinalizationInv, WorkInv,
                HandInv, Busy
  <2>2. command[cur].status # "BLOCKED" BY <2>1 DEF Live
  <2>3. CommandIsSettled'
    BY <1>1, <2>1, <2>2, OneBatchOfAnEntry DEF FinalizationInv, CommandIsSettled
  <2> QED BY <1>1, <2>3 DEF FinalizationInv, Good, TableTypes, PlanInv
<1> QED BY <1>2, <1>3

LEMMA StartIsGood ==
  ASSUME FinalizationInv, Start
  PROVE  Good
<1>1. /\ plan' = [e \in Entries |-> IF plan[e].status = "PROCESSING" THEN Waiting ELSE plan[e]]
      /\ command' = [b \in Batches |-> IF command[b].status = "PROCESSING"
                                         THEN [command[b] EXCEPT !.status = "QUEUED"]
                                         ELSE command[b]]
      /\ UNCHANGED late
  BY DEF Start
<1>2. \A b \in Batches :
        /\ command'[b] \in CommandRows /\ command'[b].reason = command[b].reason
        /\ command'[b].status = IF command[b].status = "PROCESSING" THEN "QUEUED"
                                ELSE command[b].status
  BY <1>1 DEF FinalizationInv, TableTypes, CommandRows, Live
<1>3. \A e \in Entries :
        /\ plan'[e] \in PlanRows
        /\ plan'[e] = IF plan[e].status = "PROCESSING" THEN Waiting ELSE plan[e]
        /\ plan'[e].status = IF plan[e].status = "PROCESSING" THEN "PENDING"
                             ELSE plan[e].status
  BY <1>1, RowsOfAPlan DEF FinalizationInv, TableTypes
<1>4. TableTypes' BY <1>1, <1>2, <1>3 DEF TableTypes
<1>5. PlanInv' BY <1>2, <1>3, OneBatchOfAnEntry DEF FinalizationInv, PlanInv
<1>6. CommandIsSettled'
  BY <1>1, <1>2, <1>3, OneBatchOfAnEntry DEF FinalizationInv, CommandIsSettled
<1> QED BY <1>2, <1>3, <1>4, <1>5, <1>6 DEF Good

\* Whatever else happens leaves commands and plans alone.
Elsewhere ==
  \/ \E r \in Requests : \/ SubmitRead(r) \/ SubmitBlocked(r) \/ SubmitEnqueue(r)
                         \/ SubmitSweep(r) \/ SubmitDone(r) \/ SubmitFails(r)
  \/ Take \/ Sweep \/ ReadNext \/ Verify \/ Persist \/ LongRefuses
  \/ LockCompleted \/ LockBlocked \/ Release \/ Raise
  \/ \E p \in Callers : OtherPersist(p) \/ PersistFails(p)
  \/ Stop \/ Exit \/ Crash
  \/ \E e \in Tamperable : Tamper(e, "row") \/ Tamper(e, "checkpoint")
  \/ UNCHANGED vars

LEMMA ElsewhereStays == Elsewhere => UNCHANGED <<command, plan, late>>
<1>1. ASSUME NEW r \in Requests,
             \/ SubmitRead(r) \/ SubmitBlocked(r) \/ SubmitEnqueue(r)
             \/ SubmitSweep(r) \/ SubmitDone(r) \/ SubmitFails(r)
      PROVE  UNCHANGED <<command, plan, late>>
  BY <1>1 DEF SubmitRead, SubmitBlocked, SubmitEnqueue, SubmitSweep, SubmitDone, SubmitFails,
              dataVars
<1>2. ASSUME \/ Take \/ Sweep \/ ReadNext \/ Verify \/ Persist \/ LongRefuses
             \/ LockCompleted \/ LockBlocked \/ Release \/ Raise
      PROVE  UNCHANGED <<command, plan, late>>
  BY <1>2 DEF Take, Sweep, ReadNext, Verify, Persist, LongRefuses, LockCompleted, LockBlocked,
              LockPlan, Release, Raise, Alone, dataVars
<1>3. ASSUME NEW p \in Callers, OtherPersist(p) \/ PersistFails(p)
      PROVE  UNCHANGED <<command, plan, late>>
  BY <1>3 DEF OtherPersist, PersistFails, dataVars
<1>4. ASSUME Stop \/ Exit \/ Crash PROVE UNCHANGED <<command, plan, late>>
  BY <1>4 DEF Stop, Exit, Crash, Gone, dataVars
<1>5. ASSUME NEW e, NEW part, Tamper(e, part) PROVE UNCHANGED <<command, plan, late>>
  BY <1>5 DEF Tamper
<1>6. CASE UNCHANGED vars BY <1>6 DEF vars, dataVars
<1> QED BY <1>1, <1>2, <1>3, <1>4, <1>5, <1>6 DEF Elsewhere

LEMMA NextIsGood ==
  ASSUME FinalizationInv, [Next]_vars
  PROVE  Good
<1>1. \/ \E r \in Requests : SubmitCreate(r) \/ SubmitResume(r)
      \/ OpenCommand \/ ClaimNext \/ MarkCompleted \/ MarkBlocked
      \/ ReadToFinish \/ Finish \/ ReadToRecover \/ Recover
      \/ Start \/ Elsewhere
  BY DEF Next, Submit, WorkerStep, Elsewhere
<1> QED BY <1>1, SubmitCreateIsGood, SubmitResumeIsGood, OpenCommandIsGood, ClaimNextIsGood,
           MarkCompletedIsGood, MarkBlockedIsGood, FinishIsGood, RecoverIsGood, ReadingIsGood,
           StartIsGood, ElsewhereStays, UntouchedIsGood

-----------------------------------------------------------------------------
(* The steps on the Long persistence.                                      *)

\* The steps that do not reach it.
LEMMA NextReachesLong ==
  ASSUME [Next]_vars
  PROVE  \/ UNCHANGED longVars
         \/ Verify \/ Persist \/ Exit \/ Crash
         \/ \E p \in Callers : OtherPersist(p) \/ PersistFails(p)
<1>1. ASSUME NEW r \in Requests, SubmitRead(r) \/ Submit(r) \/ SubmitFails(r)
      PROVE  UNCHANGED longVars
  BY <1>1 DEF SubmitRead, Submit, SubmitFails, SubmitBlocked, SubmitCreate, SubmitResume,
              SubmitEnqueue, SubmitSweep, SubmitDone
<1>2. ASSUME \/ Take \/ Sweep \/ OpenCommand \/ ReadNext \/ ClaimNext \/ LongRefuses
             \/ LockCompleted \/ LockBlocked
      PROVE  UNCHANGED longVars
  BY <1>2 DEF Take, Sweep, OpenCommand, ReadNext, ClaimNext, LongRefuses, LockCompleted,
              LockBlocked, LockPlan, Alone, Aside
<1>3. ASSUME \/ MarkCompleted \/ MarkBlocked \/ ReadToFinish \/ Finish
             \/ ReadToRecover \/ Recover \/ Release
      PROVE  UNCHANGED longVars
  BY <1>3 DEF MarkCompleted, MarkBlocked, Mark, ReadToFinish, Finish, ReadToRecover, Recover,
              Release, Alone, Aside
<1>4. ASSUME Raise \/ Start \/ Stop PROVE UNCHANGED longVars
  BY <1>4 DEF Raise, Start, Stop
<1>5. ASSUME NEW e, NEW part, Tamper(e, part) PROVE UNCHANGED longVars
  BY <1>5 DEF Tamper
<1>6. CASE UNCHANGED vars BY <1>6 DEF vars
<1> QED BY <1>1, <1>2, <1>3, <1>4, <1>5, <1>6 DEF Next, WorkerStep

LEMMA NextIsLongStep ==
  ASSUME FinalizationInv, [Next]_vars
  PROVE  LP!LongStep
<1>1. CASE UNCHANGED longVars BY <1>1 DEF LP!LongStep, LP!longVars, longVars
<1>2. CASE Verify
  <2>1. pc = "verify" /\ (UNCHANGED longVars \/ Long!Confirm(Worker, CandidateOf[ent]))
    BY <1>2 DEF Verify, RebuiltOtherwise, ConfirmRebuilt
  <2>2. CandidateOf[ent] \in Candidates
    <3>1. ent \in Entries
      BY <2>1, OneBatchOfAnEntry DEF FinalizationInv, WorkInv, HandInv, Busy, InHand
    <3> QED BY <3>1, FinalizationAssumption
  <2>3. Long!Confirm(Worker, CandidateOf[ent]) => LP!Confirm(Worker, CandidateOf[ent])
    BY SameSteps
  <2> QED BY <1>1, <2>1, <2>2, <2>3, FinalizationAssumption DEF LP!LongStep
<1>3. CASE Persist
  BY <1>3, SamePersist, FinalizationAssumption DEF Persist, LP!LongStep
<1>4. CASE Exit \/ Crash BY <1>4, SameSteps DEF Exit, Crash, Gone, LP!LongStep
<1>5. ASSUME NEW p \in Callers, OtherPersist(p) PROVE LP!LongStep
  <2>1. CASE Long!Persist(p) BY <2>1, SamePersist DEF LP!LongStep
  <2>2. ASSUME NEW c \in OthersConfirm, Long!Confirm(p, c) PROVE LP!LongStep
    <3>1. c \in Candidates BY FinalizationAssumption
    <3>2. LP!Confirm(p, c) BY <2>2, SameSteps
    <3> QED BY <3>1, <3>2 DEF LP!LongStep
  <2> QED BY <1>5, <2>1, <2>2 DEF OtherPersist
<1>6. ASSUME NEW p \in Callers, PersistFails(p) PROVE LP!LongStep
  <2>1. LP!CallFails(p) BY <1>6, SameSteps DEF PersistFails
  <2> QED BY <2>1 DEF LP!LongStep
<1> QED BY <1>1, <1>2, <1>3, <1>4, <1>5, <1>6, NextReachesLong

LEMMA FaultsAreBounded ==
  ASSUME FinalizationInv, [Next]_vars
  PROVE  faults' \in 0 .. MaxFaults
<1>1. ASSUME NEW r \in Requests, SubmitRead(r) \/ Submit(r) PROVE UNCHANGED faults
  BY <1>1 DEF SubmitRead, Submit, SubmitBlocked, SubmitCreate, SubmitResume, SubmitEnqueue,
              SubmitSweep, SubmitDone, boundVars
<1>2. ASSUME WorkerStep PROVE UNCHANGED faults
  BY <1>2 DEF WorkerStep, Take, Sweep, OpenCommand, ReadNext, ClaimNext, Verify, Persist,
              LongRefuses, LockCompleted, LockBlocked, LockPlan, MarkCompleted, MarkBlocked,
              Mark, ReadToFinish, Finish, ReadToRecover, Recover, Release, Alone, Aside,
              boundVars
<1>4. ASSUME NEW p, OtherPersist(p) PROVE UNCHANGED faults
  BY <1>4 DEF OtherPersist, boundVars
<1>5. ASSUME Start \/ Stop \/ Exit \/ Crash PROVE UNCHANGED faults
  BY <1>5 DEF Start, Stop, Exit, Crash, Gone, boundVars
<1>6. ASSUME NEW e, NEW part, Tamper(e, part) PROVE UNCHANGED faults
  BY <1>6 DEF Tamper, boundVars
<1>7. ASSUME UNCHANGED vars PROVE UNCHANGED faults BY <1>7 DEF vars, boundVars
<1>8. ASSUME Raise PROVE faults < MaxFaults /\ faults' = faults + 1
  BY <1>8 DEF Raise
<1>9. ASSUME NEW r \in Requests, SubmitFails(r) PROVE faults < MaxFaults /\ faults' = faults + 1
  BY <1>9 DEF SubmitFails
<1>10. ASSUME NEW p \in Callers, PersistFails(p)
       PROVE  faults < MaxFaults /\ faults' = faults + 1
  BY <1>10 DEF PersistFails
<1>11. UNCHANGED faults \/ (faults < MaxFaults /\ faults' = faults + 1)
  BY <1>1, <1>2, <1>4, <1>5, <1>6, <1>7, <1>8, <1>9, <1>10 DEF Next
<1>12. faults \in 0 .. MaxFaults BY DEF FinalizationInv, LongPart, LP!LongInv, LP!LongTypeOK
<1>13. MaxFaults \in Nat BY LongConstants DEF Long!LongAssumption
<1> QED BY <1>11, <1>12, <1>13

LEMMA LongPartKept ==
  ASSUME FinalizationInv, [Next]_vars
  PROVE  LongPart' /\ LP!Remembers
<1>1. LP!LongStep /\ faults' \in 0 .. MaxFaults BY NextIsLongStep, FaultsAreBounded
<1>2. LP!LongInv /\ \A p \in Callers : LP!Told(p) BY DEF FinalizationInv, LongPart
<1>3. LP!LongInv' BY <1>1, <1>2, LongConstants, LP!LongInvKept
  DEF Long!LongAssumption, Long!NoneAssumption, Long!Answers, LP!Answers, Long!Final, LP!Final,
      Long!Materialized, LP!Materialized
<1>4. \A p \in Callers : LP!Told(p)' BY <1>1, <1>2, LongConstants, LP!ToldStays
  DEF Long!LongAssumption, Long!NoneAssumption, Long!Answers, LP!Answers, Long!Final, LP!Final,
      Long!Materialized, LP!Materialized
<1>5. LP!Remembers BY <1>1, <1>2, LongConstants, LP!Memory
  DEF Long!LongAssumption, Long!NoneAssumption, Long!Answers, LP!Answers, Long!Final, LP!Final,
      Long!Materialized, LP!Materialized
<1> QED BY <1>3, <1>4, <1>5 DEF LongPart

-----------------------------------------------------------------------------
(* What clients know.                                                      *)

LEMMA ReadInvStays ==
  ASSUME FinalizationInv, Good, UNCHANGED <<request, read>>
  PROVE  ReadInv'
<1>1. \A r \in Requests : Batch(r) \in Batches BY FinalizationAssumption DEF Batch
<1> QED BY <1>1 DEF FinalizationInv, ReadInv, Good, Batch

\* One submission goes on, with these rows in hand.
LEMMA ReadInvMoves ==
  ASSUME FinalizationInv, Good, NEW r \in Requests,
         NEW label \in InFlight \cup {"done", "refused"}, Continue(r, label),
         NEW es, read' = [read EXCEPT ![r] = es], es \subseteq EntriesIn(Batch(r)),
         label \in {"blocked", "resume"} => command[Batch(r)].status # "NONE"
  PROVE  ReadInv'
<1>1. /\ \A x \in Requests : Batch(x) \in Batches
      /\ \A x \in Requests : command[Batch(x)].status # "NONE" =>
           command'[Batch(x)].status # "NONE"
  BY FinalizationAssumption DEF Batch, Good
<1>2. /\ request \in [Requests -> InFlight \cup {"idle", "done", "refused", "lost"}]
      /\ read \in [Requests -> SUBSET Entries]
  BY DEF FinalizationInv, ReadInv
<1>3. es \in SUBSET Entries BY <1>1, OneBatchOfAnEntry
<1>4. /\ request' \in [Requests -> InFlight \cup {"idle", "done", "refused", "lost"}]
      /\ \A x \in Requests : request'[x] = IF x = r THEN label ELSE request[x]
  BY <1>2 DEF Continue
<1>5. /\ read' \in [Requests -> SUBSET Entries]
      /\ \A x \in Requests : read'[x] = IF x = r THEN es ELSE read[x]
  BY <1>2, <1>3
<1>6. ASSUME NEW x \in Requests
      PROVE  /\ read'[x] \subseteq EntriesIn(Batch(x))
             /\ request'[x] \in {"blocked", "resume"} => command'[Batch(x)].status # "NONE"
  BY <1>1, <1>4, <1>5 DEF FinalizationInv, ReadInv
<1> QED BY <1>4, <1>5, <1>6 DEF ReadInv, Batch

LEMMA ReadInvOfClients ==
  ASSUME FinalizationInv, Good, NEW r \in Requests, SubmitRead(r) \/ Submit(r) \/ SubmitFails(r)
  PROVE  ReadInv'
<1>1. /\ read \in [Requests -> SUBSET Entries] /\ read[r] \subseteq EntriesIn(Batch(r))
      /\ request[r] \in {"blocked", "resume"} => command[Batch(r)].status # "NONE"
  BY DEF FinalizationInv, ReadInv
<1>2. read = [read EXCEPT ![r] = read[r]] BY <1>1
<1>4. CASE SubmitRead(r)
  <2>1. Batch(r) \in Batches BY FinalizationAssumption DEF Batch
  <2>2. command[Batch(r)] \in CommandRows BY <2>1 DEF FinalizationInv, TableTypes
  <2>3. command[Batch(r)].status \in Live \cup {"NONE", "COMPLETED", "BLOCKED"}
    BY <2>2 DEF CommandRows
  <2>4. PICK label \in {"refused", "create", "enqueue", "blocked", "sweep"} :
          /\ Continue(r, label) /\ read' = read
          /\ label = "blocked" => command[Batch(r)].status # "NONE"
    <3> HIDE DEF Continue
    <3>1. CASE command[Batch(r)].status = "NONE" \/ ~ SameIntent(r)
               \/ ~ CandidateUnchanged(Batch(r))
      BY <1>4, <3>1 DEF SubmitRead
    <3>2. CASE /\ command[Batch(r)].status # "NONE" /\ SameIntent(r)
               /\ CandidateUnchanged(Batch(r))
      <4>1. CASE command[Batch(r)].status \in Live BY <1>4, <3>2, <4>1 DEF SubmitRead
      <4>2. CASE command[Batch(r)].status = "BLOCKED"
        BY <1>4, <3>2, <4>2 DEF SubmitRead, Live
      <4>3. CASE command[Batch(r)].status = "COMPLETED"
        BY <1>4, <3>2, <4>3 DEF SubmitRead, Live
      <4> QED BY <2>3, <3>2, <4>1, <4>2, <4>3
    <3> QED BY <3>1, <3>2
  <2>5. label \in InFlight \cup {"done", "refused"} BY DEF InFlight
  <2> QED BY <1>1, <1>2, <2>4, <2>5, ReadInvMoves
<1>5. CASE SubmitBlocked(r)
  <2>1. /\ Continue(r, "resume") /\ request[r] = "blocked"
        /\ read' = [read EXCEPT ![r] = {e \in EntriesIn(Batch(r)) : plan[e].status = "BLOCKED"}]
    BY <1>5 DEF SubmitBlocked
  <2>2. "resume" \in InFlight \cup {"done", "refused"} BY DEF InFlight
  <2> QED BY <1>1, <2>1, <2>2, ReadInvMoves
<1>6. CASE SubmitCreate(r) \/ SubmitEnqueue(r) \/ SubmitSweep(r) \/ SubmitDone(r)
  <2>1. PICK label \in {"enqueue", "refused", "sweep", "found", "done"} :
          Continue(r, label) /\ read' = read
    BY <1>6 DEF SubmitCreate, ReplayConcurrent, SubmitEnqueue, SubmitSweep, SubmitDone
  <2>2. label \in InFlight \cup {"done", "refused"} BY DEF InFlight
  <2> QED BY <1>1, <1>2, <2>1, <2>2, ReadInvMoves
<1>7. CASE SubmitResume(r) \/ SubmitFails(r)
  <2> DEFINE none == {}
  <2>1. PICK label \in {"enqueue", "refused"} :
          Continue(r, label) /\ read' = [read EXCEPT ![r] = none]
    BY <1>7 DEF SubmitResume, SubmitFails
  <2>2. label \in InFlight \cup {"done", "refused"} /\ label \notin {"blocked", "resume"}
    BY DEF InFlight
  <2>3. none \subseteq EntriesIn(Batch(r)) OBVIOUS
  <2> HIDE DEF none
  <2> QED BY <2>1, <2>2, <2>3, ReadInvMoves
<1> QED BY <1>4, <1>5, <1>6, <1>7 DEF Submit

LEMMA ReadInvKept ==
  ASSUME FinalizationInv, Good, [Next]_vars
  PROVE  ReadInv'
<1>1. ASSUME WorkerStep PROVE UNCHANGED <<request, read>>
  BY <1>1 DEF WorkerStep, Take, Sweep, OpenCommand, ReadNext, ClaimNext, Verify, Persist,
              LongRefuses, LockCompleted, LockBlocked, LockPlan, MarkCompleted, MarkBlocked,
              Mark, ReadToFinish, Finish, ReadToRecover, Recover, Release, Alone, Aside,
              clientVars
<1>2. ASSUME NEW p, OtherPersist(p) \/ PersistFails(p) PROVE UNCHANGED <<request, read>>
  BY <1>2 DEF OtherPersist, PersistFails, clientVars
<1>3. ASSUME Raise \/ Start \/ Stop PROVE UNCHANGED <<request, read>>
  BY <1>3 DEF Raise, Start, Stop, clientVars
<1>4. ASSUME NEW e, NEW part, Tamper(e, part) PROVE UNCHANGED <<request, read>>
  BY <1>4 DEF Tamper, clientVars
<1>5. CASE UNCHANGED vars BY <1>5, ReadInvStays DEF vars, clientVars
<1>6. CASE Exit \/ Crash
  <2>1. /\ request' = [r \in Requests |-> IF request[r] \in InFlight THEN "lost"
                                          ELSE request[r]]
        /\ read' = [r \in Requests |-> {}]
    BY <1>6 DEF Exit, Crash, Gone
  <2>2. request \in [Requests -> InFlight \cup {"idle", "done", "refused", "lost"}]
    BY DEF FinalizationInv, ReadInv
  <2>3. \A r \in Requests : request'[r] \notin {"blocked", "resume"} BY <2>1 DEF InFlight
  <2> QED BY <2>1, <2>2, <2>3 DEF ReadInv
<1> QED BY <1>1, <1>2, <1>3, <1>4, <1>5, <1>6, ReadInvStays, ReadInvOfClients DEF Next

-----------------------------------------------------------------------------
(* What the worker knows.                                                  *)

\* What Long holds stays there.
LEMMA LoadedStays ==
  ASSUME LP!Remembers, NEW e \in Entries, Loaded(e)
  PROVE  Loaded(e)'
<1>1. JobOf[CandidateOf[e]] \in Jobs
  BY FinalizationAssumption, LongConstants DEF Long!LongAssumption
<1>2. job[JobOf[CandidateOf[e]]].status \in LP!Final
  BY DEF Loaded, LP!Final, LP!Materialized
<1>3. job'[JobOf[CandidateOf[e]]] = job[JobOf[CandidateOf[e]]]
  BY <1>1, <1>2 DEF LP!Remembers
<1> QED BY <1>3 DEF Loaded

\* A step beside the worker: what it does to plans is to put open or blocked rows
\* back, and what it puts back of a plan that the worker has read is recorded.
LEMMA WorkInvStays ==
  ASSUME FinalizationInv, Good, LP!Remembers, UNCHANGED workVars,
         call'[Worker].cand = call[Worker].cand,
         \A b \in Batches : command[b].status \in Live => command'[b].status \in Live,
         \A e \in Entries : \/ plan'[e] = plan[e]
                            \/ plan[e].status # "COMPLETED" /\ plan'[e].status = "PENDING",
         late \subseteq late',
         pc \in Reading => \A e \in EntriesIn(cur) : plan'[e] = plan[e] \/ e \in late'
  PROVE  WorkInv'
<1>1. UNCHANGED <<pc, cur, ent, code, seen>> BY DEF workVars
<1>2. cur \in Batches => EntriesIn(cur) \subseteq Entries BY OneBatchOfAnEntry
<1>3. HandInv'
  <2>1. pc' \in Busy => cur' \in Batches /\ command'[cur'].status \in Live
    BY <1>1 DEF FinalizationInv, WorkInv, HandInv
  <2>2. pc \in InHand => ent \in Entries /\ ent \in EntriesIn(cur)
    BY <1>2 DEF FinalizationInv, WorkInv, HandInv, Busy
  <2>3. pc' \in {"claim", "completed", "blocked"} => plan'[ent'].status \in Open
    BY <1>1, <2>2 DEF FinalizationInv, WorkInv, HandInv, InHand, Open
  <2>4. pc' = "completed" => Loaded(ent)'
    BY <1>1, <2>2, LoadedStays DEF FinalizationInv, WorkInv, HandInv, InHand
  <2>5. pc' = "await" => call'[Worker].cand = CandidateOf[ent']
    BY <1>1 DEF FinalizationInv, WorkInv, HandInv
  <2> QED BY <1>1, <2>1, <2>2, <2>3, <2>4, <2>5 DEF FinalizationInv, WorkInv, HandInv
<1>4. SeenInv'
  <2>1. ASSUME pc \in Reading, NEW e \in EntriesIn(cur) PROVE SeenTruly(e)'
    BY <1>1, <1>2, <2>1, SeenOfTheCommand DEF SeenTruly, Open
  <2> QED BY <1>1, <2>1 DEF FinalizationInv, WorkInv, SeenInv
<1> QED BY <1>3, <1>4 DEF WorkInv

\* What leaves the worker and the tables alone.
LEMMA WorkInvFramed ==
  ASSUME FinalizationInv, Good, LP!Remembers, UNCHANGED <<workVars, command, plan, late>>,
         call'[Worker].cand = call[Worker].cand
  PROVE  WorkInv'
BY WorkInvStays

\* The worker goes on, with the command that it has.
LEMMA WorkInvMoves ==
  ASSUME FinalizationInv, Good, UNCHANGED <<cur, command, seen>>, pc \in Busy,
         pc' \in {"next", "claim", "verify", "block", "blocked", "finish"},
         code' \in Codes \cup {None},
         pc' \in InHand => ent' \in EntriesIn(cur),
         pc' \in {"claim", "blocked"} => plan'[ent'].status \in Open
  PROVE  WorkInv'
<1>1. HandInv' BY DEF FinalizationInv, WorkInv, HandInv, InHand
<1>2. SeenInv' BY DEF FinalizationInv, WorkInv, SeenInv, Reading
<1> QED BY <1>1, <1>2 DEF WorkInv

\* The worker has nothing in hand.
LEMMA WorkInvRests ==
  ASSUME FinalizationInv, pc' \in {"off", "idle", "open", "recover", "release", "sweep"},
         code' = code \/ code' = None, seen' = seen \/ seen' = Unread
  PROVE  WorkInv'
BY DEF FinalizationInv, WorkInv, HandInv, SeenInv, Busy, InHand, Reading, Unread, Statuses

\* The worker reads the plan of its command.
LEMMA WorkInvReads ==
  ASSUME FinalizationInv, NEW label \in Reading, ReadPlan(label),
         UNCHANGED <<command, plan, cur>>, code' = code \/ code' = None,
         cur \in Batches, command[cur].status \in Live
  PROVE  WorkInv'
<1>1. /\ pc' \in Reading
      /\ seen' = [e \in Entries |-> IF e \in EntriesIn(cur) THEN plan[e].status ELSE "NONE"]
  BY DEF ReadPlan
<1>2. HandInv' BY <1>1 DEF FinalizationInv, WorkInv, HandInv, Reading, InHand
<1>3. \A e \in Entries :
        /\ plan[e].status \in Statuses
        /\ seen'[e] = IF e \in EntriesIn(cur) THEN plan[e].status ELSE "NONE"
  BY <1>1 DEF FinalizationInv, TableTypes, PlanRows
<1>4. \A e \in EntriesIn(cur) : e \in Entries /\ plan[e].status # "NONE"
  BY OneBatchOfAnEntry DEF FinalizationInv, PlanInv, Live
<1>5. seen' \in [Entries -> Statuses] BY <1>1, <1>3 DEF Statuses
<1>6. \A e \in EntriesIn(cur) : SeenTruly(e)' BY <1>3, <1>4 DEF SeenTruly
<1>7. SeenInv' BY <1>3, <1>5, <1>6 DEF SeenInv
<1> QED BY <1>2, <1>7 DEF WorkInv

LEMMA WorkInvOfWorker ==
  ASSUME FinalizationInv, Good, LP!Remembers, WorkerStep \/ Raise
  PROVE  WorkInv'
<1>1. CASE Take \/ Sweep \/ Recover \/ Release \/ Finish
  BY <1>1, WorkInvRests DEF Take, Sweep, Recover, Release, Finish, Verdict, Alone
<1>2. CASE OpenCommand
  <2>1. CASE cur \notin LiveCommands
    BY <1>2, <2>1, WorkInvRests DEF OpenCommand, Alone
  <2>2. CASE cur \in LiveCommands
    <3>1. /\ pc = "open" /\ pc' = "next" /\ UNCHANGED <<cur, ent, code, seen>>
          /\ command' = [command EXCEPT ![cur].status = "PROCESSING"] /\ cur \in Batches
      BY <1>2, <2>2 DEF OpenCommand, LiveCommands, Alone
    <3>2. StatusBecomes(cur, "PROCESSING") BY <3>1, StatusIsSet DEF FinalizationInv, Live
    <3>3. command'[cur].status \in Live BY <3>1, <3>2 DEF StatusBecomes, Live
    <3>4. HandInv' BY <3>1, <3>3 DEF FinalizationInv, WorkInv, HandInv, InHand
    <3>5. SeenInv' BY <3>1 DEF FinalizationInv, WorkInv, SeenInv, Reading
    <3> QED BY <3>4, <3>5 DEF WorkInv
  <2> QED BY <2>1, <2>2
<1>3. CASE ReadNext
  <2>1. /\ pc = "next" /\ UNCHANGED <<cur, command, plan, code, seen>>
        /\ \/ pc' = "finish"
           \/ pc' = "claim" /\ IsFirstPending(ent', cur)
    BY <1>3 DEF ReadNext, Alone, dataVars
  <2>2. pc' = "claim" => ent' \in EntriesIn(cur) /\ plan'[ent'].status \in Open
    BY <2>1 DEF IsFirstPending, Pending, Open
  <2>3. code' \in Codes \cup {None} BY <2>1 DEF FinalizationInv, WorkInv, HandInv
  <2>4. pc \in Busy BY <2>1 DEF Busy
  <2>5. pc' \in InHand => pc' = "claim" BY <2>1 DEF InHand
  <2> QED BY <2>1, <2>2, <2>3, <2>4, <2>5, WorkInvMoves
<1>4. CASE ClaimNext
  <2>1. /\ pc = "claim" /\ pc' = "verify" /\ UNCHANGED <<cur, ent, command, code, seen>>
    BY <1>4 DEF ClaimNext, Alone
  <2>2. /\ ent' \in EntriesIn(cur) /\ code' \in Codes \cup {None} /\ pc \in Busy
    BY <2>1 DEF FinalizationInv, WorkInv, HandInv, InHand, Busy
  <2> QED BY <2>1, <2>2, WorkInvMoves
<1>5. CASE Verify
  <2>1. /\ pc = "verify" /\ UNCHANGED <<cur, ent, command, seen>>
        /\ \/ pc' = "block" /\ code' \in Codes
           \/ pc' = "await" /\ code' = code /\ Long!Confirm(Worker, CandidateOf[ent])
    BY <1>5 DEF Verify, Refuse, RebuiltOtherwise, ConfirmRebuilt, Codes, dataVars
  <2>2. ent \in EntriesIn(cur) /\ pc \in Busy
    BY <2>1 DEF FinalizationInv, WorkInv, HandInv, InHand, Busy
  <2>3. CASE pc' = "block"
    <3>1. code' \in Codes \cup {None} BY <2>1, <2>3
    <3> QED BY <2>1, <2>2, <2>3, <3>1, WorkInvMoves
  <2>4. CASE pc' = "await" /\ code' = code /\ Long!Confirm(Worker, CandidateOf[ent])
    <3>1. call \in [Callers -> LP!Call]
      BY DEF FinalizationInv, LongPart, LP!LongInv, LP!LongTypeOK
    <3>2. call'[Worker].cand = CandidateOf[ent]
      BY <2>4, <3>1, FinalizationAssumption DEF Long!Confirm, Long!NoCall
    <3>3. HandInv' BY <2>1, <2>2, <2>4, <3>2 DEF FinalizationInv, WorkInv, HandInv
    <3>4. SeenInv' BY <2>1, <2>4 DEF FinalizationInv, WorkInv, SeenInv, Reading
    <3> QED BY <3>3, <3>4 DEF WorkInv
  <2> QED BY <2>1, <2>3, <2>4
<1>6. CASE Persist
  <2>1. UNCHANGED <<workVars, command, plan, late>> /\ LP!Persist(Worker)
    BY <1>6, SamePersist DEF Persist, dataVars
  <2>2. LP!LongInv BY DEF FinalizationInv, LongPart
  <2>3. call'[Worker].cand = call[Worker].cand
    BY <2>1, <2>2, FinalizationAssumption, LongConstants, LP!CandidateKept
    DEF Long!LongAssumption, Long!NoneAssumption, Long!Answers, LP!Answers, Long!Final,
        LP!Final, Long!Materialized, LP!Materialized
  <2> QED BY <2>1, <2>3, WorkInvFramed
<1>7. CASE LongRefuses
  <2>1. /\ pc = "await" /\ pc' = "block" /\ UNCHANGED <<cur, ent, command, seen>>
        /\ code' \in Codes \cup {None}
    BY <1>7 DEF LongRefuses, Answered, Refuse, Codes, Alone, dataVars
  <2>2. ent' \in EntriesIn(cur) /\ pc \in Busy
    BY <2>1 DEF FinalizationInv, WorkInv, HandInv, InHand, Busy
  <2> QED BY <2>1, <2>2, WorkInvMoves
<1>8. CASE LockCompleted
  <2>1. /\ pc = "await" /\ call[Worker].answer \in {"COMPLETED_PENDING", "REUSED"}
        /\ UNCHANGED <<cur, command, plan, seen, longVars>>
        /\ \/ /\ plan[ent].status = "PROCESSING" /\ pc' = "completed"
              /\ UNCHANGED <<ent, code>>
           \/ pc' = "recover" /\ code' = None
    BY <1>8 DEF LockCompleted, LockPlan, Answered, Alone, Aside, dataVars
  <2>2. CASE pc' = "recover" BY <2>1, <2>2, WorkInvRests
  <2>3. CASE pc' = "completed"
    <3>1. /\ ent' \in EntriesIn(cur) /\ cur \in Batches /\ command[cur].status \in Live
          /\ call[Worker].cand = CandidateOf[ent]
      BY <2>1, <2>3 DEF FinalizationInv, WorkInv, HandInv, InHand, Busy
    <3>2. job[LP!Asked(Worker)].status = call[Worker].answer
      BY <2>1, FinalizationAssumption
      DEF FinalizationInv, LongPart, LP!Told, LP!Success, LP!Materialized
    <3>3. Loaded(ent)' BY <2>1, <2>3, <3>1, <3>2 DEF Loaded, LP!Asked, longVars
    <3>4. HandInv' BY <2>1, <2>3, <3>1, <3>3 DEF FinalizationInv, WorkInv, HandInv, Open
    <3>5. SeenInv' BY <2>1, <2>3 DEF FinalizationInv, WorkInv, SeenInv, Reading
    <3> QED BY <3>4, <3>5 DEF WorkInv
  <2> QED BY <2>1, <2>2, <2>3
<1>9. CASE LockBlocked
  <2>1. /\ pc = "block" /\ UNCHANGED <<cur, command, plan, seen>>
        /\ \/ /\ plan[ent].status = "PROCESSING" /\ pc' = "blocked"
              /\ UNCHANGED <<ent, code>>
           \/ pc' = "recover" /\ code' = None
    BY <1>9 DEF LockBlocked, LockPlan, Alone, dataVars
  <2>2. CASE pc' = "recover" BY <2>1, <2>2, WorkInvRests
  <2>3. CASE pc' = "blocked"
    <3>1. /\ ent' \in EntriesIn(cur) /\ code' \in Codes \cup {None} /\ pc \in Busy
          /\ plan'[ent'].status \in Open
      BY <2>1, <2>3 DEF FinalizationInv, WorkInv, HandInv, InHand, Busy, Open
    <3> QED BY <2>1, <2>3, <3>1, WorkInvMoves
  <2> QED BY <2>1, <2>2, <2>3
<1>10. CASE MarkCompleted \/ MarkBlocked
  <2>1. /\ pc \in {"completed", "blocked"} /\ UNCHANGED <<cur, command, seen>>
        /\ pc' = "next" /\ code' = None
    BY <1>10 DEF MarkCompleted, MarkBlocked, Mark, Alone
  <2>2. pc \in Busy /\ pc' \notin InHand BY <2>1 DEF Busy, InHand
  <2> QED BY <2>1, <2>2, WorkInvMoves
<1>11. CASE ReadToFinish
  <2>1. /\ pc = "finish" /\ ReadPlan("finishing") /\ UNCHANGED <<command, plan, cur, code>>
    BY <1>11 DEF ReadToFinish, dataVars
  <2>2. cur \in Batches /\ command[cur].status \in Live
    BY <2>1 DEF FinalizationInv, WorkInv, HandInv, Busy
  <2>3. "finishing" \in Reading BY DEF Reading
  <2> QED BY <2>1, <2>2, <2>3, WorkInvReads
<1>12. CASE ReadToRecover
  <2>1. CASE cur \notin LiveCommands
    BY <1>12, <2>1, WorkInvRests DEF ReadToRecover
  <2>2. CASE cur \in LiveCommands
    <3>1. ReadPlan("recovering") /\ UNCHANGED <<command, plan, cur>> /\ code' = None
      BY <1>12, <2>2 DEF ReadToRecover, dataVars
    <3>2. "recovering" \in Reading BY DEF Reading
    <3> QED BY <2>2, <3>1, <3>2, WorkInvReads DEF LiveCommands
  <2> QED BY <2>1, <2>2
<1>13. CASE Raise
  <2>1. CASE pc = "verify" /\ Refuse("INTEGRITY_ERROR") /\ UNCHANGED ent
    <3>1. /\ UNCHANGED <<cur, command>> /\ seen' = Unread /\ pc' = "block"
          /\ code' \in Codes \cup {None}
      BY <1>13, <2>1 DEF Raise, Refuse, Codes, dataVars
    <3>2. ent' \in EntriesIn(cur) /\ cur \in Batches /\ command[cur].status \in Live
      BY <2>1 DEF FinalizationInv, WorkInv, HandInv, InHand, Busy
    <3>3. HandInv' BY <3>1, <3>2 DEF HandInv
    <3>4. SeenInv' BY <3>1 DEF SeenInv, Reading, Unread, Statuses
    <3> QED BY <3>3, <3>4 DEF WorkInv
  <2>2. CASE pc' \in {"recover", "release"} /\ (code' = None \/ code' = code)
    BY <1>13, <2>2, WorkInvRests DEF Raise
  <2> QED BY <1>13, <2>1, <2>2 DEF Raise
<1> QED BY <1>1, <1>2, <1>3, <1>4, <1>5, <1>6, <1>7, <1>8, <1>9, <1>10, <1>11, <1>12, <1>13
        DEF WorkerStep

LEMMA WorkInvOfClients ==
  ASSUME FinalizationInv, Good, LP!Remembers, NEW r \in Requests,
         SubmitRead(r) \/ Submit(r) \/ SubmitFails(r)
  PROVE  WorkInv'
<1>1. UNCHANGED <<workVars, longVars>>
  BY DEF SubmitRead, Submit, SubmitFails, SubmitBlocked, SubmitCreate, SubmitResume,
         SubmitEnqueue, SubmitSweep, SubmitDone
<1>2. call'[Worker].cand = call[Worker].cand BY <1>1 DEF longVars
<1>3. Batch(r) \in Batches BY FinalizationAssumption DEF Batch
<1>4. pc \in Reading => cur \in Batches /\ command[cur].status # "NONE"
  BY SeenOfTheCommand DEF Live
<1>5. CASE UNCHANGED <<command, plan, late>> BY <1>1, <1>2, <1>5, WorkInvFramed
<1>6. CASE SubmitCreate(r) /\ ~ UNCHANGED <<command, plan, late>>
  <2> DEFINE b == Batch(r)
  <2> DEFINE new == [status |-> "QUEUED", reason |-> Asks[r].reason]
  <2>1. /\ command' = [command EXCEPT ![b] = new] /\ command[b].status = "NONE"
        /\ plan' = [e \in Entries |-> IF e \in EntriesIn(b) THEN Waiting ELSE plan[e]]
        /\ UNCHANGED late
    BY <1>6 DEF SubmitCreate, ReplayConcurrent, dataVars
  <2>2. new.status \in Live BY DEF Live
  <2> HIDE DEF new
  <2>3. \A a \in Batches : command'[a] = IF a = b THEN new ELSE command[a]
    BY <2>1 DEF FinalizationInv, TableTypes
  <2>4. \A e \in EntriesIn(b) : plan[e].status = "NONE"
    BY <1>3, <2>1 DEF FinalizationInv, PlanInv
  <2>5. \A e \in Entries : \/ plan'[e] = plan[e]
                           \/ plan[e].status # "COMPLETED" /\ plan'[e].status = "PENDING"
    BY <2>1, <2>4, RowsOfAPlan
  <2>6. pc \in Reading => \A e \in EntriesIn(cur) : plan'[e] = plan[e]
    BY <1>3, <1>4, <2>1, OneBatchOfAnEntry
  <2> HIDE DEF b
  <2> QED BY <1>1, <1>2, <2>1, <2>2, <2>3, <2>5, <2>6, WorkInvStays
<1>7. CASE SubmitResume(r) /\ ~ UNCHANGED <<command, plan, late>>
  <2> DEFINE b == Batch(r)
  <2>1. /\ command' = [command EXCEPT ![b].status = "QUEUED"]
        /\ plan' = [e \in Entries |-> IF e \in read[r] THEN Waiting ELSE plan[e]]
        /\ \A e \in read[r] : plan[e].status # "COMPLETED"
        /\ late' = IF pc \in Reading /\ cur = b THEN late \cup read[r] ELSE late
    BY <1>7 DEF SubmitResume, Resumed, dataVars, Reading
  <2>2. StatusBecomes(b, "QUEUED") BY <2>1, StatusIsSet DEF FinalizationInv, Live
  <2>3. \A a \in Batches : command[a].status \in Live => command'[a].status \in Live
    BY <2>2 DEF StatusBecomes, Live
  <2>4. \A e \in Entries : \/ plan'[e] = plan[e]
                           \/ plan[e].status # "COMPLETED" /\ plan'[e].status = "PENDING"
    BY <2>1, RowsOfAPlan
  <2>5. read[r] \subseteq EntriesIn(b) BY DEF FinalizationInv, ReadInv
  <2>6. pc \in Reading => \A e \in EntriesIn(cur) : plan'[e] = plan[e] \/ e \in late'
    BY <1>3, <1>4, <2>1, <2>5, OneBatchOfAnEntry
  <2>7. late \subseteq late' BY <2>1
  <2> HIDE DEF b
  <2> QED BY <1>1, <1>2, <2>3, <2>4, <2>6, <2>7, WorkInvStays
<1> QED BY <1>5, <1>6, <1>7
    DEF SubmitRead, Submit, SubmitFails, SubmitBlocked, SubmitEnqueue, SubmitSweep, SubmitDone,
        dataVars

LEMMA WorkInvKept ==
  ASSUME FinalizationInv, Good, LP!Remembers, [Next]_vars
  PROVE  WorkInv'
<1>1. LP!LongInv /\ call \in [Callers -> LP!Call]
  BY DEF FinalizationInv, LongPart, LP!LongInv, LP!LongTypeOK
<1>3. ASSUME NEW p \in Callers, OtherPersist(p) \/ PersistFails(p) PROVE WorkInv'
  <2>1. UNCHANGED <<workVars, command, plan, late>>
    BY <1>3 DEF OtherPersist, PersistFails, dataVars
  <2>2. ASSUME LP!Persist(p) \/ LP!CallFails(p) PROVE call'[Worker].cand = call[Worker].cand
    BY <1>1, <2>2, FinalizationAssumption, LongConstants, LP!CandidateKept
    DEF Long!LongAssumption, Long!NoneAssumption, Long!Answers, LP!Answers, Long!Final,
        LP!Final, Long!Materialized, LP!Materialized
  <2>3. ASSUME NEW c, Long!Confirm(p, c), p # Worker
        PROVE  call'[Worker].cand = call[Worker].cand
    BY <1>1, <2>3, FinalizationAssumption DEF Long!Confirm
  <2>4. call'[Worker].cand = call[Worker].cand
    BY <1>3, <2>2, <2>3, SamePersist, SameSteps DEF OtherPersist, PersistFails
  <2> QED BY <2>1, <2>4, WorkInvFramed
<1>4. CASE Start \/ Exit \/ Crash
  <2>1. /\ pc' \in {"idle", "off"} /\ (code' = code \/ code' = None)
        /\ (seen' = seen \/ seen' = Unread)
    BY <1>4 DEF Start, Exit, Crash, Gone
  <2> QED BY <2>1, WorkInvRests
<1>5. CASE Stop BY <1>5, WorkInvFramed DEF Stop, longVars, dataVars
<1>6. ASSUME NEW e, NEW part, Tamper(e, part) PROVE WorkInv'
  BY <1>6, WorkInvFramed DEF Tamper, longVars
<1>7. CASE UNCHANGED vars BY <1>7, WorkInvFramed DEF vars, longVars, dataVars
<1> QED BY <1>3, <1>4, <1>5, <1>6, <1>7, WorkInvOfWorker, WorkInvOfClients DEF Next

-----------------------------------------------------------------------------
(* The invariant.                                                          *)

LEMMA CompletedInvKept ==
  ASSUME FinalizationInv, Good, LP!Remembers
  PROVE  CompletedInv'
BY LoadedStays DEF FinalizationInv, CompletedInv, Good

LEMMA FinalizationInit == Init => FinalizationInv
<1> SUFFICES ASSUME Init PROVE FinalizationInv OBVIOUS
<1>1. \A b \in Batches : command[b] = [status |-> "NONE", reason |-> None] BY DEF Init
<1>2. \A e \in Entries : plan[e] = [status |-> "NONE", code |-> None] BY DEF Init
<1>3. TableTypes
  <2>1. [status |-> "NONE", reason |-> None] \in CommandRows BY DEF CommandRows
  <2>2. [status |-> "NONE", code |-> None] \in PlanRows BY DEF PlanRows, Statuses
  <2> QED BY <2>1, <2>2 DEF Init, TableTypes
<1>4. PlanInv BY <1>1, <1>2, OneBatchOfAnEntry DEF PlanInv
<1>5. ReadInv BY DEF Init, ReadInv
<1>6. WorkInv
  BY DEF Init, WorkInv, HandInv, SeenInv, Busy, InHand, Reading, Unread, Statuses
<1>7. LP!Init BY SameSteps DEF Init
<1>8. LP!LongInv BY <1>7, LongConstants, LP!InvInit
  DEF Long!LongAssumption, Long!NoneAssumption, Long!Answers, LP!Answers, Long!Final, LP!Final,
      Long!Materialized, LP!Materialized
<1>9. \A p \in Callers : LP!Told(p)
  <2>1. \A p \in Callers : call[p].answer = None
    BY <1>7 DEF LP!Init, LP!LongInit, LP!NoCall
  <2>2. None \notin LP!Success
    BY LongConstants DEF Long!NoneAssumption, Long!Answers, Long!Final, Long!Materialized,
                         LP!Success, LP!Materialized
  <2> QED BY <2>1, <2>2 DEF LP!Told
<1>10. CompletedInv BY <1>2 DEF CompletedInv
<1>11. CommandIsSettled BY <1>1 DEF CommandIsSettled
<1> QED BY <1>3, <1>4, <1>5, <1>6, <1>8, <1>9, <1>10, <1>11 DEF FinalizationInv, LongPart

LEMMA FinalizationKept == FinalizationInv /\ [Next]_vars => FinalizationInv'
<1> SUFFICES ASSUME FinalizationInv, [Next]_vars PROVE FinalizationInv' OBVIOUS
<1>1. Good BY NextIsGood
<1>2. LongPart' /\ LP!Remembers BY LongPartKept
<1>3. ReadInv' /\ WorkInv' BY <1>1, <1>2, ReadInvKept, WorkInvKept
<1>4. CompletedInv' BY <1>1, <1>2, CompletedInvKept
<1> QED BY <1>1, <1>2, <1>3, <1>4 DEF FinalizationInv, Good

\* FinalizationInv is inductive: commands, plans, the worker, the clients and the
\* Long persistence agree in every reachable state, whatever fails or is
\* submitted, resumed, stopped or restarted in between.
THEOREM FinalizationInvariance == Spec => []FinalizationInv
BY FinalizationInit, FinalizationKept, PTL DEF Spec

\* A command that has ended tells what became of its entries.
THEOREM CommandsAreSettled == Spec => []CommandIsSettled
<1>1. FinalizationInv => CommandIsSettled BY DEF FinalizationInv
<1> QED BY <1>1, FinalizationInvariance, PTL

\* An entry that is shown as completed has a successful Long job, and the rows of
\* its material are in Long once, whoever wrote them.
THEOREM CompletedEntriesAreInLong == Spec => []CompletedIsInLong
<1>1. FinalizationInv => CompletedIsInLong
  <2> SUFFICES ASSUME FinalizationInv, NEW e \in Entries, plan[e].status = "COMPLETED"
               PROVE  LET j == JobOf[CandidateOf[e]]
                      IN  /\ job[j].status \in {"COMPLETED_PENDING", "REUSED"}
                          /\ \E k \in Jobs : MaterialOf[k] = MaterialOf[j] /\ rows[k] = 1
    BY DEF CompletedIsInLong
  <2> DEFINE j == JobOf[CandidateOf[e]]
  <2>1. j \in Jobs BY FinalizationAssumption, LongConstants DEF Long!LongAssumption
  <2>2. job[j].status \in {"COMPLETED_PENDING", "REUSED"}
    BY DEF FinalizationInv, CompletedInv, Loaded
  <2>3. LP!LongInv /\ job[j].status \in LP!Success
    BY <2>2 DEF FinalizationInv, LongPart, LP!Success, LP!Materialized
  <2> HIDE DEF j
  <2>4. \E k \in Jobs : MaterialOf[k] = MaterialOf[j] /\ rows[k] = 1
    BY <2>1, <2>3, LongConstants, LP!SuccessHasRows
    DEF Long!LongAssumption, Long!NoneAssumption, Long!Answers, LP!Answers, Long!Final,
        LP!Final, Long!Materialized, LP!Materialized
  <2> QED BY <2>2, <2>4 DEF j
<1> QED BY <1>1, FinalizationInvariance, PTL

\* No step puts a completed entry back or replaces the reason of a command.
THEOREM IntentsAreKept == Spec => IntentIsKept
<1>1. FinalizationInv /\ [Next]_vars =>
        [ /\ \A e \in Entries : plan[e].status = "COMPLETED" => plan'[e] = plan[e]
          /\ \A b \in Batches : command[b].status # "NONE" =>
               command'[b].reason = command[b].reason ]_vars
  BY NextIsGood DEF Good
<1> QED BY <1>1, FinalizationInvariance, PTL DEF Spec, IntentIsKept

-----------------------------------------------------------------------------
(* Rewritten evidence.                                                     *)

EvidenceTypes == evidence \in [Entries -> {"sound", "row", "checkpoint"}]

\* The evidence of e was rewritten, and the worker is not past its check.
Doubted(e) == evidence[e] # "sound" /\ plan[e].status # "COMPLETED" /\ ~ Completing(e)

\* Nothing takes a rewriting back.
LEMMA EvidenceStays ==
  ASSUME EvidenceTypes, [Next]_vars
  PROVE  /\ EvidenceTypes'
         /\ \A e \in Entries : evidence[e] # "sound" => evidence'[e] = evidence[e]
<1>1. ASSUME NEW r \in Requests, SubmitRead(r) \/ Submit(r) \/ SubmitFails(r)
      PROVE  UNCHANGED evidence
  BY <1>1 DEF SubmitRead, Submit, SubmitFails, SubmitBlocked, SubmitCreate, ReplayConcurrent,
              SubmitResume, Resumed, SubmitEnqueue, SubmitSweep, SubmitDone, dataVars
<1>2. ASSUME WorkerStep PROVE UNCHANGED evidence
  BY <1>2 DEF WorkerStep, Take, Sweep, OpenCommand, ReadNext, ClaimNext, Verify, Persist,
              LongRefuses, LockCompleted, LockBlocked, LockPlan, MarkCompleted, MarkBlocked,
              Mark, ReadToFinish, Finish, ReadToRecover, Recover, Release, dataVars
<1>3. ASSUME NEW p, OtherPersist(p) \/ PersistFails(p) PROVE UNCHANGED evidence
  BY <1>3 DEF OtherPersist, PersistFails, dataVars
<1>4. ASSUME Raise \/ Start \/ Stop \/ Exit \/ Crash PROVE UNCHANGED evidence
  BY <1>4 DEF Raise, Start, Stop, Exit, Crash, Gone, dataVars
<1>5. ASSUME NEW e \in Tamperable, NEW part \in {"row", "checkpoint"}, Tamper(e, part)
      PROVE  /\ EvidenceTypes'
             /\ \A x \in Entries : evidence[x] # "sound" => evidence'[x] = evidence[x]
  BY <1>5, FinalizationAssumption DEF Tamper, EvidenceTypes
<1>6. ASSUME UNCHANGED vars PROVE UNCHANGED evidence BY <1>6 DEF vars, dataVars
<1>7. ASSUME UNCHANGED evidence
      PROVE  /\ EvidenceTypes'
             /\ \A x \in Entries : evidence[x] # "sound" => evidence'[x] = evidence[x]
  BY <1>7 DEF EvidenceTypes
<1> QED BY <1>1, <1>2, <1>3, <1>4, <1>5, <1>6, <1>7 DEF Next

\* How a step can bring the worker behind the check, or complete an entry.
LEMMA OnlyVerifyCompletes ==
  ASSUME [Next]_vars, pc' \in {"await", "completed"}
  PROVE  \/ Verify
         \/ pc \in {"await", "completed"} /\ ent' = ent
<1>1. ASSUME NEW r \in Requests, SubmitRead(r) \/ Submit(r) \/ SubmitFails(r)
      PROVE  UNCHANGED workVars
  BY <1>1 DEF SubmitRead, Submit, SubmitFails, SubmitBlocked, SubmitCreate, SubmitResume,
              SubmitEnqueue, SubmitSweep, SubmitDone
<1>2. ~ (Take \/ Sweep \/ OpenCommand \/ ReadNext \/ ClaimNext \/ LongRefuses \/ LockBlocked)
  BY DEF Take, Sweep, OpenCommand, ReadNext, ClaimNext, LongRefuses, Refuse, LockBlocked,
         LockPlan
<1>3. ~ (\/ MarkCompleted \/ MarkBlocked \/ ReadToFinish \/ Finish
         \/ ReadToRecover \/ Recover \/ Release)
  BY DEF MarkCompleted, MarkBlocked, Mark, ReadToFinish, Finish, Verdict, ReadToRecover,
         ReadPlan, Recover, Release
<1>4. ~ (Raise \/ Start \/ Exit \/ Crash)
  BY DEF Raise, Refuse, Start, Exit, Crash, Gone
<1>5. ASSUME Persist \/ Stop PROVE UNCHANGED workVars BY <1>5 DEF Persist, Stop
<1>6. ASSUME NEW p, OtherPersist(p) \/ PersistFails(p) PROVE UNCHANGED workVars
  BY <1>6 DEF OtherPersist, PersistFails
<1>7. ASSUME NEW e, NEW part, Tamper(e, part) PROVE UNCHANGED workVars BY <1>7 DEF Tamper
<1>8. ASSUME UNCHANGED vars PROVE UNCHANGED workVars BY <1>8 DEF vars
<1>9. ASSUME LockCompleted PROVE pc = "await" /\ ent' = ent
  BY <1>9 DEF LockCompleted, LockPlan, Answered
<1>10. Verify \/ LockCompleted \/ UNCHANGED workVars
  BY <1>1, <1>2, <1>3, <1>4, <1>5, <1>6, <1>7, <1>8 DEF Next, WorkerStep
<1> QED BY <1>9, <1>10 DEF workVars

LEMMA OnlyMarkCompletes ==
  ASSUME FinalizationInv, [Next]_vars, NEW e \in Entries, plan[e].status # "COMPLETED",
         plan'[e].status = "COMPLETED"
  PROVE  pc = "completed" /\ ent = e
<1>0. plan \in [Entries -> PlanRows] BY DEF FinalizationInv, TableTypes
<1>1. ~ UNCHANGED plan OBVIOUS
<1>2. ~ Elsewhere BY <1>1, ElsewhereStays
<1>3. ASSUME NEW r \in Requests, SubmitCreate(r) \/ SubmitResume(r) PROVE FALSE
  BY <1>1, <1>3, RowsOfAPlan
  DEF SubmitCreate, ReplayConcurrent, SubmitResume, Resumed, dataVars
<1>4. ~ (OpenCommand \/ ReadToFinish \/ Finish \/ ReadToRecover \/ Recover \/ Start)
  BY <1>1, RowsOfAPlan DEF OpenCommand, ReadToFinish, Finish, ReadToRecover, Recover, Start,
                           Blocked, dataVars
<1>5. ~ ClaimNext
  <2> SUFFICES ASSUME ClaimNext PROVE FALSE OBVIOUS
  <2>1. plan' = [plan EXCEPT ![ent].status = "PROCESSING"] BY DEF ClaimNext
  <2>2. CASE ent = e
    <3>1. plan[e] \in PlanRows BY <1>0
    <3>2. plan'[e].status = "PROCESSING" BY <1>0, <2>1, <2>2, <3>1 DEF PlanRows
    <3> QED BY <3>2
  <2>3. CASE ent # e BY <1>0, <2>1, <2>3
  <2> QED BY <2>2, <2>3
<1>6. ASSUME NEW row, Mark(row) PROVE ent = e /\ plan'[e] = row
  BY <1>0, <1>1, <1>6 DEF Mark
<1>7. ~ MarkBlocked
  BY <1>6 DEF MarkBlocked, Blocked
<1>8. MarkCompleted
  BY <1>2, <1>3, <1>4, <1>5, <1>7 DEF Next, Submit, WorkerStep, Elsewhere
<1> QED BY <1>6, <1>8 DEF MarkCompleted

\* What is in doubt stays so: what the worker takes in hand is checked first.
LEMMA DoubtStays ==
  ASSUME FinalizationInv, EvidenceTypes, [Next]_vars, NEW e \in Entries, Doubted(e)
  PROVE  Doubted(e)'
<1>1. evidence'[e] = evidence[e] /\ evidence[e] \in {"row", "checkpoint"}
  BY EvidenceStays DEF Doubted, EvidenceTypes
<1>2. plan'[e].status # "COMPLETED" BY OnlyMarkCompletes DEF Doubted, Completing
<1>3. ~ Completing(e)'
  <2> SUFFICES ASSUME pc' \in {"await", "completed"}, ent' = e PROVE FALSE BY DEF Completing
  <2>1. CASE Verify
    <3>1. ent = e BY <2>1 DEF Verify
    <3> QED BY <1>1, <2>1, <3>1 DEF Verify, SmallEvidence, Refuse
  <2>2. CASE pc \in {"await", "completed"} /\ ent' = ent BY <2>2 DEF Doubted, Completing
  <2> QED BY <2>1, <2>2, OnlyVerifyCompletes
<1> QED BY <1>1, <1>2, <1>3 DEF Doubted

\* What is rewritten before the check of its entry is never completed, whatever is
\* resumed, retried or restarted afterwards.
THEOREM RewrittenIsNotLoaded == Spec => TamperedIsNotLoaded
<1> SUFFICES ASSUME NEW e \in Tamperable
             PROVE  Spec => [](evidence[e] # "sound" /\ plan[e].status # "COMPLETED"
                                 /\ ~ Completing(e)
                               => [](plan[e].status # "COMPLETED"))
  BY DEF TamperedIsNotLoaded
<1>1. e \in Entries BY FinalizationAssumption
<1>2. Init => EvidenceTypes BY DEF Init, EvidenceTypes
<1>3. EvidenceTypes /\ [Next]_vars => EvidenceTypes' BY EvidenceStays
<1>4. FinalizationInv /\ EvidenceTypes /\ [Next]_vars => (Doubted(e) => Doubted(e)')
  BY <1>1, DoubtStays
<1>5. /\ evidence[e] # "sound" /\ plan[e].status # "COMPLETED" /\ ~ Completing(e) => Doubted(e)
      /\ Doubted(e) => plan[e].status # "COMPLETED"
  BY DEF Doubted
<1> QED BY <1>2, <1>3, <1>4, <1>5, FinalizationInvariance, PTL DEF Spec
===============================================================================
