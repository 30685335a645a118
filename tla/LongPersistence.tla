---------------------------- MODULE LongPersistence ----------------------------
(***************************************************************************)
(* Persisting a confirmed Long candidate.                                  *)
(*                                                                         *)
(* Several threads may confirm at once.  A call first claims an ingestion  *)
(* job in one transaction, then writes the Long rows and marks the job in  *)
(* a second one.  The rows of one material, that is of one content read    *)
(* with one Mapping revision, binding and parser contract, have at most    *)
(* one owner; a further receipt of that material reuses them.  SQLite      *)
(* takes its write lock at the first write of a transaction, so what a     *)
(* claim reads before may be outdated when it inserts.                     *)
(***************************************************************************)
EXTENDS Naturals

CONSTANTS
  Callers,      \* threads that confirm candidates
  Candidates,   \* the candidates they confirm
  Jobs,         \* exact bases: source, Mapping revision, binding, contracts
  JobOf,        \* exact basis of a candidate
  SourceOf,     \* source (receipt) of a job
  MaterialOf,   \* material of a job
  LoadOf,       \* state of a candidate
  MaxFaults,    \* bound: exceptions injected into a behaviour
  None

Sources == {SourceOf[j] : j \in Jobs}

ASSUME LongAssumption ==
  /\ JobOf \in [Candidates -> Jobs]
  /\ LoadOf \in [Candidates -> {"READY", "PARTIAL", "HELD"}]
  /\ MaxFaults \in Nat
  /\ None \notin Candidates /\ None \notin Jobs

VARIABLES
  source,   \* sources that have their row
  job,      \* the ingestion job of each exact basis
  rows,     \* how often the Long rows of a job have been written
  call,     \* each thread: where it is, and what it remembers
  faults

longVars == <<source, job, rows, call>>
vars == <<longVars, faults>>

Materialized == {"COMPLETED_PENDING", "PARTIAL_HELD"}
Final == Materialized \cup {"HELD", "REUSED", "RECOVERY_REQUIRED", "FAILED"}
Answers == Final \cup {"ERROR", "PROCESSING"}
ASSUME NoneAssumption == None \notin Answers

Job == [status : Final \cup {"NONE", "PROCESSING"},
        basis  : Candidates \cup {None},   \* the candidate it was claimed for
        owns   : BOOLEAN,                  \* owns_materialization
        of     : Jobs \cup {None}]         \* reused_job_id or blocking_job_id
NoJob == [status |-> "NONE", basis |-> None, owns |-> FALSE, of |-> None]

\* What an owner looked like to a claim: a job and its status.
NoOwner == [job |-> None, status |-> "NONE"]
Owner == [job : Jobs \cup {None}, status : Final \cup {"NONE", "PROCESSING"}]

Call == [pc     : {"idle", "lookup", "insert", "materialize", "fail", "result"},
         cand   : Candidates \cup {None},
         fresh  : BOOLEAN,                 \* the source had no row
         owner  : Owner,
         answer : Answers \cup {None}]
NoCall == [pc |-> "idle", cand |-> None, fresh |-> FALSE, owner |-> NoOwner, answer |-> None]

LongTypeOK ==
  /\ source \in SUBSET Sources
  /\ job \in [Jobs -> Job]
  /\ rows \in [Jobs -> Nat]
  /\ call \in [Callers -> Call]
  /\ faults \in 0 .. MaxFaults

LongInit ==
  /\ source = {}
  /\ job = [j \in Jobs |-> NoJob]
  /\ rows = [j \in Jobs |-> 0]
  /\ call = [p \in Callers |-> NoCall]

-----------------------------------------------------------------------------
Asked(p) == JobOf[call[p].cand]
Goto(p, label) == call' = [call EXCEPT ![p].pc = label]
Answer(p, a) ==
  call' = [call EXCEPT ![p] = [NoCall EXCEPT !.cand = call[p].cand, !.answer = a]]

\* The jobs that own the material of job j.
Owners(j) == {k \in Jobs : job[k].owns /\ MaterialOf[k] = MaterialOf[j]}
Seen(k) == [job |-> k, status |-> job[k].status]

\* confirm_prepared and confirm: a rebuilt candidate is handed to persist.
Confirm(p, c) ==
  /\ call[p].pc = "idle"
  /\ call' = [call EXCEPT ![p] = [NoCall EXCEPT !.pc = "lookup", !.cand = c]]
  /\ UNCHANGED <<source, job, rows>>

\* claim, its reads.  An exact replay is answered from the job, unless the job
\* is still to be materialized, which the caller then does; a replay that does
\* not agree with the basis of the job is an error.
Lookup(p) ==
  /\ call[p].pc = "lookup"
  /\ IF job[Asked(p)].status # "NONE"
       THEN IF job[Asked(p)].basis # call[p].cand THEN Answer(p, "ERROR")
            ELSE Goto(p, IF job[Asked(p)].status = "PROCESSING" THEN "materialize"
                         ELSE "result")
       ELSE \E owner \in IF Owners(Asked(p)) = {} THEN {NoOwner}
                         ELSE {Seen(k) : k \in Owners(Asked(p))} :
              call' = [call EXCEPT ![p].pc = "insert",
                                   ![p].fresh = SourceOf[Asked(p)] \notin source,
                                   ![p].owner = owner]
  /\ UNCHANGED <<source, job, rows>>

\* Fault: the rows of an owner that is not done are reused.
ReuseAnyOwner(c, owner) ==
  [status |-> IF LoadOf[c] = "HELD" THEN "HELD"
              ELSE IF owner.status = "NONE" THEN "PROCESSING" ELSE "REUSED",
   basis  |-> c,
   owns   |-> LoadOf[c] # "HELD" /\ owner = NoOwner,
   of     |-> IF LoadOf[c] = "HELD" THEN None ELSE owner.job]

\* The job a claim inserts, given the owner it saw.
ClaimedJob(c, owner) ==
  [status |-> IF LoadOf[c] = "HELD" THEN "HELD"
              ELSE IF owner.status \in Materialized THEN "REUSED"
              ELSE IF owner.status = "NONE" THEN "PROCESSING"
              ELSE "RECOVERY_REQUIRED",
   basis  |-> c,
   owns   |-> LoadOf[c] # "HELD" /\ owner = NoOwner,
   of     |-> IF LoadOf[c] = "HELD" THEN None ELSE owner.job]

\* Fault: no partial unique index on the owner of a material.
InsertUnchecked(p) ==
  /\ call[p].pc = "insert"
  /\ IF job[Asked(p)].status # "NONE"
       THEN Answer(p, "ERROR") /\ UNCHANGED <<source, job>>
       ELSE LET claimed == ClaimedJob(call[p].cand, call[p].owner)
            IN  /\ source' = source \cup {SourceOf[Asked(p)]}
                /\ job' = [job EXCEPT ![Asked(p)] = claimed]
                /\ Goto(p, IF claimed.status = "PROCESSING" THEN "materialize" ELSE "result")
  /\ UNCHANGED rows

\* claim, its writes.  Writing a new source takes the write lock before the
\* owner is read, so the owner is up to date; otherwise it is the one that was
\* seen.  The unique constraints on source, exact basis and owner refuse a
\* claim that lost a race.
Insert(p) ==
  LET j == Asked(p)
  IN  /\ call[p].pc = "insert"
      /\ \E owner \in IF call[p].fresh /\ Owners(j) # {} THEN {Seen(k) : k \in Owners(j)}
                      ELSE {call[p].owner} :
           LET claimed == ClaimedJob(call[p].cand, owner)
           IN  IF \/ call[p].fresh /\ SourceOf[j] \in source
                  \/ job[j].status # "NONE"
                  \/ claimed.owns /\ Owners(j) # {}
                 THEN Answer(p, "ERROR") /\ UNCHANGED <<source, job>>
                 ELSE /\ source' = source \cup {SourceOf[j]}
                      /\ job' = [job EXCEPT ![j] = claimed]
                      /\ Goto(p, IF claimed.status = "PROCESSING" THEN "materialize"
                                 ELSE "result")
      /\ UNCHANGED rows

\* Fault: the job is marked without comparing its status and version.
MaterializeUnchecked(p) ==
  LET j == Asked(p)
  IN  /\ call[p].pc = "materialize"
      /\ rows' = [rows EXCEPT ![j] = @ + 1]
      /\ job' = [job EXCEPT ![j].status =
                   IF LoadOf[call[p].cand] = "PARTIAL" THEN "PARTIAL_HELD"
                   ELSE "COMPLETED_PENDING"]
      /\ Goto(p, "result")
      /\ UNCHANGED source

\* materialize, its checks: the job is in work, owns its material, was claimed
\* for this candidate and has no rows.
MayMaterialize(p) ==
  LET j == Asked(p)
  IN  /\ job[j].status = "PROCESSING" /\ job[j].owns
      /\ job[j].basis = call[p].cand /\ rows[j] = 0

\* materialize, its writes: the lots, results and measurements of the job.
WriteRows(j) == rows' = [rows EXCEPT ![j] = @ + 1]

\* materialize and mark_materialized, one transaction: a job that is no longer
\* the one that was claimed takes the rows back.
Materialize(p) ==
  LET j == Asked(p)
  IN  /\ call[p].pc = "materialize"
      /\ IF MayMaterialize(p)
           THEN /\ WriteRows(j)
                /\ job' = [job EXCEPT ![j].status =
                             IF LoadOf[call[p].cand] = "PARTIAL" THEN "PARTIAL_HELD"
                             ELSE "COMPLETED_PENDING"]
                /\ Goto(p, "result")
           ELSE Goto(p, "fail") /\ UNCHANGED <<job, rows>>
      /\ UNCHANGED source

\* _record_failed_claim: a job that is still claimed fails for good.
RecordFailure(p) ==
  LET j == Asked(p)
  IN  /\ call[p].pc = "fail"
      /\ job' = IF job[j].status = "PROCESSING"
                  THEN [job EXCEPT ![j].status = "FAILED"] ELSE job
      /\ Answer(p, "ERROR")
      /\ UNCHANGED <<source, rows>>

\* _result: the job is read once more.
Result(p) ==
  /\ call[p].pc = "result"
  /\ Answer(p, job[Asked(p)].status)
  /\ UNCHANGED <<source, job, rows>>

\* An exception in a transaction: the claim is an error, the materialization
\* is recorded as failed, and a failure that cannot be recorded leaves the job.
CallFails(p) ==
  /\ faults < MaxFaults
  /\ \/ call[p].pc \in {"lookup", "insert", "fail", "result"} /\ Answer(p, "ERROR")
     \/ call[p].pc = "materialize" /\ Goto(p, "fail")
  /\ UNCHANGED <<source, job, rows>>

Persist(p) == Lookup(p) \/ Insert(p) \/ Materialize(p) \/ RecordFailure(p) \/ Result(p)

\* The process dies: what was committed stays.
CallsDie ==
  /\ call' = [p \in Callers |-> NoCall]
  /\ UNCHANGED <<source, job, rows>>

Init == LongInit /\ faults = 0

Next ==
  \/ /\ \/ \E p \in Callers, c \in Candidates : Confirm(p, c)
        \/ \E p \in Callers : Persist(p)
     /\ UNCHANGED faults
  \/ /\ CallsDie \/ \E p \in Callers : CallFails(p)
     /\ faults < MaxFaults /\ faults' = faults + 1

Spec == Init /\ [][Next]_vars

-----------------------------------------------------------------------------
(* Safety.                                                                 *)

\* The rows of a job are there exactly when its status says so, and once: two
\* threads that materialize one claim, a failure recorded by one of them and a
\* replay after a crash never leave rows without their status or twice.
RowsMatchStatus ==
  \A j \in Jobs : rows[j] = IF job[j].status \in Materialized THEN 1 ELSE 0

\* "reuse only a terminal successful pending materialization": one material is
\* written at most once, and whatever reuses it names the job that wrote it.
OneMaterialization ==
  /\ \A i, j \in Jobs : i # j /\ MaterialOf[i] = MaterialOf[j] => rows[i] + rows[j] <= 1
  /\ \A j \in Jobs : job[j].status = "REUSED" =>
       /\ job[j].of \in Jobs \ {j} /\ job[job[j].of].status \in Materialized
       /\ MaterialOf[job[j].of] = MaterialOf[j]

\* A caller that is told its candidate is in Long can rely on it: the rows of
\* its material were committed, by whichever thread or job.
AnswerIsTrue ==
  \A p \in Callers :
    call[p].answer \in Materialized \cup {"REUSED"} =>
      \E j \in Jobs : MaterialOf[j] = MaterialOf[Asked(p)] /\ rows[j] = 1

\* A job that has ended is never claimed, failed or materialized again, and no
\* row is ever taken back.
JobsAreFinal ==
  [][ \A j \in Jobs : /\ job[j].status \in Final => job'[j] = job[j]
                      /\ rows[j] <= rows'[j] ]_vars

-----------------------------------------------------------------------------
(* The inductive invariant: what a thread in the middle of a call knows.   *)

\* A job that was claimed for a materialization owns its material, and nobody
\* else does.
OwnerInv ==
  /\ \A j \in Jobs :
       /\ job[j].owns <=> job[j].status \in Materialized \cup {"PROCESSING", "FAILED"}
       /\ job[j].status = "NONE" => job[j] = NoJob
       /\ job[j].status # "NONE" => JobOf[job[j].basis] = j /\ job[j].basis # None
  /\ \A i, j \in Jobs :
       job[i].owns /\ job[j].owns /\ MaterialOf[i] = MaterialOf[j] => i = j

Knows(p) ==
  /\ call[p].pc # "idle" => call[p].cand # None
  /\ call[p].answer # None => call[p].cand # None /\ call[p].pc = "idle"
  /\ call[p].pc \in {"materialize", "fail"} => job[Asked(p)].owns
  /\ call[p].pc = "result" => job[Asked(p)].status \in Final
  /\ call[p].pc = "insert" /\ call[p].owner # NoOwner =>
       /\ call[p].owner.job \in Owners(Asked(p))
       /\ call[p].owner.status # "NONE"
       /\ call[p].owner.status \in Materialized =>
            job[call[p].owner.job].status = call[p].owner.status

CallInv == \A p \in Callers : Knows(p)

LongInv ==
  /\ LongTypeOK /\ OwnerInv /\ CallInv
  /\ RowsMatchStatus /\ OneMaterialization /\ AnswerIsTrue
=============================================================================
