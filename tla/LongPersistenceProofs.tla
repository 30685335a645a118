------------------------ MODULE LongPersistenceProofs -------------------------
(***************************************************************************)
(* Proofs about LongPersistence, for every number of threads, candidates,  *)
(* materials and faults.                                                   *)
(***************************************************************************)
EXTENDS LongPersistence, TLAPS

-----------------------------------------------------------------------------
(* A step of the callers, by itself or as a part of a larger system's.     *)

LongStep ==
  \/ \E p \in Callers : Persist(p) \/ CallFails(p) \/ \E c \in Candidates : Confirm(p, c)
  \/ CallsDie
  \/ UNCHANGED longVars

LEMMA NextIsLongStep == [Next]_vars => LongStep
BY DEF Next, vars, LongStep

(* What a step does to the database: it leaves it alone, claims a job,     *)
(* materializes one, or records its failure.                               *)

Untouched == UNCHANGED <<job, rows>>

Claims(j, claimed) ==
  /\ job[j].status = "NONE" /\ claimed \in Job
  /\ claimed.basis # None /\ JobOf[claimed.basis] = j
  /\ claimed.status \in {"PROCESSING", "HELD", "REUSED", "RECOVERY_REQUIRED"}
  /\ claimed.owns <=> claimed.status = "PROCESSING"
  /\ claimed.owns => Owners(j) = {}
  /\ claimed.status = "REUSED" =>
       claimed.of \in Owners(j) /\ job[claimed.of].status \in Materialized
  /\ job' = [job EXCEPT ![j] = claimed] /\ UNCHANGED rows

Materializes(j) ==
  /\ job[j].status = "PROCESSING"
  /\ \E s \in Materialized : job' = [job EXCEPT ![j].status = s]
  /\ rows' = [rows EXCEPT ![j] = @ + 1]

FailsJob(j) ==
  /\ job[j].status = "PROCESSING"
  /\ job' = [job EXCEPT ![j].status = "FAILED"] /\ UNCHANGED rows

\* A thread in the middle of a call has a candidate, hence a job.
LEMMA AskedIsJob ==
  ASSUME LongInv, NEW p \in Callers, call[p].pc # "idle"
  PROVE  call[p].cand \in Candidates /\ call[p].cand # None /\ Asked(p) \in Jobs
<1>1. call[p] \in Call BY DEF LongInv, LongTypeOK
<1>2. call[p].cand \in Candidates \cup {None} BY <1>1 DEF Call
<1>3. call[p].cand # None BY DEF LongInv, CallInv, Knows
<1> QED BY <1>2, <1>3, LongAssumption DEF Asked

\* What an owner looked like when it was seen now.
LEMMA SeenOwner ==
  ASSUME LongInv, NEW j \in Jobs, NEW k \in Owners(j)
  PROVE  /\ Seen(k) \in Owner /\ Seen(k) # NoOwner /\ Seen(k).job = k
         /\ Seen(k).status = job[k].status /\ Seen(k).status # "NONE"
<1>1. k \in Jobs /\ job[k].owns BY DEF Owners
<1>2. job[k] \in Job BY <1>1 DEF LongInv, LongTypeOK
<1>3. job[k].status \in Final \cup {"NONE", "PROCESSING"} BY <1>2 DEF Job
<1>4. job[k].status # "NONE" BY <1>1, <1>3 DEF LongInv, OwnerInv, Materialized
<1>5. k # None BY <1>1, LongAssumption
<1> QED BY <1>1, <1>3, <1>4, <1>5 DEF Seen, Owner, NoOwner

\* An owner a claim goes by: none was seen, or it still owns the material and,
\* if it was done, still is.
Trusted(j, owner) ==
  \/ owner = NoOwner
  \/ /\ owner \in Owner /\ owner # NoOwner /\ owner.job \in Owners(j) /\ owner.status # "NONE"
     /\ owner.status \in Materialized => job[owner.job].status = owner.status

\* The job a claim inserts for a trusted owner.
LEMMA ClaimedIsSound ==
  ASSUME LongInv, NEW j \in Jobs, NEW c \in Candidates, NEW owner, Trusted(j, owner),
         c # None, JobOf[c] = j, job[j].status = "NONE",
         ~ (ClaimedJob(c, owner).owns /\ Owners(j) # {}),
         job' = [job EXCEPT ![j] = ClaimedJob(c, owner)], UNCHANGED rows
  PROVE  Claims(j, ClaimedJob(c, owner))
<1> DEFINE claimed == ClaimedJob(c, owner)
<1>1. /\ NoOwner \in Owner /\ NoOwner.status = "NONE" /\ NoOwner.job = None
      /\ owner \in Owner
  BY DEF Trusted, NoOwner, Owner
<1>2. owner.job \in Jobs \cup {None} /\ owner.status \in Final \cup {"NONE", "PROCESSING"}
  BY <1>1 DEF Owner
<1>3. owner.status = "NONE" <=> owner = NoOwner BY <1>1 DEF Trusted
<1>4. /\ claimed.basis = c
      /\ claimed.status = IF LoadOf[c] = "HELD" THEN "HELD"
              ELSE IF owner.status \in Materialized THEN "REUSED"
              ELSE IF owner.status = "NONE" THEN "PROCESSING"
              ELSE "RECOVERY_REQUIRED"
      /\ claimed.owns = (LoadOf[c] # "HELD" /\ owner = NoOwner)
      /\ claimed.of = IF LoadOf[c] = "HELD" THEN None ELSE owner.job
  BY DEF ClaimedJob
<1>5. claimed.status \in {"PROCESSING", "HELD", "REUSED", "RECOVERY_REQUIRED"} BY <1>4
<1>6. claimed.owns <=> claimed.status = "PROCESSING" BY <1>3, <1>4 DEF Materialized
<1>7. claimed \in Job BY <1>2, <1>4, <1>5 DEF ClaimedJob, Job, Final
<1>8. ASSUME claimed.status = "REUSED"
      PROVE  claimed.of \in Owners(j) /\ job[claimed.of].status \in Materialized
  <2>1. LoadOf[c] # "HELD" /\ owner.status \in Materialized BY <1>8, <1>4
  <2>2. owner # NoOwner BY <2>1, <1>3 DEF Materialized
  <2> QED BY <2>1, <2>2, <1>4 DEF Trusted
<1>9. claimed.owns => Owners(j) = {} OBVIOUS
<1> HIDE DEF claimed
<1> QED BY <1>4, <1>5, <1>6, <1>7, <1>8, <1>9 DEF Claims, claimed

LEMMA OwnerInHand ==
  ASSUME LongInv, NEW p \in Callers, call[p].pc = "insert"
  PROVE  Trusted(Asked(p), call[p].owner)
<1>1. call[p] \in Call BY DEF LongInv, LongTypeOK
<1>2. call[p].owner \in Owner BY <1>1 DEF Call
<1> QED BY <1>2 DEF LongInv, CallInv, Knows, Trusted

LEMMA DataStep ==
  ASSUME LongInv, LongStep
  PROVE  \/ Untouched
         \/ \E j \in Jobs : \/ \E claimed \in Job : Claims(j, claimed)
                            \/ Materializes(j) \/ FailsJob(j)
<1>1. ASSUME NEW p \in Callers, Insert(p)
      PROVE  Untouched \/ \E j \in Jobs : \E claimed \in Job : Claims(j, claimed)
  <2> DEFINE j == Asked(p)
  <2>1. /\ call[p].pc = "insert"
        /\ call[p].cand \in Candidates /\ call[p].cand # None /\ j \in Jobs
    BY <1>1, AskedIsJob DEF Insert
  <2>2. PICK owner \in IF call[p].fresh /\ Owners(j) # {} THEN {Seen(k) : k \in Owners(j)}
                       ELSE {call[p].owner} :
          \/ Untouched
          \/ /\ ~ (ClaimedJob(call[p].cand, owner).owns /\ Owners(j) # {})
             /\ job[j].status = "NONE"
             /\ job' = [job EXCEPT ![j] = ClaimedJob(call[p].cand, owner)]
             /\ UNCHANGED rows
    BY <1>1 DEF Insert, Untouched
  <2>3. Trusted(j, owner)
    <3>1. CASE call[p].fresh /\ Owners(j) # {}
      <4>1. PICK k \in Owners(j) : owner = Seen(k) BY <2>2, <3>1
      <4> QED BY <2>1, <4>1, SeenOwner DEF Trusted
    <3>2. CASE ~ (call[p].fresh /\ Owners(j) # {})
      <4>1. owner = call[p].owner BY <2>2, <3>2
      <4> QED BY <2>1, <4>1, OwnerInHand
    <3> QED BY <3>1, <3>2
  <2>4. JobOf[call[p].cand] = j BY DEF Asked
  <2>5. CASE ~ Untouched
    <3>1. Claims(j, ClaimedJob(call[p].cand, owner))
      BY <2>1, <2>2, <2>3, <2>4, <2>5, ClaimedIsSound
    <3> QED BY <3>1, <2>1 DEF Claims
  <2> QED BY <2>5
<1>2. ASSUME NEW p \in Callers, Materialize(p)
      PROVE  Untouched \/ \E j \in Jobs : Materializes(j)
  <2>1. Asked(p) \in Jobs BY <1>2, AskedIsJob DEF Materialize
  <2>2. CASE MayMaterialize(p)
    <3>1. Materializes(Asked(p))
      BY <1>2, <2>2 DEF Materialize, MayMaterialize, WriteRows, Materializes, Materialized
    <3> QED BY <2>1, <3>1
  <2>3. CASE ~ MayMaterialize(p)
    BY <1>2, <2>3 DEF Materialize, Untouched
  <2> QED BY <2>2, <2>3
<1>3. ASSUME NEW p \in Callers, RecordFailure(p)
      PROVE  Untouched \/ \E j \in Jobs : FailsJob(j)
  <2>1. Asked(p) \in Jobs BY <1>3, AskedIsJob DEF RecordFailure
  <2>2. CASE job[Asked(p)].status = "PROCESSING"
    <3>1. FailsJob(Asked(p)) BY <1>3, <2>2 DEF RecordFailure, FailsJob
    <3> QED BY <2>1, <3>1
  <2>3. CASE job[Asked(p)].status # "PROCESSING"
    BY <1>3, <2>3 DEF RecordFailure, Untouched
  <2> QED BY <2>2, <2>3
<1>4. ASSUME NEW p \in Callers,
             (\E c \in Candidates : Confirm(p, c)) \/ Lookup(p) \/ Result(p) \/ CallFails(p)
      PROVE  Untouched
  BY <1>4 DEF Confirm, Lookup, Result, CallFails, Untouched
<1>5. CASE CallsDie BY <1>5 DEF CallsDie, Untouched
<1>6. CASE UNCHANGED longVars BY <1>6 DEF longVars, Untouched
<1> QED BY <1>1, <1>2, <1>3, <1>4, <1>5, <1>6 DEF LongStep, Persist

-----------------------------------------------------------------------------
(* What the database remembers.                                            *)

\* A job keeps what it has come to.
Remembers ==
  /\ \A j \in Jobs : job[j].status \in Final => job'[j] = job[j]
  /\ \A j \in Jobs : job[j].status # "NONE" => job'[j].status # "NONE"
  /\ \A j \in Jobs : job[j].owns => job'[j].owns
  /\ \A j \in Jobs : rows[j] <= rows'[j]

LEMMA Memory ==
  ASSUME LongInv, LongStep
  PROVE  Remembers
<1>1. job \in [Jobs -> Job] /\ rows \in [Jobs -> Nat] BY DEF LongInv, LongTypeOK
<1>2. CASE Untouched BY <1>1, <1>2 DEF Untouched, Remembers
<1>3. ASSUME NEW k \in Jobs, NEW claimed \in Job, Claims(k, claimed)
      PROVE  Remembers
  <2>1. /\ job[k].status = "NONE" /\ claimed.status # "NONE"
        /\ job' = [job EXCEPT ![k] = claimed] /\ rows' = rows
    BY <1>3 DEF Claims
  <2>2. job[k].owns = FALSE BY <2>1 DEF LongInv, OwnerInv, NoJob
  <2>3. "NONE" \notin Final BY DEF Final, Materialized
  <2>4. \A j \in Jobs : job'[j] = IF j = k THEN claimed ELSE job[j] BY <1>1, <2>1
  <2> QED BY <1>1, <2>1, <2>2, <2>3, <2>4 DEF Remembers
<1>4. ASSUME NEW k \in Jobs, job[k].status = "PROCESSING",
             NEW s \in Materialized \cup {"FAILED"},
             job' = [job EXCEPT ![k].status = s],
             rows' = rows \/ rows' = [rows EXCEPT ![k] = @ + 1]
      PROVE  Remembers
  <2>1. s # "NONE" /\ "PROCESSING" \notin Final BY DEF Final, Materialized
  <2>2. job[k] \in Job BY <1>1
  <2>3. job'[k].status = s /\ job'[k].owns = job[k].owns BY <1>1, <1>4, <2>2 DEF Job
  <2>4. \A j \in Jobs : j # k => job'[j] = job[j] BY <1>1, <1>4
  <2>5. \A j \in Jobs : rows[j] <= rows'[j] BY <1>1, <1>4
  <2> QED BY <1>4, <2>1, <2>3, <2>4, <2>5 DEF Remembers
<1>5. ASSUME NEW k \in Jobs, Materializes(k) PROVE Remembers
  BY <1>4, <1>5 DEF Materializes
<1>6. ASSUME NEW k \in Jobs, FailsJob(k) PROVE Remembers
  BY <1>4, <1>6 DEF FailsJob
<1> QED BY DataStep, <1>2, <1>3, <1>5, <1>6

-----------------------------------------------------------------------------
(* Types.                                                                  *)

LEMMA DataTypes ==
  ASSUME LongInv, LongStep
  PROVE  job' \in [Jobs -> Job] /\ rows' \in [Jobs -> Nat]
<1>1. job \in [Jobs -> Job] /\ rows \in [Jobs -> Nat] BY DEF LongInv, LongTypeOK
<1>2. ASSUME NEW k \in Jobs, NEW claimed \in Job, Claims(k, claimed)
      PROVE  job' \in [Jobs -> Job] /\ rows' \in [Jobs -> Nat]
  BY <1>1, <1>2 DEF Claims
<1>3. ASSUME NEW k \in Jobs, NEW s \in Materialized \cup {"FAILED"},
             job' = [job EXCEPT ![k].status = s]
      PROVE  job' \in [Jobs -> Job]
  <2>1. [job[k] EXCEPT !.status = s] \in Job BY <1>1 DEF Job, Final
  <2> QED BY <1>1, <1>3, <2>1
<1>4. ASSUME NEW k \in Jobs, Materializes(k)
      PROVE  job' \in [Jobs -> Job] /\ rows' \in [Jobs -> Nat]
  <2>1. PICK s \in Materialized : job' = [job EXCEPT ![k].status = s]
    BY <1>4 DEF Materializes
  <2>2. job' \in [Jobs -> Job] BY <1>3, <2>1
  <2>3. rows' = [rows EXCEPT ![k] = @ + 1] BY <1>4 DEF Materializes
  <2>4. rows' \in [Jobs -> Nat] BY <1>1, <2>3
  <2> QED BY <2>2, <2>4
<1>5. ASSUME NEW k \in Jobs, FailsJob(k)
      PROVE  job' \in [Jobs -> Job] /\ rows' \in [Jobs -> Nat]
  BY <1>1, <1>3, <1>5 DEF FailsJob
<1>6. ASSUME Untouched PROVE job' \in [Jobs -> Job] /\ rows' \in [Jobs -> Nat]
  BY <1>1, <1>6 DEF Untouched
<1> QED BY <1>2, <1>4, <1>5, <1>6, DataStep

LEMMA GotoTypes ==
  ASSUME LongInv, NEW p \in Callers, NEW label \in {"idle", "lookup", "insert", "materialize", "fail", "result"},
         Goto(p, label)
  PROVE  /\ call' \in [Callers -> Call]
         /\ call'[p] = [call[p] EXCEPT !.pc = label]
         /\ \A q \in Callers : q # p => call'[q] = call[q]
<1>1. call \in [Callers -> Call] BY DEF LongInv, LongTypeOK
<1>2. [call[p] EXCEPT !.pc = label] \in Call BY <1>1 DEF Call
<1> QED BY <1>1, <1>2 DEF Goto

LEMMA AnswerTypes ==
  ASSUME LongInv, NEW p \in Callers, NEW a \in Answers, Answer(p, a)
  PROVE  /\ call' \in [Callers -> Call]
         /\ call'[p].pc = "idle" /\ call'[p].cand = call[p].cand /\ call'[p].answer = a
         /\ \A q \in Callers : q # p => call'[q] = call[q]
<1>1. call \in [Callers -> Call] BY DEF LongInv, LongTypeOK
<1>2. call[p].cand \in Candidates \cup {None} BY <1>1 DEF Call
<1>3. NoOwner \in Owner BY DEF NoOwner, Owner
<1>4. NoCall \in Call /\ NoCall.pc = "idle" BY <1>3 DEF Call, NoCall
<1> DEFINE new == [NoCall EXCEPT !.cand = call[p].cand, !.answer = a]
<1>5. new \in Call BY <1>2, <1>4 DEF Call
<1>6. call' = [call EXCEPT ![p] = new] BY DEF Answer
<1>7. new.pc = "idle" /\ new.cand = call[p].cand /\ new.answer = a BY <1>4 DEF Call
<1> HIDE DEF new
<1> QED BY <1>1, <1>5, <1>6, <1>7

-----------------------------------------------------------------------------
(* What a thread knows.                                                    *)

\* A thread that did not move still knows what it knew.
LEMMA OthersKnow ==
  ASSUME LongInv, Remembers, NEW q \in Callers, call'[q] = call[q]
  PROVE  Knows(q)'
<1>1. Knows(q) /\ Asked(q)' = Asked(q) BY DEF LongInv, CallInv, Asked
<1>2. ASSUME call[q].pc \in {"materialize", "fail"} PROVE job'[Asked(q)].owns
  <2>1. Asked(q) \in Jobs BY <1>2, AskedIsJob
  <2> QED BY <1>1, <1>2, <2>1 DEF Knows, Remembers
<1>3. ASSUME call[q].pc = "result" PROVE job'[Asked(q)].status \in Final
  <2>1. Asked(q) \in Jobs BY <1>3, AskedIsJob
  <2> QED BY <1>1, <1>3, <2>1 DEF Knows, Remembers
<1>4. ASSUME call[q].pc = "insert", call[q].owner # NoOwner
      PROVE  /\ call[q].owner.job \in Owners(Asked(q))'
             /\ call[q].owner.status # "NONE"
             /\ call[q].owner.status \in Materialized =>
                  job'[call[q].owner.job].status = call[q].owner.status
  <2> DEFINE k == call[q].owner.job
  <2>1. k \in Owners(Asked(q)) /\ call[q].owner.status # "NONE" BY <1>1, <1>4 DEF Knows
  <2>2. k \in Jobs /\ job[k].owns /\ MaterialOf[k] = MaterialOf[Asked(q)] BY <2>1 DEF Owners
  <2>3. k \in Owners(Asked(q))' BY <1>1, <2>2 DEF Owners, Remembers
  <2>4. ASSUME call[q].owner.status \in Materialized
        PROVE  job'[k].status = call[q].owner.status
    <3>1. job[k].status = call[q].owner.status BY <1>1, <1>4, <2>4 DEF Knows
    <3> QED BY <2>2, <2>4, <3>1 DEF Remembers, Final
  <2> QED BY <2>1, <2>3, <2>4
<1> QED BY <1>1, <1>2, <1>3, <1>4 DEF Knows

LEMMA NothingAnswered ==
  ASSUME LongInv, NEW p \in Callers, call[p].pc # "idle"
  PROVE  call[p].answer = None
BY DEF LongInv, CallInv, Knows

\* A thread that was answered knows its candidate.
LEMMA AnsweredKnows ==
  ASSUME LongInv, NEW p \in Callers, call[p].pc # "idle", NEW a \in Answers, Answer(p, a)
  PROVE  Knows(p)'
<1>1. call'[p].pc = "idle" /\ call'[p].cand = call[p].cand BY AnswerTypes
<1>2. call[p].cand # None BY AskedIsJob
<1> QED BY <1>1, <1>2 DEF Knows

\* A thread that goes on knows why.
LEMMA MovedKnows ==
  ASSUME LongInv, NEW p \in Callers, call[p].pc # "idle",
         NEW label \in {"lookup", "materialize", "fail", "result"}, Goto(p, label),
         label \in {"materialize", "fail"} => job'[Asked(p)].owns,
         label = "result" => job'[Asked(p)].status \in Final
  PROVE  Knows(p)'
<1>1. call[p] \in Call BY DEF LongInv, LongTypeOK
<1>2. call'[p] = [call[p] EXCEPT !.pc = label] BY GotoTypes
<1>3. call'[p].pc = label /\ call'[p].cand = call[p].cand /\ call'[p].answer = call[p].answer
  BY <1>1, <1>2 DEF Call
<1>4. call[p].cand # None BY AskedIsJob
<1>5. Asked(p)' = Asked(p) BY <1>3 DEF Asked
<1> QED BY <1>3, <1>4, <1>5, NothingAnswered DEF Knows

-----------------------------------------------------------------------------
(* Each step of a thread.                                                  *)

Success == Materialized \cup {"REUSED"}

\* The thread p moved, knows what it has to, and was told only what its job says.
Moved(p) ==
  /\ call' \in [Callers -> Call]
  /\ \A q \in Callers : q # p => call'[q] = call[q]
  /\ Knows(p)'
  /\ call'[p].answer \in Success =>
       /\ Asked(p) \in Jobs /\ Asked(p)' = Asked(p)
       /\ call'[p].answer = job[Asked(p)].status

\* An error, or the status of the job, is an answer.
LEMMA AnswerMoves ==
  ASSUME LongInv, NEW p \in Callers, call[p].pc # "idle", NEW a \in Answers, Answer(p, a),
         a \in Success => a = job[Asked(p)].status
  PROVE  Moved(p)
<1>1. Knows(p)' BY AnsweredKnows
<1>2. /\ call' \in [Callers -> Call] /\ \A q \in Callers : q # p => call'[q] = call[q]
      /\ call'[p].cand = call[p].cand /\ call'[p].answer = a
  BY AnswerTypes
<1>3. Asked(p)' = Asked(p) BY <1>2 DEF Asked
<1> QED BY <1>1, <1>2, <1>3, AskedIsJob DEF Moved

LEMMA ErrorMoves ==
  ASSUME LongInv, NEW p \in Callers, call[p].pc # "idle", Answer(p, "ERROR")
  PROVE  Moved(p)
<1>1. "ERROR" \in Answers /\ "ERROR" \notin Success
  BY DEF Answers, Success, Materialized
<1> QED BY <1>1, AnswerMoves

LEMMA GotoMoves ==
  ASSUME LongInv, NEW p \in Callers, call[p].pc # "idle",
         NEW label \in {"lookup", "materialize", "fail", "result"}, Goto(p, label),
         label \in {"materialize", "fail"} => job'[Asked(p)].owns,
         label = "result" => job'[Asked(p)].status \in Final
  PROVE  Moved(p)
<1>1. Knows(p)' BY MovedKnows
<1>2. /\ call' \in [Callers -> Call] /\ \A q \in Callers : q # p => call'[q] = call[q]
      /\ call'[p] = [call[p] EXCEPT !.pc = label]
  BY GotoTypes
<1>3. call[p] \in Call BY DEF LongInv, LongTypeOK
<1>4. call'[p].answer = None BY <1>2, <1>3, NothingAnswered DEF Call
<1>5. None \notin Success BY NoneAssumption DEF Success, Answers, Final
<1> QED BY <1>1, <1>2, <1>4, <1>5 DEF Moved

LEMMA ConfirmMoves ==
  ASSUME LongInv, NEW p \in Callers, NEW c \in Candidates, Confirm(p, c)
  PROVE  Moved(p)
<1> DEFINE new == [NoCall EXCEPT !.pc = "lookup", !.cand = c]
<1>1. call \in [Callers -> Call] BY DEF LongInv, LongTypeOK
<1>2. NoOwner \in Owner BY DEF NoOwner, Owner
<1>3. NoCall \in Call /\ NoCall.answer = None BY <1>2 DEF Call, NoCall
<1>4. new \in Call BY <1>3 DEF Call
<1>5. new.pc = "lookup" /\ new.cand = c /\ new.answer = None BY <1>3 DEF Call
<1>6. call' = [call EXCEPT ![p] = new] BY DEF Confirm
<1> HIDE DEF new
<1>7. /\ call' \in [Callers -> Call] /\ call'[p] = new
      /\ \A q \in Callers : q # p => call'[q] = call[q]
  BY <1>1, <1>4, <1>6
<1>8. c # None BY LongAssumption
<1>9. Knows(p)' BY <1>5, <1>7, <1>8 DEF Knows
<1>10. None \notin Success BY NoneAssumption DEF Success, Answers, Final
<1> QED BY <1>5, <1>7, <1>9, <1>10 DEF Moved

LEMMA LookupMoves ==
  ASSUME LongInv, NEW p \in Callers, Lookup(p)
  PROVE  Moved(p)
<1> DEFINE j == Asked(p)
<1>0. call[p].pc = "lookup" BY DEF Lookup
<1>1. call \in [Callers -> Call] /\ job[j] \in Job /\ j \in Jobs
  BY <1>0, AskedIsJob DEF LongInv, LongTypeOK
<1>2. job' = job /\ call[p].pc # "idle" BY <1>0 DEF Lookup
<1>3. CASE job[j].status # "NONE" /\ job[j].basis # call[p].cand
  <2>1. Answer(p, "ERROR") BY <1>3 DEF Lookup
  <2> QED BY <1>2, <2>1, ErrorMoves
<1>4. CASE job[j].status = "PROCESSING" /\ job[j].basis = call[p].cand
  <2>1. Goto(p, "materialize") BY <1>4 DEF Lookup
  <2>2. job'[j].owns BY <1>1, <1>2, <1>4 DEF LongInv, OwnerInv
  <2> QED BY <1>2, <2>1, <2>2, GotoMoves
<1>5. CASE job[j].status \notin {"NONE", "PROCESSING"} /\ job[j].basis = call[p].cand
  <2>1. Goto(p, "result") BY <1>5 DEF Lookup
  <2>2. job'[j].status \in Final BY <1>1, <1>2, <1>5 DEF Job
  <2> QED BY <1>2, <2>1, <2>2, GotoMoves
<1>6. CASE job[j].status = "NONE"
  <2>1. PICK owner \in IF Owners(j) = {} THEN {NoOwner} ELSE {Seen(k) : k \in Owners(j)} :
          call' = [call EXCEPT ![p].pc = "insert",
                               ![p].fresh = SourceOf[j] \notin source,
                               ![p].owner = owner]
    BY <1>6 DEF Lookup
  <2>0. NoOwner \in Owner BY DEF NoOwner, Owner
  <2>2. /\ owner \in Owner
        /\ owner # NoOwner => /\ owner.job \in Owners(j) /\ owner.status # "NONE"
                              /\ job[owner.job].status = owner.status
    <3>1. CASE Owners(j) = {} BY <2>0, <2>1, <3>1
    <3>2. CASE Owners(j) # {}
      <4>1. PICK k \in Owners(j) : owner = Seen(k) BY <2>1, <3>2
      <4> QED BY <1>1, <4>1, SeenOwner
    <3> QED BY <3>1, <3>2
  <2> DEFINE new == [call[p] EXCEPT !.pc = "insert", !.fresh = SourceOf[j] \notin source,
                                    !.owner = owner]
  <2>3. call' = [call EXCEPT ![p] = new] BY <1>1, <2>1
  <2>4. call[p] \in Call /\ (SourceOf[j] \notin source) \in BOOLEAN BY <1>1
  <2>5. new \in Call BY <2>2, <2>4 DEF Call
  <2>6. /\ new.pc = "insert" /\ new.cand = call[p].cand /\ new.owner = owner
        /\ new.answer = call[p].answer
    BY <2>4 DEF Call
  <2> HIDE DEF new
  <2>7. /\ call' \in [Callers -> Call] /\ call'[p] = new
        /\ \A q \in Callers : q # p => call'[q] = call[q]
    BY <1>1, <2>3, <2>5
  <2>8. new.answer = None /\ None \notin Success
    BY <1>2, <2>6, NothingAnswered, NoneAssumption DEF Success, Answers, Final
  <2>9. Asked(p)' = j /\ new.cand # None BY <1>2, <2>6, <2>7, AskedIsJob DEF Asked
  <2>10. Owners(Asked(p))' = Owners(Asked(p)) BY <1>2, <2>9 DEF Owners
  <2>11. Knows(p)' BY <1>2, <2>2, <2>6, <2>7, <2>8, <2>9, <2>10 DEF Knows
  <2> QED BY <2>7, <2>8, <2>11 DEF Moved
<1> QED BY <1>1, <1>3, <1>4, <1>5, <1>6

LEMMA InsertMoves ==
  ASSUME LongInv, LongStep, NEW p \in Callers, Insert(p)
  PROVE  Moved(p)
<1> DEFINE j == Asked(p)
<1>1. /\ call[p].pc = "insert" /\ call[p].pc # "idle" /\ j \in Jobs
      /\ call[p].cand \in Candidates /\ call[p].cand # None
  BY AskedIsJob DEF Insert
<1>2. job \in [Jobs -> Job] BY DEF LongInv, LongTypeOK
<1>3. CASE Answer(p, "ERROR") BY <1>1, <1>3, ErrorMoves
<1>4. CASE ~ Answer(p, "ERROR")
  <2>1. PICK owner \in IF call[p].fresh /\ Owners(j) # {} THEN {Seen(k) : k \in Owners(j)}
                       ELSE {call[p].owner} :
          /\ ~ (ClaimedJob(call[p].cand, owner).owns /\ Owners(j) # {})
          /\ job[j].status = "NONE"
          /\ job' = [job EXCEPT ![j] = ClaimedJob(call[p].cand, owner)]
          /\ UNCHANGED rows
          /\ Goto(p, IF ClaimedJob(call[p].cand, owner).status = "PROCESSING"
                     THEN "materialize" ELSE "result")
    BY <1>4 DEF Insert
  <2>2. Trusted(j, owner)
    <3>1. CASE call[p].fresh /\ Owners(j) # {}
      <4>1. PICK k \in Owners(j) : owner = Seen(k) BY <2>1, <3>1
      <4> QED BY <1>1, <4>1, SeenOwner DEF Trusted
    <3>2. CASE ~ (call[p].fresh /\ Owners(j) # {})
      <4>1. owner = call[p].owner BY <2>1, <3>2
      <4> QED BY <1>1, <4>1, OwnerInHand
    <3> QED BY <3>1, <3>2
  <2> DEFINE claimed == ClaimedJob(call[p].cand, owner)
  <2>3. JobOf[call[p].cand] = j BY DEF Asked
  <2>4. Claims(j, claimed) BY <1>1, <2>1, <2>2, <2>3, ClaimedIsSound
  <2>5. /\ claimed.status \in {"PROCESSING", "HELD", "REUSED", "RECOVERY_REQUIRED"}
        /\ claimed.owns <=> claimed.status = "PROCESSING"
        /\ job'[j] = claimed
    BY <1>1, <1>2, <2>4 DEF Claims
  <2>6. CASE claimed.status = "PROCESSING"
    <3>1. Goto(p, "materialize") /\ job'[j].owns BY <2>1, <2>5, <2>6
    <3> QED BY <1>1, <3>1, GotoMoves
  <2>7. CASE claimed.status # "PROCESSING"
    <3>1. Goto(p, "result") BY <2>1, <2>7
    <3>2. job'[j].status \in Final BY <2>5, <2>7 DEF Final
    <3> QED BY <1>1, <3>1, <3>2, GotoMoves
  <2> QED BY <2>6, <2>7
<1> QED BY <1>3, <1>4

LEMMA MaterializeMoves ==
  ASSUME LongInv, NEW p \in Callers, Materialize(p)
  PROVE  Moved(p)
<1> DEFINE j == Asked(p)
<1>1. call[p].pc = "materialize" /\ call[p].pc # "idle" /\ j \in Jobs
  BY AskedIsJob DEF Materialize
<1>2. job \in [Jobs -> Job] BY DEF LongInv, LongTypeOK
<1>3. job[j].owns BY <1>1 DEF LongInv, CallInv, Knows
<1>4. CASE MayMaterialize(p)
  <2>1. PICK s \in Materialized : job' = [job EXCEPT ![j].status = s]
    BY <1>4 DEF Materialize, Materialized
  <2>2. job'[j].status \in Final BY <1>1, <1>2, <2>1 DEF Job, Final
  <2>3. Goto(p, "result") BY <1>4 DEF Materialize
  <2> QED BY <1>1, <2>2, <2>3, GotoMoves
<1>5. CASE ~ MayMaterialize(p)
  <2>1. Goto(p, "fail") /\ job' = job BY <1>5 DEF Materialize
  <2>2. job'[j].owns BY <1>3, <2>1
  <2> QED BY <1>1, <2>1, <2>2, GotoMoves
<1> QED BY <1>4, <1>5

LEMMA OtherMoves ==
  ASSUME LongInv, NEW p \in Callers, RecordFailure(p) \/ Result(p) \/ CallFails(p)
  PROVE  Moved(p)
<1>1. CASE RecordFailure(p)
  <2>1. call[p].pc # "idle" /\ Answer(p, "ERROR") BY <1>1 DEF RecordFailure
  <2> QED BY <2>1, ErrorMoves
<1>2. CASE Result(p)
  <2>1. call[p].pc = "result" /\ Answer(p, job[Asked(p)].status) BY <1>2 DEF Result
  <2>2. job[Asked(p)].status \in Answers
    BY <2>1 DEF LongInv, CallInv, Knows, Answers
  <2> QED BY <2>1, <2>2, AnswerMoves
<1>3. CASE CallFails(p)
  <2>1. CASE call[p].pc = "materialize" /\ Goto(p, "fail")
    <3>1. job[Asked(p)].owns BY <2>1 DEF LongInv, CallInv, Knows
    <3>2. job'[Asked(p)].owns BY <1>3, <3>1 DEF CallFails
    <3> QED BY <2>1, <3>2, GotoMoves
  <2>2. CASE call[p].pc # "idle" /\ Answer(p, "ERROR") BY <2>2, ErrorMoves
  <2> QED BY <1>3, <2>1, <2>2 DEF CallFails
<1> QED BY <1>1, <1>2, <1>3

LEMMA CallStep ==
  ASSUME LongInv, LongStep
  PROVE  (\E p \in Callers : Moved(p)) \/ CallsDie \/ UNCHANGED call
<1>1. ASSUME NEW p \in Callers, Persist(p) PROVE Moved(p)
  BY <1>1, LookupMoves, InsertMoves, MaterializeMoves, OtherMoves DEF Persist
<1>2. ASSUME NEW p \in Callers, NEW c \in Candidates, Confirm(p, c) PROVE Moved(p)
  BY <1>2, ConfirmMoves
<1>3. ASSUME NEW p \in Callers, CallFails(p) PROVE Moved(p)
  BY <1>3, OtherMoves
<1>4. CASE UNCHANGED longVars BY <1>4 DEF longVars
<1> QED BY <1>1, <1>2, <1>3, <1>4 DEF LongStep

-----------------------------------------------------------------------------
(* The parts of the invariant.                                             *)

LEMMA CallInvHolds ==
  ASSUME LongInv, LongStep
  PROVE  call' \in [Callers -> Call] /\ CallInv'
<1>1. Remembers BY Memory
<1>2. call \in [Callers -> Call] BY DEF LongInv, LongTypeOK
<1>3. ASSUME NEW p \in Callers, Moved(p)
      PROVE  call' \in [Callers -> Call] /\ CallInv'
  BY <1>1, <1>3, OthersKnow DEF Moved, CallInv
<1>4. CASE CallsDie
  <2>1. NoOwner \in Owner BY DEF NoOwner, Owner
  <2>2. NoCall \in Call /\ NoCall.pc = "idle" /\ NoCall.answer = None
    BY <2>1 DEF NoCall, Call
  <2>3. call' = [p \in Callers |-> NoCall] BY <1>4 DEF CallsDie
  <2>4. ASSUME NEW p \in Callers PROVE Knows(p)' BY <2>2, <2>3 DEF Knows
  <2> QED BY <2>2, <2>3, <2>4 DEF CallInv
<1>5. CASE UNCHANGED call BY <1>1, <1>2, <1>5, OthersKnow DEF CallInv
<1> QED BY <1>3, <1>4, <1>5, CallStep

LEMMA OwnerInvHolds ==
  ASSUME LongInv, LongStep
  PROVE  OwnerInv'
<1>1. job \in [Jobs -> Job] /\ OwnerInv BY DEF LongInv, LongTypeOK
<1>2. CASE Untouched BY <1>1, <1>2 DEF Untouched, OwnerInv
<1>3. ASSUME NEW k \in Jobs, NEW claimed \in Job, Claims(k, claimed)
      PROVE  OwnerInv'
  <2>1. \A j \in Jobs : job'[j] = IF j = k THEN claimed ELSE job[j] BY <1>1, <1>3 DEF Claims
  <2>2. /\ claimed.owns <=> claimed.status \in Materialized \cup {"PROCESSING", "FAILED"}
        /\ claimed.status # "NONE" /\ JobOf[claimed.basis] = k /\ claimed.basis # None
        /\ claimed.owns => Owners(k) = {}
    BY <1>3 DEF Claims, Materialized
  <2>3. ASSUME NEW i \in Jobs, NEW j \in Jobs, job'[i].owns, job'[j].owns,
               MaterialOf[i] = MaterialOf[j]
        PROVE  i = j
    <3>1. CASE i = k /\ j # k
      <4>1. claimed.owns /\ job[j].owns BY <2>1, <2>3, <3>1
      <4>2. j \in Owners(k) BY <2>3, <3>1, <4>1 DEF Owners
      <4> QED BY <2>2, <4>1, <4>2
    <3>2. CASE i # k /\ j = k
      <4>1. claimed.owns /\ job[i].owns BY <2>1, <2>3, <3>2
      <4>2. i \in Owners(k) BY <2>3, <3>2, <4>1 DEF Owners
      <4> QED BY <2>2, <4>1, <4>2
    <3>3. CASE i # k /\ j # k BY <1>1, <2>1, <2>3, <3>3 DEF OwnerInv
    <3> QED BY <3>1, <3>2, <3>3
  <2> QED BY <1>1, <2>1, <2>2, <2>3 DEF OwnerInv
<1>4. ASSUME NEW k \in Jobs, job[k].status = "PROCESSING",
             NEW s \in Materialized \cup {"FAILED"}, job' = [job EXCEPT ![k].status = s]
      PROVE  OwnerInv'
  <2>1. job[k] \in Job BY <1>1
  <2>2. /\ job'[k].status = s /\ job'[k].owns = job[k].owns /\ job'[k].basis = job[k].basis
        /\ \A j \in Jobs : j # k => job'[j] = job[j]
    BY <1>1, <1>4, <2>1 DEF Job
  <2>3. job[k].owns /\ s # "NONE" BY <1>1, <1>4 DEF OwnerInv, Materialized
  <2>4. \A j \in Jobs : job'[j].owns = job[j].owns BY <2>2
  <2>5. \A i, j \in Jobs : job'[i].owns /\ job'[j].owns /\ MaterialOf[i] = MaterialOf[j] => i = j
    BY <1>1, <2>4 DEF OwnerInv
  <2>6. ASSUME NEW j \in Jobs
        PROVE  /\ job'[j].owns <=> job'[j].status \in Materialized \cup {"PROCESSING", "FAILED"}
               /\ job'[j].status = "NONE" => job'[j] = NoJob
               /\ job'[j].status # "NONE" => JobOf[job'[j].basis] = j /\ job'[j].basis # None
    BY <1>1, <1>4, <2>2, <2>3 DEF OwnerInv
  <2> QED BY <2>5, <2>6 DEF OwnerInv
<1>5. ASSUME NEW k \in Jobs, Materializes(k) PROVE OwnerInv'
  BY <1>4, <1>5 DEF Materializes
<1>6. ASSUME NEW k \in Jobs, FailsJob(k) PROVE OwnerInv'
  BY <1>4, <1>6 DEF FailsJob
<1> QED BY DataStep, <1>2, <1>3, <1>5, <1>6

LEMMA RowsMatchHolds ==
  ASSUME LongInv, LongStep
  PROVE  RowsMatchStatus'
<1>1. /\ job \in [Jobs -> Job] /\ rows \in [Jobs -> Nat] /\ RowsMatchStatus
      /\ "NONE" \notin Materialized /\ "PROCESSING" \notin Materialized
      /\ "FAILED" \notin Materialized
  BY DEF LongInv, LongTypeOK, Materialized
<1>2. CASE Untouched BY <1>1, <1>2 DEF Untouched, RowsMatchStatus
<1>3. ASSUME NEW k \in Jobs, NEW claimed \in Job, Claims(k, claimed)
      PROVE  RowsMatchStatus'
  <2>1. \A j \in Jobs : job'[j] = IF j = k THEN claimed ELSE job[j] BY <1>1, <1>3 DEF Claims
  <2>2. claimed.status \notin Materialized /\ job[k].status = "NONE" /\ rows' = rows
    BY <1>3 DEF Claims, Materialized
  <2> QED BY <1>1, <2>1, <2>2 DEF RowsMatchStatus
<1>4. ASSUME NEW k \in Jobs, Materializes(k) PROVE RowsMatchStatus'
  <2>1. PICK s \in Materialized : job' = [job EXCEPT ![k].status = s] BY <1>4 DEF Materializes
  <2>2. job[k] \in Job BY <1>1
  <2>3. job'[k].status = s /\ \A j \in Jobs : j # k => job'[j] = job[j]
    BY <1>1, <2>1, <2>2 DEF Job
  <2>4. rows[k] = 0 BY <1>1, <1>4 DEF Materializes, RowsMatchStatus
  <2>5. rows'[k] = 1 /\ \A j \in Jobs : j # k => rows'[j] = rows[j]
    BY <1>1, <1>4, <2>4 DEF Materializes
  <2> QED BY <1>1, <2>3, <2>5 DEF RowsMatchStatus
<1>5. ASSUME NEW k \in Jobs, FailsJob(k) PROVE RowsMatchStatus'
  <2>1. job[k] \in Job BY <1>1
  <2>2. job'[k].status = "FAILED" /\ \A j \in Jobs : j # k => job'[j] = job[j]
    BY <1>1, <1>5, <2>1 DEF FailsJob, Job
  <2>3. rows' = rows /\ job[k].status = "PROCESSING" BY <1>5 DEF FailsJob
  <2> QED BY <1>1, <2>2, <2>3 DEF RowsMatchStatus
<1> QED BY DataStep, <1>2, <1>3, <1>4, <1>5

\* A reused material was written, by another job, for good.
LEMMA ReusedHolds ==
  ASSUME LongInv, LongStep, NEW j \in Jobs, job'[j].status = "REUSED"
  PROVE  /\ job'[j].of \in Jobs \ {j} /\ job'[job'[j].of].status \in Materialized
         /\ MaterialOf[job'[j].of] = MaterialOf[j]
<1>1. /\ job \in [Jobs -> Job] /\ OneMaterialization /\ OwnerInv
      /\ "NONE" \notin Materialized /\ "REUSED" \notin Materialized
  BY DEF LongInv, LongTypeOK, Materialized
<1>2. Remembers BY Memory
<1>3. CASE job[j].status = "REUSED"
  <2> DEFINE k == job[j].of
  <2>1. job'[j] = job[j] BY <1>2, <1>3 DEF Remembers, Final
  <2>2. k \in Jobs \ {j} /\ job[k].status \in Materialized /\ MaterialOf[k] = MaterialOf[j]
    BY <1>1, <1>3 DEF OneMaterialization
  <2>3. job'[k] = job[k] BY <1>2, <2>2 DEF Remembers, Final
  <2> QED BY <2>1, <2>2, <2>3
<1>4. CASE job[j].status # "REUSED"
  <2>1. ~ Untouched BY <1>4 DEF Untouched
  <2>2. ~ \E i \in Jobs : Materializes(i) \/ FailsJob(i)
    <3>1. ASSUME NEW i \in Jobs, NEW s \in Materialized \cup {"FAILED"},
                 job' = [job EXCEPT ![i].status = s]
          PROVE  FALSE
      <4>1. job[i] \in Job /\ job[j] \in Job /\ s # "REUSED" BY <1>1
      <4>2. job'[j].status \in {s, job[j].status} BY <1>1, <3>1, <4>1 DEF Job
      <4> QED BY <1>4, <4>1, <4>2
    <3> QED BY <3>1 DEF Materializes, FailsJob
  <2>3. PICK i \in Jobs : \E c \in Job : Claims(i, c) BY DataStep, <2>1, <2>2
  <2>4. PICK claimed \in Job : Claims(i, claimed) BY <2>3
  <2>5. i = j /\ job'[j] = claimed BY <1>1, <1>4, <2>4 DEF Claims
  <2>6. claimed.of \in Owners(j) /\ job[claimed.of].status \in Materialized
    BY <2>4, <2>5 DEF Claims
  <2>7. claimed.of \in Jobs /\ MaterialOf[claimed.of] = MaterialOf[j] BY <2>6 DEF Owners
  <2>8. claimed.of # j BY <1>1, <2>4, <2>5, <2>6 DEF Claims
  <2>9. job'[claimed.of] = job[claimed.of] BY <1>2, <2>6, <2>7 DEF Remembers, Final
  <2> QED BY <2>5, <2>6, <2>7, <2>8, <2>9
<1> QED BY <1>3, <1>4

LEMMA OneMaterializationHolds ==
  ASSUME LongInv, LongStep
  PROVE  OneMaterialization'
<1>1. rows' \in [Jobs -> Nat] /\ OwnerInv' /\ RowsMatchStatus'
  BY DataTypes, OwnerInvHolds, RowsMatchHolds
<1>2. ASSUME NEW i \in Jobs, NEW j \in Jobs, i # j, MaterialOf[i] = MaterialOf[j]
      PROVE  rows'[i] + rows'[j] <= 1
  <2>1. ~ (job'[i].owns /\ job'[j].owns) BY <1>1, <1>2 DEF OwnerInv
  <2>2. job'[i].status \notin Materialized \/ job'[j].status \notin Materialized
    BY <1>1, <2>1 DEF OwnerInv
  <2>3. /\ rows'[i] = IF job'[i].status \in Materialized THEN 1 ELSE 0
        /\ rows'[j] = IF job'[j].status \in Materialized THEN 1 ELSE 0
    BY <1>1 DEF RowsMatchStatus
  <2> QED BY <2>2, <2>3
<1> QED BY <1>2, ReusedHolds DEF OneMaterialization

\* The rows a success stands for.
LEMMA SuccessHasRows ==
  ASSUME LongInv, NEW j \in Jobs, job[j].status \in Success
  PROVE  \E k \in Jobs : MaterialOf[k] = MaterialOf[j] /\ rows[k] = 1
<1>1. CASE job[j].status \in Materialized
  BY <1>1 DEF LongInv, RowsMatchStatus
<1>2. CASE job[j].status = "REUSED"
  <2>1. /\ job[j].of \in Jobs /\ job[job[j].of].status \in Materialized
        /\ MaterialOf[job[j].of] = MaterialOf[j]
    BY <1>2 DEF LongInv, OneMaterialization
  <2> QED BY <2>1 DEF LongInv, RowsMatchStatus
<1> QED BY <1>1, <1>2 DEF Success

LEMMA AnswersHold ==
  ASSUME LongInv, LongStep
  PROVE  AnswerIsTrue'
<1>1. Remembers /\ RowsMatchStatus' BY Memory, RowsMatchHolds
<1>2. rows \in [Jobs -> Nat] /\ rows' \in [Jobs -> Nat]
  BY DataTypes DEF LongInv, LongTypeOK
<1>3. ASSUME NEW k \in Jobs, rows[k] = 1 PROVE rows'[k] = 1
  <2>1. rows'[k] \in {0, 1} /\ rows[k] <= rows'[k] BY <1>1 DEF RowsMatchStatus, Remembers
  <2> QED BY <1>3, <2>1
<1>4. ASSUME NEW q \in Callers, call'[q] = call[q], call'[q].answer \in Success
      PROVE  \E k \in Jobs : MaterialOf[k] = MaterialOf[Asked(q)'] /\ rows'[k] = 1
  <2>1. Asked(q)' = Asked(q) BY <1>4 DEF Asked
  <2>2. PICK k \in Jobs : MaterialOf[k] = MaterialOf[Asked(q)] /\ rows[k] = 1
    BY <1>4 DEF LongInv, AnswerIsTrue, Success
  <2> QED BY <1>3, <2>1, <2>2
<1>5. ASSUME NEW p \in Callers, Moved(p) PROVE AnswerIsTrue'
  <2>1. ASSUME NEW q \in Callers, call'[q].answer \in Success
        PROVE  \E k \in Jobs : MaterialOf[k] = MaterialOf[Asked(q)'] /\ rows'[k] = 1
    <3>1. CASE q = p
      <4>1. /\ Asked(p) \in Jobs /\ Asked(p)' = Asked(p)
            /\ job[Asked(p)].status \in Success
        BY <1>5, <2>1, <3>1 DEF Moved
      <4>2. PICK k \in Jobs : MaterialOf[k] = MaterialOf[Asked(p)] /\ rows[k] = 1
        BY <4>1, SuccessHasRows
      <4> QED BY <1>3, <3>1, <4>1, <4>2
    <3>2. CASE q # p
      <4>1. call'[q] = call[q] BY <1>5, <3>2 DEF Moved
      <4> QED BY <1>4, <2>1, <4>1
    <3> QED BY <3>1, <3>2
  <2> QED BY <2>1 DEF AnswerIsTrue, Success
<1>6. CASE CallsDie
  <2>1. \A q \in Callers : call'[q].answer = None BY <1>6 DEF CallsDie, NoCall
  <2>2. None \notin Success BY NoneAssumption DEF Success, Answers, Final
  <2> QED BY <2>1, <2>2 DEF AnswerIsTrue, Success
<1>7. CASE UNCHANGED call
  <2>1. \A q \in Callers : call'[q] = call[q] BY <1>7
  <2> QED BY <1>4, <2>1 DEF AnswerIsTrue, Success
<1> QED BY <1>5, <1>6, <1>7, CallStep

\* The sources that have their row.
LEMMA SourceTypes ==
  ASSUME LongInv, LongStep
  PROVE  source' \in SUBSET Sources
<1>1. source \in SUBSET Sources BY DEF LongInv, LongTypeOK
<1>2. ASSUME NEW p \in Callers, Insert(p) PROVE source' \in SUBSET Sources
  <2>1. Asked(p) \in Jobs BY <1>2, AskedIsJob DEF Insert
  <2>2. SourceOf[Asked(p)] \in Sources BY <2>1 DEF Sources
  <2>3. source' = source \/ source' = source \cup {SourceOf[Asked(p)]} BY <1>2 DEF Insert
  <2> QED BY <1>1, <2>2, <2>3
<1>3. ASSUME NEW p \in Callers, Persist(p) PROVE source' \in SUBSET Sources
  <2>1. UNCHANGED source \/ Insert(p)
    BY <1>3 DEF Persist, Lookup, Materialize, RecordFailure, Result
  <2> QED BY <1>1, <1>2, <2>1
<1>4. ASSUME UNCHANGED source PROVE source' \in SUBSET Sources BY <1>1, <1>4
<1>5. CASE UNCHANGED longVars BY <1>4, <1>5 DEF longVars
<1>6. ASSUME NEW p \in Callers, NEW c \in Candidates, Confirm(p, c)
      PROVE  source' \in SUBSET Sources
  BY <1>4, <1>6 DEF Confirm
<1>7. CASE CallsDie BY <1>4, <1>7 DEF CallsDie
<1>8. ASSUME NEW p \in Callers, CallFails(p) PROVE source' \in SUBSET Sources
  BY <1>4, <1>8 DEF CallFails
<1> QED BY <1>3, <1>5, <1>6, <1>7, <1>8 DEF LongStep

\* A step keeps the invariant, however the faults are counted.
LEMMA LongInvKept ==
  ASSUME LongInv, LongStep, faults' \in 0 .. MaxFaults
  PROVE  LongInv'
<1>1. LongTypeOK' BY DataTypes, SourceTypes, CallInvHolds DEF LongTypeOK
<1> QED BY <1>1, OwnerInvHolds, CallInvHolds, RowsMatchHolds, OneMaterializationHolds,
           AnswersHold DEF LongInv

-----------------------------------------------------------------------------
(* What a larger system relies on.                                         *)

\* A caller keeps its candidate while it persists it, and others leave it alone.
LEMMA CandidateKept ==
  ASSUME LongInv, NEW p \in Callers, Persist(p) \/ CallFails(p)
  PROVE  /\ call'[p].cand = call[p].cand
         /\ \A q \in Callers : q # p => call'[q] = call[q]
<1>1. call \in [Callers -> Call] BY DEF LongInv, LongTypeOK
<1>2. ASSUME NEW label, Goto(p, label)
      PROVE  call'[p].cand = call[p].cand /\ \A q \in Callers : q # p => call'[q] = call[q]
  BY <1>1, <1>2 DEF Goto, Call
<1>3. ASSUME NEW a, Answer(p, a)
      PROVE  call'[p].cand = call[p].cand /\ \A q \in Callers : q # p => call'[q] = call[q]
  <2>1. call' = [call EXCEPT ![p] = [NoCall EXCEPT !.cand = call[p].cand, !.answer = a]]
    BY <1>3 DEF Answer
  <2>2. [NoCall EXCEPT !.cand = call[p].cand, !.answer = a].cand = call[p].cand BY DEF NoCall
  <2> QED BY <1>1, <2>1, <2>2
<1>4. ASSUME NEW fresh, NEW owner,
             call' = [call EXCEPT ![p].pc = "insert", ![p].fresh = fresh, ![p].owner = owner]
      PROVE  call'[p].cand = call[p].cand /\ \A q \in Callers : q # p => call'[q] = call[q]
  BY <1>1, <1>4 DEF Call
<1> HIDE DEF Goto, Answer
<1>5. CASE Lookup(p)
  <2>1. CASE job[Asked(p)].status # "NONE"
    <3>1. (\E label : Goto(p, label)) \/ (\E a : Answer(p, a)) BY <1>5, <2>1 DEF Lookup
    <3> QED BY <1>2, <1>3, <3>1
  <2>2. CASE job[Asked(p)].status = "NONE"
    <3>1. PICK owner : call' = [call EXCEPT ![p].pc = "insert",
                                            ![p].fresh = SourceOf[Asked(p)] \notin source,
                                            ![p].owner = owner]
      BY <1>5, <2>2 DEF Lookup
    <3> QED BY <1>4, <3>1
  <2> QED BY <2>1, <2>2
<1>6. CASE Insert(p)
  <2>1. (\E label : Goto(p, label)) \/ (\E a : Answer(p, a)) BY <1>6 DEF Insert
  <2> QED BY <1>2, <1>3, <2>1
<1>7. CASE Materialize(p) BY <1>2, <1>7 DEF Materialize
<1>8. CASE RecordFailure(p) \/ Result(p) \/ CallFails(p)
  BY <1>2, <1>3, <1>8 DEF RecordFailure, Result, CallFails
<1> QED BY <1>5, <1>6, <1>7, <1>8 DEF Persist

\* A caller that was told of a success was told what its job says.
Told(p) == call[p].answer \in Success => job[Asked(p)].status = call[p].answer

LEMMA ToldStays ==
  ASSUME LongInv, LongStep, \A p \in Callers : Told(p)
  PROVE  \A p \in Callers : Told(p)'
<1>1. Remembers BY Memory
<1>2. ASSUME NEW p \in Callers, call'[p] = call[p] PROVE Told(p)'
  <2>1. SUFFICES ASSUME call[p].answer \in Success
                 PROVE  job'[Asked(p)].status = call[p].answer
    BY <1>2 DEF Told, Asked
  <2>2. call[p] \in Call /\ call[p].answer # None
    BY <2>1, NoneAssumption DEF LongInv, LongTypeOK, Success, Answers, Final
  <2>3. call[p].cand \in Candidates /\ call[p].cand # None
    BY <2>2 DEF LongInv, CallInv, Knows, Call
  <2>4. Asked(p) \in Jobs BY <2>3, LongAssumption DEF Asked
  <2>5. job[Asked(p)].status \in Final BY <2>1 DEF Told, Success, Final
  <2> QED BY <1>1, <2>1, <2>4, <2>5 DEF Remembers, Told
<1>3. ASSUME NEW p \in Callers, Moved(p) PROVE \A q \in Callers : Told(q)'
  <2>1. ASSUME call'[p].answer \in Success PROVE job'[Asked(p)'].status = call'[p].answer
    <3>1. /\ Asked(p) \in Jobs /\ Asked(p)' = Asked(p)
          /\ call'[p].answer = job[Asked(p)].status
      BY <1>3, <2>1 DEF Moved
    <3>2. job[Asked(p)].status \in Final BY <2>1, <3>1 DEF Success, Final
    <3> QED BY <1>1, <3>1, <3>2 DEF Remembers
  <2>2. Told(p)' BY <2>1 DEF Told
  <2> QED BY <1>2, <1>3, <2>2 DEF Moved
<1>4. CASE CallsDie
  <2>1. \A p \in Callers : call'[p].answer = None BY <1>4 DEF CallsDie, NoCall
  <2>2. None \notin Success BY NoneAssumption DEF Success, Answers, Final
  <2> QED BY <2>1, <2>2 DEF Told
<1>5. CASE UNCHANGED call BY <1>2, <1>5
<1> QED BY <1>3, <1>4, <1>5, CallStep

-----------------------------------------------------------------------------
(* The theorems.                                                           *)

LEMMA InvInit == Init => LongInv
<1> SUFFICES ASSUME Init PROVE LongInv OBVIOUS
<1>1. /\ source = {} /\ job = [j \in Jobs |-> NoJob] /\ rows = [j \in Jobs |-> 0]
      /\ call = [p \in Callers |-> NoCall] /\ faults = 0
  BY DEF Init, LongInit
<1>2. /\ NoJob \in Job /\ NoJob.status = "NONE" /\ NoJob.owns = FALSE
  BY DEF NoJob, Job
<1>3. NoOwner \in Owner BY DEF NoOwner, Owner
<1>4. NoCall \in Call /\ NoCall.pc = "idle" /\ NoCall.answer = None
  BY <1>3 DEF NoCall, Call
<1>5. LongTypeOK BY <1>1, <1>2, <1>4, LongAssumption DEF LongTypeOK
<1>6. OwnerInv BY <1>1, <1>2 DEF OwnerInv, Materialized
<1>7. CallInv BY <1>1, <1>4 DEF CallInv, Knows
<1>8. RowsMatchStatus BY <1>1, <1>2 DEF RowsMatchStatus, Materialized
<1>9. OneMaterialization BY <1>1, <1>2 DEF OneMaterialization
<1>10. AnswerIsTrue
  <2>1. None \notin Materialized \cup {"REUSED"} BY NoneAssumption DEF Answers, Final
  <2> QED BY <1>1, <1>4, <2>1 DEF AnswerIsTrue
<1> QED BY <1>5, <1>6, <1>7, <1>8, <1>9, <1>10 DEF LongInv

\* LongInv is inductive: it holds in every reachable state of the persistence
\* of confirmed candidates, whatever the threads, the candidates, how they
\* share jobs, sources and materials, and the number of exceptions and deaths.
THEOREM LongInvariance == Spec => []LongInv
<1>1. Init => LongInv BY InvInit
<1>2. LongInv /\ [Next]_vars => LongInv'
  <2> SUFFICES ASSUME LongInv, [Next]_vars PROVE LongInv' OBVIOUS
  <2>1. faults \in 0 .. MaxFaults BY DEF LongInv, LongTypeOK
  <2>2. UNCHANGED faults \/ (faults < MaxFaults /\ faults' = faults + 1) BY DEF Next, vars
  <2>3. faults' \in 0 .. MaxFaults BY <2>1, <2>2, LongAssumption
  <2> QED BY <2>3, NextIsLongStep, LongInvKept
<1> QED BY <1>1, <1>2, PTL DEF Spec

\* Jobs, sources and calls keep their types.
THEOREM LongTypes == Spec => []LongTypeOK
<1>1. LongInv => LongTypeOK BY DEF LongInv
<1> QED BY <1>1, LongInvariance, PTL

\* The Long rows of a job are committed exactly with the status that says so,
\* and once, whoever materializes, fails or replays the claim.
THEOREM RowsAlwaysMatch == Spec => []RowsMatchStatus
<1>1. LongInv => RowsMatchStatus BY DEF LongInv
<1> QED BY <1>1, LongInvariance, PTL

\* One material is written to Long at most once, though claims read the owner
\* before they hold the write lock, and a reuse names the job that wrote it.
THEOREM MaterializedOnce == Spec => []OneMaterialization
<1>1. LongInv => OneMaterialization BY DEF LongInv
<1> QED BY <1>1, LongInvariance, PTL

\* A caller that is told COMPLETED_PENDING, PARTIAL_HELD or REUSED finds the
\* rows of its material in Long.
THEOREM AnswersAreTrue == Spec => []AnswerIsTrue
<1>1. LongInv => AnswerIsTrue BY DEF LongInv
<1> QED BY <1>1, LongInvariance, PTL

\* No step changes a job that has ended or takes a Long row back.
THEOREM FinalJobsStay == Spec => JobsAreFinal
<1>1. LongInv /\ [Next]_vars =>
        [ \A j \in Jobs : /\ job[j].status \in Final => job'[j] = job[j]
                          /\ rows[j] <= rows'[j] ]_vars
  BY Memory, NextIsLongStep DEF Remembers
<1> QED BY <1>1, LongInvariance, PTL DEF Spec, JobsAreFinal

===============================================================================
