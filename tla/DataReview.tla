---------------------------- MODULE DataReview ----------------------------
(***************************************************************************)
(* The data-status decision: DataStatusReviewService.decide over           *)
(* DataReviewRepository, and the tables it shares with the replacement     *)
(* command of ResultReplacement.                                           *)
(*                                                                         *)
(* The database is SQLite: a SELECT sees the rows committed at that        *)
(* moment, `with_for_update' locks nothing, and the first INSERT opens the *)
(* one write transaction.  A command therefore reads in several steps, in  *)
(* between which other commands and the configuration may commit, and then *)
(* writes everything in one step or nothing.  Every check of a candidate   *)
(* is made on the rows that its own reading holds (load_basis keeps them); *)
(* a command that builds a second candidate reads them again.              *)
(***************************************************************************)
EXTENDS ReviewCandidate, ItemConfiguration

CONSTANTS
  Reviewers,      \* requests being served at the same time
  Results,        \* results of one inspection item
  Evidence,       \* Results -> what the Long rows hold, see ReviewCandidate
  Commands,       \* command ids of data-status decisions
  Targets,        \* the statuses the callers ask for
  Masters,        \* MasterRevisions -> the unit and the limits of the revision
  MaxRequests,    \* bound: requests sent by all callers, retries included
  MaxEdits        \* bound: version of the history up to which it is edited

ASSUME ReviewAssumption ==
  /\ Targets \subseteq {"VALID", "SUSPECT", "EXCLUDED"}
  /\ MaxRequests \in Nat \ {0} /\ MaxEdits \in Nat
  /\ \A r \in Results : IsEvidence(Evidence[r])
  /\ \A r \in MasterRevisions : IsMaster(Masters[r])

VARIABLES
  row,        \* inspection_results: status, version, decision, judgment, master, link
  sample,     \* measurements: per result a sequence of status, version, link
  decisions,  \* data_status_transitions with their DATA_STATUS_DECIDED audits
  links,      \* result_replacement_transitions with measurement rows and audits
  phase,      \* Reviewers -> where the request stands
  request,    \* Reviewers -> the request sent
  seen,       \* Reviewers -> the rows the request's session has read
  answer,     \* Reviewers -> the last answer
  sent        \* requests sent so far, up to MaxRequests

database == <<row, sample, decisions, links>>
configuration == <<item, master>>
reviewVars == <<row, sample, decisions, links, item, master,
                phase, request, seen, answer, sent>>

NoDecision == <<>>
NoLink == <<>>
Nothing == [kind |-> "none"]

NewRow(r) ==
  [status |-> SignedStatus(Evidence[r]), version |-> 1, decision |-> NoDecision,
   judgment |-> "NONE", master |-> NoMaster, link |-> NoLink]
NewSamples(r) ==
  [i \in DOMAIN Evidence[r].samples |->
     [status |-> SignedStatus(Evidence[r]), version |-> 1, link |-> NoLink]]

ReviewInit ==
  /\ row = [r \in Results |-> NewRow(r)]
  /\ sample = [r \in Results |-> NewSamples(r)]
  /\ decisions = {} /\ links = {}
  /\ ConfigurationInit
  /\ phase = [p \in Reviewers |-> "idle"]
  /\ request = [p \in Reviewers |-> Nothing]
  /\ seen = [p \in Reviewers |-> Nothing]
  /\ answer = [p \in Reviewers |-> "none"]
  /\ sent = 0

(***************************************************************************)
(* Reading.                                                                *)
(***************************************************************************)
(* The evidence of a Master names the version of its history: any change   *)
(* of the history while its revision is in force is another evidence.      *)
EffectiveMasters ==
  {[revision |-> r, history |-> master.version, unit |-> Masters[r].unit,
    lsl |-> Masters[r].lsl, usl |-> Masters[r].usl] : r \in InForce}

ReviewRow(rw) ==
  [status |-> rw.status, version |-> rw.version,
   projected |-> rw.decision # NoDecision]

(* The candidate a read of the rows, the item and the Masters gives; its   *)
(* digest covers all of them, so equal digests are equal candidates.       *)
ReviewOf(r, rw, sm, it, ms) == Candidate(Basis(Evidence[r], ReviewRow(rw), sm, it, ms))
ReviewNow(r) == ReviewOf(r, row[r], sample[r], item, EffectiveMasters)
ReviewSeen(p, r) ==
  ReviewOf(r, seen[p].rows[r], seen[p].samples[r], seen[p].item, seen[p].masters)

DecisionOf(command) == {d \in decisions : d.command = command}
Outgoing(r) == {l \in links : l.predecessor = r}
Incoming(r) == {l \in links : l.successor = r}

(* replayed_decision and validate_replaced_projection_for_data_review: the *)
(* rows still show the stored decision, or its one later replacement.      *)
ProjectionOf(d, rw) ==
  rw.decision = d.command /\ rw.judgment = d.candidate.judgment
    /\ rw.master = d.candidate.master

ReplacedBy(l, d, rw, sm) ==
  /\ rw.link = <<l.predecessor, l.successor>>
  /\ l.original = d.command /\ l.before = d.to
  /\ l.version = d.version + 1 /\ rw.version = l.version + 1
  /\ Len(sm) = Len(l.samples)
  /\ \A i \in DOMAIN sm :
       /\ sm[i].status = "REPLACED" /\ sm[i].link = rw.link
       /\ sm[i].version = l.samples[i] + 1
       /\ l.samples[i] = d.samples[i] + 1

DecisionShown(d, rw, sm) ==
  /\ ProjectionOf(d, rw)
  /\ d.requirement = IF \E l \in links : l.decision = d.command THEN "ING-041" ELSE "none"
  /\ IF rw.status = "REPLACED"
       THEN \E l \in Outgoing(d.result) : ReplacedBy(l, d, rw, sm)
       ELSE /\ rw.status = d.to /\ rw.version = d.version + 1 /\ rw.link = NoLink
            /\ Len(sm) = Len(d.samples)
            /\ \A i \in DOMAIN sm : sm[i].status = d.to /\ sm[i].version = d.samples[i] + 1

(***************************************************************************)
(* Callers.                                                                *)
(***************************************************************************)
Free(p) == phase[p] \in {"idle", "answered"} /\ sent < MaxRequests

Send(p, q) ==
  /\ request' = [request EXCEPT ![p] = q]
  /\ phase' = [phase EXCEPT ![p] = "lookup"]
  /\ sent' = sent + 1
  /\ seen' = [seen EXCEPT ![p] = Nothing]
  /\ answer' = [answer EXCEPT ![p] = "none"]
  /\ UNCHANGED <<database, configuration>>

Step(p, next) == phase' = [phase EXCEPT ![p] = next]

Finish(p, a) ==
  /\ Step(p, "answered")
  /\ answer' = [answer EXCEPT ![p] = a]

(* A caller reads the candidate (candidate, DataReviewWorkflowService) and *)
(* sends a decision bound to exactly what it was shown.                    *)
AskDecision(p) ==
  /\ Free(p)
  /\ \E r \in Results, c \in Commands, t \in Targets :
       Send(p, [kind |-> "DECIDE", result |-> r, command |-> <<c>>, target |-> t,
                expected |-> ReviewNow(r)])

(* The answer was lost or late: the same request is sent again.            *)
Resend(p) ==
  /\ phase[p] = "answered" /\ sent < MaxRequests
  /\ Send(p, request[p])

Decides(p) == request[p].kind = "DECIDE"

(* _decide_once: a known command is replayed before anything else.         *)
LookupCommand(p) ==
  /\ phase[p] = "lookup" /\ Decides(p)
  /\ \/ DecisionOf(request[p].command) = {} /\ Step(p, "rows") /\ UNCHANGED answer
     \/ \E d \in DecisionOf(request[p].command) :
          \/ d.intent = request[p] /\ Step(p, "replay") /\ UNCHANGED answer
          \/ d.intent # request[p] /\ Finish(p, "CONFLICT")
  /\ UNCHANGED <<database, configuration, request, seen, sent>>

Rows(q) == IF q.kind = "DECIDE" THEN {q.result} ELSE {q.predecessor, q.successor}

Reading(S) ==
  [kind |-> "rows", rows |-> [r \in S |-> row[r]], samples |-> [r \in S |-> sample[r]]]
ReadOf(q) == Reading(Rows(q))

(* load_basis: the result with its measurements, then (another SELECT) the *)
(* item and the effective Masters.                                         *)
ReadRows(p) ==
  /\ phase[p] = "rows" /\ Decides(p)
  /\ seen' = [seen EXCEPT ![p] = ReadOf(request[p])]
  /\ Step(p, "configuration")
  /\ UNCHANGED <<database, configuration, request, answer, sent>>

WithConfiguration(s) ==
  [kind |-> "basis", rows |-> s.rows, samples |-> s.samples,
   item |-> item, masters |-> EffectiveMasters]

ReadConfiguration(p) ==
  /\ phase[p] = "configuration" /\ Decides(p)
  /\ seen' = [seen EXCEPT ![p] = WithConfiguration(seen[p])]
  /\ Step(p, "write")
  /\ UNCHANGED <<database, configuration, request, answer, sent>>

(* apply_decision: the unique keys of the transition, and the compare and  *)
(* swap of every measurement and of the result.                            *)
Insertable(d) ==
  ~\E e \in decisions :
     \/ e.command = d.command
     \/ e.result = d.result /\ e.version = d.version

Unchanged(r, rw, sm) ==
  /\ row[r].status = rw.status /\ row[r].version = rw.version
  /\ \A i \in DOMAIN sm :
       sample[r][i].status = rw.status /\ sample[r][i].version = sm[i].version

Decision(command, intent, r, target, c, requirement) ==
  [command |-> command, intent |-> intent, result |-> r, to |-> target,
   version |-> c.basis.row.version,
   samples |-> [i \in DOMAIN c.basis.samples |-> c.basis.samples[i].version],
   candidate |-> c, requirement |-> requirement]

DecidedRow(rw, d) ==
  [rw EXCEPT !.status = d.to, !.version = d.version + 1, !.decision = d.command,
             !.judgment = d.candidate.judgment, !.master = d.candidate.master]
DecidedSamples(d) ==
  [i \in DOMAIN d.samples |->
     [status |-> d.to, version |-> d.samples[i] + 1, link |-> NoLink]]

(* The rest of _decide_once: the rebuilt candidate must be the one the     *)
(* command names and must allow the target; then transition, measurements, *)
(* result and audit are written together, or nothing is.                   *)
WriteDecision(p) ==
  LET q == request[p]
      c == ReviewSeen(p, q.result)
      d == Decision(q.command, q, q.result, q.target, c, "none")
      Refused == c # q.expected \/ q.target \notin c.allowed
      Writable == Insertable(d) /\ Unchanged(q.result, seen[p].rows[q.result], c.basis.samples) IN
  /\ phase[p] = "write" /\ Decides(p)
  /\ \/ c # q.expected /\ Finish(p, "STALE") /\ UNCHANGED database
     \/ c = q.expected /\ q.target \notin c.allowed
          /\ Finish(p, "INELIGIBLE") /\ UNCHANGED database
     \/ ~Refused /\ ~Writable /\ Step(p, "recheck") /\ UNCHANGED <<database, answer>>
     \/ /\ ~Refused /\ Writable
        /\ decisions' = decisions \cup {d}
        /\ row' = [row EXCEPT ![q.result] = DecidedRow(row[q.result], d)]
        /\ sample' = [sample EXCEPT ![q.result] = DecidedSamples(d)]
        /\ Finish(p, "DECIDED")
        /\ UNCHANGED links
  /\ UNCHANGED <<configuration, request, seen, sent>>

(* The database or the audit fails: everything written is rolled back.     *)
FailWrite(p) ==
  /\ phase[p] = "write"
  /\ Finish(p, "UNAVAILABLE")
  /\ UNCHANGED <<database, configuration, request, seen, sent>>

(* Fault: whatever the command id found is replayed.                       *)
RecheckAnyIntent(p) ==
  /\ phase[p] = "recheck" /\ Decides(p)
  /\ IF DecisionOf(request[p].command) = {} THEN Finish(p, "STALE")
       ELSE Step(p, "replay") /\ UNCHANGED answer
  /\ UNCHANGED <<database, configuration, request, seen, sent>>

(* decide, after a stale write: the decision found now, if it is the same. *)
RecheckCommand(p) ==
  /\ phase[p] = "recheck" /\ Decides(p)
  /\ \/ DecisionOf(request[p].command) = {} /\ Finish(p, "STALE")
     \/ \E d \in DecisionOf(request[p].command) :
          \/ d.intent = request[p] /\ Step(p, "replay") /\ UNCHANGED answer
          \/ d.intent # request[p] /\ Finish(p, "CONFLICT")
  /\ UNCHANGED <<database, configuration, request, seen, sent>>

(* replayed_decision: the rows are checked against the decision.  The code *)
(* reads result, samples and link one after the other; here they are of    *)
(* one moment, which decides between REPLAYED and INTEGRITY only: the      *)
(* invariants hold for a caller that is told either.                       *)
ReplayDecision(p) ==
  LET q == request[p] IN
  /\ phase[p] = "replay" /\ Decides(p)
  /\ \E d \in DecisionOf(q.command) :
       Finish(p, IF DecisionShown(d, row[q.result], sample[q.result])
                   THEN "REPLAYED" ELSE "INTEGRITY")
  /\ UNCHANGED <<database, configuration, request, seen, sent>>

(***************************************************************************)
(* The configuration changes under the callers.                            *)
(***************************************************************************)
Unseen == <<database, phase, request, seen, answer, sent>>

DisposeItem == \E to \in {"MANAGED", "EXCLUDED"} : Dispose(to) /\ UNCHANGED Unseen
EditMasters == master.version < MaxEdits /\ EditMaster /\ UNCHANGED Unseen
ApproveMasters == \E r \in MasterRevisions : ApproveMaster(r) /\ UNCHANGED Unseen

ReviewStep(p) ==
  \/ AskDecision(p) \/ Resend(p)
  \/ LookupCommand(p) \/ ReadRows(p) \/ ReadConfiguration(p)
  \/ WriteDecision(p) \/ FailWrite(p) \/ RecheckCommand(p) \/ ReplayDecision(p)

ConfigurationStep == DisposeItem \/ EditMasters \/ ApproveMasters
=============================================================================
