----------------------------- MODULE HistoryPanel -----------------------------
(***************************************************************************)
(* The panel of a browser that finalizes the ready candidates of a batch,  *)
(* compares two periods of the Long history and replaces one result by     *)
(* another (HistoricalWorkspacePanel).  Both decisions are taken on        *)
(* evidence: the panel shows it, the user ticks a box and gives a reason,  *)
(* and the decision is sent with the digest of the evidence, which the     *)
(* server compares with what it finds by then.                             *)
(*                                                                         *)
(* A box is a Boolean of the code; here it remembers the evidence that was *)
(* on display when it was ticked.  The reason is part of the box.  What is *)
(* shown of a finalization or of a replacement that was decided guides     *)
(* nothing else and is left out, and so is the poll of the former, which   *)
(* is the same as that of BulkPanel.                                       *)
(***************************************************************************)
EXTENDS Naturals

CONSTANTS
  Screens,          \* batches the panel may be shown for
  Pairs,            \* pairs of a result and its correction
  MaxChanges,       \* bound: changes of the evidence
  MaxVisits,        \* bound: changes of the batch on display
  MaxStrays         \* bound: answers that fail, or are about something else

VARIABLES
  wanted,      \* the batch the panel is told to show
  screen,      \* the batch of the last rendering
  view,        \* React state
  calls,       \* requests on their way
  visits,      \* how often it was shown for another one
  current,     \* of the server: the version of the evidence, which every digest depends on
  taken,       \* of the server: decisions, with what the user had seen
  strays

historyPanelVars == <<wanted, screen, view, calls, visits, current, taken, strays>>

Subjects == Screens \cup Pairs
\* No evidence, or some that allows no decision (can_finalize, can_replace).
NoEvidence == [subject |-> "none", digest |-> 0]
Silence == [kind |-> "silence"]

\* The state after a change of batch.
Blank ==
  [candidate |-> NoEvidence, box |-> NoEvidence, compared |-> FALSE, pair |-> "none",
   replacement |-> NoEvidence, replacementBox |-> NoEvidence, busy |-> FALSE]

HistoryPanelInit ==
  /\ wanted \in Screens /\ screen = wanted
  /\ view = Blank
  /\ calls = {} /\ visits = 0
  /\ current = 0
  /\ taken = {} /\ strays = 0

-----------------------------------------------------------------------------
(* Commands.                                                               *)

\* controller.abort(): the continuation will do nothing, also with an answer that
\* has come already, but the server may take a decision all the same.
Dead == {[q EXCEPT !.live = FALSE] :
         q \in {r \in calls : r.answer = Silence /\ r.op \in {"finalize", "decide"}}}

\* run, up to its await: what it asks for, and the state the caller leaves.
Ask(op, subject, seen, before) ==
  /\ screen = wanted /\ ~ view.busy
  /\ view' = [before EXCEPT !.busy = TRUE]
  /\ calls' = Dead \cup
       {[op |-> op, subject |-> subject, seen |-> seen, live |-> TRUE, answer |-> Silence]}
  /\ UNCHANGED <<wanted, screen, visits, current, taken, strays>>

\* Fault: the box stays ticked.
LoadReplacementTicked ==
  view.compared /\ view.pair # "none" /\ Ask("replacement", view.pair, NoEvidence, view)

LoadCandidate == Ask("candidate", screen, NoEvidence, [view EXCEPT !.box = NoEvidence])

CreateFinalization ==
  /\ view.candidate # NoEvidence /\ view.box # NoEvidence
  /\ Ask("finalize", screen, [box |-> view.box.digest, sent |-> view.candidate.digest], view)

LoadFinalization == Ask("finalization", screen, NoEvidence, view)

\* resetReplacementReview
WithoutReview(v) == [v EXCEPT !.replacement = NoEvidence, !.replacementBox = NoEvidence]

ComparePeriods == Ask("compare", screen, NoEvidence, [WithoutReview(view) EXCEPT !.pair = "none"])

LoadReplacementCandidate ==
  /\ view.compared /\ view.pair # "none"
  /\ Ask("replacement", view.pair, NoEvidence, [view EXCEPT !.replacementBox = NoEvidence])

DecideReplacement ==
  /\ view.compared /\ view.replacement # NoEvidence /\ view.replacementBox # NoEvidence
  /\ Ask("decide", view.replacement.subject,
         [box |-> view.replacementBox.digest, sent |-> view.replacement.digest], view)

\* By the number of the decision, which the user may have from elsewhere.
LoadReplacementDecision ==
  /\ view.compared
  /\ \E t \in taken : t.subject \in Pairs /\
       Ask("decision", t.subject, NoEvidence, [view EXCEPT !.replacementBox = NoEvidence])

-----------------------------------------------------------------------------
(* What else the user does.                                                *)

Shows(new) ==
  view' = new /\ UNCHANGED <<wanted, screen, calls, visits, current, taken, strays>>

\* selectPredecessor, selectSuccessor: offered while a command runs, too.
Select == \E p \in Pairs :
  view.compared /\ Shows([WithoutReview(view) EXCEPT !.pair = p])

Tick ==
  /\ screen = wanted /\ ~ view.busy
  /\ \/ view.candidate # NoEvidence /\ Shows([view EXCEPT !.box = view.candidate])
     \/ /\ view.compared /\ view.replacement # NoEvidence
        /\ Shows([view EXCEPT !.replacementBox = view.replacement])

ShowBatch == \E s \in Screens \ {screen} :
  /\ wanted = screen /\ visits < MaxVisits
  /\ wanted' = s
  /\ UNCHANGED <<screen, view, calls, visits, current, taken, strays>>

\* The effect on [batchId, projectKey, supplierScope].
ResetPanel ==
  /\ screen # wanted
  /\ screen' = wanted /\ visits' = visits + 1
  /\ view' = Blank
  /\ calls' = Dead
  /\ UNCHANGED <<wanted, current, taken, strays>>

-----------------------------------------------------------------------------
(* The server.                                                             *)

EvidenceChanges ==
  /\ current < MaxChanges
  /\ current' = current + 1
  /\ UNCHANGED <<wanted, screen, view, calls, visits, taken, strays>>

Replies(q, a) ==
  calls' = (calls \ {q}) \cup IF q.live THEN {[q EXCEPT !.answer = a]} ELSE {}
Told(s) == [kind |-> "told", subject |-> s, digest |-> current]
Refused == [kind |-> "error"]

\* A decision is taken on the evidence it names, once; repeated, it is answered
\* with what was decided or, when it differs, refused.
Serves(q) ==
  /\ q.answer = Silence
  /\ LET known == \E t \in taken : t.subject = q.subject
     IN  \/ /\ q.op \in {"candidate", "replacement", "compare"}
            /\ Replies(q, Told(q.subject)) /\ UNCHANGED taken
         \/ /\ q.op \in {"finalize", "decide"} /\ ~ known
            /\ IF q.seen.sent = current
               THEN /\ taken' = taken \cup
                         {[subject |-> q.subject, seen |-> q.seen.box,
                           digest |-> current]}
                    /\ Replies(q, Told(q.subject))
               ELSE Replies(q, Refused) /\ UNCHANGED taken
         \/ /\ q.op \in {"finalize", "decide", "finalization", "decision"}
            /\ UNCHANGED taken
            /\ \/ known /\ Replies(q, Told(q.subject))
               \/ (known <=> q.op \in {"finalize", "decide"}) /\ Replies(q, Refused)
  /\ UNCHANGED <<wanted, screen, view, visits, current, strays>>

\* The panel does not rely on the answer to be about what it asked for.
Strays(q) ==
  /\ q.live /\ strays < MaxStrays /\ strays' = strays + 1
  /\ \/ Replies(q, Refused)
     \/ \E s \in Subjects \ {q.subject} : q.answer # Silence /\ Replies(q, Told(s))
  /\ UNCHANGED <<wanted, screen, view, visits, current, taken>>

-----------------------------------------------------------------------------
(* The continuations of run.                                               *)

\* accept, by the command; an answer about something else takes away what it
\* would have replaced.
Accepted(q) ==
  LET a == q.answer
      mine == a.subject = q.subject
      proof == IF mine THEN [subject |-> a.subject, digest |-> a.digest] ELSE NoEvidence
  IN  CASE q.op = "candidate" ->
             [view EXCEPT !.candidate = proof]
        [] q.op = "finalize" -> [view EXCEPT !.box = IF mine THEN NoEvidence ELSE @]
        [] q.op = "finalization" -> view
        [] q.op = "compare" -> [view EXCEPT !.compared = mine]
        [] q.op = "replacement" -> [view EXCEPT !.replacement = proof]
        [] q.op = "decide" ->
             [view EXCEPT !.replacementBox = IF mine THEN NoEvidence ELSE @]
        [] q.op = "decision" ->
             IF mine THEN [view EXCEPT !.pair = a.subject, !.replacement = NoEvidence] ELSE view

Continues(q) ==
  /\ q.answer # Silence
  /\ calls' = calls \ {q}
  /\ view' = [(IF q.answer.kind = "told" THEN Accepted(q) ELSE view) EXCEPT !.busy = FALSE]
  /\ UNCHANGED <<wanted, screen, visits, current, taken, strays>>

HistoryPanelNext ==
  \/ LoadCandidate \/ CreateFinalization \/ LoadFinalization
  \/ ComparePeriods \/ LoadReplacementCandidate \/ DecideReplacement \/ LoadReplacementDecision
  \/ Select \/ Tick \/ ShowBatch \/ ResetPanel
  \/ EvidenceChanges
  \/ \E q \in calls : Serves(q) \/ Strays(q) \/ Continues(q)

-----------------------------------------------------------------------------

\* What is decided on a batch or a pair is the evidence the user had before his
\* eyes when he ticked the box, however often it was loaded again, whatever
\* changed on the server and whichever answer came late: "pair/digest reload
\* confirmation reset" (src/docs/impact/2026-08-15-phase0-phase1-start.md:1080).
DecidedAsConfirmed == \A t \in taken : t.seen = t.digest
=============================================================================
