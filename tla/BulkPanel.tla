------------------------------- MODULE BulkPanel -------------------------------
(***************************************************************************)
(* The panel of a browser that shows one Bulk batch: BulkWorkspacePanel    *)
(* and the client it calls.  The user sends files or asks for a batch (a   *)
(* command); while the batch that is shown is open, the panel asks for it  *)
(* again and again (a poll).  Answers come back in any order, the project  *)
(* on display may change at any time, and what a request was made for is   *)
(* what its handler remembers, not what is on display when it returns.     *)
(*                                                                         *)
(* A handler or a continuation changes the state of the page; what depends *)
(* on the state (the poll, the reset for another scope) runs when the page *)
(* is rendered afterwards, and another answer can come in between.  The    *)
(* user acts on rendered pages only.                                       *)
(***************************************************************************)
EXTENDS Naturals, Sequences

CONSTANTS
  Scopes,           \* projects with their suppliers
  MaxChoices,       \* bound: sets of files that are chosen
  MaxScopeChanges,  \* bound
  MaxLostAnswers    \* bound: requests that fail although they may have been served

ASSUME PanelAssumption ==
  MaxChoices \in Nat /\ MaxScopeChanges \in Nat /\ MaxLostAnswers \in Nat

VARIABLES
  batches,     \* of the server: scope, idempotency key, and whether it has ended
  stored,      \* localStorage: the batch that was last shown for a scope, or 0
  scope,       \* what the panel is told to show
  page,        \* React state
  rendered,    \* the scope of the last rendering
  due,         \* whether a rendering is due, and whether it starts the poll anew
  timer,       \* whether the poll waits for its delay
  requests,    \* on their way
  generation,  \* scopeGenerationRef
  choices, lostAnswers

panelVars ==
  <<batches, stored, scope, page, rendered, due, timer, requests, generation, choices, lostAnswers>>

NoBatch == [id |-> 0, ended |-> FALSE]
NoAnswer == [kind |-> "none"]

\* The state after a change of scope.
Fresh(s) ==
  [files |-> 0, lookup |-> stored[s], batch |-> NoBatch, error |-> FALSE, busy |-> FALSE]

PanelInit ==
  /\ batches = <<>>
  /\ stored = [s \in Scopes |-> 0]
  /\ scope \in Scopes /\ rendered = scope
  /\ page = [files |-> 0, lookup |-> 0, batch |-> NoBatch, error |-> FALSE, busy |-> FALSE]
  /\ due = "nothing" /\ timer = FALSE
  /\ requests = {}
  /\ generation = 0 /\ choices = 0 /\ lostAnswers = 0

-----------------------------------------------------------------------------
(* The state of the page.                                                  *)

Settled == due = "nothing" /\ rendered = scope
ShownOpen(p) == p.batch # NoBatch /\ ~ p.batch.ended /\ ~ p.error

\* The setters: the effect of the poll depends on batch and error, by identity.
SetPage(new, accepted) ==
  /\ page' = new
  /\ due' = IF accepted \/ new.batch # page.batch \/ new.error # page.error \/ due = "poll"
            THEN "poll" ELSE "page"

\* controller.abort(): nobody waits any more for an answer that has not come; one
\* that has is still delivered.  The server may serve a POST all the same.
Dead(qs) == {[q EXCEPT !.live = FALSE] : q \in {r \in qs : r.answer # NoAnswer \/ r.op = "create"}}
Aborted(by) == {q \in requests : q.by # by} \cup Dead({q \in requests : q.by = by})

-----------------------------------------------------------------------------
(* What the user does.                                                     *)

\* chooseFiles: the files get an idempotency key.
ChooseFiles ==
  /\ Settled /\ ~ page.busy /\ choices < MaxChoices
  /\ choices' = choices + 1
  /\ SetPage([page EXCEPT !.files = choices + 1, !.error = FALSE, !.batch = NoBatch], FALSE)
  /\ UNCHANGED <<batches, stored, scope, rendered, timer, requests, generation, lostAnswers>>

\* runRequest, up to its await.
Run(op, target, lookup) ==
  /\ Settled /\ ~ page.busy
  /\ requests' = Aborted("command") \cup
       {[by |-> "command", op |-> op, target |-> target, scope |-> rendered,
         generation |-> generation, live |-> TRUE, answer |-> NoAnswer]}
  /\ SetPage([page EXCEPT !.busy = TRUE, !.error = FALSE, !.lookup = lookup], FALSE)
  /\ UNCHANGED <<batches, stored, scope, rendered, timer, generation, choices, lostAnswers>>

SubmitFiles == page.files # 0 /\ Run("create", page.files, page.lookup)
Reload == \E id \in DOMAIN batches : Run("get", id, id)

\* The parent shows another project or supplier.
ChangeScope(s) ==
  /\ s # scope /\ generation < MaxScopeChanges
  /\ scope' = s
  /\ UNCHANGED <<batches, stored, page, rendered, due, timer, requests, generation, choices,
                 lostAnswers>>

-----------------------------------------------------------------------------
(* Rendering.                                                              *)

\* Fault: requests for the former scope go on.
ResetPageOnly ==
  /\ rendered # scope
  /\ rendered' = scope
  /\ page' = Fresh(scope) /\ due' = "poll" /\ timer' = FALSE
  /\ UNCHANGED <<batches, stored, scope, requests, generation, choices, lostAnswers>>

\* The effect on [projectKey, supplierScope], and the clean-up of the poll.
Reset ==
  /\ rendered # scope
  /\ rendered' = scope
  /\ generation' = generation + 1
  /\ requests' = Dead(requests)
  /\ page' = Fresh(scope) /\ due' = "poll" /\ timer' = FALSE
  /\ UNCHANGED <<batches, stored, scope, choices, lostAnswers>>

\* Fault: the poll is made anew only for another batch.
StartPollOnce ==
  /\ due = "poll" /\ rendered = scope
  /\ requests' = Aborted("poll")
  /\ timer' = (ShownOpen(page) /\ \A q \in requests : q.by = "command")
  /\ due' = "nothing"
  /\ UNCHANGED <<batches, stored, scope, page, rendered, generation, choices, lostAnswers>>

\* The effect of the poll: the former one is aborted.
StartPoll ==
  /\ due = "poll" /\ rendered = scope
  /\ requests' = Aborted("poll")
  /\ timer' = ShownOpen(page)
  /\ due' = "nothing"
  /\ UNCHANGED <<batches, stored, scope, page, rendered, generation, choices, lostAnswers>>

Redraw ==
  /\ due = "page" /\ rendered = scope
  /\ due' = "nothing"
  /\ UNCHANGED <<batches, stored, scope, page, rendered, timer, requests, generation, choices,
                 lostAnswers>>

\* The timer of the poll.
PollFires ==
  /\ timer /\ Settled
  /\ timer' = FALSE
  /\ requests' = requests \cup
       {[by |-> "poll", op |-> "get", target |-> page.batch.id, scope |-> rendered,
         generation |-> generation, live |-> TRUE, answer |-> NoAnswer]}
  /\ UNCHANGED <<batches, stored, scope, page, rendered, due, generation, choices, lostAnswers>>

-----------------------------------------------------------------------------
(* The server and the way to it.                                           *)

SnapshotOf(b, id) == [kind |-> "snapshot", id |-> id, ended |-> b[id].ended]
Replied(q, a) == requests' = (requests \ {q}) \cup {[q EXCEPT !.answer = a]}

\* POST and GET of a batch: a key has one batch, and a GET of another project's
\* batch may be refused.
Serve(q) ==
  /\ q.answer = NoAnswer
  /\ LET known == {id \in DOMAIN batches : /\ batches[id].scope = q.scope
                                           /\ batches[id].key = q.target}
         made == Append(batches, [scope |-> q.scope, key |-> q.target, ended |-> FALSE])
     IN  \/ /\ q.op = "create" /\ known = {}
            /\ batches' = made /\ Replied(q, SnapshotOf(made, Len(made)))
         \/ /\ q.op = "create" /\ UNCHANGED batches
            /\ \E id \in known : Replied(q, SnapshotOf(batches, id))
         \/ /\ q.op = "get" /\ UNCHANGED batches
            /\ \/ Replied(q, SnapshotOf(batches, q.target))
               \/ batches[q.target].scope # q.scope /\ Replied(q, [kind |-> "error"])
  /\ UNCHANGED <<stored, scope, page, rendered, due, timer, generation, choices, lostAnswers>>

\* The request, or its answer, is lost.
Lose(q) ==
  /\ q.answer.kind # "error" /\ lostAnswers < MaxLostAnswers
  /\ lostAnswers' = lostAnswers + 1
  /\ Replied(q, [kind |-> "error"])
  /\ UNCHANGED <<batches, stored, scope, page, rendered, due, timer, generation, choices>>

EndBatch(id) ==
  /\ ~ batches[id].ended
  /\ batches' = [batches EXCEPT ![id].ended = TRUE]
  /\ UNCHANGED <<stored, scope, page, rendered, due, timer, requests, generation, choices,
                 lostAnswers>>

-----------------------------------------------------------------------------
(* Answers.                                                                *)

\* acceptSnapshot, with what runRequest does besides for a command.
Accept(q) ==
  LET mine == batches[q.answer.id].scope = q.scope
      command == q.by = "command"
      new == [page EXCEPT !.batch = IF mine THEN [id |-> q.answer.id, ended |-> q.answer.ended]
                                    ELSE NoBatch,
                          !.error = @ \/ ~ mine,
                          !.busy = @ /\ ~ command,
                          !.lookup = IF mine /\ command THEN q.answer.id ELSE @]
  IN  /\ SetPage(new, TRUE)
      /\ stored' = IF mine /\ command THEN [stored EXCEPT ![q.scope] = q.answer.id] ELSE stored

Tell(q) ==
  SetPage([page EXCEPT !.error = TRUE, !.busy = @ /\ q.by # "command"], FALSE) /\ UNCHANGED stored

\* A continuation.  requestSnapshot turns whatever happens while a body is read
\* into an error of its own, an abort as well: only the generation is asked then.
Deliver(q) ==
  /\ q.answer # NoAnswer
  /\ requests' = requests \ {q}
  /\ \/ q.live /\ q.generation = generation /\ q.answer.kind = "snapshot" /\ Accept(q)
     \/ q.live /\ q.generation = generation /\ q.answer.kind = "error" /\ Tell(q)
     \/ ~ q.live /\ q.generation = generation /\ Tell(q)
     \/ (~ q.live \/ q.generation # generation) /\ UNCHANGED <<page, due, stored>>
  /\ UNCHANGED <<batches, scope, rendered, timer, generation, choices, lostAnswers>>

Browser == Reset \/ StartPoll \/ Redraw \/ PollFires
Network == \E q \in requests : Serve(q) \/ Deliver(q)
Batches == \E id \in DOMAIN batches : EndBatch(id)

PanelNext ==
  \/ ChooseFiles \/ SubmitFiles \/ Reload
  \/ \E s \in Scopes : ChangeScope(s)
  \/ Browser \/ Network \/ Batches
  \/ \E q \in requests : Lose(q)

-----------------------------------------------------------------------------

\* "A late answer of the former project does not reach the screen"
\* (src/frontend/src/BulkWorkspacePanel.test.tsx:261): whatever is on its way when
\* the scope changes, a settled page shows a batch of its scope, and so does the
\* browser remember it.
LateAnswersAreDropped ==
  /\ Settled /\ page.batch # NoBatch => batches[page.batch.id].scope = scope
  /\ \A s \in Scopes : stored[s] # 0 => batches[stored[s]].scope = s

\* A batch that is shown as open does not stay so: it is asked for until it has
\* ended, or the user is told that this failed, or looks at something else.
OpenBatchIsFollowed ==
  \A n \in 1 .. MaxChoices :
    (ShownOpen(page) /\ page.batch.id = n) ~> ~ (ShownOpen(page) /\ page.batch.id = n)
=============================================================================
