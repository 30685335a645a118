----------------------------- MODULE LongWorkflow -----------------------------
(***************************************************************************)
(* From a preserved workbook to the Long tables: a caller is shown the     *)
(* candidate of a receipt and confirms it by its digest.  Showing and      *)
(* confirming both build the candidate anew, from the Mapping catalog      *)
(* (MappingRegistration) read in one session and the row bindings of the   *)
(* day read in another one; what is confirmed is claimed after both.       *)
(* Templates are registered and bindings approved meanwhile.               *)
(*                                                                         *)
(* Bindings are approved here in one step (MasterConfig has the commands   *)
(* behind it), and a claim and its materialization are one step            *)
(* (LongPersistence has their races).                                      *)
(***************************************************************************)
EXTENDS MappingRegistration, LongCandidate

CONSTANTS
  Loaders,          \* threads that show and confirm candidates
  IntakeOf,         \* receipt -> models and LOTs the intake believed it to have
  OfferedBindings   \* what an administrator may approve

VARIABLES
  bindings,   \* approved revisions, with the period they are in force for
  loader,     \* Loaders -> where a thread is and what it has read
  jobs        \* ingestion jobs

loadingVars == <<bindings, loader, jobs>>
workflowVars == <<registrationVars, loadingVars>>

Idle0 == [pc |-> "idle"]

LoadingInit ==
  /\ bindings = {}
  /\ loader = [l \in Loaders |-> Idle0]
  /\ jobs = {}

WorkflowInit == RegistrationInit /\ LoadingInit

-----------------------------------------------------------------------------
(* Bindings.                                                               *)

\* supersede_row_binding: the predecessor ends where its successor begins.
Closed(b, from) == [b EXCEPT !.to = from - 1]

\* approve and supersede of a row binding: about a row of an approved template,
\* not overlapping another one of its key, a successor with a later revision.
ApproveBinding(b) ==
  LET same == {x \in bindings : x.key = b.key}
      open == {x \in same : x.from < b.from /\ b.from <= x.to}
  IN  /\ \E t \in Registered : /\ t.status = "APPROVED" /\ b.key[1] = t.scope /\ b.key[2] = t.id
                               /\ \E row \in t.rows : row.key = b.key[3]
      /\ \A x \in same : x.revision # b.revision
      /\ \A x \in open : x.revision < b.revision
      /\ \A x \in same \ open : x.to < b.from \/ b.to < x.from
      /\ bindings' = (bindings \ open) \cup {Closed(x, b.from) : x \in open} \cup {b}
      /\ UNCHANGED <<registrationVars, loader, jobs>>

\* load_row_binding_catalog.
CatalogOn(day) == {b \in bindings : BindingInForce(b, day)}

-----------------------------------------------------------------------------
(* Building a candidate.                                                   *)

ScopeOf(r) == IntakeOf[r].scope

\* The approved template that reads the workbook of r, MappingWorkspaceService.
ReadingOf(r) == Reading(WorkbookOf[r], ScopeOf(r), Registered)

\* What a request would build if both reads were one: a candidate, or none.
Truth(r) ==
  {Candidate(p, IntakeOf[r], CatalogOn(p.day)) :
     p \in {Preview(WorkbookOf[r], t) : t \in {ReadingOf(r)} \ {NoReading}}}

Goto(l, new) == loader' = [loader EXCEPT ![l] = new]

\* _mapping_preview, for either request: the first session.
ReadMapping(l, r, wanted) ==
  /\ ReadingOf(r) # NoReading
  /\ Goto(l, [pc |-> wanted, receipt |-> r,
              preview |-> Preview(WorkbookOf[r], ReadingOf(r)),
              digest |-> IF wanted = "confirm" THEN loader[l].shown ELSE NoText,
              truth |-> IF wanted = "confirm" THEN loader[l].truth ELSE {}])
  /\ UNCHANGED <<registrationVars, bindings, jobs>>

Show(l, r) == loader[l].pc = "idle" /\ ReadMapping(l, r, "show")
Confirm(l) == loader[l].pc = "shown" /\ ReadMapping(l, loader[l].receipt, "confirm")

\* _rebuild_workspace: the second session, and the candidate.
Rebuilt(l) ==
  Candidate(loader[l].preview, IntakeOf[loader[l].receipt], CatalogOn(loader[l].preview.day))

\* candidate: the caller is shown the candidate and keeps its digest.
ShowBindings(l) ==
  /\ loader[l].pc = "show"
  /\ Goto(l, [pc |-> "shown", receipt |-> loader[l].receipt, shown |-> Rebuilt(l),
              truth |-> Truth(loader[l].receipt)])
  /\ UNCHANGED <<registrationVars, bindings, jobs>>

\* Fault: the digest that was confirmed is not compared.
ConfirmBindingsUnread(l) ==
  /\ loader[l].pc = "confirm"
  /\ Goto(l, [loader[l] EXCEPT !.pc = "persist", !.digest = Rebuilt(l)])
  /\ UNCHANGED <<registrationVars, bindings, jobs>>

\* _confirm_rebuilt: LONG_CANDIDATE_STALE, or on to persist.
ConfirmBindings(l) ==
  /\ loader[l].pc = "confirm"
  /\ IF Rebuilt(l) = loader[l].digest
       THEN Goto(l, [loader[l] EXCEPT !.pc = "persist"])
       ELSE Goto(l, [pc |-> "told", receipt |-> loader[l].receipt, answer |-> "STALE"])
  /\ UNCHANGED <<registrationVars, bindings, jobs>>

-----------------------------------------------------------------------------
(* Persisting it.                                                          *)

\* _validate_before_claim: the template alone, as it is now, still reads the
\* workbook in the same way.
StillRead(r, p) ==
  LET t == registry[p.template]
  IN  /\ t.status = "APPROVED"
      /\ Reading(WorkbookOf[r], ScopeOf(r), {t}).id = t.id
      /\ Preview(WorkbookOf[r], t) = p

\* The jobs whose exact identity is that of a candidate: receipt, Mapping
\* revision, binding selections, parser and loader contracts.
SameIdentity(r, c) ==
  {j \in jobs : /\ j.receipt = r /\ j.candidate.preview.template = c.preview.template
                /\ j.candidate.selections = c.selections}

\* claim, materialize and mark_materialized.  A job of the same identity is
\* replayed when its whole basis, the catalog revision included, is the same.
Persist(l) ==
  LET r == loader[l].receipt
      c == loader[l].digest
      same == SameIdentity(r, c)
      Told(a) == Goto(l, [pc |-> "told", receipt |-> r, answer |-> a])
  IN  /\ loader[l].pc = "persist"
      /\ IF ~ StillRead(r, c.preview)         THEN Told("CONFIRMATION_STALE") /\ UNCHANGED jobs
         ELSE IF \E j \in same : j.candidate # c THEN Told("INTEGRITY_ERROR") /\ UNCHANGED jobs
         ELSE IF same # {}                     THEN Told("REPLAYED") /\ UNCHANGED jobs
         ELSE /\ Told("LOADED")
              /\ jobs' = jobs \cup {[receipt |-> r, candidate |-> c, truth |-> loader[l].truth]}
      /\ UNCHANGED <<registrationVars, bindings>>

\* The caller turns to something else; a request that dies is the same.
Leave(l) ==
  /\ loader[l].pc # "idle"
  /\ Goto(l, Idle0)
  /\ UNCHANGED <<registrationVars, bindings, jobs>>

LoadingNext ==
  \/ \E b \in OfferedBindings : ApproveBinding(b)
  \/ \E l \in Loaders :
       \/ \E r \in Receipts : Show(l, r)
       \/ ShowBindings(l) \/ Confirm(l) \/ ConfirmBindings(l) \/ Persist(l) \/ Leave(l)

WorkflowNext ==
  \/ RegistrationNext /\ UNCHANGED loadingVars
  \/ LoadingNext

WorkflowSpec == WorkflowInit /\ [][WorkflowNext]_workflowVars

-----------------------------------------------------------------------------
(* Safety.                                                                 *)

\* The two sessions of a request are no snapshot: a template or a binding can be
\* approved between them, and a binding that is superseded for some days only
\* gives a day its old catalog back.  What is loaded is nevertheless what both
\* catalogs gave at one moment, the one at which it was shown: had the template
\* been joined by another one before that, there was nothing to confirm.
LoadedWasTrue == \A j \in jobs : j.candidate \in j.truth

\* What is loaded as pending can be decided, whatever the evidence is.
PendingRowsAreBound == \A j \in jobs : PendingIsBound(j.candidate)

\* "Exact receipt replay is idempotent" (docs/adr/0002-pending-long-persistence-
\* boundary.md:33): who confirms again what was loaded is told so.
ExactReplayIsIdempotent ==
  \A l \in Loaders : loader[l].pc = "told" => loader[l].answer # "INTEGRITY_ERROR"
=============================================================================
