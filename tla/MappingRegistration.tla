------------------------- MODULE MappingRegistration -------------------------
(***************************************************************************)
(* Registering a Mapping template from a preserved workbook: a draft is    *)
(* derived from the cells a person selects, reviewed and approved.         *)
(*                                                                         *)
(* Each of the three commands first reads: the scan of the receipt, the    *)
(* catalog of all templates, the audit record of the draft.  It then       *)
(* writes in a transaction of its own that compares the versions of this   *)
(* one template only; and an approval reads the catalog again, after it    *)
(* was committed, to see that the workbook can now be read.  Others may    *)
(* write between any two of these, and the process may die.                *)
(***************************************************************************)
EXTENDS MappingPreview, Sequences

CONSTANTS
  Registrars,     \* requests that are served at the same time
  Receipts,       \* preserved workbooks
  WorkbookOf,     \* what a receipt holds
  Selections,     \* what a person may select in a workbook
  Scopes,         \* supplier scopes
  MaxTemplates    \* bound: templates that are drafted

ASSUME RegistrationAssumption ==
  /\ MaxTemplates \in Nat
  /\ \A s \in Selections : IsFiniteSet(s.rows)

VARIABLES
  registry,   \* the templates, by their id; a version is a status
  asked       \* what each registrar has read and is about to write

registrationVars == <<registry, asked>>

NoRequest == [op |-> "none", id |-> 0]
Registered == {registry[i] : i \in DOMAIN registry}
Drafting == {c \in Registrars : asked[c].op = "create"}

RegistrationInit ==
  /\ registry = <<>>
  /\ asked = [c \in Registrars |-> NoRequest]

-----------------------------------------------------------------------------
(* What a draft takes from the workbook.                                   *)

\* _supplier_alias and _derive_fingerprint refuse formulas, numbers and blanks,
\* roles outside the row of their item, and cells that are not there.
\* MappingTemplate refuses a cell with two meanings.
Derivable(w, s) ==
  LET named == {s.ids[kind] : kind \in DOMAIN s.ids}
      inRows == UNION {AllAddresses(row) : row \in s.rows}
  IN  /\ s.headers # {} /\ s.rows # {}
      /\ \A a \in s.headers \cup {s.ids["SUPPLIER"]} : a \in DOMAIN w.cells /\ IsText(w.cells[a])
      /\ \A row \in s.rows : \A a \in AllAddresses(row) :
           RowOf(a) = RowOf(row.item) /\ a \in DOMAIN w.cells
      /\ Cardinality(named) = Cardinality(DOMAIN s.ids) /\ named \cap inRows = {}

\* create_draft: the template that a selection derives from the workbook of a
\* receipt.
Derived(r, scope, s) ==
  LET w == WorkbookOf[r]
  IN
  [id      |-> MaxTemplates + 1,   \* until it is stored
   status  |-> "DRAFT",
   receipt |-> r,           \* source reference of the creation audit
   told    |-> "nothing",   \* what its approver was answered
   scope   |-> scope,
   layout  |-> w.layout,
   headers |-> [a \in s.headers |-> w.cells[a].raw],
   rows    |-> {[key |-> row.key, item |-> row.item, roles |-> row.roles, samples |-> row.samples,
                 cells |-> RowCells(w, RowOf(row.item))] : row \in s.rows},
   ids     |-> s.ids,
   alias   |-> w.cells[s.ids["SUPPLIER"]].raw,
   from    |-> s.from,
   to      |-> s.to]

\* _require_preview_ready: with t approved in the place of its own row, the
\* workbook has a reading.  A result that is ready is not asked whose it is;
\* but t itself matches the workbook it is derived from.
PreviewReady(w, t, templates) ==
  LET prospective == [t EXCEPT !.status = "APPROVED"]
  IN  Reading(w, t.scope, {u \in templates : u.id # t.id} \cup {prospective}).id # Nowhere

-----------------------------------------------------------------------------
(* The commands.                                                           *)

Ask(c, op, i, t) ==
  /\ asked[c] = NoRequest
  /\ asked' = [asked EXCEPT ![c] = [op |-> op, id |-> i, template |-> t]]
  /\ UNCHANGED registry

\* create_draft, up to the command.  The bound counts the drafts in flight.
CreateCheck(c, r, scope, s) ==
  /\ Len(registry) + Cardinality(Drafting) < MaxTemplates
  /\ Derivable(WorkbookOf[r], s)
  /\ PreviewReady(WorkbookOf[r], Derived(r, scope, s), Registered)
  /\ Ask(c, "create", 0, Derived(r, scope, s))

\* create_revision.  The id is a fresh one.
CreateCommit(c) ==
  /\ asked[c].op = "create"
  /\ registry' = Append(registry, [asked[c].template EXCEPT !.id = Len(registry) + 1])
  /\ asked' = [asked EXCEPT ![c] = NoRequest]

\* _validate_persisted_source, with _assert_same_receipt: r is the receipt of
\* the creation audit, the fingerprint rebuilt from it is that of the template.
SourceStillFits(i, r) ==
  LET t == registry[i]
      w == WorkbookOf[r]
  IN  /\ r = t.receipt
      /\ t.layout = w.layout
      /\ t.headers = [a \in DOMAIN t.headers |-> w.cells[a].raw]
      /\ \A row \in t.rows : RowCells(w, RowOf(row.item)) = row.cells
      /\ t.alias = w.cells[t.ids["SUPPLIER"]].raw
      /\ PreviewReady(w, t, Registered)

\* review, up to the command.
ReviewCheck(c, i, r) ==
  /\ registry[i].status = "DRAFT"
  /\ SourceStillFits(i, r)
  /\ Ask(c, "review", i, registry[i])

\* approve, up to the command.
ApproveCheck(c, i, r) ==
  /\ registry[i].status = "REVIEWED"
  /\ SourceStillFits(i, r)
  /\ Ask(c, "approve", i, registry[i])

\* The expected versions are those of the row that was read.
Move(c, op, from, to) ==
  /\ asked[c].op = op
  /\ registry[asked[c].id].status = from
  /\ registry' = [registry EXCEPT ![asked[c].id].status = to]

ReviewCommit(c) ==
  Move(c, "review", "DRAFT", "REVIEWED") /\ asked' = [asked EXCEPT ![c] = NoRequest]

ApproveCommit(c) ==
  Move(c, "approve", "REVIEWED", "APPROVED") /\ asked' = [asked EXCEPT ![c].op = "reload"]

\* MAPPING_VERSION_CONFLICT: another request moved the template on.
Refuse(c) ==
  /\ \/ asked[c].op = "review" /\ registry[asked[c].id].status # "DRAFT"
     \/ asked[c].op = "approve" /\ registry[asked[c].id].status # "REVIEWED"
  /\ asked' = [asked EXCEPT ![c] = NoRequest]
  /\ UNCHANGED registry

\* Fault: the approval is reported without the catalog being read again.
ReloadUnchecked(c) ==
  LET i == asked[c].id
  IN  /\ asked[c].op = "reload"
      /\ registry' = [registry EXCEPT ![i].told = "ready"]
      /\ asked' = [asked EXCEPT ![c] = NoRequest]

\* approve, after the command: APPROVED_PREVIEW_RELOAD_FAILED unless it is this
\* template that reads the workbook.
Reload(c) ==
  LET i == asked[c].id
      t == registry[i]
  IN  /\ asked[c].op = "reload"
      /\ registry' = [registry EXCEPT ![i].told =
           IF Reading(WorkbookOf[t.receipt], t.scope, Registered).id = i THEN "ready"
           ELSE "unavailable"]
      /\ asked' = [asked EXCEPT ![c] = NoRequest]

\* A request dies wherever it is; what it committed stays.
Die(c) ==
  /\ asked[c] # NoRequest
  /\ asked' = [asked EXCEPT ![c] = NoRequest]
  /\ UNCHANGED registry

RegistrationNext ==
  \E c \in Registrars :
    \/ \E r \in Receipts, scope \in Scopes, s \in Selections : CreateCheck(c, r, scope, s)
    \/ CreateCommit(c)
    \/ \E i \in DOMAIN registry, r \in Receipts : ReviewCheck(c, i, r) \/ ApproveCheck(c, i, r)
    \/ ReviewCommit(c) \/ ApproveCommit(c) \/ Refuse(c)
    \/ Reload(c)
    \/ Die(c)

-----------------------------------------------------------------------------
(* Safety.                                                                 *)

\* Both templates claim the workbook of i.
Collide(i, j) ==
  {registry[i], registry[j]} \subseteq
    Eligible(WorkbookOf[registry[i].receipt], registry[i].scope, Registered)

\* Two drafts can each be found alone with their workbooks and be approved at
\* once (the check reads a catalog that the approval does not compare), after
\* which neither workbook can be read.  Whoever made this happen is told: of
\* two templates that claim the workbooks of both, at most one was answered
\* with a preview that is ready.
AmbiguityIsTold ==
  \A i, j \in DOMAIN registry :
    i # j /\ registry[i].told = "ready" /\ registry[j].told = "ready" =>
      ~ (Collide(i, j) /\ Collide(j, i))
=============================================================================
