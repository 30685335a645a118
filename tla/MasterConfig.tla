----------------------------- MODULE MasterConfig -----------------------------
(***************************************************************************)
(* The Master configuration of a project: its model, supplier, model part  *)
(* and inspection items, the history of Master specifications of an item,  *)
(* and the history of bindings of a row of a Mapping revision to an item.  *)
(*                                                                         *)
(* As with Mapping templates, a command reads and checks without a lock,   *)
(* and its writes begin with the compare-and-swap on the version of its    *)
(* history; others commit in between.  What a command checks of the item   *)
(* and of the Mapping revision no version protects: it has to hold because *)
(* nothing can take it back.                                               *)
(***************************************************************************)
EXTENDS EffectivePeriods, FiniteSets

CONSTANTS
  Administrators,
  Items,      \* inspection items of one model part
  Specs,      \* histories of Master specifications
  Bindings,   \* histories of row bindings
  ItemOf,     \* history -> revision -> the item it is about
  Declared    \* periods that are declared: [from, to]

Histories == Specs \cup Bindings

ASSUME ConfigAssumption ==
  /\ Specs \cap Bindings = {}
  /\ ItemOf \in [Histories -> [Revisions -> Items]]
  /\ \A h \in Specs : \E i \in Items : \A r \in Revisions : ItemOf[h][r] = i
  /\ Declared \subseteq {d \in [from : Days, to : Days] : d.from <= d.to}

VARIABLES
  identities, \* the model, the supplier, the model part and the items there are
  item,       \* disposition and row_version of each item
  template,   \* status of the Mapping revision that the bindings name
  history,    \* row_version of each history
  config,     \* the row of each revision of each history
  takeovers,  \* the supersession decisions
  order       \* what each administrator has read and is about to write

configRows == <<identities, item, template, history, config, takeovers>>
configVars == <<configRows, order>>

\* The keys of a model, a supplier and a part of the model, and whose the parents are.
Named == {"model", "supplier", "part"}
ParentsOf(k) == CASE k \in Items -> {"part"} [] k = "part" -> {"model"} [] OTHER -> {}

Dispositions == {"CANDIDATE", "MANAGED", "EXCLUDED"}
NoOrder == [op |-> "none"]
RevisionOrder ==
  [op : {"create", "review", "approve"}, in : Histories, rev : Revisions, seen : Nat, row : Row]
TakeOverOrder ==
  [op : {"supersede"}, in : Histories, rev : Revisions, seen : Nat, row : Row,
   pred : Revisions, predRow : Row]
ItemOrder == [op : {"dispose"}, item : Items, to : {"MANAGED", "EXCLUDED"}, seen : Nat]
TakeOver == [in : Histories, pred : Revisions, succ : Revisions]

ConfigTypeOK ==
  /\ identities \subseteq Named \cup Items
  /\ item \in [Items -> [disposition : Dispositions, version : Nat]]
  /\ template \in Statuses
  /\ history \in [Histories -> Nat]
  /\ config \in [Histories -> [Revisions -> Row]]
  /\ takeovers \subseteq TakeOver
  /\ order \in [Administrators -> {NoOrder} \cup RevisionOrder \cup TakeOverOrder \cup ItemOrder]

\* The row of an item counts once the item is there: new ones are candidates.
ConfigInit ==
  /\ identities = {}
  /\ item = [i \in Items |-> [disposition |-> "CANDIDATE", version |-> 1]]
  /\ template = "REVIEWED"
  /\ history = [h \in Histories |-> 0]
  /\ config = [h \in Histories |-> [r \in Revisions |-> NoRow]]
  /\ takeovers = {}
  /\ order = [a \in Administrators |-> NoOrder]

-----------------------------------------------------------------------------
(* Identities.  They are never changed nor removed, and two of one key are  *)
(* kept apart by constraints: to look for the parents and to insert can be *)
(* one step.                                                               *)

Identify(k) ==
  /\ k \notin identities /\ ParentsOf(k) \subseteq identities
  /\ identities' = identities \cup {k}
  /\ UNCHANGED <<item, template, history, config, takeovers, order>>

CreateModel == Identify("model")
CreateSupplier == Identify("supplier")
CreateModelPart == Identify("part")
CreateInspectionItem == \E i \in Items : Identify(i)

\* _item, and _binding_canonical_rows.
Identified(h, r) ==
  ItemOf[h][r] \in identities /\ (h \in Bindings => "supplier" \in identities)

-----------------------------------------------------------------------------
(* What a command reads and checks.                                        *)

Order(a, o) ==
  /\ order[a] = NoOrder
  /\ order' = [order EXCEPT ![a] = o]
  /\ UNCHANGED configRows

OrderRevision(a, op, h, r, row) ==
  Order(a, [op |-> op, in |-> h, rev |-> r, seen |-> history[h], row |-> row])

\* The check of the disposition, and _require_binding_approvable.
Approvable(h, r) ==
  LET disposition == item[ItemOf[h][r]].disposition
  IN  IF h \in Specs THEN disposition = "MANAGED"
                     ELSE template = "APPROVED" /\ disposition # "CANDIDATE"

\* create_master_spec_draft, create_row_binding_draft: a binding names an
\* approved Mapping revision from the start.
OrderCreate(a, h, r) ==
  /\ Identified(h, r) /\ Appendable(config[h], r)
  /\ h \in Bindings => template = "APPROVED"
  /\ \E d \in Declared : OrderRevision(a, "create", h, r, Draft(d.from, d.to))

OrderReview(a, h, r) ==
  /\ config[h][r].status = "DRAFT"
  /\ OrderRevision(a, "review", h, r, config[h][r])

OrderApprove(a, h, r) ==
  /\ config[h][r].status = "REVIEWED" /\ Approvable(h, r)
  /\ Conflicts(config[h], r) = {}
  /\ OrderRevision(a, "approve", h, r, config[h][r])

\* Fault: the successor may begin on the first day of its predecessor.
TakesOverEarly(rows, p, s) ==
  /\ rows[p].from <= rows[s].from /\ rows[s].from <= EffectiveEnd(rows[p])
  /\ Conflicts(rows, s) \subseteq {p}

\* _validate_supersession_period: the predecessor is in force on the first day of
\* the successor and the day before, and no other approved revision is in the way.
TakesOver(rows, p, s) ==
  /\ rows[p].from < rows[s].from /\ rows[s].from <= EffectiveEnd(rows[p])
  /\ Conflicts(rows, s) \subseteq {p}

TakenOver(h, p, s) == \E t \in takeovers : t.in = h /\ (t.pred = p \/ t.succ = s)

OrderSupersede(a, h, p, s) ==
  /\ config[h][p].status = "APPROVED" /\ config[h][s].status = "REVIEWED" /\ p < s
  /\ Approvable(h, s) /\ ~ TakenOver(h, p, s) /\ TakesOver(config[h], p, s)
  /\ Order(a, [op |-> "supersede", in |-> h, rev |-> s, seen |-> history[h],
               row |-> config[h][s], pred |-> p, predRow |-> config[h][p]])

\* The facade's set_item_disposition looks at the item in a session of its own,
\* before the command; the caller names the version it knows.
OrderDisposition(a, i) ==
  /\ i \in identities /\ item[i].disposition = "CANDIDATE"
  /\ \E to \in {"MANAGED", "EXCLUDED"} :
       Order(a, [op |-> "dispose", item |-> i, to |-> to, seen |-> item[i].version])

-----------------------------------------------------------------------------
(* What a command writes.                                                  *)

Finished(a, op) ==
  /\ order[a].op = op
  /\ order' = [order EXCEPT ![a] = NoOrder]

\* _cas of the history.
CasHistoryOf(a) ==
  LET o == order[a]
  IN  history[o.in] = o.seen /\ history' = [history EXCEPT ![o.in] = @ + 1]

\* The constraints of the table of revisions: an end, declared or resolved, is
\* not before the first day, and resolving one does not extend the period.
RowAllowed(row) ==
  /\ row.status \in {"DRAFT", "REVIEWED", "APPROVED"} /\ row.version >= 1
  /\ row.from <= row.to
  /\ row.resolved # 0 => row.from <= row.resolved /\ row.resolved <= row.to

\* The condition of _cas on a revision.
SameRow(h, r, row) == config[h][r].version = row.version

WriteCreate(a) ==
  LET o == order[a]
  IN  /\ Finished(a, "create") /\ CasHistoryOf(a) /\ ~ Exists(config[o.in], o.rev)
      /\ RowAllowed(o.row)
      /\ config' = [config EXCEPT ![o.in][o.rev] = o.row]
      /\ UNCHANGED <<identities, item, template, takeovers>>

WriteReview(a) ==
  LET o == order[a]
  IN  /\ Finished(a, "review") /\ CasHistoryOf(a) /\ SameRow(o.in, o.rev, o.row)
      /\ config' = [config EXCEPT ![o.in][o.rev] = AsReviewed(@)]
      /\ UNCHANGED <<identities, item, template, takeovers>>

WriteApprove(a) ==
  LET o == order[a]
  IN  /\ Finished(a, "approve") /\ CasHistoryOf(a) /\ SameRow(o.in, o.rev, o.row)
      /\ config' = [config EXCEPT ![o.in][o.rev] = AsApproved(@)]
      /\ UNCHANGED <<identities, item, template, takeovers>>

WriteSupersede(a) ==
  LET o == order[a]
      rows == config[o.in]
  IN  /\ Finished(a, "supersede") /\ CasHistoryOf(a)
      /\ SameRow(o.in, o.rev, o.row) /\ SameRow(o.in, o.pred, o.predRow)
      /\ ~ TakenOver(o.in, o.pred, o.rev)
      /\ RowAllowed(EndingBefore(rows[o.pred], o.row.from))
      /\ config' = [config EXCEPT ![o.in] =
                      [rows EXCEPT ![o.pred] = EndingBefore(@, o.row.from),
                                   ![o.rev] = AsApproved(@)]]
      /\ takeovers' = takeovers \cup {[in |-> o.in, pred |-> o.pred, succ |-> o.rev]}
      /\ UNCHANGED <<identities, item, template>>

\* Fault: the version of the item is not compared.
WriteDispositionAnyway(a) ==
  LET o == order[a]
  IN  /\ Finished(a, "dispose")
      /\ item' = [item EXCEPT ![o.item] = [disposition |-> o.to, version |-> @.version + 1]]
      /\ UNCHANGED <<identities, template, history, config, takeovers>>

\* set_item_disposition of the command service.
WriteDisposition(a) ==
  LET o == order[a]
  IN  /\ Finished(a, "dispose") /\ item[o.item].version = o.seen
      /\ item' = [item EXCEPT ![o.item] = [disposition |-> o.to, version |-> @.version + 1]]
      /\ UNCHANGED <<identities, template, history, config, takeovers>>

\* Refused, failed or dead: the transaction is rolled back.
GiveUp(a) ==
  /\ order[a] # NoOrder
  /\ order' = [order EXCEPT ![a] = NoOrder]
  /\ UNCHANGED configRows

\* Somebody approves the Mapping revision (module MappingTemplates); no command
\* takes an approval back.
ApproveTemplate ==
  /\ template = "REVIEWED" /\ template' = "APPROVED"
  /\ UNCHANGED <<identities, item, history, config, takeovers, order>>

OrderSomething(a) ==
  \/ \E i \in Items : OrderDisposition(a, i)
  \/ \E h \in Histories, r \in Revisions :
       \/ OrderCreate(a, h, r) \/ OrderReview(a, h, r) \/ OrderApprove(a, h, r)
       \/ \E s \in Revisions : OrderSupersede(a, h, r, s)

WriteSomething(a) ==
  \/ WriteDisposition(a) \/ WriteCreate(a) \/ WriteReview(a)
  \/ WriteApprove(a) \/ WriteSupersede(a)

ConfigNext ==
  \/ CreateModel \/ CreateSupplier \/ CreateModelPart \/ CreateInspectionItem
  \/ ApproveTemplate
  \/ \E a \in Administrators : OrderSomething(a) \/ WriteSomething(a) \/ GiveUp(a)

ConfigSpec == ConfigInit /\ [][ConfigNext]_configVars

-----------------------------------------------------------------------------
(* Properties.                                                             *)

\* load_master_spec_catalog, load_row_binding_catalog: what is approved for a day,
\* specifications only of managed items.  A catalog with two revisions of a
\* history, or a binding that could not be approved now, does not load.
InForceOn(h, day) == {r \in Revisions : day \in PeriodsOf(config[h])[r]}
SpecsOn(day) ==
  [h \in Specs |-> {r \in InForceOn(h, day) : item[ItemOf[h][r]].disposition = "MANAGED"}]
BindingsOn(day) == [h \in Bindings |-> InForceOn(h, day)]
BindingsLoad(day) == \A h \in Bindings : \A r \in BindingsOn(day)[h] : Approvable(h, r)

(* The catalogs of every day load, are unambiguous and leave out nothing   *)
(* that is approved for it, although items are disposed of between the     *)
(* check of an approval and its write: an approved specification stays     *)
(* that of a managed item, an approved binding that of a decided one and   *)
(* of an approved Mapping revision.                                        *)
CatalogsTellAll ==
  \A day \in Days :
    /\ BindingsLoad(day)
    /\ \A h \in Specs : SpecsOn(day)[h] = InForceOn(h, day) /\ Cardinality(InForceOn(h, day)) <= 1
    /\ \A h \in Bindings : Cardinality(BindingsOn(day)[h]) <= 1

(* For readers every history keeps the promise of EffectiveHistory: who is *)
(* in force changes by an approval for free days, or by a take-over.       *)
PromiseOf(h) == INSTANCE EffectiveHistory WITH period <- PeriodsOf(config[h])
EveryHistoryKeepsItsPromise ==
  /\ \A h \in Histories : PromiseOf(h)!Init
  /\ [][\A h \in Histories : UNCHANGED PeriodsOf(config[h]) \/ PromiseOf(h)!Next]_config

\* The item of a specification, and where its revisions stand on a day.
SpecItem(h) == CHOOSE i \in Items : \A r \in Revisions : ItemOf[h][r] = i
Standing(rows, day) ==
  [r \in Revisions |-> IF rows[r].status # "APPROVED" THEN "open"
                       ELSE IF day \in PeriodsOf(rows)[r] THEN "in force" ELSE "other days"]

(* Whoever judges results of one day is promised by every specification    *)
(* what ItemConfiguration says: an item is decided once, only a managed    *)
(* one gets a Master, of which there is one at a time, and the version of  *)
(* the history counts every change.  The check of the item and the write   *)
(* of the approval are two steps, and nothing locks the item in between.   *)
ReviewOf(h, day) ==
  INSTANCE ItemConfiguration WITH
    MasterRevisions <- Revisions, item <- item[SpecItem(h)],
    master <- [standing |-> Standing(config[h], day), version |-> history[h]]
SeenForReview(h, day) == <<item[SpecItem(h)], Standing(config[h], day), history[h]>>
ReviewsGetTheirMasters ==
  /\ \A h \in Specs, day \in Days : ReviewOf(h, day)!ConfigurationInit
  /\ [][\A h \in Specs, day \in Days :
          UNCHANGED SeenForReview(h, day) \/ ReviewOf(h, day)!ConfigurationNext]_configRows

PromisesToReaders == EveryHistoryKeepsItsPromise /\ ReviewsGetTheirMasters
=============================================================================
