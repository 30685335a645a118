---------------------------- MODULE MappingPreview ----------------------------
(***************************************************************************)
(* How a workbook is recognised: the Mapping templates of a project and    *)
(* supplier are held against the scan of the workbook, and the one that    *)
(* fits, is approved and was in force on the day of the inspection says    *)
(* which cell means what.                                                  *)
(*                                                                         *)
(* A workbook has a layout (names, order, kinds, visibility, used ranges   *)
(* and merged ranges of its sheets) and its non-empty cells.  A cell has   *)
(* an address <<row, column>>, a kind, and a raw value <<word, spelling>>: *)
(* spellings of one word differ in case or spaces only.  The scanner       *)
(* reports a cell once, so that an address is there or not.                *)
(***************************************************************************)
EXTENDS Naturals, FiniteSets

Nowhere == 0   \* the id of no template
NoReading == [id |-> Nowhere]

\* _normalize_token.
Token(raw) == raw[1]
IsText(cell) == cell.kind = "text"

\* _coordinate_row.
RowOf(address) == address[1]

\* The non-empty cells of a row.
RowCells(w, row) == {a \in DOMAIN w.cells : RowOf(a) = row}

\* CellAddress of all roles of a row of inspection, InspectionRowMapping.all_addresses.
AllAddresses(row) == {row.item} \cup row.roles \cup {row.samples[i] : i \in DOMAIN row.samples}

-----------------------------------------------------------------------------
(* The evidence a template asks of a workbook.                             *)

\* _fingerprint_issues finds nothing: sheets, headers, merges and rows are as asserted.
MatchesFingerprint(w, t) ==
  /\ w.layout = t.layout
  /\ \A a \in DOMAIN t.headers : a \in DOMAIN w.cells /\ Token(w.cells[a].raw) = Token(t.headers[a])
  /\ \A row \in t.rows : RowCells(w, RowOf(row.item)) = row.cells

\* _map_cell.
Resolves(w, a) == a \in DOMAIN w.cells

\* _source_inspection_date: a typed or ISO date, and no formula; 0 when there is none.
InspectionDay(w, t) ==
  LET a == t.ids["INSPECTION_DATE"]
  IN  IF Resolves(w, a) /\ w.cells[a].kind \in {"temporal", "text"} THEN w.cells[a].day ELSE 0

\* _supplier_evidence_issue finds nothing.
NamesSupplier(w, t) ==
  LET a == t.ids["SUPPLIER"]
  IN  Resolves(w, a) /\ Token(w.cells[a].raw) = Token(t.alias)

\* is_effective_on.
InForce(t, day) == t.from <= day /\ day <= t.to

\* The templates of a supplier that build_mapping_preview may choose from.
Eligible(w, scope, templates) ==
  {t \in templates :
     /\ t.scope = scope
     /\ MatchesFingerprint(w, t)
     /\ t.status = "APPROVED"
     /\ InspectionDay(w, t) # 0
     /\ NamesSupplier(w, t)
     /\ InForce(t, InspectionDay(w, t))}

\* _extract_preview finds every cell.
Extracts(w, t) ==
  /\ \A kind \in DOMAIN t.ids : Resolves(w, t.ids[kind])
  /\ \A row \in t.rows : \A a \in AllAddresses(row) : Resolves(w, a)

\* build_mapping_preview: the template that reads the workbook.  Without one,
\* or with two, a mapping is required.
Reading(w, scope, templates) ==
  LET eligible == Eligible(w, scope, templates)
  IN  IF Cardinality(eligible) = 1 /\ \A t \in eligible : Extracts(w, t)
      THEN CHOOSE t \in eligible : TRUE
      ELSE NoReading

\* The preview: what the cells hold, under the names the template gives them.
Preview(w, t) ==
  [template |-> t.id,
   scope |-> t.scope,
   day |-> InspectionDay(w, t),
   identifiers |-> [kind \in DOMAIN t.ids |-> w.cells[t.ids[kind]]],
   rows |-> {[key |-> row.key,
              samples |-> [i \in DOMAIN row.samples |->
                             [cell |-> w.cells[row.samples[i]],
                              refresh |-> row.samples[i] \in w.stale]]] : row \in t.rows}]
=============================================================================
