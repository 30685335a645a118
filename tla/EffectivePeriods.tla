--------------------------- MODULE EffectivePeriods ---------------------------
(***************************************************************************)
(* Revisions with effective periods: the operators that the histories of   *)
(* Mapping templates, Master specifications and row bindings share.        *)
(*                                                                         *)
(* A day is a number.  A period without an end ends with the last day of   *)
(* the calendar, as every use in the code replaces the missing end by      *)
(* date.max.  A resolved end of 0 is one that has not been resolved.       *)
(***************************************************************************)
EXTENDS Naturals

CONSTANTS
  Revisions,  \* revision numbers
  LastDay     \* date.max

ASSUME PeriodsAssumption ==
  /\ Revisions \subseteq Nat \ {0}
  /\ LastDay \in Nat \ {0}

Days == 1 .. LastDay
Statuses == {"NONE", "DRAFT", "REVIEWED", "APPROVED"}

\* The row of a revision; one that does not exist has version 0.
Row == [status : Statuses, from : Days, to : Days, resolved : {0} \cup Days, version : Nat]
NoRow == [status |-> "NONE", from |-> 1, to |-> 1, resolved |-> 0, version |-> 0]
Draft(from, to) == [status |-> "DRAFT", from |-> from, to |-> to, resolved |-> 0, version |-> 1]

\* _effective_end.
EffectiveEnd(row) == IF row.resolved # 0 THEN row.resolved ELSE row.to

\* _periods_overlap.
Overlap(start1, end1, start2, end2) == start1 <= end2 /\ start2 <= end1

Exists(rows, r) == rows[r].status # "NONE"
Approved(rows)  == {r \in Revisions : rows[r].status = "APPROVED"}

\* A revision is appended after all there are, and never overwritten.
Appendable(rows, r) == \A q \in Revisions : Exists(rows, q) => q < r

\* The declared period of a revision against the approved ones.
Conflicts(rows, r) ==
  {q \in Approved(rows) \ {r} :
     Overlap(rows[r].from, rows[r].to, rows[q].from, EffectiveEnd(rows[q]))}

\* No day has two approved revisions.
Disjoint(rows) ==
  \A p, q \in Approved(rows) :
    p # q => ~ Overlap(rows[p].from, EffectiveEnd(rows[p]), rows[q].from, EffectiveEnd(rows[q]))

\* The days on which each revision is in force.
PeriodsOf(rows) ==
  [r \in Revisions |-> IF rows[r].status = "APPROVED"
                         THEN rows[r].from .. EffectiveEnd(rows[r]) ELSE {}]

\* An UPDATE of the row of a revision counts its version; the declared period stays.
Updated(row, status, resolved) ==
  [status |-> status, from |-> row.from, to |-> row.to, resolved |-> resolved,
   version |-> row.version + 1]
AsReviewed(row)        == Updated(row, "REVIEWED", row.resolved)
AsApproved(row)        == Updated(row, "APPROVED", row.resolved)
EndingBefore(row, day) == Updated(row, row.status, day - 1)
=============================================================================
