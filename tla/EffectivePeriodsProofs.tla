------------------------ MODULE EffectivePeriodsProofs ------------------------
(***************************************************************************)
(* What the commands on a history do to its periods, for every calendar    *)
(* and every number of revisions.                                          *)
(***************************************************************************)
EXTENDS EffectivePeriods, TLAPS

\* The approved revisions and their periods decide whether periods are disjoint.
LEMMA SamePeriods ==
  ASSUME NEW old, NEW new, Disjoint(old), Approved(new) = Approved(old),
         \A q \in Approved(old) : new[q] = old[q]
  PROVE  Disjoint(new)
BY DEF Disjoint

\* A revision that is not approved may change as it likes, short of approval.
LEMMA PendingChange ==
  ASSUME NEW rows \in [Revisions -> Row], NEW r \in Revisions, NEW row, Disjoint(rows),
         rows[r].status # "APPROVED", row.status # "APPROVED"
  PROVE  Disjoint([rows EXCEPT ![r] = row])
<1> DEFINE new == [rows EXCEPT ![r] = row]
<1>1. \A q \in Revisions : new[q] = IF q = r THEN row ELSE rows[q] OBVIOUS
<1>2. Approved(new) = Approved(rows) BY <1>1 DEF Approved
<1>3. \A q \in Approved(rows) : new[q] = rows[q] BY <1>1 DEF Approved
<1> QED BY <1>2, <1>3, SamePeriods

\* A row keeps its type and its period when its status or its end is changed.
LEMMA RowUpdates ==
  ASSUME NEW row \in Row
  PROVE  /\ AsReviewed(row) \in Row /\ AsReviewed(row).status = "REVIEWED"
         /\ AsReviewed(row).from = row.from /\ AsReviewed(row).to = row.to
         /\ AsReviewed(row).resolved = row.resolved
         /\ AsApproved(row) \in Row /\ AsApproved(row).status = "APPROVED"
         /\ AsApproved(row).from = row.from /\ AsApproved(row).to = row.to
         /\ AsApproved(row).resolved = row.resolved
BY DEF AsReviewed, AsApproved, Updated, Row, Statuses

LEMMA RowEnds ==
  ASSUME NEW row \in Row, NEW day \in Days, row.from < day
  PROVE  /\ EndingBefore(row, day) \in Row
         /\ EndingBefore(row, day).status = row.status
         /\ EndingBefore(row, day).from = row.from /\ EndingBefore(row, day).to = row.to
         /\ EndingBefore(row, day).resolved = day - 1 /\ day - 1 \in Days
         /\ EffectiveEnd(EndingBefore(row, day)) = day - 1
<1>1. day - 1 \in Days /\ day - 1 # 0
  <2>1. row.from \in Days BY DEF Row
  <2> QED BY <2>1, PeriodsAssumption DEF Days
<1> QED BY <1>1 DEF EndingBefore, Updated, Row, Statuses, EffectiveEnd

\* Approving a revision without conflicts leaves the periods disjoint.
LEMMA ApprovalKeepsDisjoint ==
  ASSUME NEW rows \in [Revisions -> Row], NEW r \in Revisions, Disjoint(rows),
         rows[r].resolved = 0, Conflicts(rows, r) = {}
  PROVE  Disjoint([rows EXCEPT ![r] = AsApproved(@)])
<1> DEFINE new == [rows EXCEPT ![r] = AsApproved(@)]
<1>1. \A q \in Revisions : new[q] = IF q = r THEN AsApproved(rows[r]) ELSE rows[q] OBVIOUS
<1>2. /\ new[r].from = rows[r].from /\ EffectiveEnd(new[r]) = rows[r].to
  BY <1>1, RowUpdates DEF EffectiveEnd
<1>3. \A q \in Approved(rows) \ {r} :
        ~ Overlap(rows[r].from, rows[r].to, rows[q].from, EffectiveEnd(rows[q]))
  BY DEF Conflicts
<1>4. \A q \in Approved(new) \ {r} : q \in Approved(rows) /\ new[q] = rows[q]
  BY <1>1 DEF Approved
<1> SUFFICES Disjoint(new) OBVIOUS
<1> HIDE DEF new
<1> SUFFICES ASSUME NEW p \in Approved(new), NEW q \in Approved(new), p # q
             PROVE  ~ Overlap(new[p].from, EffectiveEnd(new[p]), new[q].from, EffectiveEnd(new[q]))
  BY DEF Disjoint
<1>5. CASE p = r
  <2>1. q \in Approved(rows) \ {r} /\ new[q] = rows[q]
    <3>1. q \in Approved(new) \ {r} BY <1>5
    <3> QED BY <1>4, <3>1
  <2>2. ~ Overlap(rows[r].from, rows[r].to, rows[q].from, EffectiveEnd(rows[q])) BY <1>3, <2>1
  <2> QED BY <1>2, <1>5, <2>1, <2>2
<1>6. CASE q = r
  <2>1. p \in Approved(rows) \ {r} /\ new[p] = rows[p] BY <1>4, <1>6
  <2> QED BY <1>2, <1>3, <1>6, <2>1 DEF Overlap
<1>7. CASE p # r /\ q # r
  <2>1. p \in Approved(rows) /\ new[p] = rows[p] BY <1>4, <1>7
  <2>2. q \in Approved(rows) /\ new[q] = rows[q] BY <1>4, <1>7
  <2> QED BY <2>1, <2>2 DEF Disjoint
<1> QED BY <1>5, <1>6, <1>7

\* A take-over leaves the periods disjoint: the predecessor starts before the
\* successor and nobody else has a day of it.
LEMMA SupersessionKeepsDisjoint ==
  ASSUME NEW rows \in [Revisions -> Row], NEW p \in Revisions, NEW s \in Revisions, p # s,
         Disjoint(rows), rows[p].status = "APPROVED", rows[s].resolved = 0,
         rows[p].from < rows[s].from, rows[s].from <= EffectiveEnd(rows[p]),
         Conflicts(rows, s) \subseteq {p}
  PROVE  Disjoint([rows EXCEPT ![p] = EndingBefore(@, rows[s].from), ![s] = AsApproved(@)])
<1> DEFINE new == [rows EXCEPT ![p] = EndingBefore(@, rows[s].from), ![s] = AsApproved(@)]
           first == rows[s].from
<1>1. \A q \in Revisions : new[q] = IF q = s THEN AsApproved(rows[s])
                                    ELSE IF q = p THEN EndingBefore(rows[p], first) ELSE rows[q]
  OBVIOUS
<1>2. rows[p] \in Row /\ rows[s] \in Row /\ first \in Days BY DEF Row
<1>3. new[s].from = first /\ EffectiveEnd(new[s]) = rows[s].to
  BY <1>1, <1>2, RowUpdates DEF EffectiveEnd
<1>4. new[p].from = rows[p].from /\ EffectiveEnd(new[p]) = first - 1
  BY <1>1, <1>2, RowEnds
<1>5. \A q \in Approved(rows) \ {p, s} :
        ~ Overlap(first, rows[s].to, rows[q].from, EffectiveEnd(rows[q]))
  BY DEF Conflicts
<1>6. \A q \in Approved(new) \ {p, s} : q \in Approved(rows) /\ new[q] = rows[q]
  BY <1>1 DEF Approved
<1>7. p \in Approved(rows) BY DEF Approved
<1>8. \A q \in Revisions : rows[q].from \in Nat /\ rows[q].to \in Nat /\ EffectiveEnd(rows[q]) \in Nat
  BY DEF Row, Days, EffectiveEnd
<1>9. ~ Overlap(new[p].from, first - 1, first, rows[s].to) BY <1>8 DEF Overlap
<1>10. ASSUME NEW q \in Approved(new) \ {p, s}
       PROVE  /\ ~ Overlap(new[p].from, first - 1, new[q].from, EffectiveEnd(new[q]))
              /\ ~ Overlap(first, rows[s].to, new[q].from, EffectiveEnd(new[q]))
  <2>1. q \in Revisions /\ q \in Approved(rows) /\ new[q] = rows[q] BY <1>6 DEF Approved
  <2>2. ~ Overlap(rows[p].from, EffectiveEnd(rows[p]), rows[q].from, EffectiveEnd(rows[q]))
    BY <1>7, <2>1 DEF Disjoint
  <2>3. ~ Overlap(rows[p].from, first - 1, rows[q].from, EffectiveEnd(rows[q]))
    BY <1>8, <2>1, <2>2 DEF Overlap
  <2> QED BY <1>4, <1>5, <2>1, <2>3
<1> SUFFICES ASSUME NEW a \in Approved(new), NEW b \in Approved(new), a # b
             PROVE  ~ Overlap(new[a].from, EffectiveEnd(new[a]), new[b].from, EffectiveEnd(new[b]))
  BY DEF Disjoint
<1> HIDE DEF new, first
<1>11. CASE a = s /\ b = p BY <1>3, <1>4, <1>9, <1>11 DEF Overlap
<1>12. CASE a = p /\ b = s BY <1>3, <1>4, <1>9, <1>12
<1>13. CASE a = s /\ b \notin {p, s} BY <1>3, <1>10, <1>13
<1>14. CASE a = p /\ b \notin {p, s} BY <1>4, <1>10, <1>14
<1>15. CASE b = s /\ a \notin {p, s} BY <1>3, <1>10, <1>15 DEF Overlap
<1>16. CASE b = p /\ a \notin {p, s} BY <1>4, <1>10, <1>16 DEF Overlap
<1>17. CASE a \notin {p, s} /\ b \notin {p, s} BY <1>6, <1>17 DEF Disjoint
<1> QED BY <1>11, <1>12, <1>13, <1>14, <1>15, <1>16, <1>17

-----------------------------------------------------------------------------
(* What readers see of these changes.                                      *)

\* Revisions that are not approved are in force on no day.
LEMMA PendingPeriods ==
  ASSUME NEW rows \in [Revisions -> Row], NEW r \in Revisions, NEW row,
         rows[r].status # "APPROVED", row.status # "APPROVED"
  PROVE  PeriodsOf([rows EXCEPT ![r] = row]) = PeriodsOf(rows)
BY DEF PeriodsOf

\* An approval takes days that nobody has.
LEMMA ApprovalPeriods ==
  ASSUME NEW rows \in [Revisions -> Row], NEW r \in Revisions,
         rows[r].status = "REVIEWED", rows[r].resolved = 0, rows[r].from <= rows[r].to,
         Conflicts(rows, r) = {}
  PROVE  LET new  == [rows EXCEPT ![r] = AsApproved(@)]
             days == rows[r].from .. rows[r].to
         IN  /\ PeriodsOf(new) = [PeriodsOf(rows) EXCEPT ![r] = days]
             /\ PeriodsOf(rows)[r] = {} /\ days # {}
             /\ days \cap UNION {PeriodsOf(rows)[q] : q \in Revisions} = {}
<1> DEFINE new == [rows EXCEPT ![r] = AsApproved(@)]
           days == rows[r].from .. rows[r].to
<1>1. rows[r] \in Row /\ rows[r].from \in Nat /\ rows[r].to \in Nat BY DEF Row, Days
<1>2. new[r].status = "APPROVED" /\ new[r].from .. EffectiveEnd(new[r]) = days
  BY <1>1, RowUpdates DEF EffectiveEnd
<1>3. PeriodsOf(new) = [PeriodsOf(rows) EXCEPT ![r] = days]
  BY <1>2 DEF PeriodsOf
<1>4. PeriodsOf(rows)[r] = {} BY DEF PeriodsOf
<1>5. rows[r].from \in days BY <1>1
<1>6. ASSUME NEW q \in Revisions PROVE days \cap PeriodsOf(rows)[q] = {}
  <2>1. CASE q \in Approved(rows) /\ q # r
    <3>1. ~ Overlap(rows[r].from, rows[r].to, rows[q].from, EffectiveEnd(rows[q]))
      BY <2>1 DEF Conflicts
    <3>2. rows[q].from \in Nat /\ EffectiveEnd(rows[q]) \in Nat BY DEF Row, Days, EffectiveEnd
    <3>3. days \cap (rows[q].from .. EffectiveEnd(rows[q])) = {}
      BY <1>1, <3>1, <3>2 DEF Overlap
    <3> QED BY <2>1, <3>3 DEF PeriodsOf, Approved
  <2>2. CASE q \notin Approved(rows) \/ q = r BY <1>4, <2>2 DEF PeriodsOf, Approved
  <2> QED BY <2>1, <2>2
<1> QED BY <1>3, <1>4, <1>5, <1>6

\* A take-over begins on a day of the predecessor, after its first one, and has no
\* day of anybody else.
LEMMA SupersessionPeriods ==
  ASSUME NEW rows \in [Revisions -> Row], NEW p \in Revisions, NEW s \in Revisions, p # s,
         rows[p].status = "APPROVED", rows[s].status = "REVIEWED", rows[s].resolved = 0,
         rows[s].from <= rows[s].to,
         rows[p].from < rows[s].from, rows[s].from <= EffectiveEnd(rows[p]),
         Conflicts(rows, s) \subseteq {p}, Disjoint(rows)
  PROVE  LET new   == [rows EXCEPT ![p] = EndingBefore(@, rows[s].from), ![s] = AsApproved(@)]
             first == rows[s].from
             days  == first .. rows[s].to
             old   == PeriodsOf(rows)
         IN  /\ PeriodsOf(new) = [old EXCEPT ![p] = old[p] \cap 1 .. first - 1, ![s] = days]
             /\ old[s] = {} /\ first \in days /\ first \in old[p] /\ first - 1 \in old[p]
             /\ days \cap ((UNION {old[q] : q \in Revisions}) \ old[p]) = {}
<1> DEFINE first == rows[s].from
           new   == [rows EXCEPT ![p] = EndingBefore(@, first), ![s] = AsApproved(@)]
           days  == first .. rows[s].to
           old   == PeriodsOf(rows)
<1>1. /\ rows[p] \in Row /\ rows[s] \in Row /\ first \in Days
      /\ first \in Nat /\ rows[s].to \in Nat /\ rows[p].from \in Nat /\ rows[p].from >= 1
      /\ EffectiveEnd(rows[p]) \in Nat
  BY DEF Row, Days, EffectiveEnd
<1>2. new[s].status = "APPROVED" /\ new[s].from .. EffectiveEnd(new[s]) = days
  BY <1>1, RowUpdates DEF EffectiveEnd
<1>3. /\ new[p].status = "APPROVED" /\ new[p].from = rows[p].from
      /\ EffectiveEnd(new[p]) = first - 1
  BY <1>1, RowEnds
<1>4. old[p] = rows[p].from .. EffectiveEnd(rows[p]) BY DEF PeriodsOf
<1>5. old[p] \cap 1 .. first - 1 = rows[p].from .. first - 1 BY <1>1, <1>4
<1>6. PeriodsOf(new) = [old EXCEPT ![p] = old[p] \cap 1 .. first - 1, ![s] = days]
  <2>1. \A q \in Revisions : PeriodsOf(new)[q] =
          IF q = s THEN days ELSE IF q = p THEN rows[p].from .. first - 1 ELSE old[q]
    BY <1>2, <1>3 DEF PeriodsOf
  <2> QED BY <1>5, <2>1 DEF PeriodsOf
<1>7. old[s] = {} BY DEF PeriodsOf
<1>8. first \in days /\ first \in old[p] /\ first - 1 \in old[p] BY <1>1, <1>4
<1>9. \A q \in Approved(rows) \ {s} :
         q # p => ~ Overlap(rows[s].from, rows[s].to, rows[q].from, EffectiveEnd(rows[q]))
  BY DEF Conflicts
<1>11. ASSUME NEW q \in Revisions, q # p PROVE days \cap old[q] = {}
  <2>1. CASE q \in Approved(rows)
    <3>0. q \in Approved(rows) \ {s} BY <2>1 DEF Approved
    <3>1. ~ Overlap(first, rows[s].to, rows[q].from, EffectiveEnd(rows[q])) BY <1>9, <1>11, <3>0
    <3>2. rows[q].from \in Nat /\ EffectiveEnd(rows[q]) \in Nat BY DEF Row, Days, EffectiveEnd
    <3>3. days \cap (rows[q].from .. EffectiveEnd(rows[q])) = {}
      BY <1>1, <3>1, <3>2 DEF Overlap
    <3> QED BY <2>1, <3>3 DEF PeriodsOf, Approved
  <2>2. CASE q \notin Approved(rows) BY <2>2 DEF PeriodsOf, Approved
  <2> QED BY <2>1, <2>2
<1> QED BY <1>6, <1>7, <1>8, <1>11
=============================================================================
