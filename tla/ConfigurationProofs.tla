------------------------- MODULE ConfigurationProofs --------------------------
(***************************************************************************)
(* Proofs about the two kinds of effective-dated histories.  About         *)
(* MappingTemplates, for every number of clients and revisions, every      *)
(* calendar and every choice of declared periods; and about MasterConfig,  *)
(* also for every number of items and histories: the catalogs tell all     *)
(* that is approved, and every history keeps its promise to its readers.   *)
(***************************************************************************)
EXTENDS MappingTemplates, MasterConfig, EffectivePeriodsProofs, FiniteSetTheorems

(* MAPPING TEMPLATES.                                                      *)

-----------------------------------------------------------------------------
(* What a step does: a client reads or gives up, or one commits.           *)

Commits(c) == Create(c) \/ Review(c) \/ Approve(c) \/ Supersede(c)

\* A read begins a command whose facts hold in the version that it names.
Begins(c, new) ==
  /\ UNCHANGED rowVars /\ command' = [command EXCEPT ![c] = new]
  /\ new \in Command /\ new.history = version /\ ReadHolds(revision, new)

LEMMA ReadBegins ==
  ASSUME MappingInv, NEW c \in Clients, Read(c)
  PROVE  \E new \in Command : Begins(c, new)
<1> DEFINE Asks(op, r, p, row, predRow) ==
             [op |-> op, rev |-> r, pred |-> p, history |-> version,
              row |-> row, predRow |-> predRow]
<1>0. version \in Nat /\ revision \in [Revisions -> Row] BY DEF MappingInv, TypeOK
<1>1. NoRow \in Row BY PeriodsAssumption DEF NoRow, Row, Statuses, Days
<1>2. ASSUME NEW r \in Revisions, CreateRead(c, r) PROVE \E new \in Command : Begins(c, new)
  <2>1. PICK d \in Periods : Begin(c, "create", r, None, Draft(d.from, d.to), NoRow)
    BY <1>2 DEF CreateRead
  <2>2. d.from \in Days /\ d.to \in Days /\ d.from <= d.to BY MappingAssumption
  <2> DEFINE new == Asks("create", r, None, Draft(d.from, d.to), NoRow)
  <2>3. Draft(d.from, d.to) \in Row BY <2>2 DEF Draft, Row, Statuses
  <2>4. new \in Command BY <1>0, <1>1, <2>3 DEF Command, Ops
  <2>5. ReadHolds(revision, new) BY <1>2, <2>2 DEF ReadHolds, CreateRead, Draft
  <2>6. Begins(c, new) BY <2>1, <2>4, <2>5 DEF Begins, Begin
  <2> QED BY <2>4, <2>6
<1>3. ASSUME NEW r \in Revisions, ReviewRead(c, r) PROVE \E new \in Command : Begins(c, new)
  <2> DEFINE new == Asks("review", r, None, revision[r], NoRow)
  <2>1. new \in Command BY <1>0, <1>1 DEF Command, Ops
  <2>2. ReadHolds(revision, new) BY <1>3 DEF ReadHolds, ReviewRead
  <2>3. Begins(c, new) BY <1>3, <2>1, <2>2 DEF Begins, Begin, ReviewRead
  <2> QED BY <2>1, <2>3
<1>4. ASSUME NEW r \in Revisions, ApproveRead(c, r) PROVE \E new \in Command : Begins(c, new)
  <2> DEFINE new == Asks("approve", r, None, revision[r], NoRow)
  <2>1. new \in Command BY <1>0, <1>1 DEF Command, Ops
  <2>2. ReadHolds(revision, new) BY <1>4 DEF ReadHolds, ApproveRead
  <2>3. Begins(c, new) BY <1>4, <2>1, <2>2 DEF Begins, Begin, ApproveRead
  <2> QED BY <2>1, <2>3
<1>5. ASSUME NEW p \in Revisions, NEW s \in Revisions, SupersedeRead(c, p, s)
      PROVE  \E new \in Command : Begins(c, new)
  <2> DEFINE new == Asks("supersede", s, p, revision[s], revision[p])
  <2>1. new \in Command BY <1>0 DEF Command, Ops
  <2>2. ReadHolds(revision, new) BY <1>5 DEF ReadHolds, SupersedeRead
  <2>3. Begins(c, new) BY <1>5, <2>1, <2>2 DEF Begins, Begin, SupersedeRead
  <2> QED BY <2>1, <2>3
<1> QED BY <1>2, <1>3, <1>4, <1>5 DEF Read

LEMMA Steps ==
  ASSUME [Next]_vars
  PROVE  \/ UNCHANGED vars
         \/ \E c \in Clients : Read(c) \/ Rollback(c) \/ Commits(c)
BY DEF Next, Commits

\* A commit counts the version, ends its command, and finds what was read still true.
LEMMA CommitFacts ==
  ASSUME MappingInv, NEW c \in Clients, Commits(c)
  PROVE  /\ version' = version + 1 /\ command' = [command EXCEPT ![c] = NoCommand]
         /\ ReadHolds(revision, command[c]) /\ command[c] \in Command /\ command[c].rev \in Revisions
         /\ command[c].row \in Row
<1>1. PICK op \in Ops : Commit(c, op)
  BY DEF Commits, Create, Review, Approve, Supersede, Ops
<1>2. /\ version' = version + 1 /\ command' = [command EXCEPT ![c] = NoCommand]
      /\ command[c].history = version /\ command[c].op = op
  BY <1>1 DEF Commit, CasHistory
<1>3. ReadHolds(revision, command[c]) BY <1>2 DEF MappingInv, CommandInv
<1>4. command[c] \in Command BY DEF MappingInv, TypeOK
<1>5. op # "none" BY DEF Ops
<1> QED BY <1>2, <1>3, <1>4, <1>5 DEF ReadHolds, Command

\* What the rows become, by the operation; and what is true of the rows before.
LEMMA CreateFacts ==
  ASSUME MappingInv, NEW c \in Clients, Create(c)
  PROVE  LET r == command[c].rev
             row == command[c].row
         IN  /\ revision' = [revision EXCEPT ![r] = row]
             /\ audit' = Audited(r, NoRow, row) /\ UNCHANGED supersession
             /\ revision[r].status = "NONE" /\ row.status = "DRAFT"
             /\ row.from <= row.to /\ row.resolved = 0
<1>1. ReadHolds(revision, command[c]) BY CommitFacts DEF Commits
<1>2. command[c].op = "create" BY DEF Create, Commit
<1> QED BY <1>1, <1>2 DEF Create, ReadHolds, Exists

LEMMA ReviewFacts ==
  ASSUME MappingInv, NEW c \in Clients, Review(c)
  PROVE  LET r == command[c].rev
         IN  /\ revision' = [revision EXCEPT ![r] = AsReviewed(@)]
             /\ audit' = Audited(r, revision[r], AsReviewed(revision[r]))
             /\ UNCHANGED supersession
             /\ revision[r].status = "DRAFT"
<1>1. ReadHolds(revision, command[c]) BY CommitFacts DEF Commits
<1>2. command[c].op = "review" BY DEF Review, Commit
<1> QED BY <1>1, <1>2 DEF Review, ReadHolds

LEMMA ApproveFacts ==
  ASSUME MappingInv, NEW c \in Clients, Approve(c)
  PROVE  LET r == command[c].rev
         IN  /\ revision' = [revision EXCEPT ![r] = AsApproved(@)]
             /\ audit' = Audited(r, revision[r], AsApproved(revision[r]))
             /\ UNCHANGED supersession
             /\ revision[r].status = "REVIEWED" /\ revision[r].resolved = 0
             /\ Conflicts(revision, r) = {}
<1>1. ReadHolds(revision, command[c]) /\ command[c].rev \in Revisions BY CommitFacts DEF Commits
<1>2. command[c].op = "approve" BY DEF Approve, Commit
<1>3. revision[command[c].rev].status = "REVIEWED" BY <1>1, <1>2 DEF ReadHolds
<1>4. revision[command[c].rev].resolved = 0 BY <1>1, <1>3 DEF MappingInv, RowInv
<1> QED BY <1>1, <1>2, <1>3, <1>4 DEF Approve, ReadHolds

\* No decision was taken about the predecessor, so that it has no resolved end.
LEMMA SupersedeFacts ==
  ASSUME MappingInv, NEW c \in Clients, Supersede(c)
  PROVE  LET s == command[c].rev
             p == command[c].pred
             first == revision[s].from
         IN  /\ p \in Revisions /\ p # s /\ first \in Days
             /\ revision' = [revision EXCEPT ![p] = EndingBefore(@, first), ![s] = AsApproved(@)]
             /\ supersession' = supersession \cup {[pred |-> p, succ |-> s, end |-> first - 1]}
             /\ audit' = [audit EXCEPT
                  ![p] = Append(@, [before |-> revision[p], after |-> EndingBefore(revision[p], first)]),
                  ![s] = Append(@, [before |-> revision[s], after |-> AsApproved(revision[s])])]
             /\ revision[p].status = "APPROVED" /\ revision[p].resolved = 0
             /\ revision[s].status = "REVIEWED" /\ revision[s].resolved = 0
             /\ revision[p].from < first /\ first <= EffectiveEnd(revision[p])
             /\ Conflicts(revision, s) \subseteq {p}
<1> DEFINE s == command[c].rev
           p == command[c].pred
           row == command[c].row
           predRow == command[c].predRow
<1>1. ReadHolds(revision, command[c]) /\ s \in Revisions BY CommitFacts DEF Commits
<1>2. command[c].op = "supersede" BY DEF Supersede, Commit
<1>3. /\ row = revision[s] /\ p \in Revisions /\ predRow = revision[p]
      /\ revision[p].status = "APPROVED" /\ revision[s].status = "REVIEWED"
      /\ p \in Spanning(revision, s) /\ Conflicts(revision, s) \subseteq {p}
  BY <1>1, <1>2 DEF ReadHolds
<1>4. ~ Decided(p, s) BY DEF Supersede
<1>5. revision[p].resolved = 0 BY <1>3, <1>4 DEF Decided, MappingInv, RowInv
<1>6. revision[s].resolved = 0 BY <1>1, <1>3 DEF MappingInv, RowInv
<1>7. revision[p] \in Row /\ revision[s] \in Row BY <1>1, <1>3 DEF MappingInv, TypeOK
<1>8. [predRow EXCEPT !.resolved = 0] = predRow BY <1>3, <1>5, <1>7 DEF Row
<1>9. revision[p].from < revision[s].from /\ revision[s].from <= EffectiveEnd(revision[p])
  BY <1>3 DEF Spanning
<1>10. p # s BY <1>3
<1>11. /\ revision' = [revision EXCEPT ![p] = EndingBefore(@, row.from), ![s] = AsApproved(@)]
       /\ supersession' = supersession \cup {[pred |-> p, succ |-> s, end |-> row.from - 1]}
       /\ audit' = [audit EXCEPT
            ![p] = Append(@, [before |-> [predRow EXCEPT !.resolved = 0],
                              after  |-> EndingBefore(predRow, row.from)]),
            ![s] = Append(@, [before |-> row, after |-> AsApproved(row)])]
  BY DEF Supersede, AuditedTakeOver
<1>12. revision[s].from \in Days BY <1>7 DEF Row
<1> QED BY <1>3, <1>5, <1>6, <1>8, <1>9, <1>10, <1>11, <1>12

-----------------------------------------------------------------------------
(* The parts of the invariant, step by step.                               *)

\* Commands keep their types and know only what still holds.
LEMMA CommandStep ==
  ASSUME MappingInv, [Next]_vars
  PROVE  version' \in Nat /\ command' \in [Clients -> Command] /\ CommandInv'
<1>0. version \in Nat /\ command \in [Clients -> Command] BY DEF MappingInv, TypeOK
<1>1. NoCommand \in Command
  BY PeriodsAssumption DEF NoCommand, Command, NoRow, Row, Statuses, Days
<1>2. \A cmd \in Command : cmd.history \in Nat BY DEF Command
<1>3. \A d \in Clients : /\ command[d].history <= version
                         /\ command[d].history = version => ReadHolds(revision, command[d])
  BY DEF MappingInv, CommandInv
<1>4. ASSUME version' = version, revision' = revision,
             \A d \in Clients : /\ command'[d].history <= version
                                /\ command'[d].history = version => ReadHolds(revision, command'[d])
      PROVE  CommandInv'
  <2>1. ASSUME NEW d \in Clients
        PROVE  ReadHolds(revision, command[d])' <=> ReadHolds(revision', command'[d])
    BY DEF ReadHolds, Spanning, Appendable, Conflicts, Approved, Exists, Overlap, EffectiveEnd
  <2>2. ASSUME NEW d \in Clients, command'[d].history = version'
        PROVE  ReadHolds(revision, command[d])'
    <3>1. ReadHolds(revision, command'[d]) BY <1>4, <2>2, Zenon
    <3>2. ReadHolds(revision', command'[d]) BY <1>4, <3>1, Zenon
    <3> QED BY <2>1, <3>2, Zenon
  <2>3. \A d \in Clients : command'[d].history <= version' BY <1>4, Zenon
  <2> QED BY <2>2, <2>3, Zenon DEF CommandInv
<1>5. ASSUME NEW c \in Clients, NEW new \in Command, UNCHANGED rowVars,
             command' = [command EXCEPT ![c] = new], new.history <= version,
             new.history = version => ReadHolds(revision, new)
      PROVE  version' \in Nat /\ command' \in [Clients -> Command] /\ CommandInv'
  <2>1. version' = version /\ revision' = revision BY <1>5 DEF rowVars
  <2>3. \A d \in Clients : command'[d] = IF d = c THEN new ELSE command[d] BY <1>0, <1>5
  <2>4. \A d \in Clients : /\ command'[d].history <= version
                           /\ command'[d].history = version => ReadHolds(revision, command'[d])
    BY <1>3, <1>5, <2>3
  <2>5. CommandInv' BY <1>4, <2>1, <2>4
  <2> QED BY <1>0, <1>5, <2>1, <2>5
<1>6. ASSUME NEW c \in Clients, Read(c)
      PROVE  version' \in Nat /\ command' \in [Clients -> Command] /\ CommandInv'
  <2>1. PICK new \in Command : Begins(c, new) BY <1>6, ReadBegins
  <2>2. /\ UNCHANGED rowVars /\ command' = [command EXCEPT ![c] = new]
        /\ new.history <= version /\ ReadHolds(revision, new)
    BY <1>0, <2>1 DEF Begins
  <2> QED BY <1>5, <2>2
<1>7. ASSUME NEW c \in Clients, Rollback(c)
      PROVE  version' \in Nat /\ command' \in [Clients -> Command] /\ CommandInv'
  <2>1. NoCommand.history <= version /\ ReadHolds(revision, NoCommand) BY <1>0 DEF NoCommand, ReadHolds
  <2> QED BY <1>1, <1>5, <1>7, <2>1 DEF Rollback
<1>8. ASSUME NEW c \in Clients, Commits(c)
      PROVE  version' \in Nat /\ command' \in [Clients -> Command] /\ CommandInv'
  <2>1. version' = version + 1 /\ command' = [command EXCEPT ![c] = NoCommand]
    BY <1>8, CommitFacts
  <2>2. \A d \in Clients : command'[d] = IF d = c THEN NoCommand ELSE command[d] BY <1>0, <2>1
  <2>3. \A d \in Clients : command'[d].history <= version /\ command'[d].history \in Nat
    <3>1. NoCommand.history <= version /\ NoCommand.history \in Nat BY <1>0 DEF NoCommand
    <3>2. \A d \in Clients : command[d].history <= version BY <1>3, Zenon
    <3>3. \A d \in Clients : command[d].history \in Nat BY <1>0, <1>2
    <3> QED BY <2>2, <3>1, <3>2, <3>3
  <2>4. \A d \in Clients : command'[d].history <= version' /\ command'[d].history # version'
    BY <1>0, <2>1, <2>3
  <2>5. CommandInv' BY <2>4 DEF CommandInv
  <2> QED BY <1>0, <1>1, <2>1, <2>5
<1>9. CASE UNCHANGED vars
  <2>1. version' = version /\ revision' = revision /\ command' = command
    BY <1>9 DEF vars, rowVars
  <2> QED BY <1>0, <1>3, <1>4, <2>1
<1> QED BY <1>6, <1>7, <1>8, <1>9, Steps

\* Any step but a commit leaves the rows alone.
LEMMA QuietSteps ==
  ASSUME MappingInv, [Next]_vars
  PROVE  \/ UNCHANGED rowVars
         \/ \E c \in Clients : Commits(c)
<1>1. \A c \in Clients : Read(c) => UNCHANGED rowVars BY ReadBegins DEF Begins
<1>2. \A c \in Clients : Rollback(c) => UNCHANGED rowVars BY DEF Rollback
<1>3. UNCHANGED vars => UNCHANGED rowVars BY DEF vars
<1> QED BY <1>1, <1>2, <1>3, Steps

\* Rows keep their types and their shape, periods stay disjoint.
RowsHold ==
  /\ revision \in [Revisions -> Row] /\ supersession \subseteq Decision
  /\ RowInv /\ PeriodsAreDisjoint

LEMMA RowStep ==
  ASSUME MappingInv, [Next]_vars
  PROVE  RowsHold'
<1>0. /\ revision \in [Revisions -> Row] /\ supersession \subseteq Decision
      /\ RowInv /\ Disjoint(revision)
  BY DEF MappingInv, TypeOK, PeriodsAreDisjoint
<1>1. CASE UNCHANGED rowVars
  BY <1>0, <1>1 DEF rowVars, RowsHold, RowInv, PeriodsAreDisjoint, Disjoint, Approved
<1>2. ASSUME NEW r \in Revisions, NEW row \in Row, revision' = [revision EXCEPT ![r] = row],
             UNCHANGED supersession, Disjoint([revision EXCEPT ![r] = row]),
             row.status # "NONE", row.from <= row.to, row.resolved = 0
      PROVE  RowsHold'
  <2>1. revision' \in [Revisions -> Row] BY <1>0, <1>2
  <2>2. \A q \in Revisions : revision'[q] = IF q = r THEN row ELSE revision[q] BY <1>0, <1>2
  <2>3. RowInv' BY <1>0, <1>2, <2>2 DEF RowInv
  <2>4. PeriodsAreDisjoint' BY <1>2 DEF PeriodsAreDisjoint
  <2> QED BY <1>0, <1>2, <2>1, <2>3, <2>4 DEF RowsHold
<1>3. ASSUME NEW c \in Clients, Create(c) PROVE RowsHold'
  <2> DEFINE r == command[c].rev
             row == command[c].row
  <2>1. r \in Revisions /\ row \in Row BY <1>3, CommitFacts DEF Commits
  <2>2. /\ revision' = [revision EXCEPT ![r] = row] /\ UNCHANGED supersession
        /\ revision[r].status = "NONE" /\ row.status = "DRAFT"
        /\ row.from <= row.to /\ row.resolved = 0
    BY <1>3, CreateFacts
  <2>3. Disjoint([revision EXCEPT ![r] = row]) BY <1>0, <2>1, <2>2, PendingChange
  <2> QED BY <1>2, <2>1, <2>2, <2>3
<1>4. ASSUME NEW c \in Clients, Review(c) PROVE RowsHold'
  <2> DEFINE r == command[c].rev
             row == AsReviewed(revision[r])
  <2>1. r \in Revisions BY <1>4, CommitFacts DEF Commits
  <2>2. /\ revision' = [revision EXCEPT ![r] = row] /\ UNCHANGED supersession
        /\ revision[r].status = "DRAFT"
    BY <1>4, ReviewFacts
  <2>3. /\ row \in Row /\ row.status = "REVIEWED" /\ row.from = revision[r].from
        /\ row.to = revision[r].to /\ row.resolved = revision[r].resolved
    BY <1>0, <2>1, RowUpdates
  <2>4. row.from <= row.to /\ row.resolved = 0 BY <1>0, <2>1, <2>2, <2>3 DEF RowInv
  <2> HIDE DEF row
  <2>5. Disjoint([revision EXCEPT ![r] = row]) BY <1>0, <2>1, <2>2, <2>3, PendingChange
  <2> QED BY <1>2, <2>1, <2>2, <2>3, <2>4, <2>5
<1>5. ASSUME NEW c \in Clients, Approve(c) PROVE RowsHold'
  <2> DEFINE r == command[c].rev
             row == AsApproved(revision[r])
  <2>1. r \in Revisions BY <1>5, CommitFacts DEF Commits
  <2>2. /\ revision' = [revision EXCEPT ![r] = row] /\ UNCHANGED supersession
        /\ revision[r].resolved = 0 /\ Conflicts(revision, r) = {}
    BY <1>5, ApproveFacts
  <2>3. /\ row \in Row /\ row.status = "APPROVED" /\ row.from = revision[r].from
        /\ row.to = revision[r].to /\ row.resolved = revision[r].resolved
    BY <1>0, <2>1, RowUpdates
  <2>4. row.from <= row.to /\ row.resolved = 0 BY <1>0, <2>1, <2>2, <2>3 DEF RowInv
  <2>5. Disjoint([revision EXCEPT ![r] = row])
    BY <1>0, <2>1, <2>2, ApprovalKeepsDisjoint
  <2> HIDE DEF row
  <2> QED BY <1>2, <2>1, <2>2, <2>3, <2>4, <2>5
<1>6. ASSUME NEW c \in Clients, Supersede(c) PROVE RowsHold'
  <2> DEFINE s == command[c].rev
             p == command[c].pred
             first == revision[s].from
             prow == EndingBefore(revision[p], first)
             srow == AsApproved(revision[s])
             decision == [pred |-> p, succ |-> s, end |-> first - 1]
  <2>1. s \in Revisions BY <1>6, CommitFacts DEF Commits
  <2>2. /\ p \in Revisions /\ p # s /\ first \in Days
        /\ revision' = [revision EXCEPT ![p] = prow, ![s] = srow]
        /\ supersession' = supersession \cup {decision}
        /\ revision[p].status = "APPROVED" /\ revision[s].resolved = 0
        /\ revision[p].resolved = 0
        /\ revision[p].from < first /\ first <= EffectiveEnd(revision[p])
        /\ Conflicts(revision, s) \subseteq {p}
    BY <1>6, SupersedeFacts
  <2>3. revision[p] \in Row /\ revision[s] \in Row BY <1>0, <2>1, <2>2
  <2>4. /\ prow \in Row /\ prow.status = "APPROVED" /\ prow.from = revision[p].from
        /\ prow.to = revision[p].to /\ prow.resolved = first - 1 /\ first - 1 \in Days
    BY <2>2, <2>3, RowEnds
  <2>5. /\ srow \in Row /\ srow.status = "APPROVED" /\ srow.from = revision[s].from
        /\ srow.to = revision[s].to /\ srow.resolved = 0
    BY <2>2, <2>3, RowUpdates
  <2>6. revision' \in [Revisions -> Row] BY <1>0, <2>1, <2>2, <2>4, <2>5
  <2>7. decision \in Decision BY <2>1, <2>2, <2>4 DEF Decision
  <2>8. supersession' \subseteq Decision BY <1>0, <2>2, <2>7
  <2>9. Disjoint([revision EXCEPT ![p] = prow, ![s] = srow])
    BY <1>0, <2>1, <2>2, SupersessionKeepsDisjoint
  <2>10. PeriodsAreDisjoint' BY <2>2, <2>9 DEF PeriodsAreDisjoint
  <2>11. /\ prow.from <= prow.to /\ prow.from <= prow.resolved /\ prow.resolved <= prow.to
         /\ srow.from <= srow.to
    <3>1. /\ revision[p].from \in Nat /\ revision[p].to \in Nat /\ first \in Nat
      BY <2>2, <2>3 DEF Row, Days
    <3>2. EffectiveEnd(revision[p]) = revision[p].to BY <2>2 DEF EffectiveEnd
    <3>3. revision[p].from <= revision[p].to /\ revision[s].from <= revision[s].to
      BY <1>0, <2>1, <2>2 DEF RowInv
    <3> QED BY <2>2, <2>4, <2>5, <3>1, <3>2, <3>3
  <2>12. decision.pred = p /\ decision \in supersession' BY <2>2
  <2> HIDE DEF prow, srow, decision
  <2>13. \A q \in Revisions :
           revision'[q] = IF q = s THEN srow ELSE IF q = p THEN prow ELSE revision[q]
    BY <1>0, <2>2
  <2>14. RowInv'
    <3> SUFFICES ASSUME NEW q \in Revisions
                 PROVE  /\ revision'[q].status = "NONE" => revision'[q] = NoRow
                        /\ revision'[q].from <= revision'[q].to
                        /\ revision'[q].resolved # 0 =>
                             /\ revision'[q].status = "APPROVED"
                             /\ revision'[q].from <= revision'[q].resolved
                             /\ revision'[q].resolved <= revision'[q].to
                             /\ \E d \in supersession' : d.pred = q
      BY DEF RowInv
    <3>1. CASE q = s BY <2>5, <2>11, <2>13, <3>1
    <3>2. CASE q = p BY <2>2, <2>4, <2>11, <2>12, <2>13, <3>2
    <3>3. CASE q # p /\ q # s
      <4>1. revision'[q] = revision[q] BY <2>13, <3>3
      <4>2. supersession \subseteq supersession' BY <2>2
      <4> QED BY <1>0, <4>1, <4>2 DEF RowInv
    <3> QED BY <3>1, <3>2, <3>3
  <2> QED BY <2>6, <2>8, <2>10, <2>14 DEF RowsHold
<1> QED BY <1>1, <1>3, <1>4, <1>5, <1>6, QuietSteps DEF Commits

\* One more record leads on from the row to the next.
LEMMA OneMore ==
  ASSUME NEW records \in Seq(Change), NEW old \in Row, NEW new \in Row, LeadTo(records, old)
  PROVE  LET more == Append(records, [before |-> old, after |-> new])
         IN  more \in Seq(Change) /\ LeadTo(more, new)
<1> DEFINE change == [before |-> old, after |-> new]
           more == Append(records, change)
           n == Len(records)
<1>1. change \in Change BY DEF Change
<1> HIDE DEF change
<1>2. n \in Nat /\ more \in Seq(Change) /\ Len(more) = n + 1 BY <1>1
<1>3. more[n + 1] = change /\ \A i \in 1 .. n : more[i] = records[i] BY <1>1
<1>4. change.before = old /\ change.after = new BY DEF change
<1>5. more[1].before = NoRow
  <2>1. CASE n = 0 BY <1>3, <1>4, <2>1 DEF LeadTo
  <2>2. CASE n > 0 BY <1>2, <1>3, <2>2 DEF LeadTo
  <2> QED BY <1>2, <2>1, <2>2
<1>6. ASSUME NEW i \in 2 .. n + 1 PROVE more[i].before = more[i - 1].after
  <2>1. i - 1 \in 1 .. n /\ more[i - 1] = records[i - 1] BY <1>2, <1>3
  <2>2. CASE i = n + 1
    <3>1. n > 0 /\ records[n].after = old BY <1>2, <2>1, <2>2 DEF LeadTo
    <3>2. i - 1 = n BY <1>2, <2>2
    <3> QED BY <1>3, <1>4, <2>1, <2>2, <3>1, <3>2
  <2>3. CASE i # n + 1
    <3>1. i \in 2 .. n /\ more[i] = records[i] BY <1>2, <1>3, <2>3
    <3> QED BY <2>1, <3>1 DEF LeadTo
  <2> QED BY <2>2, <2>3
<1> HIDE DEF more
<1>7. LeadTo(more, new) BY <1>2, <1>3, <1>4, <1>5, <1>6 DEF LeadTo
<1> QED BY <1>2, <1>7 DEF more, change

\* Audit records keep leading to the rows.
AuditHolds == audit \in [Revisions -> Seq(Change)] /\ AuditTellsAll

LEMMA AuditStep ==
  ASSUME MappingInv, [Next]_vars
  PROVE  AuditHolds'
<1>0. /\ revision \in [Revisions -> Row] /\ audit \in [Revisions -> Seq(Change)]
      /\ \A r \in Revisions : LeadTo(audit[r], revision[r])
  BY DEF MappingInv, TypeOK, AuditTellsAll
<1>1. CASE UNCHANGED rowVars
  BY <1>0, <1>1 DEF rowVars, AuditHolds, AuditTellsAll, LeadTo
<1>2. ASSUME NEW r \in Revisions, NEW row \in Row, revision' = [revision EXCEPT ![r] = row],
             audit' = [audit EXCEPT ![r] = Append(@, [before |-> revision[r], after |-> row])]
      PROVE  AuditHolds'
  <2> DEFINE more == Append(audit[r], [before |-> revision[r], after |-> row])
  <2>1. more \in Seq(Change) /\ LeadTo(more, row) BY <1>0, OneMore
  <2>2. audit' = [audit EXCEPT ![r] = more] BY <1>2
  <2> HIDE DEF more
  <2>3. audit' \in [Revisions -> Seq(Change)] BY <1>0, <2>1, <2>2
  <2>4. ASSUME NEW q \in Revisions PROVE LeadTo(audit'[q], revision'[q])
    <3>1. CASE q = r
      <4>1. audit'[q] = more /\ revision'[q] = row BY <1>0, <1>2, <2>2, <3>1
      <4> QED BY <2>1, <4>1
    <3>2. CASE q # r
      <4>1. audit'[q] = audit[q] /\ revision'[q] = revision[q] BY <1>0, <1>2, <2>2, <3>2
      <4> QED BY <1>0, <4>1
    <3> QED BY <3>1, <3>2
  <2> QED BY <2>3, <2>4 DEF AuditHolds, AuditTellsAll, LeadTo
<1>3. ASSUME NEW c \in Clients, Create(c) PROVE AuditHolds'
  <2>1. command[c].rev \in Revisions /\ command[c].row \in Row
    BY <1>3, CommitFacts DEF Commits
  <2>2. /\ revision' = [revision EXCEPT ![command[c].rev] = command[c].row]
        /\ audit' = Audited(command[c].rev, NoRow, command[c].row)
        /\ revision[command[c].rev].status = "NONE"
    BY <1>3, CreateFacts
  <2>3. revision[command[c].rev] = NoRow BY <2>1, <2>2 DEF MappingInv, RowInv
  <2> QED BY <1>2, <2>1, <2>2, <2>3 DEF Audited
<1>4. ASSUME NEW c \in Clients, Review(c) PROVE AuditHolds'
  <2> DEFINE r == command[c].rev
  <2>1. r \in Revisions BY <1>4, CommitFacts DEF Commits
  <2>2. /\ revision' = [revision EXCEPT ![r] = AsReviewed(revision[r])]
        /\ audit' = Audited(r, revision[r], AsReviewed(revision[r]))
    BY <1>4, ReviewFacts
  <2>3. AsReviewed(revision[r]) \in Row BY <1>0, <2>1, RowUpdates
  <2> QED BY <1>2, <2>1, <2>2, <2>3 DEF Audited
<1>5. ASSUME NEW c \in Clients, Approve(c) PROVE AuditHolds'
  <2> DEFINE r == command[c].rev
  <2>1. r \in Revisions BY <1>5, CommitFacts DEF Commits
  <2>2. /\ revision' = [revision EXCEPT ![r] = AsApproved(revision[r])]
        /\ audit' = Audited(r, revision[r], AsApproved(revision[r]))
    BY <1>5, ApproveFacts
  <2>3. AsApproved(revision[r]) \in Row BY <1>0, <2>1, RowUpdates
  <2> QED BY <1>2, <2>1, <2>2, <2>3 DEF Audited
<1>6. ASSUME NEW c \in Clients, Supersede(c) PROVE AuditHolds'
  <2> DEFINE s == command[c].rev
             p == command[c].pred
             prow == EndingBefore(revision[p], revision[s].from)
             srow == AsApproved(revision[s])
             pmore == Append(audit[p], [before |-> revision[p], after |-> prow])
             smore == Append(audit[s], [before |-> revision[s], after |-> srow])
  <2>1. s \in Revisions BY <1>6, CommitFacts DEF Commits
  <2>2. /\ p \in Revisions /\ p # s /\ revision[s].from \in Days
        /\ revision' = [revision EXCEPT ![p] = prow, ![s] = srow]
        /\ audit' = [audit EXCEPT ![p] = pmore, ![s] = smore]
        /\ revision[p].from < revision[s].from
    BY <1>6, SupersedeFacts
  <2>3. prow \in Row /\ srow \in Row
    <3>1. revision[p] \in Row /\ revision[s] \in Row BY <1>0, <2>1, <2>2
    <3> QED BY <2>2, <3>1, RowEnds, RowUpdates
  <2>4. /\ pmore \in Seq(Change) /\ LeadTo(pmore, prow)
        /\ smore \in Seq(Change) /\ LeadTo(smore, srow)
    <3>1. revision[p] \in Row /\ revision[s] \in Row BY <1>0, <2>1, <2>2
    <3> HIDE DEF prow, srow
    <3> QED BY <1>0, <2>1, <2>2, <2>3, <3>1, OneMore
  <2> HIDE DEF prow, srow, pmore, smore
  <2>5. audit' \in [Revisions -> Seq(Change)] BY <1>0, <2>1, <2>2, <2>4
  <2>6. ASSUME NEW q \in Revisions PROVE LeadTo(audit'[q], revision'[q])
    <3>1. CASE q = s
      <4>1. audit'[q] = smore /\ revision'[q] = srow BY <1>0, <2>2, <3>1
      <4> QED BY <2>4, <4>1
    <3>2. CASE q = p
      <4>1. audit'[q] = pmore /\ revision'[q] = prow BY <1>0, <2>2, <3>2
      <4> QED BY <2>4, <4>1
    <3>3. CASE q # p /\ q # s
      <4>1. audit'[q] = audit[q] /\ revision'[q] = revision[q] BY <1>0, <2>2, <3>3
      <4> QED BY <1>0, <4>1
    <3> QED BY <3>1, <3>2, <3>3
  <2> QED BY <2>5, <2>6 DEF AuditHolds, AuditTellsAll, LeadTo
<1> QED BY <1>1, <1>3, <1>4, <1>5, <1>6, QuietSteps DEF Commits

-----------------------------------------------------------------------------
(* The theorems.                                                           *)

LEMMA InitHolds == Init => MappingInv
<1> SUFFICES ASSUME Init PROVE MappingInv OBVIOUS
<1>1. NoRow \in Row BY PeriodsAssumption DEF NoRow, Row, Statuses, Days
<1>2. NoCommand \in Command BY <1>1 DEF NoCommand, Command
<1>3. TypeOK
  <2>1. audit \in [Revisions -> Seq(Change)]
    <3>1. <<>> \in Seq(Change) OBVIOUS
    <3> QED BY <3>1 DEF Init
  <2> QED BY <1>1, <1>2, <2>1 DEF Init, TypeOK
<1>4. RowInv
  <2>1. \A r \in Revisions : revision[r] = NoRow BY DEF Init
  <2>2. NoRow.from <= NoRow.to /\ NoRow.resolved = 0 BY DEF NoRow
  <2> QED BY <2>1, <2>2 DEF RowInv
<1>5. CommandInv
  <2>1. ReadHolds(revision, NoCommand) BY DEF ReadHolds, NoCommand
  <2>2. version = 0 /\ \A c \in Clients : command[c] = NoCommand BY DEF Init
  <2>3. NoCommand.history = 0 BY DEF NoCommand
  <2>4. \A c \in Clients : ReadHolds(revision, command[c]) BY <2>1, <2>2, Zenon
  <2>5. \A c \in Clients : command[c].history = 0 BY <2>2, <2>3
  <2>6. \A c \in Clients : command[c].history <= version BY <2>2, <2>5
  <2> QED BY <2>4, <2>6, Zenon DEF CommandInv
<1>6. PeriodsAreDisjoint BY DEF Init, PeriodsAreDisjoint, Disjoint, Approved, NoRow
<1>7. AuditTellsAll
  <2>1. LeadTo(<<>>, NoRow) BY DEF LeadTo
  <2>2. \A r \in Revisions : audit[r] = <<>> /\ revision[r] = NoRow BY DEF Init
  <2> QED BY <2>1, <2>2, Zenon DEF AuditTellsAll
<1> QED BY <1>3, <1>4, <1>5, <1>6, <1>7 DEF MappingInv

LEMMA Inductive == MappingInv /\ [Next]_vars => MappingInv'
<1> SUFFICES ASSUME MappingInv, [Next]_vars PROVE MappingInv' OBVIOUS
<1>1. version' \in Nat /\ command' \in [Clients -> Command] /\ CommandInv' BY CommandStep
<1>2. RowsHold' BY RowStep
<1>3. AuditHolds' BY AuditStep
<1> QED BY <1>1, <1>2, <1>3 DEF MappingInv, TypeOK, RowsHold, AuditHolds

\* What a client read still holds, if the history has the version that it read; this
\* carries everything below over the gap between reading and the lock.
THEOREM MappingInvHolds == Spec => []MappingInv
BY InitHolds, Inductive, PTL DEF Spec

\* Every variable keeps its type.
THEOREM TypeOKHolds == Spec => []TypeOK
<1>1. MappingInv => TypeOK BY DEF MappingInv
<1> QED BY <1>1, MappingInvHolds, PTL

\* No day ever has two approved revisions of a Mapping template.
THEOREM PeriodsNeverOverlap == Spec => []PeriodsAreDisjoint
<1>1. MappingInv => PeriodsAreDisjoint BY DEF MappingInv
<1> QED BY <1>1, MappingInvHolds, PTL

\* The audit records of a revision always lead from its creation to its row.
THEOREM AuditIsComplete == Spec => []AuditTellsAll
<1>1. MappingInv => AuditTellsAll BY DEF MappingInv
<1> QED BY <1>1, MappingInvHolds, PTL

-----------------------------------------------------------------------------
(* Readers see a history of module EffectiveHistory.                       *)

LEMMA PromisedInit == Init => Promise!Init
<1> SUFFICES ASSUME Init PROVE PeriodsOf(revision) = [r \in Revisions |-> {}]
  BY DEF Promise!Init
<1>1. \A r \in Revisions : revision[r].status # "APPROVED" BY DEF Init, NoRow
<1> QED BY <1>1 DEF PeriodsOf

\* Every step is one of the promise or changes nothing that readers see.
LEMMA PromisedStep ==
  MappingInv /\ [Next]_vars => [Promise!Next]_(PeriodsOf(revision))
<1> SUFFICES ASSUME MappingInv, [Next]_vars
             PROVE  Promise!Next \/ PeriodsOf(revision)' = PeriodsOf(revision)
  OBVIOUS
<1>0. revision \in [Revisions -> Row] /\ RowInv /\ Disjoint(revision)
  BY DEF MappingInv, TypeOK, PeriodsAreDisjoint
<1>1. CASE UNCHANGED rowVars
  BY <1>1 DEF rowVars, PeriodsOf, EffectiveEnd
<1>2. ASSUME NEW rows, revision' = rows, PeriodsOf(rows) = PeriodsOf(revision)
      PROVE  PeriodsOf(revision)' = PeriodsOf(revision)
  BY <1>2 DEF PeriodsOf, EffectiveEnd
<1>3. ASSUME NEW c \in Clients, Create(c) PROVE PeriodsOf(revision)' = PeriodsOf(revision)
  <2> DEFINE r == command[c].rev
             row == command[c].row
  <2>1. r \in Revisions BY <1>3, CommitFacts DEF Commits
  <2>2. /\ revision' = [revision EXCEPT ![r] = row]
        /\ revision[r].status # "APPROVED" /\ row.status # "APPROVED"
    BY <1>3, CreateFacts
  <2>3. PeriodsOf([revision EXCEPT ![r] = row]) = PeriodsOf(revision)
    BY <1>0, <2>1, <2>2, PendingPeriods
  <2> QED BY <1>2, <2>2, <2>3
<1>4. ASSUME NEW c \in Clients, Review(c) PROVE PeriodsOf(revision)' = PeriodsOf(revision)
  <2> DEFINE r == command[c].rev
             row == AsReviewed(revision[r])
  <2>1. r \in Revisions BY <1>4, CommitFacts DEF Commits
  <2>2. revision' = [revision EXCEPT ![r] = row] /\ revision[r].status # "APPROVED"
    BY <1>4, ReviewFacts
  <2>3. row.status # "APPROVED" BY <1>0, <2>1, RowUpdates
  <2> HIDE DEF row
  <2>4. PeriodsOf([revision EXCEPT ![r] = row]) = PeriodsOf(revision)
    BY <1>0, <2>1, <2>2, <2>3, PendingPeriods
  <2> QED BY <1>2, <2>2, <2>4
<1>5. ASSUME NEW c \in Clients, Approve(c) PROVE Promise!Next
  <2> DEFINE r == command[c].rev
             from == revision[r].from
             to == revision[r].to
             new == [revision EXCEPT ![r] = AsApproved(@)]
  <2>1. r \in Revisions BY <1>5, CommitFacts DEF Commits
  <2>2. /\ revision' = new /\ revision[r].status = "REVIEWED"
        /\ revision[r].resolved = 0 /\ Conflicts(revision, r) = {}
    BY <1>5, ApproveFacts
  <2>3. from \in Days /\ to \in Days /\ from <= to BY <1>0, <2>1 DEF Row, RowInv
  <2>4. /\ PeriodsOf(new) = [PeriodsOf(revision) EXCEPT ![r] = from .. to]
        /\ PeriodsOf(revision)[r] = {} /\ from .. to # {}
        /\ (from .. to) \cap UNION {PeriodsOf(revision)[q] : q \in Revisions} = {}
    BY <1>0, <2>1, <2>2, <2>3, ApprovalPeriods
  <2> HIDE DEF new, from, to
  <2>5. PeriodsOf(revision)' = PeriodsOf(new) BY <2>2 DEF PeriodsOf, EffectiveEnd
  <2>6. Promise!Approve(r, from .. to) BY <2>4, <2>5 DEF Promise!Approve, Promise!InForce
  <2> QED BY <2>1, <2>3, <2>6 DEF Promise!Next, Promise!Days, Days
<1>6. ASSUME NEW c \in Clients, Supersede(c) PROVE Promise!Next
  <2> DEFINE s == command[c].rev
             p == command[c].pred
             first == revision[s].from
             to == revision[s].to
             days == first .. to
             old == PeriodsOf(revision)
             new == [revision EXCEPT ![p] = EndingBefore(@, first), ![s] = AsApproved(@)]
  <2>1. s \in Revisions BY <1>6, CommitFacts DEF Commits
  <2>2. /\ p \in Revisions /\ p # s /\ revision' = new
        /\ revision[p].status = "APPROVED" /\ revision[s].status = "REVIEWED"
        /\ revision[s].resolved = 0
        /\ revision[p].from < first /\ first <= EffectiveEnd(revision[p])
        /\ Conflicts(revision, s) \subseteq {p}
    BY <1>6, SupersedeFacts
  <2>3. first \in Days /\ to \in Days /\ first <= to BY <1>0, <2>1 DEF Row, RowInv
  <2>4. /\ PeriodsOf(new) = [old EXCEPT ![p] = old[p] \cap 1 .. first - 1, ![s] = days]
        /\ old[s] = {} /\ first \in days /\ first \in old[p] /\ first - 1 \in old[p]
        /\ days \cap ((UNION {old[q] : q \in Revisions}) \ old[p]) = {}
    BY <1>0, <2>1, <2>2, <2>3, SupersessionPeriods
  <2>5. first = CHOOSE d \in days : \A e \in days : d <= e
    <3>1. first \in Nat /\ to \in Nat BY <2>3 DEF Days
    <3>2. \A d \in days : (\A e \in days : d <= e) <=> d = first
      <4> HIDE DEF first, to
      <4> QED BY <2>3, <3>1
    <3> HIDE DEF days, first
    <3> QED BY <2>4, <3>2
  <2> HIDE DEF new, old, first, to
  <2>6. PeriodsOf(revision)' = PeriodsOf(new) BY <2>2 DEF PeriodsOf, EffectiveEnd
  <2>7. Promise!Supersede(p, s, days)
    <3> HIDE DEF days
    <3> QED BY <2>2, <2>4, <2>5, <2>6 DEF Promise!Supersede, Promise!InForce, old
  <2> QED BY <2>1, <2>2, <2>3, <2>7 DEF Promise!Next, Promise!Days, Days
<1> QED BY <1>1, <1>3, <1>4, <1>5, <1>6, QuietSteps DEF Commits

\* Who is in force changes only by an approval for days that nobody has, or by a
\* take-over on a day of the predecessor.
THEOREM EffectivePromiseHolds == Spec => EffectivePromise
<1>1. Init => Promise!Init BY PromisedInit
<1>2. MappingInv /\ [Next]_vars => [Promise!Next]_(PeriodsOf(revision)) BY PromisedStep
<1> QED BY <1>1, <1>2, MappingInvHolds, PTL DEF Spec, EffectivePromise, Promise!Spec

-----------------------------------------------------------------------------
(* MASTER CONFIGURATION.                                                   *)

-----------------------------------------------------------------------------
(* The rows of one history, by themselves.                                 *)

\* A row is declared forwards, and a resolved end is that of a revision about which
\* a take-over was decided.
SoundRow(row, decided) ==
  /\ row.status = "NONE" => row = NoRow
  /\ row.from <= row.to
  /\ row.resolved # 0 =>
       row.status = "APPROVED" /\ row.from <= row.resolved /\ row.resolved <= row.to /\ decided

\* D: the revisions that were taken over from.
Sound(rows, D) ==
  /\ rows \in [Revisions -> Row] /\ Disjoint(rows)
  /\ \A r \in Revisions : SoundRow(rows[r], r \in D)

LEMMA SoundAnyway ==
  ASSUME NEW rows, NEW D, NEW E, Sound(rows, D), D \subseteq E
  PROVE  Sound(rows, E)
BY DEF Sound, SoundRow

\* A new row that is declared forwards and has no resolved end.
LEMMA SoundOneRow ==
  ASSUME NEW rows, NEW D, NEW r \in Revisions, NEW row \in Row, Sound(rows, D),
         row.status # "NONE", row.from <= row.to, row.resolved = 0,
         Disjoint([rows EXCEPT ![r] = row])
  PROVE  Sound([rows EXCEPT ![r] = row], D)
<1> DEFINE new == [rows EXCEPT ![r] = row]
<1>1. new \in [Revisions -> Row] /\ \A q \in Revisions : new[q] = IF q = r THEN row ELSE rows[q]
  BY DEF Sound
<1> HIDE DEF new
<1>2. ASSUME NEW q \in Revisions PROVE SoundRow(new[q], q \in D)
  <2>1. CASE q = r BY <1>1, <2>1 DEF SoundRow
  <2>2. CASE q # r BY <1>1, <2>2 DEF Sound
  <2> QED BY <2>1, <2>2
<1> QED BY <1>1, <1>2 DEF Sound, new

LEMMA SoundPending ==
  ASSUME NEW rows, NEW D, NEW r \in Revisions, NEW row \in Row, Sound(rows, D),
         rows[r].status # "APPROVED", row.status \in {"DRAFT", "REVIEWED"},
         row.from <= row.to, row.resolved = 0
  PROVE  Sound([rows EXCEPT ![r] = row], D)
<1>1. rows \in [Revisions -> Row] /\ Disjoint(rows) BY DEF Sound
<1>2. Disjoint([rows EXCEPT ![r] = row]) BY <1>1, PendingChange
<1> QED BY <1>2, SoundOneRow

LEMMA SoundApproval ==
  ASSUME NEW rows, NEW D, NEW r \in Revisions, Sound(rows, D),
         rows[r].status = "REVIEWED", Conflicts(rows, r) = {}
  PROVE  Sound([rows EXCEPT ![r] = AsApproved(@)], D)
<1>1. /\ rows \in [Revisions -> Row] /\ Disjoint(rows) /\ rows[r] \in Row
      /\ rows[r].resolved = 0 /\ rows[r].from <= rows[r].to
  BY DEF Sound, SoundRow
<1>2. Disjoint([rows EXCEPT ![r] = AsApproved(rows[r])]) BY <1>1, ApprovalKeepsDisjoint
<1>3. /\ AsApproved(rows[r]) \in Row /\ AsApproved(rows[r]).status # "NONE"
      /\ AsApproved(rows[r]).from <= AsApproved(rows[r]).to /\ AsApproved(rows[r]).resolved = 0
  BY <1>1, RowUpdates
<1>4. Sound([rows EXCEPT ![r] = AsApproved(rows[r])], D) BY <1>2, <1>3, SoundOneRow
<1> QED BY <1>4

\* What is true of a predecessor about which nothing was decided, and of its successor.
LEMMA TakeOverFacts ==
  ASSUME NEW rows, NEW D, NEW p \in Revisions, NEW s \in Revisions, Sound(rows, D),
         rows[p].status = "APPROVED", rows[s].status = "REVIEWED", p \notin D,
         TakesOver(rows, p, s)
  PROVE  /\ rows \in [Revisions -> Row] /\ Disjoint(rows) /\ p # s
         /\ rows[p] \in Row /\ rows[s] \in Row /\ rows[s].from \in Days
         /\ rows[p].resolved = 0 /\ rows[s].resolved = 0 /\ rows[s].from <= rows[s].to
         /\ rows[p].from < rows[s].from /\ rows[s].from <= EffectiveEnd(rows[p])
         /\ Conflicts(rows, s) \subseteq {p}
<1>1. rows[p] \in Row /\ rows[s] \in Row BY DEF Sound
<1>2. rows[s].from \in Days BY <1>1 DEF Row
<1> QED BY <1>1, <1>2 DEF Sound, SoundRow, TakesOver

LEMMA SoundTakeOver ==
  ASSUME NEW rows, NEW D, NEW p \in Revisions, NEW s \in Revisions, Sound(rows, D),
         rows[p].status = "APPROVED", rows[s].status = "REVIEWED", p \notin D,
         TakesOver(rows, p, s)
  PROVE  Sound([rows EXCEPT ![p] = EndingBefore(@, rows[s].from), ![s] = AsApproved(@)], D \cup {p})
<1> DEFINE first == rows[s].from
           prow == EndingBefore(rows[p], first)
           srow == AsApproved(rows[s])
           new == [rows EXCEPT ![p] = prow, ![s] = srow]
<1>1. /\ rows \in [Revisions -> Row] /\ Disjoint(rows) /\ p # s
      /\ rows[p] \in Row /\ rows[s] \in Row /\ first \in Days
      /\ rows[p].resolved = 0 /\ rows[s].resolved = 0 /\ first <= rows[s].to
      /\ rows[p].from < first /\ first <= EffectiveEnd(rows[p])
      /\ Conflicts(rows, s) \subseteq {p}
  BY TakeOverFacts
<1>2. /\ prow \in Row /\ prow.status = "APPROVED" /\ prow.from = rows[p].from
      /\ prow.to = rows[p].to /\ prow.resolved = first - 1 /\ first - 1 \in Days
  BY <1>1, RowEnds
<1>3. /\ srow \in Row /\ srow.status = "APPROVED" /\ srow.from = first
      /\ srow.to = rows[s].to /\ srow.resolved = 0
  BY <1>1, RowUpdates
<1>4. Disjoint(new) BY <1>1, SupersessionKeepsDisjoint
<1>5. SoundRow(prow, TRUE)
  <2>1. /\ rows[p].from \in Nat /\ rows[p].to \in Nat /\ first \in Nat
        /\ EffectiveEnd(rows[p]) = rows[p].to /\ rows[p].from <= rows[p].to
    BY <1>1 DEF Row, Days, EffectiveEnd, Sound, SoundRow
  <2> HIDE DEF prow, first
  <2> QED BY <1>1, <1>2, <2>1 DEF SoundRow
<1>6. \A d : SoundRow(srow, d) BY <1>1, <1>3 DEF SoundRow
<1>7. \A q \in Revisions : SoundRow(rows[q], q \in D) BY DEF Sound
<1> HIDE DEF prow, srow
<1>8. new \in [Revisions -> Row] /\ \A q \in Revisions :
        new[q] = IF q = s THEN srow ELSE IF q = p THEN prow ELSE rows[q]
  BY <1>1, <1>2, <1>3
<1>9. ASSUME NEW q \in Revisions PROVE SoundRow(new[q], q \in D \cup {p})
  <2>1. CASE q = s BY <1>6, <1>8, <2>1
  <2>2. CASE q = p /\ q # s
    <3>1. new[q] = prow /\ (q \in D \cup {p}) = TRUE BY <1>8, <2>2
    <3> QED BY <1>5, <3>1
  <2>3. CASE q # s /\ q # p
    <3>1. new[q] = rows[q] /\ (q \in D \cup {p}) = (q \in D) BY <1>8, <2>3
    <3> QED BY <1>7, <3>1
  <2> QED BY <2>1, <2>2, <2>3
<1>10. Sound(new, D \cup {p}) BY <1>4, <1>8, <1>9 DEF Sound
<1> QED BY <1>10 DEF new, prow, srow

-----------------------------------------------------------------------------
(* The inductive invariant.                                                *)

TakenFrom(h) == {r \in Revisions : \E t \in takeovers : t.in = h /\ t.pred = r}

\* The rows of a history, and that what is approved could be approved now.
HistoryInv(h) ==
  /\ Sound(config[h], TakenFrom(h))
  /\ \A r \in Revisions : config[h][r].status = "APPROVED" => Approvable(h, r)

\* What an order read of the rows is still so, if its history has the version it read.
StillSo(o) ==
  LET rows == config[o.in]
  IN  /\ o.row = rows[o.rev]
      /\ o.op = "review" => o.row.status = "DRAFT"
      /\ o.op = "approve" => o.row.status = "REVIEWED" /\ Conflicts(rows, o.rev) = {}
      /\ o.op = "supersede" =>
           /\ o.predRow = rows[o.pred] /\ o.row.status = "REVIEWED"
           /\ rows[o.pred].status = "APPROVED" /\ TakesOver(rows, o.pred, o.rev)

\* That a revision could be approved stays so whatever the versions are.
KnowsRows(o) ==
  /\ o.seen <= history[o.in]
  /\ history[o.in] = o.seen => StillSo(o)
  /\ o.op \in {"approve", "supersede"} => Approvable(o.in, o.rev)

OrderInv(o) ==
  /\ o.op = "create" => o.row.status = "DRAFT" /\ o.row.from <= o.row.to /\ o.row.resolved = 0
  /\ o.op \in {"review", "approve", "supersede"} => KnowsRows(o)
  /\ o.op = "dispose" =>
       /\ o.seen <= item[o.item].version
       /\ item[o.item].version = o.seen => item[o.item].disposition = "CANDIDATE"

ConfigInv ==
  /\ ConfigTypeOK
  /\ \A h \in Histories : HistoryInv(h)
  /\ \A a \in Administrators : OrderInv(order[a])

-----------------------------------------------------------------------------
(* Orders of each kind.                                                    *)

AnOrder == {NoOrder} \cup RevisionOrder \cup TakeOverOrder \cup ItemOrder

LEMMA Kinds ==
  ASSUME NEW o \in AnOrder
  PROVE  /\ o.op = "none" => o = NoOrder
         /\ o.op \in {"create", "review", "approve"} => o \in RevisionOrder
         /\ o.op = "supersede" => o \in TakeOverOrder
         /\ o.op = "dispose" => o \in ItemOrder
BY DEF AnOrder, NoOrder, RevisionOrder, TakeOverOrder, ItemOrder

LEMMA OrderTypes ==
  ASSUME NEW o \in AnOrder
  PROVE  /\ o.op \in {"create", "review", "approve", "supersede"} =>
              o.in \in Histories /\ o.rev \in Revisions /\ o.seen \in Nat /\ o.row \in Row
         /\ o.op = "supersede" => o.pred \in Revisions /\ o.predRow \in Row
         /\ o.op = "dispose" =>
              o.item \in Items /\ o.to \in {"MANAGED", "EXCLUDED"} /\ o.seen \in Nat
BY Kinds DEF RevisionOrder, TakeOverOrder, ItemOrder

\* Beginning an order: it is of its kind, and what it read is so.
BeginsOrder(a, new) ==
  /\ UNCHANGED configRows /\ order' = [order EXCEPT ![a] = new]
  /\ new \in AnOrder /\ OrderInv(new)

LEMMA RevisionOrderBegins ==
  ASSUME ConfigInv, NEW a \in Administrators, NEW op \in {"create", "review", "approve"},
         NEW h \in Histories, NEW r \in Revisions, NEW row \in Row,
         OrderRevision(a, op, h, r, row),
         op = "create" => row.status = "DRAFT" /\ row.from <= row.to /\ row.resolved = 0,
         op # "create" => row = config[h][r],
         op = "review" => row.status = "DRAFT",
         op = "approve" => /\ row.status = "REVIEWED" /\ Conflicts(config[h], r) = {}
                           /\ Approvable(h, r)
  PROVE  \E new \in AnOrder : BeginsOrder(a, new)
<1> DEFINE new == [op |-> op, in |-> h, rev |-> r, seen |-> history[h], row |-> row]
<1>1. history[h] \in Nat BY DEF ConfigInv, ConfigTypeOK
<1>2. new \in RevisionOrder BY <1>1 DEF RevisionOrder
<1>3. new \in AnOrder BY <1>2 DEF AnOrder
<1>4. /\ new.op = op /\ new.in = h /\ new.rev = r /\ new.seen = history[h] /\ new.row = row OBVIOUS
<1>5. UNCHANGED configRows /\ order' = [order EXCEPT ![a] = new] BY DEF OrderRevision, Order
<1> HIDE DEF new
<1>6. OrderInv(new) BY <1>1, <1>4 DEF OrderInv, KnowsRows, StillSo
<1> QED BY <1>3, <1>5, <1>6 DEF BeginsOrder

LEMMA OrderBegins ==
  ASSUME ConfigInv, NEW a \in Administrators, OrderSomething(a)
  PROVE  \E new \in AnOrder : BeginsOrder(a, new)
<1>0. /\ \A h \in Histories, r \in Revisions : config[h][r] \in Row
      /\ \A h \in Histories : history[h] \in Nat
      /\ \A i \in Items : item[i].version \in Nat
  BY DEF ConfigInv, ConfigTypeOK
<1>1. ASSUME NEW h \in Histories, NEW r \in Revisions, OrderCreate(a, h, r)
      PROVE  \E new \in AnOrder : BeginsOrder(a, new)
  <2>1. PICK d \in Declared : OrderRevision(a, "create", h, r, Draft(d.from, d.to))
    BY <1>1 DEF OrderCreate
  <2>2. d.from \in Days /\ d.to \in Days /\ d.from <= d.to BY ConfigAssumption
  <2> DEFINE row == Draft(d.from, d.to)
  <2>3. row \in Row BY <2>2 DEF Draft, Row, Statuses
  <2>4. row.status = "DRAFT" /\ row.from <= row.to /\ row.resolved = 0 BY <2>2 DEF Draft
  <2> HIDE DEF row
  <2>5. OrderRevision(a, "create", h, r, row) BY <2>1 DEF row
  <2> QED BY <2>3, <2>4, <2>5, RevisionOrderBegins
<1>2. ASSUME NEW h \in Histories, NEW r \in Revisions, OrderReview(a, h, r)
      PROVE  \E new \in AnOrder : BeginsOrder(a, new)
  BY <1>0, <1>2, RevisionOrderBegins DEF OrderReview
<1>3. ASSUME NEW h \in Histories, NEW r \in Revisions, OrderApprove(a, h, r)
      PROVE  \E new \in AnOrder : BeginsOrder(a, new)
  BY <1>0, <1>3, RevisionOrderBegins DEF OrderApprove
<1>4. ASSUME NEW h \in Histories, NEW p \in Revisions, NEW s \in Revisions,
             OrderSupersede(a, h, p, s)
      PROVE  \E new \in AnOrder : BeginsOrder(a, new)
  <2> DEFINE new == [op |-> "supersede", in |-> h, rev |-> s, seen |-> history[h],
                     row |-> config[h][s], pred |-> p, predRow |-> config[h][p]]
  <2>1. new \in TakeOverOrder BY <1>0 DEF TakeOverOrder
  <2>2. new \in AnOrder BY <2>1 DEF AnOrder
  <2>3. /\ new.op = "supersede" /\ new.in = h /\ new.rev = s /\ new.seen = history[h]
        /\ new.row = config[h][s] /\ new.pred = p /\ new.predRow = config[h][p]
    OBVIOUS
  <2>4. UNCHANGED configRows /\ order' = [order EXCEPT ![a] = new]
    BY <1>4 DEF OrderSupersede, Order
  <2> HIDE DEF new
  <2>5. OrderInv(new) BY <1>0, <1>4, <2>3 DEF OrderInv, KnowsRows, StillSo, OrderSupersede
  <2> QED BY <2>2, <2>4, <2>5 DEF BeginsOrder
<1>5. ASSUME NEW i \in Items, OrderDisposition(a, i) PROVE \E new \in AnOrder : BeginsOrder(a, new)
  <2>1. PICK to \in {"MANAGED", "EXCLUDED"} :
          Order(a, [op |-> "dispose", item |-> i, to |-> to, seen |-> item[i].version])
    BY <1>5 DEF OrderDisposition
  <2> DEFINE new == [op |-> "dispose", item |-> i, to |-> to, seen |-> item[i].version]
  <2>2. new \in ItemOrder BY <1>0 DEF ItemOrder
  <2>3. new \in AnOrder BY <2>2 DEF AnOrder
  <2>4. new.op = "dispose" /\ new.item = i /\ new.seen = item[i].version OBVIOUS
  <2>5. UNCHANGED configRows /\ order' = [order EXCEPT ![a] = new] BY <2>1 DEF Order
  <2> HIDE DEF new
  <2>6. OrderInv(new) BY <1>0, <1>5, <2>4 DEF OrderInv, OrderDisposition
  <2> QED BY <2>3, <2>5, <2>6 DEF BeginsOrder
<1> QED BY <1>1, <1>2, <1>3, <1>4, <1>5 DEF OrderSomething

-----------------------------------------------------------------------------
(* What a write finds and does.                                            *)

Rewrites(a, h, rows) ==
  /\ config' = [config EXCEPT ![h] = rows]
  /\ history' = [history EXCEPT ![h] = @ + 1]
  /\ order' = [order EXCEPT ![a] = NoOrder]
  /\ UNCHANGED <<identities, item, template>>

\* The version of the history is the one that was read, so that what was read is so.
LEMMA ReadIsSo ==
  ASSUME ConfigInv, NEW a \in Administrators, CasHistoryOf(a),
         order[a].op \in {"create", "review", "approve", "supersede"}
  PROVE  LET o == order[a]
         IN  /\ o.in \in Histories /\ o.rev \in Revisions /\ o.row \in Row
             /\ o.op = "supersede" => o.pred \in Revisions
             /\ o.op # "create" => StillSo(o)
             /\ o.op \in {"approve", "supersede"} => Approvable(o.in, o.rev)
             /\ Sound(config[o.in], TakenFrom(o.in))
<1> DEFINE o == order[a]
<1>1. o \in AnOrder BY DEF ConfigInv, ConfigTypeOK, AnOrder
<1>2. OrderInv(o) BY DEF ConfigInv
<1>3. history[o.in] = o.seen BY DEF CasHistoryOf
<1>4. o.in \in Histories => Sound(config[o.in], TakenFrom(o.in)) BY DEF ConfigInv, HistoryInv
<1> HIDE DEF o
<1>5. /\ o.in \in Histories /\ o.rev \in Revisions /\ o.row \in Row
      /\ o.op = "supersede" => o.pred \in Revisions
  BY <1>1, OrderTypes DEF o
<1>6. o.op # "create" => KnowsRows(o) BY <1>2 DEF OrderInv, o
<1>7. o.op # "create" => StillSo(o) BY <1>3, <1>6 DEF KnowsRows
<1>8. o.op \in {"approve", "supersede"} => Approvable(o.in, o.rev) BY <1>6 DEF KnowsRows
<1> QED BY <1>4, <1>5, <1>7, <1>8 DEF o

LEMMA CreationFacts ==
  ASSUME ConfigInv, NEW a \in Administrators, WriteCreate(a)
  PROVE  LET h == order[a].in
             r == order[a].rev
             row == order[a].row
         IN  /\ h \in Histories /\ r \in Revisions /\ row \in Row /\ Sound(config[h], TakenFrom(h))
             /\ Rewrites(a, h, [config[h] EXCEPT ![r] = row]) /\ UNCHANGED takeovers
             /\ config[h][r].status # "APPROVED" /\ row.status = "DRAFT"
             /\ row.from <= row.to /\ row.resolved = 0
<1>1. order[a].op = "create" /\ CasHistoryOf(a) BY DEF WriteCreate, Finished
<1>2. OrderInv(order[a]) BY DEF ConfigInv
<1>3. /\ order[a].row.status = "DRAFT" /\ order[a].row.from <= order[a].row.to
      /\ order[a].row.resolved = 0
  BY <1>1, <1>2 DEF OrderInv
<1>4. config[order[a].in][order[a].rev].status # "APPROVED" BY DEF WriteCreate, Exists
<1>5. Rewrites(a, order[a].in, [config[order[a].in] EXCEPT ![order[a].rev] = order[a].row])
      /\ UNCHANGED takeovers
  BY DEF WriteCreate, Finished, CasHistoryOf, Rewrites
<1> QED BY <1>1, <1>3, <1>4, <1>5, ReadIsSo

LEMMA ReviewingFacts ==
  ASSUME ConfigInv, NEW a \in Administrators, WriteReview(a)
  PROVE  LET h == order[a].in
             r == order[a].rev
         IN  /\ h \in Histories /\ r \in Revisions /\ Sound(config[h], TakenFrom(h))
             /\ Rewrites(a, h, [config[h] EXCEPT ![r] = AsReviewed(@)]) /\ UNCHANGED takeovers
             /\ config[h][r].status = "DRAFT"
<1>1. order[a].op = "review" /\ CasHistoryOf(a) BY DEF WriteReview, Finished
<1>2. StillSo(order[a]) BY <1>1, ReadIsSo
<1>3. config[order[a].in][order[a].rev].status = "DRAFT" BY <1>1, <1>2 DEF StillSo
<1>4. Rewrites(a, order[a].in, [config[order[a].in] EXCEPT ![order[a].rev] = AsReviewed(@)])
      /\ UNCHANGED takeovers
  BY DEF WriteReview, Finished, CasHistoryOf, Rewrites
<1> QED BY <1>1, <1>3, <1>4, ReadIsSo

LEMMA ApprovalFacts ==
  ASSUME ConfigInv, NEW a \in Administrators, WriteApprove(a)
  PROVE  LET h == order[a].in
             r == order[a].rev
         IN  /\ h \in Histories /\ r \in Revisions /\ Sound(config[h], TakenFrom(h))
             /\ Rewrites(a, h, [config[h] EXCEPT ![r] = AsApproved(@)]) /\ UNCHANGED takeovers
             /\ config[h][r].status = "REVIEWED" /\ Conflicts(config[h], r) = {}
             /\ Approvable(h, r)
<1>1. order[a].op = "approve" /\ CasHistoryOf(a) BY DEF WriteApprove, Finished
<1>2. StillSo(order[a]) BY <1>1, ReadIsSo
<1>3. /\ config[order[a].in][order[a].rev].status = "REVIEWED"
      /\ Conflicts(config[order[a].in], order[a].rev) = {}
  BY <1>1, <1>2 DEF StillSo
<1>4. Rewrites(a, order[a].in, [config[order[a].in] EXCEPT ![order[a].rev] = AsApproved(@)])
      /\ UNCHANGED takeovers
  BY DEF WriteApprove, Finished, CasHistoryOf, Rewrites
<1> QED BY <1>1, <1>3, <1>4, ReadIsSo

LEMMA TakingOverFacts ==
  ASSUME ConfigInv, NEW a \in Administrators, WriteSupersede(a)
  PROVE  LET h == order[a].in
             p == order[a].pred
             s == order[a].rev
             rows == config[h]
         IN  /\ h \in Histories /\ p \in Revisions /\ s \in Revisions /\ Sound(rows, TakenFrom(h))
             /\ Rewrites(a, h, [rows EXCEPT ![p] = EndingBefore(@, rows[s].from),
                                            ![s] = AsApproved(@)])
             /\ takeovers' = takeovers \cup {[in |-> h, pred |-> p, succ |-> s]}
             /\ rows[p].status = "APPROVED" /\ rows[s].status = "REVIEWED"
             /\ p \notin TakenFrom(h) /\ TakesOver(rows, p, s)
             /\ Approvable(h, s)
<1> DEFINE h == order[a].in
           p == order[a].pred
           s == order[a].rev
           rows == config[h]
<1>1. order[a].op = "supersede" /\ CasHistoryOf(a) BY DEF WriteSupersede, Finished
<1>2. StillSo(order[a]) BY <1>1, ReadIsSo
<1>3. /\ order[a].row = rows[s] /\ rows[p].status = "APPROVED" /\ rows[s].status = "REVIEWED"
      /\ TakesOver(rows, p, s)
  BY <1>1, <1>2 DEF StillSo
<1>4. p \notin TakenFrom(h) BY DEF WriteSupersede, TakenOver, TakenFrom
<1>5. /\ Rewrites(a, h, [rows EXCEPT ![p] = EndingBefore(@, order[a].row.from),
                                     ![s] = AsApproved(@)])
      /\ takeovers' = takeovers \cup {[in |-> h, pred |-> p, succ |-> s]}
  BY DEF WriteSupersede, Finished, CasHistoryOf, Rewrites
<1> QED BY <1>1, <1>3, <1>4, <1>5, ReadIsSo

\* Every write leaves the rows of its history sound, approves what can be approved,
\* and forgets no decision.
Writes(a) == WriteCreate(a) \/ WriteReview(a) \/ WriteApprove(a) \/ WriteSupersede(a)

Written(a, h, rows) ==
  /\ Rewrites(a, h, rows) /\ takeovers \subseteq takeovers' /\ takeovers' \subseteq TakeOver
  /\ Sound(rows, TakenFrom(h)')
  /\ \A r \in Revisions : rows[r].status = "APPROVED" => Approvable(h, r)

LEMMA WriteEffect ==
  ASSUME ConfigInv, NEW a \in Administrators, Writes(a)
  PROVE  \E h \in Histories : \E rows \in [Revisions -> Row] : Written(a, h, rows)
<1>0. /\ takeovers \subseteq TakeOver
      /\ \A h \in Histories, r \in Revisions :
           config[h][r].status = "APPROVED" => Approvable(h, r)
  BY DEF ConfigInv, ConfigTypeOK, HistoryInv
<1>1. ASSUME NEW h \in Histories, NEW r \in Revisions, NEW row \in Row, NEW rows,
             rows = [config[h] EXCEPT ![r] = row], Sound(rows, TakenFrom(h)),
             config[h] \in [Revisions -> Row], Rewrites(a, h, rows), UNCHANGED takeovers,
             row.status = "APPROVED" => Approvable(h, r)
      PROVE  \E g \in Histories : \E n \in [Revisions -> Row] : Written(a, g, n)
  <2>1. rows \in [Revisions -> Row] BY <1>1
  <2>2. \A q \in Revisions : rows[q] = IF q = r THEN row ELSE config[h][q] BY <1>1
  <2>3. TakenFrom(h)' = TakenFrom(h) BY <1>1 DEF TakenFrom
  <2>4. \A q \in Revisions : rows[q].status = "APPROVED" => Approvable(h, q)
    BY <1>0, <1>1, <2>2
  <2>5. Written(a, h, rows) BY <1>0, <1>1, <2>3, <2>4 DEF Written
  <2> QED BY <2>1, <2>5
<1>2. CASE WriteCreate(a)
  <2> DEFINE h == order[a].in
             r == order[a].rev
             row == order[a].row
             rows == [config[h] EXCEPT ![r] = row]
  <2>1. /\ h \in Histories /\ r \in Revisions /\ row \in Row /\ Sound(config[h], TakenFrom(h))
        /\ Rewrites(a, h, rows) /\ UNCHANGED takeovers
        /\ config[h][r].status # "APPROVED" /\ row.status = "DRAFT"
        /\ row.from <= row.to /\ row.resolved = 0
    BY <1>2, CreationFacts
  <2>2. Sound(rows, TakenFrom(h)) BY <2>1, SoundPending
  <2>3. config[h] \in [Revisions -> Row] BY <2>1 DEF Sound
  <2> QED BY <1>1, <2>1, <2>2, <2>3
<1>3. CASE WriteReview(a)
  <2> DEFINE h == order[a].in
             r == order[a].rev
             row == AsReviewed(config[h][r])
             rows == [config[h] EXCEPT ![r] = row]
  <2>1. /\ h \in Histories /\ r \in Revisions /\ Sound(config[h], TakenFrom(h))
        /\ Rewrites(a, h, rows) /\ UNCHANGED takeovers /\ config[h][r].status = "DRAFT"
    BY <1>3, ReviewingFacts
  <2>2. /\ config[h] \in [Revisions -> Row] /\ config[h][r] \in Row
        /\ config[h][r].from <= config[h][r].to /\ config[h][r].resolved = 0
    BY <2>1 DEF Sound, SoundRow
  <2>3. /\ row \in Row /\ row.status = "REVIEWED" /\ row.from <= row.to /\ row.resolved = 0
    BY <2>2, RowUpdates
  <2> HIDE DEF row
  <2>4. Sound(rows, TakenFrom(h)) BY <2>1, <2>3, SoundPending
  <2> QED BY <1>1, <2>1, <2>2, <2>3, <2>4
<1>4. CASE WriteApprove(a)
  <2> DEFINE h == order[a].in
             r == order[a].rev
             row == AsApproved(config[h][r])
             rows == [config[h] EXCEPT ![r] = row]
  <2>1. /\ h \in Histories /\ r \in Revisions /\ Sound(config[h], TakenFrom(h))
        /\ Rewrites(a, h, rows) /\ UNCHANGED takeovers /\ config[h][r].status = "REVIEWED"
        /\ Conflicts(config[h], r) = {} /\ Approvable(h, r)
    BY <1>4, ApprovalFacts
  <2>2. config[h] \in [Revisions -> Row] /\ config[h][r] \in Row BY <2>1 DEF Sound
  <2>3. row \in Row BY <2>2, RowUpdates
  <2>4. Sound(rows, TakenFrom(h)) BY <2>1, SoundApproval
  <2> HIDE DEF row
  <2> QED BY <1>1, <2>1, <2>2, <2>3, <2>4
<1>5. CASE WriteSupersede(a)
  <2>0. PICK h \in Histories, p \in Revisions, s \in Revisions :
          order[a].in = h /\ order[a].pred = p /\ order[a].rev = s
    BY <1>5, TakingOverFacts
  <2> DEFINE prow == EndingBefore(config[h][p], config[h][s].from)
             srow == AsApproved(config[h][s])
             rows == [config[h] EXCEPT ![p] = prow, ![s] = srow]
             decision == [in |-> h, pred |-> p, succ |-> s]
  <2>1. /\ Sound(config[h], TakenFrom(h))
        /\ Rewrites(a, h, rows) /\ takeovers' = takeovers \cup {decision}
        /\ config[h][p].status = "APPROVED" /\ config[h][s].status = "REVIEWED"
        /\ p \notin TakenFrom(h) /\ TakesOver(config[h], p, s) /\ Approvable(h, s)
    BY <1>5, <2>0, TakingOverFacts
  <2>2. decision \in TakeOver BY DEF TakeOver
  <2>3. takeovers \subseteq takeovers' /\ takeovers' \subseteq TakeOver BY <1>0, <2>1, <2>2
  <2>4. TakenFrom(h) \cup {p} \subseteq TakenFrom(h)'
    <3>1. decision.in = h /\ decision.pred = p /\ decision \in takeovers' BY <2>1
    <3> HIDE DEF decision
    <3> QED BY <2>3, <3>1 DEF TakenFrom
  <2>5. Sound(rows, TakenFrom(h) \cup {p}) BY <2>1, SoundTakeOver
  <2>6. rows \in [Revisions -> Row] BY <2>5 DEF Sound
  <2>7. Sound(rows, TakenFrom(h)') BY <2>4, <2>5, SoundAnyway
  <2>8. \A q \in Revisions : q \notin {p, s} => rows[q] = config[h][q]
    <3>1. config[h] \in [Revisions -> Row] BY <2>1 DEF Sound
    <3> HIDE DEF prow, srow
    <3> QED BY <3>1
  <2>9. Approvable(h, p) BY <1>0, <2>1
  <2> HIDE DEF rows
  <2>10. \A q \in Revisions : rows[q].status = "APPROVED" => Approvable(h, q)
    BY <1>0, <2>1, <2>8, <2>9
  <2>11. Written(a, h, rows) BY <2>1, <2>3, <2>7, <2>10 DEF Written
  <2> QED BY <2>6, <2>11
<1> QED BY <1>2, <1>3, <1>4, <1>5 DEF Writes

-----------------------------------------------------------------------------
(* What the other steps leave alone.                                       *)

Disposes(a) == WriteDisposition(a)
Identifies == \E k \in Named \cup Items : Identify(k)
Quiet(a) == GiveUp(a) \/ (\E new \in AnOrder : BeginsOrder(a, new))

LEMMA ConfigSteps ==
  ASSUME ConfigInv, [ConfigNext]_configVars
  PROVE  \/ UNCHANGED configVars \/ Identifies \/ ApproveTemplate
         \/ \E a \in Administrators : Quiet(a) \/ Disposes(a) \/ Writes(a)
<1>1. \A a \in Administrators : OrderSomething(a) => Quiet(a) BY OrderBegins DEF Quiet
<1>2. \A a \in Administrators : WriteSomething(a) => Disposes(a) \/ Writes(a)
  BY DEF WriteSomething, Disposes, Writes
<1>3. \A a \in Administrators : GiveUp(a) => Quiet(a) BY DEF Quiet
<1>4. CreateModel \/ CreateSupplier \/ CreateModelPart \/ CreateInspectionItem => Identifies
  BY DEF CreateModel, CreateSupplier, CreateModelPart, CreateInspectionItem, Identifies, Named
<1> QED BY <1>1, <1>2, <1>3, <1>4 DEF ConfigNext

\* Only a disposition touches the items: one that is a candidate, counting its version.
DisposeOf(i, to) == [disposition |-> to, version |-> item[i].version + 1]
LEMMA DispositionFacts ==
  ASSUME ConfigInv, NEW a \in Administrators, Disposes(a)
  PROVE  /\ UNCHANGED <<identities, template, history, config, takeovers>>
         /\ order' = [order EXCEPT ![a] = NoOrder]
         /\ \E i \in Items, to \in {"MANAGED", "EXCLUDED"} :
              /\ item[i].disposition = "CANDIDATE"
              /\ item' = [item EXCEPT ![i] = DisposeOf(i, to)]
<1> DEFINE o == order[a]
<1>1. o \in AnOrder BY DEF ConfigInv, ConfigTypeOK, AnOrder
<1>2. o.op = "dispose" /\ item[o.item].version = o.seen
  BY DEF Disposes, WriteDisposition, Finished
<1>3. o.item \in Items /\ o.to \in {"MANAGED", "EXCLUDED"} BY <1>1, <1>2, OrderTypes
<1>4. OrderInv(o) BY DEF ConfigInv
<1>5. item[o.item].disposition = "CANDIDATE" BY <1>2, <1>4 DEF OrderInv
<1>6. item' = [item EXCEPT ![o.item] = DisposeOf(o.item, o.to)]
  BY DEF Disposes, WriteDisposition, DisposeOf
<1>7. /\ UNCHANGED <<identities, template, history, config, takeovers>>
      /\ order' = [order EXCEPT ![a] = NoOrder]
  BY DEF Disposes, WriteDisposition, Finished
<1> QED BY <1>3, <1>5, <1>6, <1>7

\* Items keep what was decided about them, versions never go back, and one that
\* stays is that of an item that stays.
ItemsKept ==
  /\ item' \in [Items -> [disposition : Dispositions, version : Nat]]
  /\ \A i \in Items :
       /\ item[i].disposition # "CANDIDATE" => item'[i].disposition = item[i].disposition
       /\ item'[i].version >= item[i].version
       /\ item'[i].version = item[i].version => item'[i] = item[i]
  /\ template' \in Statuses /\ (template = "APPROVED" => template' = "APPROVED")
  /\ identities' \subseteq Named \cup Items

LEMMA ItemsStep ==
  ASSUME ConfigInv, [ConfigNext]_configVars
  PROVE  ItemsKept
<1>0. /\ item \in [Items -> [disposition : Dispositions, version : Nat]]
      /\ template \in Statuses /\ identities \subseteq Named \cup Items
      /\ \A i \in Items : item[i].version \in Nat
  BY DEF ConfigInv, ConfigTypeOK
<1>1. CASE UNCHANGED <<identities, item, template>> BY <1>0, <1>1 DEF ItemsKept
<1>2. CASE Identifies BY <1>0, <1>2 DEF Identifies, Identify, ItemsKept
<1>3. CASE ApproveTemplate BY <1>0, <1>3 DEF ApproveTemplate, ItemsKept, Statuses
<1>4. ASSUME NEW a \in Administrators, Disposes(a) PROVE ItemsKept
  <2>1. PICK i \in Items, to \in {"MANAGED", "EXCLUDED"} :
          /\ item[i].disposition = "CANDIDATE"
          /\ item' = [item EXCEPT ![i] = DisposeOf(i, to)]
    BY <1>4, DispositionFacts
  <2>2. UNCHANGED <<identities, template>> BY <1>4, DispositionFacts
  <2>3. DisposeOf(i, to) \in [disposition : Dispositions, version : Nat]
    BY <1>0 DEF DisposeOf, Dispositions
  <2>4. DisposeOf(i, to).version > item[i].version BY <1>0 DEF DisposeOf
  <2> HIDE DEF DisposeOf
  <2>5. item' \in [Items -> [disposition : Dispositions, version : Nat]] BY <1>0, <2>1, <2>3
  <2>6. \A j \in Items : item'[j] = IF j = i THEN DisposeOf(i, to) ELSE item[j] BY <1>0, <2>1
  <2>7. ASSUME NEW j \in Items
        PROVE  /\ item[j].disposition # "CANDIDATE" => item'[j].disposition = item[j].disposition
               /\ item'[j].version >= item[j].version
               /\ item'[j].version = item[j].version => item'[j] = item[j]
    <3>1. CASE j = i BY <1>0, <2>1, <2>3, <2>4, <2>6, <3>1
    <3>2. CASE j # i BY <1>0, <2>6, <3>2
    <3> QED BY <3>1, <3>2
  <2> QED BY <1>0, <2>2, <2>5, <2>7 DEF ItemsKept
<1>5. ASSUME NEW a \in Administrators, Quiet(a) PROVE UNCHANGED <<identities, item, template>>
  BY <1>5 DEF Quiet, GiveUp, BeginsOrder, configRows
<1>6. ASSUME NEW a \in Administrators, Writes(a) PROVE UNCHANGED <<identities, item, template>>
  BY <1>6, WriteEffect DEF Written, Rewrites
<1> QED BY <1>1, <1>2, <1>3, <1>4, <1>5, <1>6, ConfigSteps DEF configVars, configRows

\* Nothing takes back what makes a revision approvable.
LEMMA StaysApprovable ==
  ASSUME ConfigInv, [ConfigNext]_configVars, NEW h \in Histories, NEW r \in Revisions,
         Approvable(h, r)
  PROVE  Approvable(h, r)'
<1>1. ItemOf[h][r] \in Items BY ConfigAssumption
<1>2. ItemsKept BY ItemsStep
<1> QED BY <1>1, <1>2 DEF Approvable, ItemsKept

-----------------------------------------------------------------------------
(* The histories.                                                          *)

\* A step leaves the rows alone, or is the write of one order.
LEMMA RowSteps ==
  ASSUME ConfigInv, [ConfigNext]_configVars
  PROVE  \/ UNCHANGED <<history, config, takeovers>>
         \/ \E a \in Administrators : Writes(a)
<1>1. Identifies \/ ApproveTemplate => UNCHANGED <<history, config, takeovers>>
  BY DEF Identifies, Identify, ApproveTemplate
<1>2. \A a \in Administrators : Quiet(a) => UNCHANGED <<history, config, takeovers>>
  BY DEF Quiet, GiveUp, BeginsOrder, configRows
<1>3. \A a \in Administrators : Disposes(a) => UNCHANGED <<history, config, takeovers>>
  BY DispositionFacts
<1> QED BY <1>1, <1>2, <1>3, ConfigSteps DEF configVars, configRows

HistoriesHold ==
  /\ history' \in [Histories -> Nat] /\ config' \in [Histories -> [Revisions -> Row]]
  /\ takeovers' \subseteq TakeOver
  /\ \A h \in Histories : HistoryInv(h)'

LEMMA HistoriesStep ==
  ASSUME ConfigInv, [ConfigNext]_configVars
  PROVE  HistoriesHold
<1>0. /\ history \in [Histories -> Nat] /\ config \in [Histories -> [Revisions -> Row]]
      /\ takeovers \subseteq TakeOver
      /\ \A h \in Histories : HistoryInv(h)
  BY DEF ConfigInv, ConfigTypeOK
<1>1. ASSUME NEW h \in Histories, takeovers \subseteq takeovers', config'[h] = config[h]
      PROVE  HistoryInv(h)'
  <2>1. TakenFrom(h) \subseteq TakenFrom(h)' BY <1>1 DEF TakenFrom
  <2>2. Sound(config'[h], TakenFrom(h)') BY <1>0, <1>1, <2>1, SoundAnyway DEF HistoryInv
  <2>3. \A r \in Revisions : config'[h][r].status = "APPROVED" => Approvable(h, r)'
    BY <1>0, <1>1, StaysApprovable DEF HistoryInv
  <2> QED BY <2>2, <2>3 DEF HistoryInv
<1>2. CASE UNCHANGED <<history, config, takeovers>> BY <1>0, <1>1, <1>2 DEF HistoriesHold
<1>3. ASSUME NEW a \in Administrators, Writes(a) PROVE HistoriesHold
  <2>1. PICK h \in Histories, rows \in [Revisions -> Row] : Written(a, h, rows)
    BY <1>3, WriteEffect
  <2>2. /\ config' = [config EXCEPT ![h] = rows] /\ history' = [history EXCEPT ![h] = @ + 1]
        /\ takeovers \subseteq takeovers' /\ takeovers' \subseteq TakeOver
        /\ Sound(rows, TakenFrom(h)')
        /\ \A r \in Revisions : rows[r].status = "APPROVED" => Approvable(h, r)
    BY <2>1 DEF Written, Rewrites
  <2>3. /\ history' \in [Histories -> Nat] /\ config' \in [Histories -> [Revisions -> Row]]
        /\ \A g \in Histories : config'[g] = IF g = h THEN rows ELSE config[g]
    BY <1>0, <2>2
  <2>4. HistoryInv(h)'
    <3>1. config'[h] = rows BY <2>3
    <3>2. \A r \in Revisions : config'[h][r].status = "APPROVED" => Approvable(h, r)'
      BY <2>2, <3>1, StaysApprovable
    <3> QED BY <2>2, <3>1, <3>2 DEF HistoryInv
  <2>5. \A g \in Histories : g # h => HistoryInv(g)' BY <1>1, <2>2, <2>3
  <2> QED BY <2>2, <2>3, <2>4, <2>5 DEF HistoriesHold
<1> QED BY <1>2, <1>3, RowSteps

\* A history that keeps its version keeps its rows.
LEMMA VersionsTell ==
  ASSUME ConfigInv, [ConfigNext]_configVars, NEW h \in Histories
  PROVE  history'[h] >= history[h] /\ (history'[h] = history[h] => config'[h] = config[h])
<1>0. history \in [Histories -> Nat] /\ config \in [Histories -> [Revisions -> Row]]
  BY DEF ConfigInv, ConfigTypeOK
<1>1. CASE UNCHANGED <<history, config, takeovers>> BY <1>0, <1>1
<1>2. ASSUME NEW a \in Administrators, Writes(a)
      PROVE  history'[h] >= history[h] /\ (history'[h] = history[h] => config'[h] = config[h])
  <2>1. PICK g \in Histories, rows \in [Revisions -> Row] : Written(a, g, rows)
    BY <1>2, WriteEffect
  <2>2. config' = [config EXCEPT ![g] = rows] /\ history' = [history EXCEPT ![g] = @ + 1]
    BY <2>1 DEF Written, Rewrites
  <2> QED BY <1>0, <2>2
<1> QED BY <1>1, <1>2, RowSteps

-----------------------------------------------------------------------------
(* The orders.                                                             *)

\* What an order knows no step of anybody falsifies.
LEMMA OrderStays ==
  ASSUME ConfigInv, [ConfigNext]_configVars, NEW o \in AnOrder, OrderInv(o)
  PROVE  OrderInv(o)'
<1>1. o.op = "create" => o.row.status = "DRAFT" /\ o.row.from <= o.row.to /\ o.row.resolved = 0
  BY DEF OrderInv
<1>2. ASSUME o.op \in {"review", "approve", "supersede"} PROVE KnowsRows(o)'
  <2>1. o.in \in Histories /\ o.rev \in Revisions /\ o.seen \in Nat BY <1>2, OrderTypes
  <2>2. KnowsRows(o) BY <1>2 DEF OrderInv
  <2>3. history \in [Histories -> Nat] /\ history' \in [Histories -> Nat]
    BY HistoriesStep DEF ConfigInv, ConfigTypeOK, HistoriesHold
  <2>4. history'[o.in] >= history[o.in]
        /\ (history'[o.in] = history[o.in] => config'[o.in] = config[o.in])
    BY <2>1, VersionsTell
  <2>5. o.seen <= history'[o.in] BY <2>1, <2>2, <2>3, <2>4 DEF KnowsRows
  <2>6. ASSUME history'[o.in] = o.seen PROVE StillSo(o)'
    <3>1. history'[o.in] = history[o.in] BY <2>1, <2>2, <2>3, <2>4, <2>6 DEF KnowsRows
    <3>2. config'[o.in] = config[o.in] /\ StillSo(o) BY <2>2, <2>4, <2>6, <3>1 DEF KnowsRows
    <3> QED BY <3>2 DEF StillSo
  <2>7. o.op \in {"approve", "supersede"} => Approvable(o.in, o.rev)'
    BY <2>1, <2>2, StaysApprovable DEF KnowsRows
  <2> QED BY <2>5, <2>6, <2>7 DEF KnowsRows
<1>3. ASSUME o.op = "dispose"
      PROVE  /\ o.seen <= item'[o.item].version
             /\ item'[o.item].version = o.seen => item'[o.item].disposition = "CANDIDATE"
  <2>1. o.item \in Items /\ o.seen \in Nat BY <1>3, OrderTypes
  <2>2. /\ o.seen <= item[o.item].version
        /\ item[o.item].version = o.seen => item[o.item].disposition = "CANDIDATE"
    BY <1>3 DEF OrderInv
  <2>3. ItemsKept BY ItemsStep
  <2>4. /\ item[o.item].version \in Nat /\ item'[o.item].version \in Nat
        /\ item'[o.item].version >= item[o.item].version
        /\ item'[o.item].version = item[o.item].version => item'[o.item] = item[o.item]
    BY <2>1, <2>3 DEF ItemsKept, ConfigInv, ConfigTypeOK
  <2> QED BY <2>1, <2>2, <2>4
<1> QED BY <1>1, <1>2, <1>3 DEF OrderInv

\* An administrator begins an order, or ends the one there was.
LEMMA OrderSteps ==
  ASSUME ConfigInv, [ConfigNext]_configVars
  PROVE  \/ UNCHANGED order
         \/ \E a \in Administrators, new \in AnOrder : BeginsOrder(a, new)
         \/ \E a \in Administrators : order' = [order EXCEPT ![a] = NoOrder]
<1>1. Identifies \/ ApproveTemplate => UNCHANGED order
  BY DEF Identifies, Identify, ApproveTemplate
<1>2. \A a \in Administrators : GiveUp(a) => order' = [order EXCEPT ![a] = NoOrder] BY DEF GiveUp
<1>3. \A a \in Administrators : Disposes(a) => order' = [order EXCEPT ![a] = NoOrder]
  BY DispositionFacts
<1>4. \A a \in Administrators : Writes(a) => order' = [order EXCEPT ![a] = NoOrder]
  BY WriteEffect DEF Written, Rewrites
<1> QED BY <1>1, <1>2, <1>3, <1>4, ConfigSteps DEF configVars, Quiet

LEMMA NoOrderKnows == NoOrder \in AnOrder /\ OrderInv(NoOrder) /\ OrderInv(NoOrder)'
BY DEF NoOrder, AnOrder, OrderInv

LEMMA OrdersStep ==
  ASSUME ConfigInv, [ConfigNext]_configVars
  PROVE  order' \in [Administrators -> AnOrder] /\ \A b \in Administrators : OrderInv(order[b])'
<1>0. /\ order \in [Administrators -> AnOrder]
      /\ \A b \in Administrators : OrderInv(order[b])
  BY DEF ConfigInv, ConfigTypeOK, AnOrder
<1>1. ASSUME NEW b \in Administrators, NEW o \in AnOrder, order'[b] = o, OrderInv(o)'
      PROVE  OrderInv(order[b])'
  BY <1>1 DEF OrderInv, KnowsRows, StillSo, Approvable
<1>2. ASSUME NEW b \in Administrators, order'[b] = order[b] PROVE OrderInv(order[b])'
  <2>1. PICK o \in AnOrder : o = order[b] BY <1>0
  <2>2. OrderInv(o) BY <1>0, <2>1
  <2> QED BY <1>1, <1>2, <2>1, <2>2, OrderStays
<1>3. CASE UNCHANGED order BY <1>0, <1>2, <1>3
<1>4. ASSUME NEW a \in Administrators, NEW new \in AnOrder, order' = [order EXCEPT ![a] = new],
             OrderInv(new)'
      PROVE  order' \in [Administrators -> AnOrder] /\ \A b \in Administrators : OrderInv(order[b])'
  <2>1. \A b \in Administrators : order'[b] = IF b = a THEN new ELSE order[b] BY <1>0, <1>4
  <2>2. order' \in [Administrators -> AnOrder] BY <1>0, <1>4
  <2>3. OrderInv(order[a])' BY <1>1, <1>4, <2>1
  <2>4. \A b \in Administrators : b # a => OrderInv(order[b])' BY <1>2, <2>1
  <2> QED BY <2>2, <2>3, <2>4
<1>5. ASSUME NEW a \in Administrators, NEW new \in AnOrder, BeginsOrder(a, new)
      PROVE  order' \in [Administrators -> AnOrder] /\ \A b \in Administrators : OrderInv(order[b])'
  <2>1. order' = [order EXCEPT ![a] = new] /\ OrderInv(new) BY <1>5 DEF BeginsOrder
  <2> QED BY <1>4, <2>1, OrderStays
<1>6. ASSUME NEW a \in Administrators, order' = [order EXCEPT ![a] = NoOrder]
      PROVE  order' \in [Administrators -> AnOrder] /\ \A b \in Administrators : OrderInv(order[b])'
  BY <1>4, <1>6, NoOrderKnows
<1> QED BY <1>3, <1>5, <1>6, OrderSteps

-----------------------------------------------------------------------------
(* The theorems.                                                           *)

LEMMA ConfigInitHolds == ConfigInit => ConfigInv
<1> SUFFICES ASSUME ConfigInit PROVE ConfigInv OBVIOUS
<1>1. NoRow \in Row BY PeriodsAssumption DEF NoRow, Row, Statuses, Days
<1>2. ConfigTypeOK BY <1>1 DEF ConfigInit, ConfigTypeOK, Dispositions, Statuses
<1>3. ASSUME NEW h \in Histories PROVE HistoryInv(h)
  <2>1. \A r \in Revisions : config[h][r] = NoRow BY DEF ConfigInit
  <2>2. NoRow.status = "NONE" /\ NoRow.from <= NoRow.to /\ NoRow.resolved = 0 BY DEF NoRow
  <2>3. config[h] \in [Revisions -> Row] BY <1>1 DEF ConfigInit
  <2>4. Disjoint(config[h]) BY <2>1, <2>2 DEF Disjoint, Approved
  <2>5. \A r \in Revisions : SoundRow(config[h][r], r \in TakenFrom(h)) BY <2>1, <2>2 DEF SoundRow
  <2> QED BY <2>1, <2>2, <2>3, <2>4, <2>5 DEF HistoryInv, Sound
<1>4. \A a \in Administrators : OrderInv(order[a])
  <2>1. \A a \in Administrators : order[a] = NoOrder BY DEF ConfigInit
  <2> QED BY <2>1, NoOrderKnows, Zenon
<1> QED BY <1>2, <1>3, <1>4 DEF ConfigInv

LEMMA ConfigInductive == ConfigInv /\ [ConfigNext]_configVars => ConfigInv'
<1> SUFFICES ASSUME ConfigInv, [ConfigNext]_configVars PROVE ConfigInv' OBVIOUS
<1>1. ItemsKept BY ItemsStep
<1>2. HistoriesHold BY HistoriesStep
<1>3. order' \in [Administrators -> AnOrder] /\ \A a \in Administrators : OrderInv(order[a])'
  BY OrdersStep
<1>4. ConfigTypeOK' BY <1>1, <1>2, <1>3 DEF ConfigTypeOK, ItemsKept, HistoriesHold, AnOrder
<1> QED BY <1>2, <1>3, <1>4 DEF ConfigInv, HistoriesHold

\* The rows of every history are sound and what is approved could be approved now,
\* and what an order read still holds as long as its history has the version it read.
THEOREM ConfigInvariance == ConfigSpec => []ConfigInv
BY ConfigInitHolds, ConfigInductive, PTL DEF ConfigSpec

\* On no day two approved revisions of a history are in force.
LEMMA OnePerDay ==
  ASSUME NEW rows \in [Revisions -> Row], Disjoint(rows), NEW day \in Days,
         NEW p \in Revisions, NEW q \in Revisions,
         day \in PeriodsOf(rows)[p], day \in PeriodsOf(rows)[q]
  PROVE  p = q
<1>1. /\ p \in Approved(rows) /\ q \in Approved(rows)
      /\ day \in rows[p].from .. EffectiveEnd(rows[p])
      /\ day \in rows[q].from .. EffectiveEnd(rows[q])
  BY DEF PeriodsOf, Approved
<1>2. Overlap(rows[p].from, EffectiveEnd(rows[p]), rows[q].from, EffectiveEnd(rows[q]))
  BY <1>1 DEF Overlap, Row, Days, EffectiveEnd
<1> QED BY <1>1, <1>2 DEF Disjoint

LEMMA AtMostOne ==
  ASSUME NEW h \in Histories, HistoryInv(h), NEW day \in Days
  PROVE  Cardinality(InForceOn(h, day)) <= 1
<1> DEFINE S == InForceOn(h, day)
<1>1. ASSUME NEW p \in S, NEW q \in S PROVE p = q
  BY OnePerDay DEF InForceOn, HistoryInv, Sound
<1>2. CASE S = {} BY <1>2, FS_EmptySet
<1>3. CASE S # {}
  <2>1. PICK p : p \in S BY <1>3
  <2>2. S = {p} BY <1>1, <2>1
  <2> QED BY <2>2, FS_Singleton
<1> QED BY <1>2, <1>3

\* The catalogs of every day load, are unambiguous, and leave out nothing that is
\* approved for it.
THEOREM CatalogsAreComplete == ConfigSpec => []CatalogsTellAll
<1>1. ConfigInv => CatalogsTellAll
  <2> SUFFICES ASSUME ConfigInv PROVE CatalogsTellAll OBVIOUS
  <2>1. \A h \in Histories : HistoryInv(h) BY DEF ConfigInv
  <2>2. \A h \in Histories, day \in Days, r \in Revisions :
          r \in InForceOn(h, day) => Approvable(h, r)
    BY <2>1 DEF InForceOn, PeriodsOf, HistoryInv
  <2>3. \A h \in Histories, day \in Days : Cardinality(InForceOn(h, day)) <= 1
    BY <2>1, AtMostOne
  <2>4. ASSUME NEW day \in Days PROVE BindingsLoad(day)
    <3>1. \A h \in Bindings : h \in Histories /\ BindingsOn(day)[h] = InForceOn(h, day)
      BY DEF BindingsOn, Histories
    <3>2. \A r : \A h \in Bindings : r \in InForceOn(h, day) => r \in Revisions BY DEF InForceOn
    <3> QED BY <2>2, <3>1, <3>2 DEF BindingsLoad
  <2>5. ASSUME NEW h \in Specs, NEW day \in Days PROVE SpecsOn(day)[h] = InForceOn(h, day)
    <3>1. h \in Histories BY DEF Histories
    <3>2. \A r \in InForceOn(h, day) : item[ItemOf[h][r]].disposition = "MANAGED"
      BY <2>2, <3>1 DEF Approvable, InForceOn
    <3> QED BY <3>2 DEF SpecsOn
  <2>6. \A h \in Bindings, day \in Days : BindingsOn(day)[h] = InForceOn(h, day) BY DEF BindingsOn
  <2> QED BY <2>3, <2>4, <2>5, <2>6 DEF CatalogsTellAll, Histories
<1> QED BY <1>1, ConfigInvariance, PTL

-----------------------------------------------------------------------------
(* Readers see histories of module EffectiveHistory.                       *)

LEMMA PromisesInit ==
  ASSUME ConfigInit, NEW h \in Histories
  PROVE  PromiseOf(h)!Init
<1>1. \A r \in Revisions : config[h][r].status # "APPROVED" BY DEF ConfigInit, NoRow
<1>2. PeriodsOf(config[h]) = [r \in Revisions |-> {}] BY <1>1 DEF PeriodsOf
<1> QED BY <1>2 DEF PromiseOf!Init

\* What readers see of a write: nothing, an approval, or a take-over.
ApprovalSeen(old, new, s, from, to) ==
  LET days == from .. to
  IN  /\ days # {} /\ old[s] = {} /\ days \cap UNION {old[q] : q \in Revisions} = {}
      /\ new = [old EXCEPT ![s] = days]

TakeOverSeen(old, new, p, s, from, to) ==
  LET days == from .. to
  IN  /\ p # s /\ days # {} /\ old[s] = {} /\ from \in old[p] /\ from - 1 \in old[p]
      /\ days \cap ((UNION {old[q] : q \in Revisions}) \ old[p]) = {}
      /\ new = [old EXCEPT ![p] = old[p] \cap 1 .. from - 1, ![s] = days]

SeenOf(old, new) ==
  \/ new = old
  \/ \E s \in Revisions, from, to \in Days :
       \/ ApprovalSeen(old, new, s, from, to)
       \/ \E p \in Revisions : TakeOverSeen(old, new, p, s, from, to)

LEMMA WriteIsSeen ==
  ASSUME ConfigInv, NEW a \in Administrators, Writes(a)
  PROVE  \E h \in Histories : \E rows :
           Rewrites(a, h, rows) /\ SeenOf(PeriodsOf(config[h]), PeriodsOf(rows))
<1>1. CASE WriteCreate(a)
  <2> DEFINE h == order[a].in
             r == order[a].rev
             row == order[a].row
             rows == [config[h] EXCEPT ![r] = row]
  <2>1. /\ h \in Histories /\ r \in Revisions /\ row \in Row /\ Sound(config[h], TakenFrom(h))
        /\ Rewrites(a, h, rows)
        /\ config[h][r].status # "APPROVED" /\ row.status # "APPROVED"
    BY <1>1, CreationFacts
  <2>2. PeriodsOf(rows) = PeriodsOf(config[h]) BY <2>1, PendingPeriods DEF Sound
  <2> QED BY <2>1, <2>2 DEF SeenOf
<1>2. CASE WriteReview(a)
  <2> DEFINE h == order[a].in
             r == order[a].rev
             row == AsReviewed(config[h][r])
             rows == [config[h] EXCEPT ![r] = row]
  <2>1. /\ h \in Histories /\ r \in Revisions /\ Sound(config[h], TakenFrom(h))
        /\ Rewrites(a, h, rows) /\ config[h][r].status # "APPROVED"
    BY <1>2, ReviewingFacts
  <2>2. config[h] \in [Revisions -> Row] /\ row.status # "APPROVED"
    BY <2>1, RowUpdates DEF Sound
  <2> HIDE DEF row
  <2>3. PeriodsOf(rows) = PeriodsOf(config[h]) BY <2>1, <2>2, PendingPeriods
  <2> QED BY <2>1, <2>3 DEF SeenOf
<1>3. CASE WriteApprove(a)
  <2> DEFINE h == order[a].in
             r == order[a].rev
             from == config[h][r].from
             to == config[h][r].to
             rows == [config[h] EXCEPT ![r] = AsApproved(@)]
             old == PeriodsOf(config[h])
  <2>1. /\ h \in Histories /\ r \in Revisions /\ Sound(config[h], TakenFrom(h))
        /\ Rewrites(a, h, rows) /\ config[h][r].status = "REVIEWED" /\ Conflicts(config[h], r) = {}
    BY <1>3, ApprovalFacts
  <2>2. /\ config[h] \in [Revisions -> Row] /\ from <= to /\ config[h][r].resolved = 0
        /\ from \in Days /\ to \in Days
    BY <2>1 DEF Sound, SoundRow, Row
  <2>3. /\ PeriodsOf(rows) = [old EXCEPT ![r] = from .. to]
        /\ old[r] = {} /\ from .. to # {}
        /\ (from .. to) \cap UNION {old[q] : q \in Revisions} = {}
    BY <2>1, <2>2, ApprovalPeriods
  <2>4. ApprovalSeen(old, PeriodsOf(rows), r, from, to) BY <2>3 DEF ApprovalSeen
  <2> HIDE DEF from, to, rows
  <2> QED BY <2>1, <2>2, <2>4 DEF SeenOf
<1>4. CASE WriteSupersede(a)
  <2>0. PICK h \in Histories, p \in Revisions, s \in Revisions :
          order[a].in = h /\ order[a].pred = p /\ order[a].rev = s
    BY <1>4, TakingOverFacts
  <2> DEFINE was == config[h]
             from == was[s].from
             to == was[s].to
             rows == [was EXCEPT ![p] = EndingBefore(@, from), ![s] = AsApproved(@)]
             old == PeriodsOf(was)
             days == from .. to
  <2>1. /\ Sound(was, TakenFrom(h)) /\ Rewrites(a, h, rows)
        /\ was[p].status = "APPROVED" /\ was[s].status = "REVIEWED"
        /\ p \notin TakenFrom(h) /\ TakesOver(was, p, s)
    BY <1>4, <2>0, TakingOverFacts
  <2> HIDE DEF was
  <2>2. /\ was \in [Revisions -> Row] /\ Disjoint(was) /\ p # s
        /\ was[s].resolved = 0 /\ from <= to /\ from \in Days
        /\ was[p].from < from /\ from <= EffectiveEnd(was[p])
        /\ Conflicts(was, s) \subseteq {p}
    BY <2>1, TakeOverFacts
  <2>3. to \in Days BY <2>1, <2>2 DEF Row
  <2>4. /\ PeriodsOf(rows) = [old EXCEPT ![p] = old[p] \cap 1 .. from - 1, ![s] = days]
        /\ old[s] = {} /\ from \in days /\ from \in old[p] /\ from - 1 \in old[p]
        /\ days \cap ((UNION {old[q] : q \in Revisions}) \ old[p]) = {}
    BY <2>1, <2>2, SupersessionPeriods
  <2>5. TakeOverSeen(old, PeriodsOf(rows), p, s, from, to) BY <2>2, <2>4 DEF TakeOverSeen
  <2>6. SeenOf(old, PeriodsOf(rows))
    <3> HIDE DEF from, to, rows, old
    <3> QED BY <2>2, <2>3, <2>5 DEF SeenOf
  <2> QED BY <2>1, <2>6 DEF was
<1> QED BY <1>1, <1>2, <1>3, <1>4 DEF Writes

LEMMA PromisesStep ==
  ASSUME ConfigInv, [ConfigNext]_configVars, NEW h \in Histories
  PROVE  UNCHANGED PeriodsOf(config[h]) \/ PromiseOf(h)!Next
<1>1. ASSUME config'[h] = config[h] PROVE UNCHANGED PeriodsOf(config[h])
  BY <1>1 DEF PeriodsOf, EffectiveEnd
<1>2. ASSUME NEW a \in Administrators, Writes(a)
      PROVE  UNCHANGED PeriodsOf(config[h]) \/ PromiseOf(h)!Next
  <2>1. PICK g \in Histories : \E rows :
          Rewrites(a, g, rows) /\ SeenOf(PeriodsOf(config[g]), PeriodsOf(rows))
    BY <1>2, WriteIsSeen
  <2>2. PICK rows : Rewrites(a, g, rows) /\ SeenOf(PeriodsOf(config[g]), PeriodsOf(rows)) BY <2>1
  <2>3. config \in [Histories -> [Revisions -> Row]] BY DEF ConfigInv, ConfigTypeOK
  <2>4. \A k \in Histories : config'[k] = IF k = g THEN rows ELSE config[k]
    BY <2>2, <2>3 DEF Rewrites
  <2>5. CASE g # h BY <1>1, <2>4, <2>5
  <2>6. CASE g = h
    <3> DEFINE old == PeriodsOf(config[h])
               new == PeriodsOf(rows)
    <3>1. PeriodsOf(config[h])' = new BY <2>4, <2>6 DEF PeriodsOf, EffectiveEnd
    <3>2. CASE new = old BY <3>1, <3>2
    <3>3. ASSUME NEW s \in Revisions, NEW from \in Days, NEW to \in Days,
                 ApprovalSeen(old, new, s, from, to)
          PROVE  PromiseOf(h)!Next
      <4>1. PromiseOf(h)!Approve(s, from .. to)
        BY <3>1, <3>3 DEF ApprovalSeen, PromiseOf!Approve, PromiseOf!InForce
      <4> QED BY <4>1 DEF PromiseOf!Next, PromiseOf!Days, Days
    <3>4. ASSUME NEW s \in Revisions, NEW from \in Days, NEW to \in Days, NEW p \in Revisions,
                 TakeOverSeen(old, new, p, s, from, to)
          PROVE  PromiseOf(h)!Next
      <4> DEFINE days == from .. to
      <4>1. from = CHOOSE d \in days : \A e \in days : d <= e
        <5>1. from \in days /\ \A d \in days : (\A e \in days : d <= e) <=> d = from
          BY <3>4 DEF Days, TakeOverSeen
        <5> HIDE DEF days
        <5> QED BY <5>1
      <4>2. /\ p # s /\ days # {} /\ old[s] = {} /\ from \in old[p] /\ from - 1 \in old[p]
            /\ days \cap ((UNION {old[q] : q \in Revisions}) \ old[p]) = {}
            /\ new = [old EXCEPT ![p] = old[p] \cap 1 .. from - 1, ![s] = days]
        BY <3>4 DEF TakeOverSeen
      <4>3. PromiseOf(h)!Supersede(p, s, days)
        <5> HIDE DEF days, new
        <5> QED BY <3>1, <4>1, <4>2 DEF PromiseOf!Supersede, PromiseOf!InForce
      <4> QED BY <4>3 DEF PromiseOf!Next, PromiseOf!Days, Days
    <3> HIDE DEF old, new
    <3>5. SeenOf(old, new) BY <2>2, <2>6 DEF old, new
    <3> QED BY <3>2, <3>3, <3>4, <3>5 DEF SeenOf
  <2> QED BY <2>5, <2>6
<1> QED BY <1>1, <1>2, RowSteps

\* In every history, who is in force changes only by an approval for days that nobody
\* has, or by a take-over on a day of the predecessor.
THEOREM PromisesAreKept == ConfigSpec => EveryHistoryKeepsItsPromise
<1>1. ConfigInit => \A h \in Histories : PromiseOf(h)!Init BY PromisesInit
<1>2. ConfigInv /\ [ConfigNext]_configVars =>
        [\A h \in Histories : UNCHANGED PeriodsOf(config[h]) \/ PromiseOf(h)!Next]_config
  BY PromisesStep
<1> QED BY <1>1, <1>2, ConfigInvariance, PTL DEF ConfigSpec, EveryHistoryKeepsItsPromise

-----------------------------------------------------------------------------
(* Who judges results of a day sees a configuration of ItemConfiguration.  *)

\* What is seen of a write on a day: nothing but the version of the history, or the
\* approval of one more revision.
StandingInForce(st) == {r \in Revisions : st[r] = "in force"}
OneMoreApproved(old, new, r) ==
  /\ old[r] = "open"
  /\ \E now \in {"in force", "other days"}, ended \in {{}, StandingInForce(old)} :
       /\ now = "in force" => ended = StandingInForce(old)
       /\ new = [q \in Revisions |->
                   IF q = r THEN now ELSE IF q \in ended THEN "other days" ELSE old[q]]

LEMMA SameStanding ==
  ASSUME NEW rows \in [Revisions -> Row], NEW r \in Revisions, NEW row, NEW day,
         rows[r].status # "APPROVED", row.status # "APPROVED"
  PROVE  Standing([rows EXCEPT ![r] = row], day) = Standing(rows, day)
<1> DEFINE new == [rows EXCEPT ![r] = row]
<1>1. PeriodsOf(new) = PeriodsOf(rows) BY PendingPeriods
<1>2. \A q \in Revisions : new[q].status # "APPROVED" <=> rows[q].status # "APPROVED" OBVIOUS
<1> HIDE DEF new
<1> QED BY <1>1, <1>2 DEF Standing, new

LEMMA ApprovalStanding ==
  ASSUME NEW rows \in [Revisions -> Row], NEW r \in Revisions, NEW day \in Days,
         rows[r].status = "REVIEWED", rows[r].resolved = 0, rows[r].from <= rows[r].to,
         Conflicts(rows, r) = {}
  PROVE  OneMoreApproved(Standing(rows, day), Standing([rows EXCEPT ![r] = AsApproved(@)], day), r)
<1> DEFINE new == [rows EXCEPT ![r] = AsApproved(@)]
           days == rows[r].from .. rows[r].to
           old == Standing(rows, day)
           now == IF day \in days THEN "in force" ELSE "other days"
<1>1. /\ PeriodsOf(new) = [PeriodsOf(rows) EXCEPT ![r] = days]
      /\ days \cap UNION {PeriodsOf(rows)[q] : q \in Revisions} = {}
  BY ApprovalPeriods
<1>2. /\ \A q \in Revisions : q # r => new[q].status = rows[q].status
      /\ new[r].status = "APPROVED"
  BY RowUpdates
<1>3. \A q \in Revisions : PeriodsOf(new)[q] = IF q = r THEN days ELSE PeriodsOf(rows)[q]
  BY <1>1 DEF PeriodsOf
<1>4. old[r] = "open" BY DEF Standing
<1>5. now = "in force" => StandingInForce(old) = {}
  BY <1>1 DEF StandingInForce, Standing
<1> HIDE DEF new, days
<1>6. Standing(new, day) =
        [q \in Revisions |-> IF q = r THEN now ELSE IF q \in {} THEN "other days" ELSE old[q]]
  BY <1>2, <1>3 DEF Standing
<1> HIDE DEF old, now
<1>7. now \in {"in force", "other days"} BY DEF now
<1>8. OneMoreApproved(old, Standing(new, day), r) BY <1>4, <1>5, <1>6, <1>7 DEF OneMoreApproved
<1> QED BY <1>8 DEF old, new

LEMMA TakeOverStanding ==
  ASSUME NEW rows \in [Revisions -> Row], NEW p \in Revisions, NEW s \in Revisions, p # s,
         NEW day \in Days, rows[p].status = "APPROVED", rows[s].status = "REVIEWED",
         rows[s].resolved = 0, rows[s].from <= rows[s].to,
         rows[p].from < rows[s].from, rows[s].from <= EffectiveEnd(rows[p]),
         Conflicts(rows, s) \subseteq {p}, Disjoint(rows)
  PROVE  OneMoreApproved(Standing(rows, day),
           Standing([rows EXCEPT ![p] = EndingBefore(@, rows[s].from), ![s] = AsApproved(@)], day), s)
<1> DEFINE first == rows[s].from
           new == [rows EXCEPT ![p] = EndingBefore(@, first), ![s] = AsApproved(@)]
           days == first .. rows[s].to
           was == PeriodsOf(rows)
           old == Standing(rows, day)
           now == IF day \in days THEN "in force" ELSE "other days"
           ended == IF day \in was[p] /\ first <= day THEN {p} ELSE {}
<1>0. first \in Nat /\ day \in Nat BY DEF Row, Days
<1>1. /\ PeriodsOf(new) = [was EXCEPT ![p] = was[p] \cap 1 .. first - 1, ![s] = days]
      /\ was[s] = {}
      /\ days \cap ((UNION {was[q] : q \in Revisions}) \ was[p]) = {}
  BY SupersessionPeriods
<1>2. /\ \A q \in Revisions : q # s => new[q].status = rows[q].status
      /\ new[s].status = "APPROVED"
  <2>1. EndingBefore(rows[p], first).status = rows[p].status BY DEF EndingBefore, Updated
  <2>2. AsApproved(rows[s]).status = "APPROVED" BY DEF AsApproved, Updated
  <2> QED BY <2>1, <2>2
<1>3. \A q \in Revisions : PeriodsOf(new)[q] =
        IF q = s THEN days ELSE IF q = p THEN was[p] \cap 1 .. first - 1 ELSE was[q]
  BY <1>1 DEF PeriodsOf
<1>4. old[s] = "open" BY DEF Standing
<1>5. day \in was[p] => StandingInForce(old) = {p}
  <2>1. ASSUME day \in was[p], NEW q \in StandingInForce(old) PROVE q = p
    BY <2>1, OnePerDay DEF StandingInForce, Standing
  <2>2. day \in was[p] => p \in StandingInForce(old) BY DEF StandingInForce, Standing
  <2> QED BY <2>1, <2>2
<1>6. day \in days /\ day \notin was[p] => StandingInForce(old) = {}
  BY <1>1 DEF StandingInForce, Standing
<1>7. ended \in {{}, StandingInForce(old)} BY <1>5
<1>8. now = "in force" => ended = StandingInForce(old)
  <2>1. day \in days => first <= day BY <1>0
  <2> QED BY <1>5, <1>6, <2>1
<1>9. day \in was[p] \cap 1 .. first - 1 <=> day \in was[p] /\ p \notin ended
  BY <1>0 DEF Days
<1> HIDE DEF new, days, first, was
<1>10. Standing(new, day) =
         [q \in Revisions |-> IF q = s THEN now ELSE IF q \in ended THEN "other days" ELSE old[q]]
  <2>1. ASSUME NEW q \in Revisions
        PROVE  Standing(new, day)[q] =
                 IF q = s THEN now ELSE IF q \in ended THEN "other days" ELSE old[q]
    <3>1. CASE q = s BY <1>2, <1>3, <3>1 DEF Standing
    <3>2. CASE q = p
      <4>1. new[q].status = "APPROVED" /\ rows[q].status = "APPROVED" BY <1>2, <3>2
      <4>2. day \in PeriodsOf(new)[q] <=> day \in was[p] /\ p \notin ended BY <1>3, <1>9, <3>2
      <4>3. p \in ended => day \in was[p] OBVIOUS
      <4> HIDE DEF ended
      <4> QED BY <3>2, <4>1, <4>2, <4>3 DEF Standing, was
    <3>3. CASE q # s /\ q # p
      <4>1. q \notin ended BY <3>3
      <4> QED BY <1>2, <1>3, <3>3, <4>1 DEF Standing, was
    <3> QED BY <3>1, <3>2, <3>3
  <2> QED BY <2>1 DEF Standing
<1> HIDE DEF old, now, ended
<1>11. now \in {"in force", "other days"} BY DEF now
<1>12. OneMoreApproved(old, Standing(new, day), s)
  BY <1>4, <1>7, <1>8, <1>10, <1>11 DEF OneMoreApproved
<1> QED BY <1>12 DEF old, new, first

\* What a write changes of the standing on a day, and that it may.
StandingSeen(h, old, new) ==
  \/ new = old
  \/ \E r \in Revisions : Approvable(h, r) /\ OneMoreApproved(old, new, r)

LEMMA WriteIsJudged ==
  ASSUME ConfigInv, NEW a \in Administrators, Writes(a), NEW day \in Days
  PROVE  \E h \in Histories : \E rows :
           Rewrites(a, h, rows) /\ StandingSeen(h, Standing(config[h], day), Standing(rows, day))
<1>1. CASE WriteCreate(a)
  <2> DEFINE h == order[a].in
             r == order[a].rev
             row == order[a].row
             rows == [config[h] EXCEPT ![r] = row]
  <2>1. /\ h \in Histories /\ r \in Revisions /\ row \in Row /\ Sound(config[h], TakenFrom(h))
        /\ Rewrites(a, h, rows)
        /\ config[h][r].status # "APPROVED" /\ row.status # "APPROVED"
    BY <1>1, CreationFacts
  <2>2. Standing(rows, day) = Standing(config[h], day) BY <2>1, SameStanding DEF Sound
  <2> QED BY <2>1, <2>2 DEF StandingSeen
<1>2. CASE WriteReview(a)
  <2> DEFINE h == order[a].in
             r == order[a].rev
             row == AsReviewed(config[h][r])
             rows == [config[h] EXCEPT ![r] = row]
  <2>1. /\ h \in Histories /\ r \in Revisions /\ Sound(config[h], TakenFrom(h))
        /\ Rewrites(a, h, rows) /\ config[h][r].status # "APPROVED"
    BY <1>2, ReviewingFacts
  <2>2. config[h] \in [Revisions -> Row] /\ row.status # "APPROVED"
    BY <2>1, RowUpdates DEF Sound
  <2> HIDE DEF row
  <2>3. Standing(rows, day) = Standing(config[h], day) BY <2>1, <2>2, SameStanding
  <2> QED BY <2>1, <2>3 DEF StandingSeen
<1>3. CASE WriteApprove(a)
  <2> DEFINE h == order[a].in
             r == order[a].rev
             rows == [config[h] EXCEPT ![r] = AsApproved(@)]
  <2>1. /\ h \in Histories /\ r \in Revisions /\ Sound(config[h], TakenFrom(h))
        /\ Rewrites(a, h, rows) /\ config[h][r].status = "REVIEWED" /\ Conflicts(config[h], r) = {}
        /\ Approvable(h, r)
    BY <1>3, ApprovalFacts
  <2>2. /\ config[h] \in [Revisions -> Row] /\ config[h][r].from <= config[h][r].to
        /\ config[h][r].resolved = 0
    BY <2>1 DEF Sound, SoundRow
  <2>3. OneMoreApproved(Standing(config[h], day), Standing(rows, day), r)
    BY <2>1, <2>2, ApprovalStanding
  <2> HIDE DEF rows
  <2> QED BY <2>1, <2>3 DEF StandingSeen
<1>4. CASE WriteSupersede(a)
  <2>0. PICK h \in Histories, p \in Revisions, s \in Revisions :
          order[a].in = h /\ order[a].pred = p /\ order[a].rev = s
    BY <1>4, TakingOverFacts
  <2> DEFINE was == config[h]
             rows == [was EXCEPT ![p] = EndingBefore(@, was[s].from), ![s] = AsApproved(@)]
  <2>1. /\ Sound(was, TakenFrom(h)) /\ Rewrites(a, h, rows)
        /\ was[p].status = "APPROVED" /\ was[s].status = "REVIEWED"
        /\ p \notin TakenFrom(h) /\ TakesOver(was, p, s) /\ Approvable(h, s)
    BY <1>4, <2>0, TakingOverFacts
  <2> HIDE DEF was
  <2>2. /\ was \in [Revisions -> Row] /\ Disjoint(was) /\ p # s
        /\ was[s].resolved = 0 /\ was[s].from <= was[s].to
        /\ was[p].from < was[s].from /\ was[s].from <= EffectiveEnd(was[p])
        /\ Conflicts(was, s) \subseteq {p}
    BY <2>1, TakeOverFacts
  <2>3. OneMoreApproved(Standing(was, day), Standing(rows, day), s)
    BY <2>1, <2>2, TakeOverStanding
  <2> HIDE DEF rows
  <2>4. StandingSeen(h, Standing(was, day), Standing(rows, day)) BY <2>1, <2>3 DEF StandingSeen
  <2> QED BY <2>1, <2>4 DEF was
<1> QED BY <1>1, <1>2, <1>3, <1>4 DEF Writes

LEMMA TheSpecItem ==
  ASSUME NEW h \in Specs
  PROVE  /\ h \in Histories /\ \A r \in Revisions : ItemOf[h][r] = SpecItem(h)
         /\ Revisions # {} => SpecItem(h) \in Items
<1>1. \E i \in Items : \A r \in Revisions : ItemOf[h][r] = i BY ConfigAssumption
<1> QED BY <1>1 DEF SpecItem, Histories

LEMMA ReviewsInit ==
  ASSUME ConfigInit, NEW h \in Specs, NEW day \in Days
  PROVE  ReviewOf(h, day)!ConfigurationInit
<1>1. h \in Histories /\ SpecItem(h) \in Items BY ConfigAssumption, TheSpecItem DEF SpecItem, Histories
<1>2. item[SpecItem(h)] = [disposition |-> "CANDIDATE", version |-> 1] BY <1>1 DEF ConfigInit
<1>3. Standing(config[h], day) = [r \in Revisions |-> "open"]
  BY <1>1 DEF ConfigInit, Standing, NoRow
<1>4. history[h] = 0 BY <1>1 DEF ConfigInit
<1> QED BY <1>2, <1>3, <1>4 DEF ReviewOf!ConfigurationInit

LEMMA ReviewsStep ==
  ASSUME ConfigInv, [ConfigNext]_configVars, NEW h \in Specs, NEW day \in Days
  PROVE  UNCHANGED SeenForReview(h, day) \/ ReviewOf(h, day)!ConfigurationNext
<1> DEFINE i == SpecItem(h)
           st == Standing(config[h], day)
<1>1. h \in Histories /\ i \in Items /\ \A r \in Revisions : ItemOf[h][r] = i
  BY ConfigAssumption, TheSpecItem DEF SpecItem
<1>2. ASSUME config'[h] = config[h] PROVE st' = st
  BY <1>2 DEF Standing, PeriodsOf, EffectiveEnd
<1>3. ASSUME UNCHANGED <<item, history, config>> PROVE UNCHANGED SeenForReview(h, day)
  BY <1>2, <1>3 DEF SeenForReview
<1>4. ASSUME NEW a \in Administrators, Disposes(a)
      PROVE  UNCHANGED SeenForReview(h, day) \/ ReviewOf(h, day)!ConfigurationNext
  <2>1. UNCHANGED <<history, config>> BY <1>4, DispositionFacts
  <2>2. PICK j \in Items, to \in {"MANAGED", "EXCLUDED"} :
          item[j].disposition = "CANDIDATE" /\ item' = [item EXCEPT ![j] = DisposeOf(j, to)]
    BY <1>4, DispositionFacts
  <2>3. item \in [Items -> [disposition : Dispositions, version : Nat]]
    BY DEF ConfigInv, ConfigTypeOK
  <2>4. st' = st BY <1>2, <2>1
  <2>5. CASE j # i
    <3>1. item'[i] = item[i] BY <1>1, <2>2, <2>3, <2>5
    <3> QED BY <2>1, <2>4, <3>1 DEF SeenForReview
  <2>6. CASE j = i
    <3>1. item'[i] = [disposition |-> to, version |-> item[i].version + 1]
      BY <1>1, <2>2, <2>3, <2>6 DEF DisposeOf
    <3>2. ReviewOf(h, day)!Dispose(to)
      BY <2>1, <2>2, <2>4, <2>6, <3>1 DEF ReviewOf!Dispose
    <3> QED BY <3>2 DEF ReviewOf!ConfigurationNext
  <2> QED BY <2>5, <2>6
<1>5. ASSUME NEW a \in Administrators, Writes(a)
      PROVE  UNCHANGED SeenForReview(h, day) \/ ReviewOf(h, day)!ConfigurationNext
  <2>1. PICK g \in Histories : \E rows :
          Rewrites(a, g, rows) /\ StandingSeen(g, Standing(config[g], day), Standing(rows, day))
    BY <1>5, WriteIsJudged
  <2>2. PICK rows :
          Rewrites(a, g, rows) /\ StandingSeen(g, Standing(config[g], day), Standing(rows, day))
    BY <2>1
  <2>3. /\ config \in [Histories -> [Revisions -> Row]] /\ history \in [Histories -> Nat]
    BY DEF ConfigInv, ConfigTypeOK
  <2>4. /\ \A k \in Histories : config'[k] = IF k = g THEN rows ELSE config[k]
        /\ \A k \in Histories : history'[k] = IF k = g THEN history[k] + 1 ELSE history[k]
        /\ UNCHANGED item
    BY <2>2, <2>3 DEF Rewrites
  <2>5. CASE g # h
    <3>1. config'[h] = config[h] /\ history'[h] = history[h] BY <1>1, <2>4, <2>5
    <3> QED BY <1>2, <2>4, <3>1 DEF SeenForReview
  <2>6. CASE g = h
    <3> DEFINE new == Standing(rows, day)
    <3>1. st' = new BY <1>1, <2>4, <2>6 DEF Standing, PeriodsOf, EffectiveEnd
    <3>2. history'[h] = history[h] + 1 BY <1>1, <2>4, <2>6
    <3>3. StandingSeen(h, st, new) BY <2>2, <2>6
    <3> HIDE DEF st, new
    <3>4. CASE new = st
      <4>1. ReviewOf(h, day)!EditMaster
        BY <2>4, <3>1, <3>2, <3>4 DEF ReviewOf!EditMaster, st
      <4> QED BY <4>1 DEF ReviewOf!ConfigurationNext
    <3>5. ASSUME NEW r \in Revisions, Approvable(h, r), OneMoreApproved(st, new, r)
          PROVE  ReviewOf(h, day)!ConfigurationNext
      <4>1. item[i].disposition = "MANAGED" BY <1>1, <3>5 DEF Approvable
      <4>2. ReviewOf(h, day)!InForce = StandingInForce(st)
        BY DEF ReviewOf!InForce, StandingInForce, st
      <4>3. PICK now \in {"in force", "other days"}, ended \in {{}, StandingInForce(st)} :
              /\ now = "in force" => ended = StandingInForce(st)
              /\ new = [q \in Revisions |->
                          IF q = r THEN now ELSE IF q \in ended THEN "other days" ELSE st[q]]
        BY <3>5 DEF OneMoreApproved
      <4>4. st[r] = "open" BY <3>5 DEF OneMoreApproved
      <4>5. ReviewOf(h, day)!ApproveMaster(r)
        <5>1. /\ Standing(config[h], day)[r] = "open" /\ Standing(config[h], day)' = new
              /\ ended \in {{}, ReviewOf(h, day)!InForce}
              /\ now = "in force" => ended = ReviewOf(h, day)!InForce
              /\ new = [q \in Revisions |-> IF q = r THEN now ELSE
                          IF q \in ended THEN "other days" ELSE Standing(config[h], day)[q]]
          BY <3>1, <4>2, <4>3, <4>4 DEF st
        <5>2. [standing |-> Standing(config[h], day), version |-> history[h]]' =
                [standing |-> new, version |-> history[h] + 1]
          BY <3>2, <5>1
        <5>3. UNCHANGED item[SpecItem(h)] BY <2>4
        <5> QED BY <4>1, <5>1, <5>2, <5>3, Zenon DEF ReviewOf!ApproveMaster
      <4> QED BY <4>5 DEF ReviewOf!ConfigurationNext
    <3> QED BY <3>3, <3>4, <3>5 DEF StandingSeen
  <2> QED BY <2>5, <2>6
<1>6. \/ UNCHANGED <<item, history, config>>
      \/ \E a \in Administrators : Disposes(a) \/ Writes(a)
  <2>1. Identifies \/ ApproveTemplate => UNCHANGED <<item, history, config>>
    BY DEF Identifies, Identify, ApproveTemplate
  <2>2. \A a \in Administrators : Quiet(a) => UNCHANGED <<item, history, config>>
    BY DEF Quiet, GiveUp, BeginsOrder, configRows
  <2> QED BY <2>1, <2>2, ConfigSteps DEF configVars, configRows
<1> QED BY <1>3, <1>4, <1>5, <1>6

\* Every specification is to those who judge results of one day a configuration of
\* ItemConfiguration, although the check of the item and the approval are two steps.
THEOREM ReviewsAreServed == ConfigSpec => ReviewsGetTheirMasters
<1>1. ConfigInit => \A h \in Specs, day \in Days : ReviewOf(h, day)!ConfigurationInit
  BY ReviewsInit
<1>2. ConfigInv /\ [ConfigNext]_configVars =>
        [\A h \in Specs, day \in Days :
           UNCHANGED SeenForReview(h, day) \/ ReviewOf(h, day)!ConfigurationNext]_configRows
  BY ReviewsStep
<1> QED BY <1>1, <1>2, ConfigInvariance, PTL DEF ConfigSpec, ReviewsGetTheirMasters

\* Both kinds of readers get what they are promised.
THEOREM PromisesToReadersHold == ConfigSpec => PromisesToReaders
BY PromisesAreKept, ReviewsAreServed, PTL DEF PromisesToReaders
=============================================================================
