--------------------------- MODULE MappingTemplates ---------------------------
(***************************************************************************)
(* The history of one Mapping template: revisions that are drafted,        *)
(* reviewed, approved for a period, and superseded.                        *)
(*                                                                         *)
(* Every command is one transaction.  SQLite takes its write lock at the   *)
(* first write, so that all a command checks is read without a lock; what  *)
(* orders the commands is the compare-and-swap on the version of the       *)
(* history with which their writes begin.  Each command is therefore a     *)
(* read and a commit, and others may commit in between.  A command whose   *)
(* expected versions are not those it reads is refused and changes nothing.*)
(* Its audit record is written in the same transaction from what it read.  *)
(***************************************************************************)
EXTENDS EffectivePeriods, Sequences, FiniteSets

CONSTANTS
  Clients,   \* reviewers and administrators
  Periods,   \* periods that are declared: [from, to]
  None

ASSUME MappingAssumption ==
  /\ Periods \subseteq {d \in [from : Days, to : Days] : d.from <= d.to}
  /\ None \notin Revisions

VARIABLES
  version,       \* row_version of the history, 0 while it has no row
  revision,      \* the row of each revision
  supersession,  \* the decisions
  audit,         \* the audit records of each revision, the oldest first
  command        \* what each client has read and is about to write

rowVars == <<version, revision, supersession, audit>>
vars == <<rowVars, command>>

Ops == {"create", "review", "approve", "supersede"}
Command == [op : Ops \cup {"none"}, rev : Revisions \cup {None}, pred : Revisions \cup {None},
            history : Nat, row : Row, predRow : Row]
NoCommand == [op |-> "none", rev |-> None, pred |-> None, history |-> 0,
              row |-> NoRow, predRow |-> NoRow]
Decision == [pred : Revisions, succ : Revisions, end : Days]
\* The row of a revision before and after a command, in its audit record.
Change == [before : Row, after : Row]

TypeOK ==
  /\ version \in Nat
  /\ revision \in [Revisions -> Row]
  /\ supersession \subseteq Decision
  /\ audit \in [Revisions -> Seq(Change)]
  /\ command \in [Clients -> Command]

Init ==
  /\ version = 0
  /\ revision = [r \in Revisions |-> NoRow]
  /\ supersession = {}
  /\ audit = [r \in Revisions |-> <<>>]
  /\ command = [c \in Clients |-> NoCommand]

-----------------------------------------------------------------------------
(* What a command reads and checks.                                        *)

Begin(c, op, r, p, row, predRow) ==
  /\ command[c] = NoCommand
  /\ command' = [command EXCEPT ![c] = [op |-> op, rev |-> r, pred |-> p, history |-> version,
                                        row |-> row, predRow |-> predRow]]
  /\ UNCHANGED rowVars

\* create_draft.
CreateRead(c, r) ==
  /\ Appendable(revision, r)
  /\ \E d \in Periods : Begin(c, "create", r, None, Draft(d.from, d.to), NoRow)

\* review.
ReviewRead(c, r) ==
  /\ revision[r].status = "DRAFT"
  /\ Begin(c, "review", r, None, revision[r], NoRow)

\* approve, with _approved_overlaps.
ApproveRead(c, r) ==
  /\ revision[r].status = "REVIEWED"
  /\ Conflicts(revision, r) = {}
  /\ Begin(c, "approve", r, None, revision[r], NoRow)

\* The approved revisions in force on the first day of r and before.
Spanning(rows, r) ==
  {q \in Approved(rows) : /\ rows[q].from < rows[r].from
                          /\ rows[r].from <= EffectiveEnd(rows[q])}

\* Fault: earlier decisions are not looked at.
DecidedNever(p, s) == FALSE

\* _supersession_exists, and the unique constraints of a decision.
Decided(p, s) == \E d \in supersession : d.pred = p \/ d.succ = s

\* supersede.
SupersedeRead(c, p, s) ==
  /\ ~ Decided(p, s)
  /\ revision[p].status = "APPROVED" /\ revision[s].status = "REVIEWED"
  /\ p < s
  /\ Spanning(revision, s) = {p}
  /\ Conflicts(revision, s) \subseteq {p}
  /\ Begin(c, "supersede", s, p, revision[s], revision[p])

-----------------------------------------------------------------------------
(* What a command writes.                                                  *)

\* _cas_history.
CasHistory(c) == version = command[c].history /\ version' = version + 1

\* The condition of _cas_revision.
Unchanged(row, r) == revision[r].version = row.version

Commit(c, op) ==
  /\ command[c].op = op
  /\ CasHistory(c)
  /\ command' = [command EXCEPT ![c] = NoCommand]

Audited(r, before, after) ==
  [audit EXCEPT ![r] = Append(@, [before |-> before, after |-> after])]

\* A revision that exists meanwhile breaks the unique constraint.
Create(c) ==
  LET r == command[c].rev
  IN  /\ Commit(c, "create")
      /\ ~ Exists(revision, r)
      /\ revision' = [revision EXCEPT ![r] = command[c].row]
      /\ audit' = Audited(r, NoRow, command[c].row)
      /\ UNCHANGED supersession

Review(c) ==
  LET r == command[c].rev
      row == command[c].row
  IN  /\ Commit(c, "review") /\ Unchanged(row, r)
      /\ revision' = [revision EXCEPT ![r] = AsReviewed(@)]
      /\ audit' = Audited(r, row, AsReviewed(row))
      /\ UNCHANGED supersession

Approve(c) ==
  LET r == command[c].rev
      row == command[c].row
  IN  /\ Commit(c, "approve") /\ Unchanged(row, r)
      /\ revision' = [revision EXCEPT ![r] = AsApproved(@)]
      /\ audit' = Audited(r, row, AsApproved(row))
      /\ UNCHANGED supersession

\* The audit of a take-over does not record the resolved end that the predecessor
\* had; it takes it that there was none.
AuditedTakeOver(p, predRow, s, row) ==
  [audit EXCEPT ![p] = Append(@, [before |-> [predRow EXCEPT !.resolved = 0],
                                  after  |-> EndingBefore(predRow, row.from)]),
                ![s] = Append(@, [before |-> row, after |-> AsApproved(row)])]

\* Fault: the predecessor keeps its end.
SupersedeOpen(c) ==
  LET s == command[c].rev
      p == command[c].pred
      row == command[c].row
      predRow == command[c].predRow
  IN  /\ Commit(c, "supersede") /\ Unchanged(row, s) /\ Unchanged(predRow, p)
      /\ ~ Decided(p, s)
      /\ revision' = [revision EXCEPT ![p] = [@ EXCEPT !.version = @ + 1], ![s] = AsApproved(@)]
      /\ supersession' = supersession \cup {[pred |-> p, succ |-> s, end |-> row.from - 1]}
      /\ audit' = AuditedTakeOver(p, predRow, s, row)

\* supersede, its writes.
Supersede(c) ==
  LET s == command[c].rev
      p == command[c].pred
      row == command[c].row
      predRow == command[c].predRow
  IN  /\ Commit(c, "supersede") /\ Unchanged(row, s) /\ Unchanged(predRow, p)
      /\ ~ Decided(p, s)
      /\ revision' = [revision EXCEPT ![p] = EndingBefore(@, row.from), ![s] = AsApproved(@)]
      /\ supersession' = supersession \cup {[pred |-> p, succ |-> s, end |-> row.from - 1]}
      /\ audit' = AuditedTakeOver(p, predRow, s, row)

\* A command is refused, fails, or dies with its process: the transaction is
\* rolled back, its audit with it.
Rollback(c) ==
  /\ command[c] # NoCommand
  /\ command' = [command EXCEPT ![c] = NoCommand]
  /\ UNCHANGED rowVars

Read(c) ==
  \/ \E r \in Revisions : CreateRead(c, r) \/ ReviewRead(c, r) \/ ApproveRead(c, r)
  \/ \E p, s \in Revisions : SupersedeRead(c, p, s)

Next == \E c \in Clients :
  Read(c) \/ Create(c) \/ Review(c) \/ Approve(c) \/ Supersede(c) \/ Rollback(c)

Spec == Init /\ [][Next]_vars

-----------------------------------------------------------------------------
(* Safety.                                                                 *)

\* "approved template revisions in one scoped history cannot overlap": no day has
\* two approved revisions, although each command looks before it locks.
PeriodsAreDisjoint == Disjoint(revision)

\* Records that lead without a gap from the creation of a revision to its row.
LeadTo(records, row) ==
  LET n == Len(records)
  IN  /\ n = 0 => row = NoRow
      /\ n > 0 => records[1].before = NoRow /\ records[n].after = row
      /\ \A i \in 2 .. n : records[i].before = records[i - 1].after

\* The audit tells the whole history of every revision, although each record is
\* written from what was read before the lock, and that of a take-over presumes that
\* the predecessor had no resolved end.
AuditTellsAll == \A r \in Revisions : LeadTo(audit[r], revision[r])

\* For readers the history is the one of module EffectiveHistory: who is in force
\* changes only by an approval for free days, or by a take-over on the first day of the
\* successor.
Promise == INSTANCE EffectiveHistory WITH period <- PeriodsOf(revision)
EffectivePromise == Promise!Spec

-----------------------------------------------------------------------------
(* The inductive invariant.                                                *)

RowInv ==
  \A r \in Revisions :
    LET row == revision[r]
    IN  /\ row.status = "NONE" => row = NoRow
        /\ row.from <= row.to
        /\ row.resolved # 0 =>
             /\ row.status = "APPROVED"
             /\ row.from <= row.resolved /\ row.resolved <= row.to
             /\ \E d \in supersession : d.pred = r

\* What a client read still holds, if the history has the version it read.
ReadHolds(rows, cmd) ==
  LET rev == cmd.rev
  IN  /\ cmd.op # "none" => rev \in Revisions
      /\ cmd.op = "create" => Appendable(rows, rev) /\ cmd.row.status = "DRAFT"
                              /\ cmd.row.from <= cmd.row.to /\ cmd.row.resolved = 0
      /\ cmd.op \in {"review", "approve", "supersede"} => cmd.row = rows[rev]
      /\ cmd.op = "review" => rows[rev].status = "DRAFT"
      /\ cmd.op = "approve" => rows[rev].status = "REVIEWED" /\ Conflicts(rows, rev) = {}
      /\ cmd.op = "supersede" =>
           /\ cmd.pred \in Revisions /\ cmd.predRow = rows[cmd.pred]
           /\ rows[cmd.pred].status = "APPROVED" /\ rows[rev].status = "REVIEWED"
           /\ cmd.pred \in Spanning(rows, rev) /\ Conflicts(rows, rev) \subseteq {cmd.pred}

CommandInv ==
  \A c \in Clients : /\ command[c].history <= version
                     /\ command[c].history = version => ReadHolds(revision, command[c])

MappingInv == TypeOK /\ RowInv /\ CommandInv /\ PeriodsAreDisjoint /\ AuditTellsAll
=============================================================================
