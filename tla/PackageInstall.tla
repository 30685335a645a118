---------------------------- MODULE PackageInstall ----------------------------
(***************************************************************************)
(* install_package and remove_installation of the release tool: a code     *)
(* directory is written beside the installation and renamed into its       *)
(* place, the old one is renamed away first and deleted last.              *)
(*                                                                         *)
(* Nothing records a transaction but the names on the disk.  The tool may  *)
(* be killed between any two effects, and every effect may fail.  The      *)
(* model runs one invocation at a time; the tool has no lock, so that this *)
(* is up to its user.                                                      *)
(***************************************************************************)
EXTENDS Naturals

CONSTANTS
  Versions,        \* versions of packages, in order
  DataRoots,       \* data directories that are named
  MaxInvocations   \* bound: invocations of the tool

ASSUME PackageAssumption == Versions \subseteq Nat \ {0} /\ MaxInvocations \in Nat

VARIABLES
  tree,      \* the code directories by name
  step,      \* what the running invocation does next
  job,       \* the running invocation
  told,      \* how the last one ended
  count,     \* invocations so far
  promised   \* the version that passed verification last, 0 for none or removed

packageVars == <<tree, step, job, told, count, promised>>

Absent == [version |-> 0, root |-> "none", whole |-> FALSE, receipt |-> FALSE]
Tree(v, d, complete) == [version |-> v, root |-> d, whole |-> complete, receipt |-> complete]
Install == <<"install", 0>>
NewTree == <<"stage", count>>
Backup == <<"backup", count>>
Tombstone == <<"remove", count>>
Names == {Install} \cup ({"stage", "backup", "remove"} \X (1 .. MaxInvocations))
At(name) == tree[name]
There(name) == tree[name] # Absent

NoJob == [action |-> "none", version |-> 0, root |-> "none", before |-> Absent,
          swapped |-> FALSE, moved |-> FALSE, clean |-> TRUE]

PackageInit ==
  /\ tree = [n \in Names |-> Absent]
  /\ step = "idle" /\ job = NoJob /\ told = "nothing" /\ count = 0 /\ promised = 0

-----------------------------------------------------------------------------
(* Effects on the disk.                                                    *)

\* os.replace of a directory, onto a name that nothing has.
Renamed(from, to) ==
  /\ There(from) /\ ~ There(to)
  /\ tree' = [tree EXCEPT ![from] = Absent, ![to] = tree[from]]

\* shutil.rmtree deletes file by file: what it leaves is no complete tree, with
\* or without its receipt.
Gnawed(name) ==
  /\ There(name)
  /\ \E receipt \in {At(name).receipt, FALSE} :
       tree' = [tree EXCEPT ![name].whole = FALSE, ![name].receipt = receipt]
Deleted(name) == tree' = [tree EXCEPT ![name] = Absent]

Go(next) == step' = next
End(answer) == step' = "idle" /\ told' = answer

-----------------------------------------------------------------------------
(* The checks of an invocation, which change nothing.                      *)

\* install_package before it writes: an installation without a receipt is not
\* touched, and an update needs one that is whole, of the same data directory
\* and not newer.
Acceptable(action, v, d) ==
  CASE action = "install" -> ~ There(Install)
    [] action = "update"  -> /\ At(Install).receipt /\ At(Install).root = d
                             /\ At(Install).version <= v /\ At(Install).whole
    [] action = "remove"  -> At(Install).receipt /\ At(Install).root = d

Invoke ==
  /\ step = "idle" /\ count < MaxInvocations /\ count' = count + 1
  /\ \E action \in {"install", "update", "remove"}, v \in Versions, d \in DataRoots :
       /\ job' = [NoJob EXCEPT !.action = action, !.version = v, !.root = d,
                               !.before = At(Install)]
       /\ IF Acceptable(action, v, d)
            THEN Go(IF action = "remove" THEN "bury" ELSE "stage") /\ told' = "nothing"
            ELSE End("refused")
  /\ UNCHANGED <<tree, promised>>

-----------------------------------------------------------------------------
(* install and update.                                                     *)

\* stage.mkdir, _write_payload and the runtime: a tree in the making.
MakeStage ==
  /\ step = "stage" /\ Go("provision")
  /\ tree' = [tree EXCEPT ![NewTree] = Tree(job.version, job.root, FALSE)]
  /\ UNCHANGED <<job, told, count, promised>>

FillStage ==
  /\ step = "provision" /\ Go(IF job.action = "update" THEN "move" ELSE "swap")
  /\ tree' = [tree EXCEPT ![NewTree] = Tree(job.version, job.root, TRUE)]
  /\ UNCHANGED <<job, told, count, promised>>

MoveOld ==
  /\ step = "move" /\ Renamed(Install, Backup) /\ Go("swap")
  /\ job' = [job EXCEPT !.moved = TRUE]
  /\ UNCHANGED <<told, count, promised>>

SwapNew ==
  /\ step = "swap" /\ Renamed(NewTree, Install) /\ Go("verify")
  /\ job' = [job EXCEPT !.swapped = TRUE]
  /\ UNCHANGED <<told, count, promised>>

\* _verify_installed_tree is the commit point; only then the backup may go.
Verify ==
  /\ step = "verify" /\ At(Install) = Tree(job.version, job.root, TRUE)
  /\ promised' = job.version
  /\ IF job.moved THEN Go("discard backup") /\ UNCHANGED told ELSE End("installed")
  /\ UNCHANGED <<tree, job, count>>

\* The handler of every exception before the commit point.
Fail ==
  /\ step \in {"stage", "provision", "move", "swap", "verify"}
  /\ Go("undo swap")
  /\ UNCHANGED <<tree, job, told, count, promised>>

-----------------------------------------------------------------------------
(* Rollback.  An effect that fails here skips to the removal of the stage. *)

\* Fault: the new tree is taken to be in place whenever there is one.
UndoSwapAlways ==
  /\ step = "undo swap"
  /\ IF There(Install) THEN Gnawed(Install) /\ Go("delete new")
                       ELSE Go("undo move") /\ UNCHANGED tree
  /\ UNCHANGED <<job, told, count, promised>>

UndoSwap ==
  /\ step = "undo swap"
  /\ IF job.swapped /\ There(Install) THEN Gnawed(Install) /\ Go("delete new")
                                      ELSE Go("undo move") /\ UNCHANGED tree
  /\ UNCHANGED <<job, told, count, promised>>

DeleteNew ==
  /\ step = "delete new" /\ Deleted(Install) /\ Go("undo move")
  /\ UNCHANGED <<job, told, count, promised>>

\* Fault: the backup stays where it is.
UndoMoveNever ==
  /\ step = "undo move" /\ Go("undo stage")
  /\ UNCHANGED <<tree, job, told, count, promised>>

UndoMove ==
  /\ step = "undo move" /\ Go("undo stage")
  /\ IF job.moved /\ There(Backup) THEN Renamed(Backup, Install) ELSE UNCHANGED tree
  /\ UNCHANGED <<job, told, count, promised>>

FailToUndo ==
  /\ step \in {"undo swap", "delete new", "undo move"} /\ Go("undo stage")
  /\ job' = [job EXCEPT !.clean = FALSE]
  /\ UNCHANGED <<tree, told, count, promised>>

RolledBack == IF job.clean THEN "rolled back" ELSE "broken"

UndoStage ==
  /\ step = "undo stage"
  /\ IF There(NewTree) THEN Gnawed(NewTree) /\ Go("delete stage") /\ UNCHANGED told
                     ELSE End(RolledBack) /\ UNCHANGED tree
  /\ UNCHANGED <<job, count, promised>>

DeleteStage ==
  /\ step = "delete stage" /\ End(RolledBack) /\ Deleted(NewTree)
  /\ UNCHANGED <<job, count, promised>>

FailToClear ==
  /\ step \in {"undo stage", "delete stage"} /\ End("broken")
  /\ UNCHANGED <<tree, job, count, promised>>

-----------------------------------------------------------------------------
(* remove: the rename is the commit point.                                 *)

Bury ==
  /\ step = "bury" /\ Renamed(Install, Tombstone) /\ Go("buried")
  /\ job' = [job EXCEPT !.moved = TRUE]
  /\ UNCHANGED <<told, count, promised>>

\* An exception before or after the rename.
Unbury ==
  /\ step \in {"bury", "buried"} /\ End("rolled back")
  /\ IF job.moved /\ There(Tombstone) /\ ~ There(Install)
       THEN Renamed(Tombstone, Install) ELSE UNCHANGED tree
  /\ UNCHANGED <<job, count, promised>>

Removed ==
  /\ step = "buried" /\ Go("discard tombstone") /\ promised' = 0
  /\ UNCHANGED <<tree, job, told, count>>

\* What a committed invocation leaves behind: the backup or the tombstone.
Leftover == IF job.action = "remove" THEN Tombstone ELSE Backup
Committed == IF job.action = "remove" THEN "removed" ELSE "installed"

Discard ==
  /\ step \in {"discard backup", "discard tombstone"} /\ Go("discarding") /\ Gnawed(Leftover)
  /\ UNCHANGED <<job, told, count, promised>>

Discarded ==
  /\ step = "discarding" /\ End(Committed) /\ Deleted(Leftover)
  /\ UNCHANGED <<job, count, promised>>

\* cleanup_pending: the leftover stays where it is.
LeaveLeftover ==
  /\ step \in {"discard backup", "discard tombstone", "discarding"} /\ End(Committed)
  /\ UNCHANGED <<tree, job, count, promised>>

-----------------------------------------------------------------------------
KillTool ==
  /\ step # "idle" /\ End("killed")
  /\ UNCHANGED <<tree, job, count, promised>>

PackageNext ==
  \/ Invoke \/ MakeStage \/ FillStage \/ MoveOld \/ SwapNew \/ Verify \/ Fail
  \/ UndoSwap \/ DeleteNew \/ UndoMove \/ FailToUndo \/ UndoStage \/ DeleteStage \/ FailToClear
  \/ Bury \/ Unbury \/ Removed \/ Discard \/ Discarded \/ LeaveLeftover \/ KillTool

-----------------------------------------------------------------------------
(* Properties.                                                             *)

(* Whatever fails and whenever the tool is killed, a version that was      *)
(* verified and not removed since is on the disk as a complete tree, under *)
(* the name of the installation or of a backup, unless a newer one is.     *)
CodeSurvives ==
  promised # 0 =>
    \E n \in Names : n[1] # "stage" /\ At(n).whole /\ At(n).version >= promised

(* The answer is true: "installed" means the package asked for, complete   *)
(* and never older than what it updated; "rolled back" and "refused" mean  *)
(* that the installation is the one there was, untouched.                  *)
ToldIsTrue ==
  /\ told = "installed" =>
       /\ At(Install) = Tree(job.version, job.root, TRUE)
       /\ job.action = "update" => job.version >= job.before.version /\ job.before.whole
  /\ told = "removed" => ~ There(Install)
  /\ told \in {"rolled back", "refused"} => At(Install) = job.before
=============================================================================
