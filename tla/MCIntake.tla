------------------------------- MODULE MCIntake -------------------------------
(***************************************************************************)
(* Small instances of what works on files: the jobs of IntakeJobs, the     *)
(* store of OriginalStore that their worker preserves uploads in, the      *)
(* panel that sends and follows a batch of them (BulkPanel), and the       *)
(* installation of the application itself (PackageInstall).  The four      *)
(* share no state; a behaviour is one of them.                             *)
(***************************************************************************)
EXTENDS IntakeJobs, OriginalStore, PackageInstall, BulkPanel

CONSTANTS
  Parts,    \* which of the four a run looks at: "jobs", "store", "package", "panel"
  First     \* the upload that goes to a store object of its own, if any

VARIABLE part

\* Two uploads of the same bytes, and one of others.
TwoContents == [u \in Uploads |-> IF u = "other" THEN "y" ELSE "x"]
Objects == [u \in Uploads |-> IF u = First THEN "bulk" ELSE "intake"]

FirstScope == CHOOSE s \in Scopes : TRUE

MCInit ==
  /\ part \in Parts /\ Init /\ StoreInit /\ PackageInit /\ PanelInit
  /\ part # "panel" => scope = FirstScope

MCNext ==
  /\ UNCHANGED part
  /\ \/ part = "jobs" /\ Next /\ UNCHANGED <<storeVars, packageVars, panelVars>>
     \/ part = "store" /\ StoreNext /\ UNCHANGED <<vars, packageVars, panelVars>>
     \/ part = "package" /\ PackageNext /\ UNCHANGED <<vars, storeVars, panelVars>>
     \/ part = "panel" /\ PanelNext /\ UNCHANGED <<vars, storeVars, packageVars>>

MCSpec == MCInit /\ [][MCNext]_<<vars, storeVars, packageVars, panelVars, part>>

MCFairSpec ==
  /\ MCSpec
  /\ WF_vars(Worker) /\ WF_vars(Shutdown) /\ \A j \in Jobs : WF_vars(Goes(j))
  /\ WF_panelVars(Browser) /\ WF_panelVars(Network) /\ WF_panelVars(Batches)
=============================================================================
