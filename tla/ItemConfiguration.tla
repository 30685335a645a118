-------------------------- MODULE ItemConfiguration --------------------------
(***************************************************************************)
(* The configuration of one inspection item as those see it who judge its  *)
(* results of one day: the item, and of each revision of its Master        *)
(* specification whether it is approved and for that day.                  *)
(*                                                                         *)
(* This is what MasterConfig promises to DataReview: MasterConfig is shown *)
(* to implement it for every specification and every day, and DataReview   *)
(* has it for the surroundings its commands run in.                        *)
(***************************************************************************)
EXTENDS Naturals

CONSTANT MasterRevisions   \* revisions of the item's Master specification

VARIABLES
  item,    \* disposition and row_version of the item
  master   \* standing of each revision, and row_version of their history

\* "open" is not approved; what is approved is in force on the day, or is for other
\* days, which it stays.
Standings == {"open", "in force", "other days"}

ConfigurationInit ==
  /\ item = [disposition |-> "CANDIDATE", version |-> 1]
  /\ master = [standing |-> [r \in MasterRevisions |-> "open"], version |-> 0]

\* find_effective_master_spec_records, for the day.
InForce == {r \in MasterRevisions : master.standing[r] = "in force"}

\* set_item_disposition: a candidate is decided once.
Dispose(to) ==
  /\ item.disposition = "CANDIDATE"
  /\ item' = [disposition |-> to, version |-> item.version + 1]
  /\ UNCHANGED master

\* A revision is drafted or reviewed: only the version of the history tells.
EditMaster ==
  /\ master' = [master EXCEPT !.version = @ + 1]
  /\ UNCHANGED item

\* approve_master_spec, supersede_master_spec: of a managed item one more revision
\* is approved.  What was in force may stay so, unless the new one is; the day may
\* also be left to nobody, by a successor that ends before it.
ApproveMaster(r) ==
  /\ item.disposition = "MANAGED" /\ master.standing[r] = "open"
  /\ \E now \in {"in force", "other days"}, ended \in {{}, InForce} :
       /\ now = "in force" => ended = InForce
       /\ master' = [standing |-> [q \in MasterRevisions |->
                                     IF q = r THEN now
                                     ELSE IF q \in ended THEN "other days" ELSE master.standing[q]],
                     version |-> master.version + 1]
  /\ UNCHANGED item

ConfigurationNext ==
  \/ \E to \in {"MANAGED", "EXCLUDED"} : Dispose(to)
  \/ EditMaster
  \/ \E r \in MasterRevisions : ApproveMaster(r)

ConfigurationOK ==
  /\ item \in [disposition : {"CANDIDATE", "MANAGED", "EXCLUDED"}, version : Nat]
  /\ master \in [standing : [MasterRevisions -> Standings], version : Nat]
  /\ \A q, r \in InForce : q = r
=============================================================================
