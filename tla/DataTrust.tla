----------------------------- MODULE DataTrust -----------------------------
(***************************************************************************)
(* What a reader of official data may rely on, without rows, versions,     *)
(* commands or callers.  Every result has a trust; a pending one may be    *)
(* decided once, and a correction replaces a trusted or suspect result in  *)
(* the same step that makes its successor valid, so no moment shows both   *)
(* or neither as the official one.                                         *)
(***************************************************************************)
CONSTANTS Results, Held

VARIABLES trust, successor

NoSuccessor == "none"

Init ==
  /\ trust = [r \in Results |-> IF r \in Held THEN "HELD" ELSE "PENDING"]
  /\ successor = [r \in Results |-> NoSuccessor]

Decide(r, s) ==
  /\ trust[r] = "PENDING"
  /\ trust' = [trust EXCEPT ![r] = s]
  /\ UNCHANGED successor

Replace(a, b) ==
  /\ trust[a] \in {"VALID", "SUSPECT"} /\ trust[b] = "PENDING"
  /\ trust' = [trust EXCEPT ![a] = "REPLACED", ![b] = "VALID"]
  /\ successor' = [successor EXCEPT ![a] = b]

Next ==
  \/ \E r \in Results, s \in {"VALID", "SUSPECT", "EXCLUDED"} : Decide(r, s)
  \/ \E a, b \in Results : Replace(a, b)

Spec == Init /\ [][Next]_<<trust, successor>>
=============================================================================
