--------------------------- MODULE EffectiveHistory ---------------------------
(***************************************************************************)
(* What a history of revisions promises to its readers: which revision is  *)
(* in force on a day.  A revision comes into force for a period nobody     *)
(* else has, or takes over from the one in force on its first day; nothing *)
(* else ever changes who is in force.                                      *)
(***************************************************************************)
EXTENDS Naturals

CONSTANTS Revisions, LastDay

VARIABLE period   \* the days on which each revision is in force

Days == 1 .. LastDay
HistoryTypeOK == period \in [Revisions -> SUBSET Days]
Init == period = [r \in Revisions |-> {}]

InForce == UNION {period[r] : r \in Revisions}

\* A revision comes into force on days that nobody has.
Approve(r, days) ==
  /\ period[r] = {} /\ days # {} /\ days \cap InForce = {}
  /\ period' = [period EXCEPT ![r] = days]

\* A revision takes over: its predecessor was in force on its first day and
\* stays in force until the day before.
Supersede(p, s, days) ==
  LET first == CHOOSE d \in days : \A e \in days : d <= e
      ended == period[p] \cap 1 .. first - 1
  IN  /\ p # s /\ period[s] = {} /\ days # {}
      /\ first \in period[p] /\ first - 1 \in period[p]
      /\ days \cap (InForce \ period[p]) = {}
      /\ period' = [period EXCEPT ![p] = ended, ![s] = days]

Next ==
  \E s \in Revisions, from, to \in Days :
    \/ Approve(s, from .. to)
    \/ \E p \in Revisions : Supersede(p, s, from .. to)

Spec == Init /\ [][Next]_period
=============================================================================
