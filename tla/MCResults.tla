------------------------------ MODULE MCResults ------------------------------
(***************************************************************************)
(* Small instances of what happens to an inspection result: how it gets    *)
(* into the Long tables (LongPersistence), how its review candidate is     *)
(* judged (ReviewCandidate), how it is decided and replaced                *)
(* (ResultReplacement), how a comparison reads it meanwhile                *)
(* (HistoricalComparison), and the panel that shows and decides it         *)
(* (HistoryPanel).  A behaviour is one of the five.                        *)
(***************************************************************************)
EXTENDS LongPersistence, HistoricalComparison, HistoryPanel, TLC

CONSTANTS
  Parts,                                    \* "long", "candidate", "review", "history", "panel"
  First, Second, Changed, Partial, Shelved, \* candidates of Long persistence
  Within                                    \* the result within the limits of both Masters

VARIABLES part, basis

(* Persistence: two receipts of one content, a candidate that disagrees    *)
(* with the basis of the first one, two Mapping revisions of one source,   *)
(* and another content.                                                    *)
MCJobOf == [c \in Candidates |->
              IF c \in {First, Changed} THEN "first"
              ELSE IF c = Second THEN "second"
              ELSE IF c = Partial THEN "partial" ELSE "shelved"]
MCSourceOf == [j \in Jobs |-> IF j = "second" THEN "r2" ELSE "r1"]
MCMaterialOf == [j \in Jobs |-> IF j = "partial" THEN "n" ELSE "m"]
MCLoadOf == [c \in Candidates |->
               IF c = Partial THEN "PARTIAL" ELSE IF c = Shelved THEN "HELD" ELSE "READY"]

(* Review: results of one lot, one within the limits of both Masters, the  *)
(* others outside those of the later one.                                  *)
Number(v) == [kind |-> "number", value |-> v]
Other(kind) == [kind |-> kind, value |-> 0]
Sound(samples) ==
  [source |-> TRUE, candidate |-> TRUE, binding |-> TRUE, signed |-> "LOADABLE_PENDING",
   keyed |-> TRUE, dated |-> TRUE, bound |-> TRUE, mode |-> "NUMERIC", unit |-> "mm",
   samples |-> samples]
MCEvidence == [r \in Results |-> IF r = Within THEN Sound(<<Number(5)>>) ELSE Sound(<<Number(8)>>)]
MCIdentity == [r \in Results |-> "lot"]
Master(n, low, high, unit) == [revision |-> n, lsl |-> low, usl |-> high, unit |-> unit]
MCMasters == [r \in MasterRevisions |-> IF r = 1 THEN Master(1, {1}, {9}, "mm") ELSE Master(2, {}, {7}, "mm")]

(* Candidates: one piece of evidence missing or none, every kind of        *)
(* sample, values on and beyond either limit, and rows that disagree.      *)
Flags == {"source", "candidate", "binding", "keyed", "dated", "bound"}
Evidences ==
  {[[[Sound(s) EXCEPT !.unit = u] EXCEPT !.mode = m] EXCEPT !.signed = g] :
     s \in {<<>>, <<Number(1)>>, <<Number(0)>>, <<Number(5), Number(9)>>,
            <<Number(5), Number(10)>>, <<Number(5), Other("text")>>, <<Other("formula")>>,
            <<Other("nonfinite")>>, <<Other("broken"), Number(5)>>},
     u \in {"mm", "cm", NoUnit, FormulaUnit, BadUnit},
     m \in {"NUMERIC", "QUALITATIVE"}, g \in {"LOADABLE_PENDING", "ROW_HELD"}}
Damaged == Evidences \cup {[e EXCEPT ![f] = FALSE] : e \in Evidences, f \in Flags}
ReadRowsOf(e) ==
  {[row |-> [status |-> s, version |-> 1, projected |-> s = "VALID"],
    samples |-> [i \in DOMAIN e.samples |-> [status |-> t, version |-> 1]]] :
     s \in {"PENDING", "HELD", "VALID"}, t \in {"PENDING", "HELD"}}
Items == {NoItem} \cup {[disposition |-> d, version |-> 1] :
                          d \in {"CANDIDATE", "MANAGED", "EXCLUDED"}}
MasterSets == {{}, {Master(1, {1}, {9}, "mm")}, {Master(1, {1}, {9}, "mm"), Master(2, {}, {7}, "mm")},
               {Master(3, {}, {9}, "cm")}}
NoBasis == "none"

(* Configuration: the first revision is the first to be approved, and there *)
(* are at most two changes of the history.  What no candidate shows is left *)
(* out, an approval that looks like an edit too, and a change waits until   *)
(* somebody can read it.                                                   *)
Shown == item' # item \/ EffectiveMasters' # EffectiveMasters
Read == \E p \in Reviewers : Free(p) \/ phase[p] \in {"configuration", "settle"}
Configuring(changes) ==
  \/ UNCHANGED configuration
  \/ /\ Shown /\ Read /\ master'.version <= changes
     /\ master'.standing # master.standing => InForce' # InForce
     /\ master'.standing[2] = "open" \/ master'.standing[1] # "open"

(* Comparison: ranges that share a result, all statuses or official ones;  *)
(* a command and the comparison do not wait for one another, but only what *)
(* a command commits matters to the reader: commands come one by one and   *)
(* at once, and those that are refused are left out; the configuration     *)
(* changes before the comparison only, a second time only between the two  *)
(* readings of a successor.                                                *)
MCFilters == {{"VALID"}, {"HELD", "PENDING", "VALID", "SUSPECT", "EXCLUDED", "REPLACED"}}
Idle(phases) == \A p \in Reviewers : phases[p] \in {"idle", "answered"}
Commanding ==
  /\ ReviewNext
  /\ Cardinality({p \in Reviewers : phase'[p] \notin {"idle", "answered"}}) <= 1
  /\ \A p \in Reviewers :
       /\ answer'[p] \in {"none", "DECIDED"}
       /\ phase'[p] = "lookup" => Stored(request'[p]) = {}
  /\ Configuring(IF \E p \in Reviewers : phase[p] = "settle" THEN 2 ELSE 1)
  /\ (stage = "idle" \/ UNCHANGED configuration)
  /\ stage \notin {"answered", "refused"}
Comparing == Idle(phase) /\ ComparisonNext

(* Review: two of the results have the same evidence; only one of them is   *)
(* decided directly, the other may replace and be replaced.  The one within *)
(* the limits may also be decided as suspect.                              *)
Twin == CHOOSE r \in Results \ Left : TRUE
Reviewing ==
  /\ ReviewNext /\ Configuring(2)
  /\ \A p \in Reviewers : phase'[p] = "lookup" /\ request'[p].kind = "DECIDE" =>
       request'[p].result # Twin /\ (request'[p].target = "SUSPECT" => request'[p].result = Within)

FirstScreen == CHOOSE s \in Screens : TRUE

MCInit ==
  /\ Init /\ ReviewInit /\ ComparisonInit /\ HistoryPanelInit /\ part \in Parts
  /\ part # "panel" => wanted = FirstScreen
  /\ IF part # "candidate" THEN basis = NoBasis
       ELSE \E e \in Damaged, it \in Items, ms \in MasterSets : \E r \in ReadRowsOf(e) :
              basis = Basis(e, r.row, r.samples, it, ms)

MCNext ==
  /\ UNCHANGED <<part, basis>>
  /\ \/ part = "long" /\ Next /\ UNCHANGED <<reviewVars, comparison, historyPanelVars>>
     \/ part = "review" /\ Reviewing /\ UNCHANGED <<vars, comparison, historyPanelVars>>
     \/ part = "history" /\ Commanding /\ UNCHANGED <<vars, comparison, historyPanelVars>>
     \/ part = "history" /\ Comparing /\ UNCHANGED <<vars, reviewVars, historyPanelVars>>
     \/ part = "panel" /\ HistoryPanelNext /\ UNCHANGED <<vars, reviewVars, comparison>>

MCSpec == MCInit /\ [][MCNext]_<<vars, reviewVars, comparison, historyPanelVars, part, basis>>

(* Whatever was read of a result, its candidate is sound.                  *)
CandidatesAreSound == part = "candidate" => CandidateIsSound(basis)

Interchangeable == Permutations(Callers) \cup Permutations(Reviewers)
=============================================================================
