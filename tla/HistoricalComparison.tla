------------------------ MODULE HistoricalComparison ------------------------
(***************************************************************************)
(* HistoricalComparisonService.compare: a reader of the results and of     *)
(* their replacement chains, beside the commands of DataReview and         *)
(* ResultReplacement.                                                      *)
(*                                                                         *)
(* Its session has no snapshot: every SELECT sees the rows committed at    *)
(* that moment.  The two sides share one cache of links and of what        *)
(* belongs to them, so the right side is answered from what the left side  *)
(* has read.  The reader never asks again; whatever does not fit together  *)
(* makes it refuse the whole comparison.                                   *)
(***************************************************************************)
EXTENDS ResultReplacement

CONSTANTS
  Left, Right,    \* the results whose inspection date lies in either range
  StatusFilters   \* data_statuses of the requests

ASSUME ComparisonAssumption == Left \cup Right \subseteq Results

VARIABLES
  stage,     \* where the comparison stands
  side,      \* the side being read: "left", then "right"
  filter,    \* the data_statuses asked for
  selected,  \* the rows of the side, as its SELECT saw them
  frontier,  \* results whose links are looked up next
  depth,     \* how often links were looked up for this side
  cache,     \* _ReplacementHistoryCache
  fresh,     \* links found for this side whose evidence is not loaded
  shown      \* the results of the answer so far

comparison == <<stage, side, filter, selected, frontier, depth, cache, fresh, shown>>

ComparisonInit ==
  /\ stage = "idle" /\ side = "left" /\ filter = {}
  /\ selected = <<>> /\ frontier = {} /\ depth = 0 /\ fresh = {} /\ shown = {}
  /\ cache = [expanded |-> {}, known |-> {}, states |-> <<>>, children |-> <<>>, proven |-> {}]

BeginComparison ==
  /\ stage = "idle" /\ stage' = "select"
  /\ filter' \in StatusFilters
  /\ UNCHANGED <<side, selected, frontier, depth, cache, fresh, shown>>

Refuse == stage' = "refused" /\ UNCHANGED <<side, filter, selected, frontier, depth, cache, fresh, shown>>

(* _side: the rows of the range in one of the statuses asked for.          *)
SelectSide ==
  LET hits == {r \in IF side = "left" THEN Left ELSE Right : row[r].status \in filter}
  IN  /\ stage = "select" /\ stage' = "links"
      /\ selected' = [r \in hits |-> row[r]]
      /\ frontier' = hits \ cache.expanded
      /\ depth' = 0 /\ fresh' = {}
      /\ UNCHANGED <<side, filter, cache, shown>>

Ends(found) == {l.predecessor : l \in found} \cup {l.successor : l \in found}
Branching(known) ==
  \E l, k \in known :
    l # k /\ (l.predecessor = k.predecessor \/ l.successor = k.successor)

(* _prepare_replacement_history, one lookup: the links from and to the     *)
(* frontier; their other ends are the next frontier.                       *)
LookUpLinks ==
  LET found == UNION {Incoming(r) \cup Outgoing(r) : r \in frontier}
      known == cache.known \cup found
      expanded == cache.expanded \cup frontier
  IN  /\ stage = "links" /\ frontier # {}
      /\ \/ (Branching(known) \/ depth = ChainLimit + 2) /\ Refuse
         \/ /\ ~ Branching(known) /\ depth < ChainLimit + 2
            /\ cache' = [cache EXCEPT !.known = known, !.expanded = expanded]
            /\ fresh' = fresh \cup (known \ cache.known)
            /\ frontier' = Ends(found) \ expanded
            /\ depth' = depth + 1
            /\ UNCHANGED <<stage, side, filter, selected, shown>>

(* _preload_replacement_evidence: statuses of the results the new links    *)
(* join, unless they are known; then the measurements of the new links.    *)
(* What was decided and audited never changes.                             *)
Loaded(known, new) ==
  [r \in DOMAIN known \cup DOMAIN new |-> IF r \in DOMAIN known THEN known[r] ELSE new[r]]

LoadStates ==
  /\ stage = "links" /\ frontier = {} /\ stage' = "children"
  /\ cache' = [cache EXCEPT !.states = Loaded(@, [r \in Ends(fresh) |-> row[r]])]
  /\ UNCHANGED <<side, filter, selected, frontier, depth, fresh, shown>>

LoadChildren ==
  /\ stage = "children" /\ stage' = "results"
  /\ cache' = [cache EXCEPT !.children = Loaded(@, [r \in Ends(fresh) |-> sample[r]])]
  /\ UNCHANGED <<side, filter, selected, frontier, depth, fresh, shown>>

-----------------------------------------------------------------------------
(* One result of a side.                                                   *)

From(r) == {l \in cache.known : l.predecessor = r}
Into(r) == {l \in cache.known : l.successor = r}

(* The measurements of a cached link stay in the session as they were.     *)
SamplesRead(r) == IF r \in DOMAIN cache.children THEN cache.children[r] ELSE sample[r]

(* Fault: the statuses of the samples are not compared.                    *)
AnySamplesAgree(r) == TRUE

(* _samples.                                                               *)
SamplesAgree(r) == \A i \in DOMAIN SamplesRead(r) : SamplesRead(r)[i].status = selected[r].status

(* _decision, _verify_transition.                                          *)
DecisionAgrees(rw) ==
  IF rw.decision = NoDecision THEN rw.status \in {"PENDING", "HELD"}
  ELSE \E d \in DecisionOf(rw.decision) :
         IF rw.status = "REPLACED"
           THEN rw.link # NoLink /\ d.to \in {"VALID", "SUSPECT"} /\ rw.version = d.version + 2
           ELSE rw.link = NoLink /\ d.to = rw.status /\ rw.version = d.version + 1

IdOf(l) == <<l.predecessor, l.successor>>

(* The measurement rows of one side of a link against the cached samples:  *)
(* as many as were linked, and each n steps after the version it was at.   *)
MeasurementsProven(sm, before, n, status, link) ==
  /\ DOMAIN sm = DOMAIN before
  /\ \A i \in DOMAIN sm :
       sm[i].status = status /\ sm[i].link = link /\ sm[i].version = before[i] + n

(* _replacement_link: the cached rows still show exactly this link, the    *)
(* successor nothing but its own later replacement, and its decision was   *)
(* taken on what the link confirms.                                        *)
PredecessorProven(l) ==
  LET rw == cache.states[l.predecessor]
      sm == cache.children[l.predecessor]
  IN  /\ rw.status = "REPLACED" /\ rw.link = IdOf(l) /\ rw.version = l.version + 1
      /\ MeasurementsProven(sm, l.samples, 1, "REPLACED", IdOf(l))

SuccessorProven(l) ==
  LET rw == cache.states[l.successor]
      sm == cache.children[l.successor]
      Later(status, n) ==
        /\ rw.status = status /\ rw.version = l.successorVersion + n
        /\ MeasurementsProven(sm, l.successorSamples, n, status, rw.link)
  IN  IF rw.link = NoLink THEN Later("VALID", 1)
      ELSE Later("REPLACED", 2) /\ \E k \in From(l.successor) : IdOf(k) = rw.link

LinkProven(l) ==
  l \in cache.proven \/ (PredecessorProven(l) /\ SuccessorProven(l) /\ OfOneEvidence(l))

(* _replacement_chain: back to the head, then forward over all links: the  *)
(* least set of links that hangs together with the result.  A chain longer *)
(* than ChainLimit would be cut off; ChainIssues keeps any from being      *)
(* written.                                                                *)
HangsTogether(r, chain) ==
  /\ From(r) \cup Into(r) \subseteq chain
  /\ \A l \in chain : \A x \in Ends({l}) : From(x) \cup Into(x) \subseteq chain
ChainOf(r) ==
  {l \in cache.known : \A chain \in SUBSET cache.known : HangsTogether(r, chain) => l \in chain}

(* A result without links shows none.                                      *)
ChainAgrees(r) ==
  IF ChainOf(r) = {} THEN selected[r].status # "REPLACED" /\ selected[r].link = NoLink
  ELSE \A l \in ChainOf(r) : LinkProven(l)

ShowResult(r) ==
  /\ stage = "results" /\ r \in DOMAIN selected
  /\ \/ /\ ~ (SamplesAgree(r) /\ ChainAgrees(r) /\ DecisionAgrees(selected[r]))
        /\ Refuse
     \/ /\ SamplesAgree(r) /\ ChainAgrees(r) /\ DecisionAgrees(selected[r])
        /\ shown' = shown \cup {[side |-> side, result |-> r, status |-> selected[r].status,
                                 chain |-> ChainOf(r)]}
        /\ selected' = [x \in DOMAIN selected \ {r} |-> selected[x]]
        /\ cache' = [cache EXCEPT !.proven = @ \cup ChainOf(r)]
        /\ UNCHANGED <<stage, side, filter, frontier, depth, fresh>>

EndSide ==
  /\ stage = "results" /\ DOMAIN selected = {}
  /\ IF side = "left" THEN stage' = "select" /\ side' = "right"
                      ELSE stage' = "answered" /\ UNCHANGED side
  /\ UNCHANGED <<filter, selected, frontier, depth, cache, fresh, shown>>

ComparisonNext ==
  \/ BeginComparison \/ SelectSide \/ LookUpLinks \/ LoadStates \/ LoadChildren \/ EndSide
  \/ \E r \in Results : ShowResult(r)

(* A reader beside the commands: nobody waits for anybody.                 *)
ComparisonSpec ==
  /\ ReviewInit /\ ComparisonInit
  /\ [][\/ ReviewNext /\ UNCHANGED comparison
        \/ ComparisonNext /\ UNCHANGED reviewVars]_<<reviewVars, comparison>>

-----------------------------------------------------------------------------
(* Properties.                                                             *)

(* An answer is evidence although it was read in many moments: a result is *)
(* shown as replaced if and only if its chain goes on from it, a pending   *)
(* one is in no chain, results of one side agree about who replaced whom,  *)
(* a correction shown as VALID comes with the link that made it so, and no *)
(* chain holds a correction that was decided on other evidence than the    *)
(* confirmed one: such a chain is never shown.                             *)
(* (A result that both ranges contain may have been looked up for the left *)
(* side before its replacement and then lacks its link on the right.)      *)
AnswerIsEvidence ==
  stage = "answered" =>
    \A e \in shown :
      /\ (e.status = "REPLACED") <=> (\E l \in e.chain : l.predecessor = e.result)
      /\ e.chain \subseteq links /\ \A l \in e.chain : ~ Moved(l)
      /\ e.status \in {"PENDING", "HELD", "EXCLUDED"} => e.chain = {}
      /\ \A f \in shown : e.side = f.side =>
           \A l \in e.chain : f.result \in {l.predecessor, l.successor} => l \in f.chain
      /\ e.status \in {"VALID", "REPLACED"} /\ ~ (e.side = "right" /\ e.result \in Left) =>
           Incoming(e.result) \subseteq e.chain
=============================================================================
