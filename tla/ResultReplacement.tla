-------------------------- MODULE ResultReplacement --------------------------
(***************************************************************************)
(* The correction of a result: ResultReplacementService over               *)
(* ResultReplacementRepository, running beside the data-status decisions   *)
(* of DataReview on the same tables.  One command makes the successor      *)
(* VALID and the predecessor REPLACED and links the two.                   *)
(***************************************************************************)
EXTENDS DataReview

CONSTANTS
  Identity,       \* Results -> model, part, supplier, item and lot
  Reasons,        \* reasons callers give
  ChainLimit      \* REPLACEMENT_CHAIN_LIMIT

ASSUME ReplacementAssumption == ChainLimit \in Nat \ {0}

Replaces(p) == request[p].kind = "REPLACE"

LinkOf(q) == {l \in links : l.predecessor = q.predecessor /\ l.successor = q.successor}

(* _chain_issues: walk back from the predecessor over the stored links.    *)
Behind(r) == IF Incoming(r) = {} THEN {} ELSE {l.predecessor : l \in Incoming(r)}
Walk(r) ==
  LET reach[n \in 0..ChainLimit] ==
        IF n = 0 THEN {r} ELSE reach[n - 1] \cup UNION {Behind(x) : x \in reach[n - 1]}
  IN reach
ChainIssues(pred, succ) ==
  IF succ \in Walk(pred)[ChainLimit] THEN {"CHAIN_CYCLE"}
  ELSE IF Cardinality(Walk(pred)[ChainLimit]) > ChainLimit THEN {"CHAIN_LIMIT_REACHED"}
  ELSE {}

LinkIssues(pred, succ) ==
  (IF Outgoing(pred) # {} THEN {"EXISTING_OUTGOING_REPLACEMENT"} ELSE {})
    \cup (IF Incoming(succ) # {} THEN {"EXISTING_INCOMING_REPLACEMENT"} ELSE {})
    \cup ChainIssues(pred, succ)

Replaceable(rows, pred, succ) ==
  rows[pred].status \in {"VALID", "SUSPECT"} /\ rows[succ].status = "PENDING"

(* _candidate: proofs of both results, the successor's review candidate    *)
(* and every issue; its digest covers all of it.                           *)
Pair(pred, succ, rows, samples, review, found) ==
  [predecessor |-> [row |-> rows[pred], samples |-> samples[pred]],
   successor |-> [row |-> rows[succ], samples |-> samples[succ], review |-> review],
   issues |-> found
     \cup (IF Identity[pred] # Identity[succ] THEN {"IDENTITY_MISMATCH"} ELSE {})
     \cup (IF review.state # "EVALUATED" THEN {"SUCCESSOR_NOT_EVALUATED"} ELSE {})
     \cup (IF "VALID" \notin review.allowed THEN {"SUCCESSOR_VALID_NOT_ALLOWED"} ELSE {})]

PairNow(pred, succ) ==
  Pair(pred, succ, row, sample, ReviewNow(succ), LinkIssues(pred, succ))
PairSeen(p) ==
  LET q == request[p] IN
  Pair(q.predecessor, q.successor, seen[p].rows, seen[p].samples,
       ReviewSeen(p, q.successor), seen[p].issues)

(* A caller is shown a pair and asks for exactly that replacement.         *)
AskReplacement(p) ==
  /\ Free(p)
  /\ \E a, b \in Results, why \in Reasons :
       /\ a # b /\ Replaceable(row, a, b)
       /\ Send(p, [kind |-> "REPLACE", predecessor |-> a, successor |-> b,
                   reason |-> why, expected |-> PairNow(a, b)])

(* _decide_once: a known pair is replayed before eligibility is looked at. *)
LookupPair(p) ==
  /\ phase[p] = "lookup" /\ Replaces(p)
  /\ \/ LinkOf(request[p]) = {} /\ Step(p, "rows") /\ UNCHANGED answer
     \/ \E l \in LinkOf(request[p]) :
          \/ l.intent = request[p] /\ Step(p, "replay") /\ UNCHANGED answer
          \/ l.intent # request[p] /\ Finish(p, "CONFLICT")
  /\ UNCHANGED <<database, configuration, request, seen, sent>>

(* The two results are read first; a pair whose statuses already moved on  *)
(* is refused before any digest is compared.                               *)
ReadPair(p) ==
  LET q == request[p] IN
  /\ phase[p] = "rows" /\ Replaces(p)
  /\ IF Replaceable(row, q.predecessor, q.successor)
       THEN /\ seen' = [seen EXCEPT ![p] = ReadOf(q)]
            /\ Step(p, "configuration")
            /\ UNCHANGED answer
       ELSE Finish(p, "INELIGIBLE") /\ UNCHANGED seen
  /\ UNCHANGED <<database, configuration, request, sent>>

(* load_basis for the pair's own candidate.                                *)
ReadSuccessorBasis(p) ==
  /\ phase[p] = "configuration" /\ Replaces(p)
  /\ seen' = [seen EXCEPT ![p] =
       [kind |-> "pair", rows |-> seen[p].rows, samples |-> seen[p].samples,
        item |-> item, masters |-> EffectiveMasters,
        issues |-> LinkIssues(request[p].predecessor, request[p].successor)]]
  /\ Step(p, "confirm")
  /\ UNCHANGED <<database, configuration, request, answer, sent>>

(* _validate_command_candidate: the pair must be the one the caller names  *)
(* and have no issue.  Then load_basis is called a second time: from here  *)
(* on the pair is known from the command, the successor from this reading. *)
ConfirmPair(p) ==
  LET c == PairSeen(p) IN
  /\ phase[p] = "confirm"
  /\ \/ c # request[p].expected /\ Finish(p, "STALE") /\ UNCHANGED seen
     \/ c = request[p].expected /\ c.issues # {} /\ Finish(p, "INELIGIBLE") /\ UNCHANGED seen
     \/ /\ c = request[p].expected /\ c.issues = {}
        /\ seen' = [seen EXCEPT ![p] = Reading({request[p].successor})]
        /\ Step(p, "settle") /\ UNCHANGED answer
  /\ UNCHANGED <<database, configuration, request, sent>>

ReadSuccessorAgain(p) ==
  /\ phase[p] = "settle"
  /\ seen' = [seen EXCEPT ![p] = WithConfiguration(seen[p])]
  /\ Step(p, "write")
  /\ UNCHANGED <<database, configuration, request, answer, sent>>

(* One row per sample of the predecessor, of which the version it was at is *)
(* kept; the statuses and the version after follow from the side.          *)
MeasurementRows(samples) == [i \in DOMAIN samples |-> samples[i].version]

(* The link holds the pair as it was confirmed and names the decision on   *)
(* its successor, which was taken on what was read after that.             *)
LinkFor(q, c, d) ==
  [predecessor |-> q.predecessor, successor |-> q.successor, intent |-> q,
   original |-> c.predecessor.row.decision, before |-> c.predecessor.row.status,
   version |-> c.predecessor.row.version,
   samples |-> MeasurementRows(c.predecessor.samples),
   review |-> c.successor.review, decision |-> d.command,
   successorVersion |-> c.successor.row.version,
   successorSamples |-> MeasurementRows(c.successor.samples)]

(* Fault: the predecessor is linked and stays official.                    *)
LinkedRow(rw, l) ==
  [rw EXCEPT !.link = <<l.predecessor, l.successor>>, !.version = l.version + 1]

ReplacedRow(rw, l) ==
  [rw EXCEPT !.status = "REPLACED", !.link = <<l.predecessor, l.successor>>,
             !.version = l.version + 1]

ReplacedSamples(l) ==
  [i \in DOMAIN l.samples |->
     [status |-> "REPLACED", link |-> <<l.predecessor, l.successor>>,
      version |-> l.samples[i] + 1]]

(* The constraints of the table of links: two results of which neither has *)
(* one on that side, at statuses a link may start from, both with samples. *)
LinkAllowed(l, c) ==
  /\ l.predecessor # l.successor
  /\ Outgoing(l.predecessor) = {} /\ Incoming(l.successor) = {}
  /\ l.before \in {"VALID", "SUSPECT"} /\ c.successor.row.status = "PENDING"
  /\ c.predecessor.samples # <<>> /\ c.successor.samples # <<>>

(* The rest of _decide_once: the second candidate must allow VALID, and    *)
(* is compared with nothing else; apply_decision takes the successor's     *)
(* decision on it.  persist_pair writes the confirmed pair, with the       *)
(* constraints of its table and its compare and swap of the predecessor:   *)
(* all of it or none.                                                      *)
WritePair(p) ==
  LET q == request[p]
      a == q.predecessor
      b == q.successor
      c == q.expected
      review == ReviewSeen(p, b)
      d == Decision(<<a, b>>, q, b, "VALID", review, "ING-041")
      l == LinkFor(q, c, d)
      Allowed == review.state = "EVALUATED" /\ "VALID" \in review.allowed
      Writable == /\ Insertable(d) /\ Unchanged(b, seen[p].rows[b], seen[p].samples[b])
                  /\ LinkAllowed(l, c)
                  /\ Unchanged(a, c.predecessor.row, c.predecessor.samples)
                  /\ row[a].link = NoLink IN
  /\ phase[p] = "write" /\ Replaces(p)
  /\ \/ ~Allowed /\ Finish(p, "INELIGIBLE") /\ UNCHANGED database
     \/ Allowed /\ ~Writable /\ Step(p, "recheck") /\ UNCHANGED <<database, answer>>
     \/ /\ Allowed /\ Writable
        /\ decisions' = decisions \cup {d}
        /\ links' = links \cup {l}
        /\ row' = [row EXCEPT ![a] = ReplacedRow(row[a], l), ![b] = DecidedRow(row[b], d)]
        /\ sample' = [sample EXCEPT ![a] = ReplacedSamples(l), ![b] = DecidedSamples(d)]
        /\ Finish(p, "DECIDED")
  /\ UNCHANGED <<configuration, request, seen, sent>>

(* decide, after a stale write: the pair found now, if it is the same.     *)
RecheckPair(p) ==
  /\ phase[p] = "recheck" /\ Replaces(p)
  /\ \/ LinkOf(request[p]) = {} /\ Finish(p, "STALE")
     \/ \E l \in LinkOf(request[p]) :
          \/ l.intent = request[p] /\ Step(p, "replay") /\ UNCHANGED answer
          \/ l.intent # request[p] /\ Finish(p, "CONFLICT")
  /\ UNCHANGED <<database, configuration, request, seen, sent>>

(* _replay reads both results, and only afterwards the links they must     *)
(* agree with: the predecessor shows this link, the successor is still     *)
(* VALID and last in its chain, or REPLACED by the link after it.          *)
ReplayRows(p) ==
  /\ phase[p] = "replay" /\ Replaces(p)
  /\ seen' = [seen EXCEPT ![p] = ReadOf(request[p])]
  /\ Step(p, "compare")
  /\ UNCHANGED <<database, configuration, request, answer, sent>>

(* Fault: the digests of the two candidates are not compared.              *)
OfAnyEvidence(l) == TRUE

(* The successor was decided on the very candidate that was confirmed.     *)
OfOneEvidence(l) ==
  \A d \in DecisionOf(l.decision) : l.review = d.candidate /\ l.successorVersion = d.version

SuccessorShown(l, rw, sm) ==
  /\ \A d \in DecisionOf(l.decision) : DecisionShown(d, rw, sm)
  /\ OfOneEvidence(l)
  /\ \/ rw.status = "VALID" /\ Outgoing(l.successor) = {}
          /\ rw.link = NoLink /\ rw.version = l.successorVersion + 1
     \/ \E k \in Outgoing(l.successor) :
          /\ rw.status = "REPLACED" /\ rw.link = <<k.predecessor, k.successor>>
          /\ rw.version = l.successorVersion + 2

LinkShown(l, rows, samples) ==
  /\ \E d \in DecisionOf(l.original) :
       ReplacedBy(l, d, rows[l.predecessor], samples[l.predecessor])
  /\ SuccessorShown(l, rows[l.successor], samples[l.successor])

ReplayPair(p) ==
  /\ phase[p] = "compare"
  /\ \E l \in LinkOf(request[p]) :
       Finish(p, IF LinkShown(l, seen[p].rows, seen[p].samples)
                   THEN "REPLAYED" ELSE "INTEGRITY")
  /\ UNCHANGED <<database, configuration, request, seen, sent>>

ReplacementStep(p) ==
  \/ AskReplacement(p) \/ LookupPair(p) \/ ReadPair(p)
  \/ ReadSuccessorBasis(p) \/ ConfirmPair(p) \/ ReadSuccessorAgain(p)
  \/ WritePair(p) \/ RecheckPair(p) \/ ReplayRows(p) \/ ReplayPair(p)

ReviewNext ==
  \/ \E p \in Reviewers : ReviewStep(p) \/ ReplacementStep(p)
  \/ ConfigurationStep

ReviewSpec == ReviewInit /\ [][ReviewNext]_reviewVars

(***************************************************************************)
(* Properties.                                                             *)
(***************************************************************************)
(* Type invariant: the rows of the four tables and the callers' state.     *)
ReviewTypeOK ==
  /\ \A r \in Results :
       /\ row[r].status \in {"HELD", "PENDING", "VALID", "SUSPECT", "EXCLUDED", "REPLACED"}
       /\ row[r].version \in 1..3
       /\ row[r].decision = NoDecision \/ \E d \in decisions : d.command = row[r].decision
       /\ DOMAIN sample[r] = DOMAIN Evidence[r].samples
  /\ sent \in 0..MaxRequests
  /\ \A p \in Reviewers :
       /\ phase[p] \in {"idle", "lookup", "rows", "configuration", "confirm", "settle",
                        "write", "recheck", "replay", "compare", "answered"}
       /\ (answer[p] # "none") <=> (phase[p] = "answered")

(* The evidence moved while the command ran: the decision on the successor *)
(* was not taken on the candidate the caller confirmed.                    *)
Moved(l) ==
  \E d \in decisions :
    d.command = l.decision /\ d.candidate # l.intent.expected.successor.review

(* Every decision and every replacement ever stored can be replayed from   *)
(* the rows as they are now: no later command leaves a status, a version,  *)
(* a sample or a link that contradicts what was decided before it.  There  *)
(* is one exception: a replacement whose evidence moved between the        *)
(* confirmation and the decision is stored and can never be replayed.      *)
DecisionsStand ==
  /\ \A d \in decisions : DecisionShown(d, row[d.result], sample[d.result])
  /\ \A l \in links : LinkShown(l, row, sample) <=> ~Moved(l)

(* Corrections form chains that neither branch nor merge, and of every     *)
(* chain exactly the last result is official (select_valid_measurements):  *)
(* a replaced result never is, and its successor never left it.            *)
OneOfficialPerChain ==
  /\ \A l, k \in links :
       (l.predecessor = k.predecessor \/ l.successor = k.successor) => l = k
  /\ \A l \in links :
       /\ row[l.predecessor].status = "REPLACED"
       /\ row[l.successor].status = IF Outgoing(l.successor) = {} THEN "VALID" ELSE "REPLACED"
       /\ Identity[l.predecessor] = Identity[l.successor]

(* An official value is proven: a VALID result rests on one stored         *)
(* decision, taken on an evaluated candidate, whose verdict is the verdict *)
(* of the Master revision stored with the result; all its samples are      *)
(* VALID with it.                                                          *)
OfficialIsProven ==
  \A r \in Results : row[r].status = "VALID" =>
    /\ row[r].judgment = IF Fails(Evidence[r], row[r].master) THEN "FAIL" ELSE "PASS"
    /\ \E d \in decisions :
         /\ d.command = row[r].decision /\ d.result = r
         /\ FitForValid(d.candidate.basis) /\ d.candidate.master = row[r].master
    /\ Cardinality({d \in decisions : d.result = r}) = 1
    /\ \A i \in DOMAIN sample[r] : sample[r][i].status = "VALID"

(* What the database holds under the command or the pair of a request.     *)
Stored(q) == IF q.kind = "DECIDE" THEN DecisionOf(q.command) ELSE LinkOf(q)

(* The decision a stored request rests on, and the candidate it confirmed. *)
DecidedIn(q, x) == IF q.kind = "DECIDE" THEN {x} ELSE DecisionOf(x.decision)
Confirmed(q) == IF q.kind = "DECIDE" THEN q.expected ELSE q.expected.successor.review

(* A caller told DECIDED or REPLAYED asked for exactly what is stored, and *)
(* the decision was taken on the candidate it confirmed: a replacement may *)
(* have been decided on another item or Master, but never on other rows,   *)
(* and is then never replayed.  A caller told CONFLICT met its command or  *)
(* its pair used for another intent.                                       *)
AnswersAreTrue ==
  \A p \in Reviewers :
    LET q == request[p] IN
    /\ answer[p] \in {"DECIDED", "REPLAYED"} =>
         \E x \in Stored(q) :
           /\ x.intent = q
           /\ \A d \in DecidedIn(q, x) :
                /\ d.candidate.basis.row = Confirmed(q).basis.row
                /\ d.candidate.basis.samples = Confirmed(q).basis.samples
                /\ answer[p] = "REPLAYED" \/ q.kind = "DECIDE" => d.candidate = Confirmed(q)
    /\ answer[p] = "CONFLICT" => \E x \in Stored(q) : x.intent # q

(* Refinement: commands, versions and races implement the abstract trust.  *)
Trust ==
  INSTANCE DataTrust WITH
    Held <- {r \in Results : Evidence[r].signed = "ROW_HELD"},
    trust <- [r \in Results |-> row[r].status],
    successor <- [r \in Results |->
                    IF row[r].link = NoLink THEN "none" ELSE row[r].link[2]]
ImplementsTrust == Trust!Spec

(* "Exact retry replays": whoever sends again exactly what is stored is    *)
(* not told that the stored replacement is damaged.                        *)
ExactRetryReplays ==
  \A p \in Reviewers :
    answer[p] = "INTEGRITY" => ~\E x \in Stored(request[p]) : x.intent = request[p]
=============================================================================
