-------------------------- MODULE LongWorkflowProofs ---------------------------
(***************************************************************************)
(* Proofs about the registration of templates (MappingRegistration) and    *)
(* about what is loaded with them (LongWorkflow), for every number of      *)
(* requests, workbooks, selections, templates and bindings: of templates   *)
(* that claim one another's workbooks at most one approver is told that    *)
(* his is ready, what is loaded is what both catalogs gave at one moment,  *)
(* and its pending rows can be decided.                                    *)
(***************************************************************************)
EXTENDS LongWorkflow, FiniteSetTheorems, SequenceTheorems, TLAPS

-----------------------------------------------------------------------------
(* Templates.                                                              *)

\* A template is a record of these fields.
IsTemplate(t) ==
  t = [id |-> t.id, status |-> t.status, receipt |-> t.receipt, told |-> t.told,
       scope |-> t.scope, layout |-> t.layout, headers |-> t.headers, rows |-> t.rows,
       ids |-> t.ids, alias |-> t.alias, from |-> t.from, to |-> t.to]

\* What never changes of a template: all but its status and what was told of it.
SameDesign(t, u) ==
  /\ u.id = t.id /\ u.receipt = t.receipt /\ u.scope = t.scope /\ u.layout = t.layout
  /\ u.headers = t.headers /\ u.rows = t.rows /\ u.ids = t.ids /\ u.alias = t.alias
  /\ u.from = t.from /\ u.to = t.to

\* A template may move on, but an approved one stays approved.
Moves(t, u) == SameDesign(t, u) /\ (t.status = "APPROVED" => u.status = "APPROVED")

LEMMA SameReading ==
  ASSUME NEW w, NEW scope, NEW T, NEW U, NEW t \in Eligible(w, scope, T), NEW u \in U,
         Moves(t, u)
  PROVE  /\ u \in Eligible(w, scope, U)
         /\ Extracts(w, t) => Extracts(w, u)
         /\ Preview(w, u) = Preview(w, t)
<1>1. t.scope = scope /\ MatchesFingerprint(w, t) /\ t.status = "APPROVED"
      /\ InspectionDay(w, t) # 0 /\ NamesSupplier(w, t) /\ InForce(t, InspectionDay(w, t))
  BY DEF Eligible
<1>2. u.scope = scope /\ u.status = "APPROVED" BY <1>1 DEF Moves, SameDesign
<1>3. MatchesFingerprint(w, u) BY <1>1 DEF Moves, SameDesign, MatchesFingerprint
<1>4. InspectionDay(w, u) = InspectionDay(w, t) BY DEF Moves, SameDesign, InspectionDay
<1>5. NamesSupplier(w, u) BY <1>1 DEF Moves, SameDesign, NamesSupplier
<1>6. InForce(u, InspectionDay(w, u)) BY <1>1, <1>4 DEF Moves, SameDesign, InForce
<1>7. u \in Eligible(w, scope, U) BY <1>1, <1>2, <1>3, <1>4, <1>5, <1>6 DEF Eligible
<1>8. Extracts(w, t) => Extracts(w, u) BY DEF Moves, SameDesign, Extracts
<1>9. Preview(w, u) = Preview(w, t)
  BY <1>4 DEF Moves, SameDesign, Preview
<1> QED BY <1>7, <1>8, <1>9

\* The image of a finite set under a function is finite.
LEMMA FiniteRange ==
  ASSUME NEW S, IsFiniteSet(S), NEW f, DOMAIN f = S
  PROVE  IsFiniteSet({f[x] : x \in S})
<1> DEFINE T == {f[x] : x \in S}
           g == [x \in S |-> f[x]]
<1>1. g \in Surjection(S, T) BY DEF Surjection
<1> QED BY <1>1, FS_Surjection

LEMMA AFiniteSequence ==
  ASSUME NEW S, NEW n \in Nat, NEW f \in [1 .. n -> S]
  PROVE  f \in Seq(S)
OBVIOUS

\* The one element of a set that has one.
LEMMA OnlyOne ==
  ASSUME NEW S, IsFiniteSet(S)
  PROVE  /\ Cardinality(S) = 1 => \A x, y \in S : x = y
         /\ \A x \in S : (\A y \in S : y = x) => Cardinality(S) = 1
<1>1. Cardinality(S) = 1 => \E x : S = {x} BY FS_Singleton
<1>2. ASSUME NEW x \in S, \A y \in S : y = x PROVE Cardinality(S) = 1
  <2>1. S = {x} BY <1>2
  <2> QED BY <2>1, FS_Singleton
<1> QED BY <1>1, <1>2

\* The template that reads a workbook is the only eligible one, and is there
\* whenever there is only one.
LEMMA ReadingFacts ==
  ASSUME NEW w, NEW scope, NEW T, IsFiniteSet(T), \A x \in T : x.id # Nowhere
  PROVE  LET E == Eligible(w, scope, T)
             t == Reading(w, scope, T)
         IN  /\ t # NoReading => t \in E /\ Extracts(w, t) /\ (\A x, y \in E : x = y)
             /\ t.id # Nowhere => t # NoReading
             /\ t = NoReading => \A x \in E : Extracts(w, x) => \E y \in E : y # x
<1> DEFINE E == Eligible(w, scope, T)
           t == Reading(w, scope, T)
<1>1. IsFiniteSet(E)
  <2>1. E \in SUBSET T BY DEF Eligible
  <2> QED BY <2>1, FS_Subset
<1>2. /\ Cardinality(E) = 1 => \A x, y \in E : x = y
      /\ \A x \in E : (\A y \in E : y = x) => Cardinality(E) = 1
  <2> HIDE DEF E
  <2> QED BY <1>1, OnlyOne
<1>3. Cardinality(E) = 1 => E # {}
  BY <1>1, FS_EmptySet
<1> DEFINE Chosen == CHOOSE x \in E : TRUE
<1>4. t = IF Cardinality(E) = 1 /\ \A x \in E : Extracts(w, x) THEN Chosen ELSE NoReading
  BY DEF Reading
<1>5. E # {} => Chosen \in E
  <2> HIDE DEF E
  <2> QED OBVIOUS
<1>6. NoReading.id = Nowhere BY DEF NoReading
<1> HIDE DEF E, t, Chosen
<1>7. t # NoReading => t \in E /\ Extracts(w, t) /\ (\A x, y \in E : x = y)
  BY <1>2, <1>3, <1>4, <1>5
<1>8. t.id # Nowhere => t # NoReading BY <1>6
<1>9. ASSUME t = NoReading, NEW x \in E, Extracts(w, x) PROVE \E y \in E : y # x
  <2>1. CASE Cardinality(E) # 1 BY <1>2, <2>1
  <2>2. CASE \E y \in E : ~ Extracts(w, y) BY <2>2, <1>9
  <2>3. CASE Cardinality(E) = 1 /\ \A y \in E : Extracts(w, y)
    <3>1. t \in E BY <1>3, <1>4, <1>5, <2>3
    <3>2. t \in T BY <3>1 DEF E, Eligible
    <3> QED BY <1>6, <1>9, <3>2
  <2> QED BY <2>1, <2>2, <2>3
<1> QED BY <1>7, <1>8, <1>9 DEF E, t

-----------------------------------------------------------------------------
(* Requests about templates.                                               *)

RegistryInv ==
  /\ registry \in Seq(Registered)
  /\ \A i \in DOMAIN registry :
       /\ IsTemplate(registry[i]) /\ registry[i].id = i
       /\ registry[i].told = "ready" => registry[i].status = "APPROVED"
       /\ IsFiniteSet(registry[i].rows)

\* What a request has read is a draft of its own, or names a template.
Sound(request, templates) ==
  /\ request = NoRequest
       \/ request = [op |-> request.op, id |-> request.id, template |-> request.template]
  /\ request.op = "create" =>
       /\ IsTemplate(request.template) /\ request.template.status = "DRAFT"
       /\ request.template.told = "nothing" /\ IsFiniteSet(request.template.rows)
  /\ request.op \in {"review", "approve", "reload"} => request.id \in DOMAIN templates
  /\ request.op = "reload" => templates[request.id].status = "APPROVED"

AskedInv ==
  /\ DOMAIN asked = Registrars
  /\ \A c \in Registrars : Sound(asked[c], registry)

RegistrationInv == RegistryInv /\ AskedInv /\ AmbiguityIsTold

\* The registry is finite, and its templates have ids of their own.
LEMMA RegisteredFacts ==
  ASSUME RegistryInv
  PROVE  /\ Len(registry) \in Nat /\ DOMAIN registry = 1 .. Len(registry)
         /\ IsFiniteSet(Registered)
         /\ \A t \in Registered :
              t.id \in DOMAIN registry /\ t = registry[t.id] /\ t.id # Nowhere
<1>1. Len(registry) \in Nat /\ DOMAIN registry = 1 .. Len(registry)
  BY LenProperties DEF RegistryInv
<1>2. IsFiniteSet(Registered)
  <2>1. IsFiniteSet(DOMAIN registry) BY <1>1, FS_Interval
  <2> QED BY <2>1, FiniteRange DEF Registered
<1>3. ASSUME NEW t \in Registered
      PROVE  t.id \in DOMAIN registry /\ t = registry[t.id] /\ t.id # Nowhere
  BY <1>1 DEF Registered, RegistryInv, Nowhere
<1> QED BY <1>1, <1>2, <1>3

\* What every step leaves in place: the templates, as they were designed.
Develops ==
  \A i \in DOMAIN registry : i \in DOMAIN registry' /\ Moves(registry[i], registry'[i])

\* One template is changed.
Changes(i, u) ==
  /\ i \in DOMAIN registry /\ registry' = [registry EXCEPT ![i] = u]
  /\ IsTemplate(u) /\ Moves(registry[i], u)
  /\ u.told = "ready" => u.status = "APPROVED"

LEMMA RegistryChange ==
  ASSUME RegistryInv, NEW i, NEW u, Changes(i, u)
  PROVE  /\ RegistryInv' /\ Develops /\ DOMAIN registry' = DOMAIN registry
         /\ \A j \in DOMAIN registry : registry'[j] = IF j = i THEN u ELSE registry[j]
<1>1. \A j \in DOMAIN registry : registry'[j] = IF j = i THEN u ELSE registry[j]
  BY DEF Changes
<1>2. DOMAIN registry' = DOMAIN registry BY DEF Changes
<1>3. Develops BY <1>1, <1>2 DEF Develops, Changes, Moves, SameDesign
<1>4. registry' \in Seq(Registered')
  <2>1. Registered' = {registry'[j] : j \in DOMAIN registry'} BY DEF Registered
  <2>2. registry' \in [1 .. Len(registry) -> Registered']
    BY <1>2, <2>1, RegisteredFacts DEF Changes
  <2>3. Len(registry) \in Nat BY RegisteredFacts
  <2> QED BY <2>2, <2>3, AFiniteSequence
<1>5. ASSUME NEW j \in DOMAIN registry
      PROVE  /\ IsTemplate(registry'[j]) /\ registry'[j].id = j
             /\ registry'[j].told = "ready" => registry'[j].status = "APPROVED"
             /\ IsFiniteSet(registry'[j].rows)
  BY <1>1 DEF RegistryInv, Changes, Moves, SameDesign
<1> QED BY <1>1, <1>2, <1>3, <1>4, <1>5 DEF RegistryInv

LEMMA RegistryGrowth ==
  ASSUME RegistryInv, NEW t, registry' = Append(registry, t),
         IsTemplate(t), t.id = Len(registry) + 1, t.told = "nothing", IsFiniteSet(t.rows)
  PROVE  /\ RegistryInv' /\ Develops /\ DOMAIN registry' = DOMAIN registry \cup {t.id}
         /\ registry'[t.id] = t /\ \A j \in DOMAIN registry : registry'[j] = registry[j]
<1> DEFINE S == Registered \cup {t}
<1>1. registry \in Seq(S) /\ t \in S BY DEF RegistryInv
<1>2. /\ registry' \in Seq(S) /\ Len(registry') = Len(registry) + 1
      /\ \A j \in 1 .. Len(registry) : registry'[j] = registry[j]
      /\ registry'[t.id] = t
  <2> HIDE DEF S
  <2> QED BY <1>1, AppendProperties
<1>3. DOMAIN registry' = 1 .. Len(registry')
  <2> HIDE DEF S
  <2> QED BY <1>2, LenProperties
<1>4. DOMAIN registry' = DOMAIN registry \cup {t.id} BY <1>2, <1>3, RegisteredFacts
<1>5. \A j \in DOMAIN registry : registry'[j] = registry[j] BY <1>2, RegisteredFacts
<1>6. Develops BY <1>4, <1>5 DEF Develops, Moves, SameDesign
<1>7. registry' \in Seq(Registered')
  <2>1. Registered' = {registry'[j] : j \in DOMAIN registry'} BY DEF Registered
  <2>2. registry' \in [1 .. Len(registry') -> Registered']
    <3>1. registry' \in [1 .. Len(registry') -> S]
      <4> HIDE DEF S
      <4> QED BY <1>2, LenProperties
    <3> QED BY <1>3, <2>1, <3>1
  <2>3. Len(registry') \in Nat BY <1>2, RegisteredFacts
  <2> QED BY <2>2, <2>3, AFiniteSequence
<1>8. ASSUME NEW j \in DOMAIN registry'
      PROVE  /\ IsTemplate(registry'[j]) /\ registry'[j].id = j
             /\ registry'[j].told = "ready" => registry'[j].status = "APPROVED"
             /\ IsFiniteSet(registry'[j].rows)
  <2>1. CASE j \in DOMAIN registry BY <1>5, <2>1 DEF RegistryInv
  <2>2. CASE j = t.id BY <1>2, <2>2
  <2> QED BY <1>4, <2>1, <2>2
<1> QED BY <1>2, <1>4, <1>5, <1>6, <1>7, <1>8 DEF RegistryInv

LEMMA AskedStep ==
  ASSUME AskedInv, Develops, NEW c \in Registrars, NEW new, Sound(new, registry'),
         asked' = [asked EXCEPT ![c] = new]
  PROVE  AskedInv'
<1>1. ASSUME NEW d \in Registrars, d # c PROVE Sound(asked[d], registry')
  BY <1>1 DEF AskedInv, Sound, Develops, Moves
<1>2. DOMAIN asked' = Registrars /\ \A d \in Registrars : asked'[d] = IF d = c THEN new ELSE asked[d]
  BY DEF AskedInv
<1>3. ASSUME NEW d \in Registrars PROVE Sound(asked'[d], registry')
  BY <1>1, <1>2
<1> QED BY <1>2, <1>3 DEF AskedInv

\* Templates that are approved collide after a step only if they did before it.
LEMMA CollisionsStay ==
  ASSUME Develops, NEW i \in DOMAIN registry, NEW j \in DOMAIN registry,
         registry[i].status = "APPROVED", registry[j].status = "APPROVED", Collide(i, j)'
  PROVE  Collide(i, j)
<1> DEFINE w == WorkbookOf[registry[i].receipt]
           scope == registry[i].scope
<1>1. registry'[i].receipt = registry[i].receipt /\ registry'[i].scope = registry[i].scope
  BY DEF Develops, Moves, SameDesign
<1>2. registry'[i] \in Eligible(w, scope, Registered') /\ registry'[j] \in Eligible(w, scope, Registered')
  BY <1>1 DEF Collide
<1>3. Moves(registry'[i], registry[i]) /\ Moves(registry'[j], registry[j])
  BY DEF Develops, Moves, SameDesign
<1>4. registry[i] \in Registered /\ registry[j] \in Registered BY DEF Registered
<1> HIDE DEF w, scope
<1>5. registry[i] \in Eligible(w, scope, Registered) BY <1>2, <1>3, <1>4, SameReading
<1>6. registry[j] \in Eligible(w, scope, Registered) BY <1>2, <1>3, <1>4, SameReading
<1> QED BY <1>5, <1>6 DEF Collide, w, scope

\* A step after which nothing else is told to be ready.
LEMMA NothingToldStep ==
  ASSUME RegistryInv, AmbiguityIsTold, Develops,
         \A i \in DOMAIN registry' : registry'[i].told = "ready" =>
           i \in DOMAIN registry /\ registry[i].told = "ready"
  PROVE  AmbiguityIsTold'
<1> SUFFICES ASSUME NEW i \in DOMAIN registry', NEW j \in DOMAIN registry', i # j,
                    registry'[i].told = "ready", registry'[j].told = "ready",
                    Collide(i, j)', Collide(j, i)'
             PROVE  FALSE
  BY DEF AmbiguityIsTold
<1>1. /\ i \in DOMAIN registry /\ registry[i].told = "ready"
      /\ j \in DOMAIN registry /\ registry[j].told = "ready"
  OBVIOUS
<1>2. registry[i].status = "APPROVED" /\ registry[j].status = "APPROVED"
  BY <1>1 DEF RegistryInv
<1>3. Collide(i, j) /\ Collide(j, i) BY <1>1, <1>2, CollisionsStay
<1> QED BY <1>1, <1>3 DEF AmbiguityIsTold

\* What is told after an approval: i is ready only if nothing else claims its workbook.
LEMMA ReloadStep ==
  ASSUME RegistryInv, AmbiguityIsTold, NEW i, NEW u, Changes(i, u),
         registry[i].status = "APPROVED",
         u.told = "ready" =>
           Reading(WorkbookOf[registry[i].receipt], registry[i].scope, Registered).id = i
  PROVE  AmbiguityIsTold'
<1> DEFINE E == Eligible(WorkbookOf[registry[i].receipt], registry[i].scope, Registered)
<1>1. i \in DOMAIN registry /\ i # Nowhere BY RegisteredFacts DEF Changes, Nowhere
<1>2. u.told = "ready" => \A x, y \in E : x = y
  <2> DEFINE t == Reading(WorkbookOf[registry[i].receipt], registry[i].scope, Registered)
  <2>1. IsFiniteSet(Registered) /\ \A x \in Registered : x.id # Nowhere BY RegisteredFacts
  <2>2. t.id # Nowhere => \A x, y \in E : x = y BY <2>1, ReadingFacts
  <2> QED BY <1>1, <2>2
<1>3. /\ Develops /\ DOMAIN registry' = DOMAIN registry
      /\ \A j \in DOMAIN registry : registry'[j] = IF j = i THEN u ELSE registry[j]
  BY RegistryChange
<1>4. ASSUME NEW j \in DOMAIN registry, NEW k \in DOMAIN registry, j # k,
             registry[j].status = "APPROVED", registry[k].status = "APPROVED", Collide(j, k)',
             j = i, u.told = "ready"
      PROVE  FALSE
  <2>1. Collide(j, k) BY <1>3, <1>4, CollisionsStay
  <2>2. registry[j] \in E /\ registry[k] \in E BY <1>4, <2>1 DEF Collide
  <2>3. registry[j] # registry[k] BY <1>4 DEF RegistryInv
  <2> QED BY <1>2, <1>4, <2>2, <2>3
<1> SUFFICES ASSUME NEW j \in DOMAIN registry', NEW k \in DOMAIN registry', j # k,
                    registry'[j].told = "ready", registry'[k].told = "ready",
                    Collide(j, k)', Collide(k, j)'
             PROVE  FALSE
  BY DEF AmbiguityIsTold
<1>5. j \in DOMAIN registry /\ k \in DOMAIN registry BY <1>3
<1>6. registry[j].status = "APPROVED" /\ registry[k].status = "APPROVED"
  BY <1>3, <1>5 DEF RegistryInv
<1>7. CASE j = i BY <1>3, <1>4, <1>5, <1>6, <1>7
<1>8. CASE k = i BY <1>3, <1>4, <1>5, <1>6, <1>8
<1>9. CASE j # i /\ k # i
  <2>1. Collide(j, k) /\ Collide(k, j) BY <1>3, <1>5, <1>6, CollisionsStay
  <2>2. registry[j].told = "ready" /\ registry[k].told = "ready" BY <1>3, <1>5, <1>9
  <2> QED BY <1>5, <2>1, <2>2 DEF AmbiguityIsTold
<1> QED BY <1>7, <1>8, <1>9

\* The steps of a request, by what they do: it reads, it stores a draft, it moves a
\* template on, it tells of one, or it ends.
Asks(c) ==
  \E op \in {"create", "review", "approve"} : \E i, t :
    /\ asked' = [asked EXCEPT ![c] = [op |-> op, id |-> i, template |-> t]]
    /\ UNCHANGED registry
    /\ op # "create" => i \in DOMAIN registry
    /\ op = "create" =>
         IsTemplate(t) /\ t.status = "DRAFT" /\ t.told = "nothing" /\ IsFiniteSet(t.rows)
Ends(c) == asked' = [asked EXCEPT ![c] = NoRequest] /\ UNCHANGED registry

LEMMA DraftFacts ==
  ASSUME NEW r, NEW scope, NEW s \in Selections
  PROVE  LET t == Derived(r, scope, s)
         IN  IsTemplate(t) /\ t.status = "DRAFT" /\ t.told = "nothing" /\ IsFiniteSet(t.rows)
<1> DEFINE Row(row) == [key |-> row.key, item |-> row.item, roles |-> row.roles,
                        samples |-> row.samples, cells |-> RowCells(WorkbookOf[r], RowOf(row.item))]
           f == [row \in s.rows |-> Row(row)]
           t == Derived(r, scope, s)
<1>1. IsTemplate(t) /\ t.status = "DRAFT" /\ t.told = "nothing" BY DEF IsTemplate, Derived
<1>2. t.rows = {Row(row) : row \in s.rows} BY DEF Derived
<1>3. IsFiniteSet(t.rows)
  <2>1. IsFiniteSet(s.rows) BY RegistrationAssumption
  <2>2. DOMAIN f = s.rows OBVIOUS
  <2>3. {Row(row) : row \in s.rows} = {f[row] : row \in s.rows} OBVIOUS
  <2>4. IsFiniteSet({f[row] : row \in s.rows})
    <3> HIDE DEF f
    <3> QED BY <2>1, <2>2, FiniteRange
  <2> QED BY <1>2, <2>3, <2>4
<1> QED BY <1>1, <1>3

LEMMA RequestSteps ==
  ASSUME RegistrationNext
  PROVE  \E c \in Registrars :
           \/ Asks(c) \/ Ends(c)
           \/ CreateCommit(c) \/ ReviewCommit(c) \/ ApproveCommit(c) \/ Reload(c)
<1> PICK c \in Registrars :
      \/ \E r \in Receipts, scope \in Scopes, s \in Selections : CreateCheck(c, r, scope, s)
      \/ \E i \in DOMAIN registry, r \in Receipts : ReviewCheck(c, i, r) \/ ApproveCheck(c, i, r)
      \/ CreateCommit(c) \/ ReviewCommit(c) \/ ApproveCommit(c) \/ Refuse(c) \/ Reload(c) \/ Die(c)
  BY DEF RegistrationNext
<1>1. ASSUME NEW r \in Receipts, NEW scope \in Scopes, NEW s \in Selections, CreateCheck(c, r, scope, s)
      PROVE  Asks(c)
  <2> DEFINE t == Derived(r, scope, s)
  <2>1. IsTemplate(t) /\ t.status = "DRAFT" /\ t.told = "nothing" /\ IsFiniteSet(t.rows)
    BY DraftFacts
  <2>2. /\ asked' = [asked EXCEPT ![c] = [op |-> "create", id |-> 0, template |-> t]]
        /\ UNCHANGED registry
    BY <1>1 DEF CreateCheck, Ask
  <2> HIDE DEF t
  <2> QED BY <2>1, <2>2 DEF Asks
<1>2. ASSUME NEW i \in DOMAIN registry, NEW r \in Receipts, ReviewCheck(c, i, r) \/ ApproveCheck(c, i, r)
      PROVE  Asks(c)
  BY <1>2 DEF ReviewCheck, ApproveCheck, Ask, Asks
<1>3. CASE Refuse(c) \/ Die(c) BY <1>3 DEF Refuse, Die, Ends
<1> QED BY <1>1, <1>2, <1>3

LEMMA SameRegistry ==
  ASSUME RegistryInv, AmbiguityIsTold, UNCHANGED registry
  PROVE  RegistryInv' /\ Develops /\ AmbiguityIsTold'
<1>1. Registered' = Registered BY DEF Registered
<1>2. RegistryInv' BY <1>1 DEF RegistryInv
<1>3. Develops BY DEF Develops, Moves, SameDesign
<1>4. AmbiguityIsTold' BY <1>3, NothingToldStep
<1> QED BY <1>2, <1>3, <1>4

LEMMA NoRequestIsSound == \A templates : Sound(NoRequest, templates)
BY DEF Sound, NoRequest

\* A template that is moved on or told of.
LEMMA TemplateUpdates ==
  ASSUME NEW t, IsTemplate(t), NEW v
  PROVE  /\ IsTemplate([t EXCEPT !.status = v]) /\ SameDesign(t, [t EXCEPT !.status = v])
         /\ [t EXCEPT !.status = v].status = v /\ [t EXCEPT !.status = v].told = t.told
         /\ IsTemplate([t EXCEPT !.told = v]) /\ SameDesign(t, [t EXCEPT !.told = v])
         /\ [t EXCEPT !.told = v].told = v /\ [t EXCEPT !.told = v].status = t.status
BY DEF IsTemplate, SameDesign

LEMMA RequestStep ==
  ASSUME RegistrationInv, NEW c \in Registrars,
         \/ Asks(c) \/ Ends(c)
         \/ CreateCommit(c) \/ ReviewCommit(c) \/ ApproveCommit(c) \/ Reload(c)
  PROVE  RegistrationInv' /\ Develops
<1> USE DEF RegistrationInv
<1>0. Sound(asked[c], registry) BY DEF AskedInv
<1>1. CASE Asks(c) \/ Ends(c)
  <2>1. UNCHANGED registry BY <1>1 DEF Asks, Ends
  <2>2. RegistryInv' /\ Develops /\ AmbiguityIsTold'
    BY <2>1, SameRegistry
  <2>3. CASE Asks(c)
    <3> PICK op \in {"create", "review", "approve"} : \E i, t :
          /\ asked' = [asked EXCEPT ![c] = [op |-> op, id |-> i, template |-> t]]
          /\ op # "create" => i \in DOMAIN registry
          /\ op = "create" =>
               IsTemplate(t) /\ t.status = "DRAFT" /\ t.told = "nothing" /\ IsFiniteSet(t.rows)
      BY <2>3 DEF Asks
    <3>1. PICK i, t :
            /\ asked' = [asked EXCEPT ![c] = [op |-> op, id |-> i, template |-> t]]
            /\ op # "create" => i \in DOMAIN registry
            /\ op = "create" =>
                 IsTemplate(t) /\ t.status = "DRAFT" /\ t.told = "nothing" /\ IsFiniteSet(t.rows)
      OBVIOUS
    <3> DEFINE new == [op |-> op, id |-> i, template |-> t]
    <3>2. Sound(new, registry') BY <2>1, <3>1 DEF Sound
    <3> HIDE DEF new
    <3>3. AskedInv' BY <2>2, <3>1, <3>2, AskedStep DEF new
    <3> QED BY <2>2, <3>3
  <2>4. CASE Ends(c)
    <3>1. AskedInv' BY <2>2, <2>4, AskedStep, NoRequestIsSound DEF Ends
    <3> QED BY <2>2, <3>1
  <2> QED BY <1>1, <2>3, <2>4
<1>2. CASE CreateCommit(c)
  <2> DEFINE t == [asked[c].template EXCEPT !.id = Len(registry) + 1]
  <2>1. /\ IsTemplate(t) /\ t.id = Len(registry) + 1 /\ t.told = "nothing" /\ IsFiniteSet(t.rows)
    <3> DEFINE e == asked[c].template
    <3>1. IsTemplate(e) /\ e.told = "nothing" /\ IsFiniteSet(e.rows)
      BY <1>0, <1>2 DEF CreateCommit, Sound
    <3> DEFINE n == Len(registry) + 1
    <3>2. t = [e EXCEPT !.id = n] OBVIOUS
    <3> HIDE DEF e, n, t
    <3>3. IsTemplate(t) /\ t.id = n /\ t.told = e.told /\ t.rows = e.rows
      BY <3>1, <3>2 DEF IsTemplate
    <3> QED BY <3>1, <3>3 DEF n
  <2>2. registry' = Append(registry, t) /\ asked' = [asked EXCEPT ![c] = NoRequest]
    BY <1>2 DEF CreateCommit
  <2> HIDE DEF t
  <2>3. /\ RegistryInv' /\ Develops /\ DOMAIN registry' = DOMAIN registry \cup {t.id}
        /\ registry'[t.id] = t /\ \A j \in DOMAIN registry : registry'[j] = registry[j]
    BY <2>1, <2>2, RegistryGrowth
  <2>4. AmbiguityIsTold' BY <2>1, <2>3, NothingToldStep
  <2>5. AskedInv' BY <2>2, <2>3, AskedStep, NoRequestIsSound
  <2> QED BY <2>3, <2>4, <2>5
<1>3. CASE ReviewCommit(c) \/ ApproveCommit(c)
  <2> DEFINE i == asked[c].id
             to == IF ReviewCommit(c) THEN "REVIEWED" ELSE "APPROVED"
  <2>1. /\ asked[c].op \in {"review", "approve"} /\ registry[i].status \in {"DRAFT", "REVIEWED"}
        /\ \E v \in {"REVIEWED", "APPROVED"} :
             /\ registry' = [registry EXCEPT ![i].status = v]
             /\ \/ asked' = [asked EXCEPT ![c] = NoRequest]
                \/ v = "APPROVED" /\ asked' = [asked EXCEPT ![c].op = "reload"]
    BY <1>3 DEF ReviewCommit, ApproveCommit, Move
  <2> PICK v \in {"REVIEWED", "APPROVED"} :
        /\ registry' = [registry EXCEPT ![i].status = v]
        /\ \/ asked' = [asked EXCEPT ![c] = NoRequest]
           \/ v = "APPROVED" /\ asked' = [asked EXCEPT ![c].op = "reload"]
    BY <2>1
  <2>2. i \in DOMAIN registry BY <1>0, <2>1 DEF Sound
  <2> DEFINE u == [registry[i] EXCEPT !.status = v]
  <2>3. IsTemplate(registry[i]) /\ registry[i].told # "ready" BY <2>1, <2>2 DEF RegistryInv
  <2>4. IsTemplate(u) /\ SameDesign(registry[i], u) /\ u.status = v /\ u.told = registry[i].told
    BY <2>3, TemplateUpdates
  <2>5. registry' = [registry EXCEPT ![i] = u] BY <2>2
  <2> HIDE DEF u, i
  <2>6. Changes(i, u) BY <2>1, <2>2, <2>3, <2>4, <2>5 DEF Changes, Moves
  <2>7. /\ RegistryInv' /\ Develops /\ DOMAIN registry' = DOMAIN registry
        /\ \A j \in DOMAIN registry : registry'[j] = IF j = i THEN u ELSE registry[j]
    BY <2>6, RegistryChange
  <2>8. AmbiguityIsTold' BY <2>3, <2>4, <2>7, NothingToldStep
  <2>9. CASE asked' = [asked EXCEPT ![c] = NoRequest]
    <3>1. AskedInv' BY <2>7, <2>9, AskedStep, NoRequestIsSound
    <3> QED BY <2>7, <2>8, <3>1
  <2>10. CASE v = "APPROVED" /\ asked' = [asked EXCEPT ![c].op = "reload"]
    <3> DEFINE new == [asked[c] EXCEPT !.op = "reload"]
    <3>1. asked[c] = [op |-> asked[c].op, id |-> asked[c].id, template |-> asked[c].template]
      BY <1>0, <2>1 DEF Sound, NoRequest
    <3>2. new = [op |-> "reload", id |-> i, template |-> asked[c].template] BY <3>1 DEF i
    <3>3. Sound(new, registry')
      <4>1. i \in DOMAIN registry' /\ registry'[i].status = "APPROVED" BY <2>2, <2>4, <2>7, <2>10
      <4> QED BY <3>2, <4>1 DEF Sound
    <3>4. asked' = [asked EXCEPT ![c] = new] BY <2>10 DEF AskedInv
    <3> HIDE DEF new
    <3>5. AskedInv' BY <2>7, <3>3, <3>4, AskedStep
    <3> QED BY <2>7, <2>8, <3>5
  <2> QED BY <2>9, <2>10
<1>4. CASE Reload(c)
  <2> DEFINE i == asked[c].id
             answer == IF Reading(WorkbookOf[registry[i].receipt], registry[i].scope, Registered).id = i
                       THEN "ready" ELSE "unavailable"
             u == [registry[i] EXCEPT !.told = answer]
  <2>1. /\ asked[c].op = "reload" /\ registry' = [registry EXCEPT ![i].told = answer]
        /\ asked' = [asked EXCEPT ![c] = NoRequest]
    BY <1>4 DEF Reload
  <2>2. i \in DOMAIN registry /\ registry[i].status = "APPROVED" BY <1>0, <2>1 DEF Sound
  <2>3. IsTemplate(registry[i]) BY <2>2 DEF RegistryInv
  <2>4. answer = "ready" =>
          Reading(WorkbookOf[registry[i].receipt], registry[i].scope, Registered).id = i
    OBVIOUS
  <2> HIDE DEF answer
  <2>5. IsTemplate(u) /\ SameDesign(registry[i], u) /\ u.told = answer /\ u.status = registry[i].status
    BY <2>3, TemplateUpdates
  <2>6. registry' = [registry EXCEPT ![i] = u] BY <2>1, <2>2
  <2> HIDE DEF u, i
  <2>7. Changes(i, u) BY <2>2, <2>5, <2>6 DEF Changes, Moves
  <2>8. RegistryInv' /\ Develops BY <2>7, RegistryChange
  <2>9. AmbiguityIsTold' BY <2>2, <2>4, <2>5, <2>7, ReloadStep
  <2>10. AskedInv' BY <2>1, <2>8, AskedStep, NoRequestIsSound
  <2> QED BY <2>8, <2>9, <2>10
<1> QED BY <1>1, <1>2, <1>3, <1>4

LEMMA RegistrationStep ==
  ASSUME RegistrationInv, [RegistrationNext]_registrationVars
  PROVE  RegistrationInv' /\ Develops
<1>1. CASE RegistrationNext BY <1>1, RequestSteps, RequestStep
<1>2. CASE UNCHANGED registrationVars
  <2>1. RegistryInv' /\ Develops /\ AmbiguityIsTold'
    BY <1>2, SameRegistry DEF registrationVars, RegistrationInv
  <2>2. AskedInv' BY <1>2 DEF registrationVars, RegistrationInv, AskedInv
  <2> QED BY <2>1, <2>2 DEF RegistrationInv
<1> QED BY <1>1, <1>2

-----------------------------------------------------------------------------
(* Candidates.                                                             *)

LEMMA AtMostOne ==
  ASSUME NEW S, \A x, y \in S : x = y
  PROVE  IsFiniteSet(S) /\ Cardinality(S) <= 1
<1>1. CASE S = {}
  <2>1. IsFiniteSet(S) /\ Cardinality(S) = 0 BY <1>1, FS_EmptySet
  <2> QED BY <2>1
<1>2. CASE S # {}
  <2> PICK x \in S : TRUE BY <1>2
  <2>1. S = {x} OBVIOUS
  <2>2. IsFiniteSet(S) /\ Cardinality(S) = 1 BY <2>1, FS_Singleton
  <2> QED BY <2>2
<1> QED BY <1>1, <1>2

LEMMA NotMany ==
  ASSUME NEW S, IsFiniteSet(S), ~ (Cardinality(S) > 1)
  PROVE  \A x, y \in S : x = y
<1>1. Cardinality(S) \in Nat BY FS_CardinalityType
<1>2. Cardinality(S) = 0 \/ Cardinality(S) = 1 BY <1>1
<1>3. CASE Cardinality(S) = 0 BY <1>3, FS_EmptySet
<1>4. CASE Cardinality(S) = 1 BY <1>4, OnlyOne
<1> QED BY <1>2, <1>3, <1>4

\* A row without an issue on its binding has the one that matches it.
LEMMA BindingFacts ==
  ASSUME NEW p, NEW row, NEW K, BindingIssues(p, row, K) = {}, NEW b, b = BoundTo(p, row, K)
  PROVE  /\ b # NoBinding /\ b.status = "APPROVED" /\ b.key = BindingKey(p, row)
         /\ b.from <= p.day /\ p.day <= b.to
         /\ ExactText(p, "MODEL") # NoText => ExactText(p, "MODEL") \in b.aliases
<1> DEFINE found == Matches(p, row, K)
           model == ExactText(p, "MODEL")
           codes == {"NOT_APPROVED", "NOT_EFFECTIVE", "SOURCE_MODEL_BINDING_CONFLICT"}
           issues == {code \in codes :
              CASE code = "NOT_APPROVED"  -> b.status # "APPROVED"
                [] code = "NOT_EFFECTIVE" -> ~ BindingInForce(b, p.day)
                [] OTHER                  -> model # NoText /\ model \notin b.aliases}
<1>1. found # {} /\ b # NoBinding /\ issues = {} BY DEF BindingIssues
<1>2. b.status = "APPROVED" /\ BindingInForce(b, p.day) /\ (model # NoText => model \in b.aliases)
  <2>1. "NOT_APPROVED" \notin issues /\ "NOT_EFFECTIVE" \notin issues
        /\ "SOURCE_MODEL_BINDING_CONFLICT" \notin issues
    BY <1>1
  <2> HIDE DEF model
  <2> QED BY <2>1
<1> DEFINE Chosen == CHOOSE x \in found : TRUE
<1>3. Chosen \in found
  <2> HIDE DEF found
  <2> QED BY <1>1
<1>4. b = Chosen BY <1>1 DEF BoundTo
<1>5. b.key = BindingKey(p, row) BY <1>3, <1>4 DEF Matches
<1> QED BY <1>1, <1>2, <1>5 DEF BindingInForce

\* A sample without an issue keeps one raw value, of the kind that is measured.
LEMMA SampleFacts ==
  ASSUME NEW sample, NEW b, b # NoBinding, SampleIssues(sample, b) = {}
  PROVE  LET m == Measurement(sample, b)
         IN  \/ m.numeric /\ ~ m.text /\ b.mode = "NUMERIC"
             \/ m.text /\ ~ m.numeric /\ b.mode = "QUALITATIVE"
<1>1. "NOT_RAW" \notin SampleIssues(sample, b) /\ "MEASUREMENT_MODE_MISMATCH" \notin SampleIssues(sample, b)
  OBVIOUS
<1>2. sample.cell.kind = "number" \/ sample.cell.kind = "text"
  BY <1>1 DEF SampleIssues, IsText
<1>3. ModeMatches(b.mode, sample.cell) BY <1>1 DEF SampleIssues
<1> QED BY <1>2, <1>3 DEF Measurement, ModeMatches

\* The repository trusts the binding of a row that may be loaded.
LEMMA TrustedFacts ==
  ASSUME NEW p, NEW r, NEW K, GlobalIssues(p, r, K) = {},
         NEW src, RowIssues(p, src, K) = {}, NEW c, c.preview = p,
         NEW row, row = BuiltRow(p, r, src, K)
  PROVE  LET b == BoundTo(p, src, K)
         IN  b # NoBinding /\ row.binding = b /\ LotOf(row, c) = <<b.model, b.supplier, b.part>>
<1> DEFINE b == BoundTo(p, src, K)
           model == ExactText(p, "MODEL")
<1>1. row.binding = b /\ row.key = src.key BY DEF BuiltRow
<1>2. BindingIssues(p, src, K) = {} BY DEF RowIssues
<1>3. /\ b # NoBinding /\ b.status = "APPROVED" /\ b.key = BindingKey(p, src)
      /\ b.from <= p.day /\ p.day <= b.to /\ (model # NoText => model \in b.aliases)
  BY <1>2, BindingFacts
<1>4. model # NoText
  <2>1. "MODEL_IDENTIFIER_MISSING" \notin IdentifierIssues(p, r) BY DEF GlobalIssues
  <2> QED BY <2>1 DEF IdentifierIssues
<1>5. "MODEL" \in DOMAIN p.identifiers /\ p.identifiers["MODEL"].raw = model
  BY <1>4 DEF ExactText
<1> HIDE DEF b, model
<1>6. TrustedBinding(row, c) = b BY <1>1, <1>3, <1>4, <1>5 DEF TrustedBinding, BindingKey
<1> QED BY <1>1, <1>3, <1>6 DEF LotOf, b

\* Whatever is read, known and approved: what a candidate lets load can be decided.
LEMMA CandidateIsBound ==
  ASSUME NEW w, NEW t, IsFiniteSet(t.rows), NEW r, NEW K
  PROVE  PendingIsBound(Candidate(Preview(w, t), r, K))
<1> DEFINE p == Preview(w, t)
           c == Candidate(p, r, K)
           Bound == {BoundTo(p, row, K) : row \in p.rows} \ {NoBinding}
<1>1. IsFiniteSet(p.rows)
  <2> DEFINE Row(row) == [key |-> row.key,
                          samples |-> [i \in DOMAIN row.samples |->
                             [cell |-> w.cells[row.samples[i]],
                              refresh |-> row.samples[i] \in w.stale]]]
             f == [row \in t.rows |-> Row(row)]
  <2>1. p.rows = {f[row] : row \in t.rows} BY DEF Preview
  <2>2. DOMAIN f = t.rows OBVIOUS
  <2> HIDE DEF f, p
  <2> QED BY <2>1, <2>2, FiniteRange
<1>2. \A row \in p.rows : row.samples = [i \in DOMAIN row.samples |-> row.samples[i]]
  BY DEF Preview
<1>3. c.preview = p /\ c.rows = {BuiltRow(p, r, row, K) : row \in p.rows}
      /\ c.state = LoadState(c.rows, GlobalIssues(p, r, K))
  BY DEF Candidate
<1> HIDE DEF p, c
<1> SUFFICES ASSUME c.state # "LOAD_HELD" PROVE PendingIsBound(c) BY DEF PendingIsBound, p, c
<1>4. GlobalIssues(p, r, K) = {} BY <1>3 DEF LoadState
<1>5. ASSUME NEW row \in c.rows
      PROVE  \E src \in p.rows :
               /\ row = BuiltRow(p, r, src, K)
               /\ row.state # "ROW_HELD" => RowIssues(p, src, K) = {}
               /\ row.state \in {"LOADABLE_PENDING", "ROW_HELD"}
  BY <1>3, <1>4 DEF BuiltRow
<1>6. ASSUME NEW row \in c.rows, row.state = "LOADABLE_PENDING"
      PROVE  /\ LotOf(row, c) # NoText
             /\ \A i \in DOMAIN row.samples :
                  \/ row.samples[i].numeric /\ ~ row.samples[i].text /\ row.binding.mode = "NUMERIC"
                  \/ row.samples[i].text /\ ~ row.samples[i].numeric /\ row.binding.mode = "QUALITATIVE"
             /\ row.samples = <<>> => row.binding.mode = "JUDGMENT_ONLY"
  <2> PICK src \in p.rows : row = BuiltRow(p, r, src, K) /\ RowIssues(p, src, K) = {}
    BY <1>5, <1>6
  <2> DEFINE b == BoundTo(p, src, K)
  <2>1. b # NoBinding /\ row.binding = b /\ LotOf(row, c) = <<b.model, b.supplier, b.part>>
    BY <1>3, <1>4, TrustedFacts
  <2>2. LotOf(row, c) # NoText BY <2>1 DEF NoText
  <2>3. row.samples = [i \in DOMAIN src.samples |-> Measurement(src.samples[i], b)]
    BY DEF BuiltRow
  <2>4. \A i \in DOMAIN src.samples : SampleIssues(src.samples[i], b) = {}
    BY DEF RowIssues
  <2>5. src.samples = <<>> => b.mode = "JUDGMENT_ONLY"
    <3> DEFINE zero == {code \in {"ZERO_SAMPLE_POLICY_REQUIRED"} :
                          src.samples = <<>> /\ b # NoBinding /\ b.mode # "JUDGMENT_ONLY"}
    <3>1. zero \subseteq RowIssues(p, src, K) BY DEF RowIssues
    <3>2. zero = {} BY <3>1
    <3>3. ~ (src.samples = <<>> /\ b # NoBinding /\ b.mode # "JUDGMENT_ONLY")
      <4> HIDE DEF b
      <4> QED BY <3>2
    <3> HIDE DEF b
    <3> QED BY <2>1, <3>3
  <2> HIDE DEF b
  <2>6. ASSUME NEW i \in DOMAIN row.samples
        PROVE  \/ row.samples[i].numeric /\ ~ row.samples[i].text /\ b.mode = "NUMERIC"
               \/ row.samples[i].text /\ ~ row.samples[i].numeric /\ b.mode = "QUALITATIVE"
    <3>1. i \in DOMAIN src.samples /\ row.samples[i] = Measurement(src.samples[i], b) BY <2>3
    <3> QED BY <2>1, <2>4, <3>1, SampleFacts
  <2>7. ASSUME row.samples = <<>> PROVE src.samples = <<>>
    <3>1. DOMAIN src.samples = {} BY <2>3, <2>7
    <3>2. src.samples = [i \in {} |-> src.samples[i]] BY <1>2, <3>1
    <3> QED BY <3>2
  <2> QED BY <2>1, <2>2, <2>5, <2>6, <2>7
<1>7. ASSUME NEW row \in c.rows, LotOf(row, c) # NoText
      PROVE  \E b \in Bound : LotOf(row, c) = <<b.model, b.supplier, b.part>>
  <2> PICK src \in p.rows : row = BuiltRow(p, r, src, K) BY <1>5
  <2>1. TrustedBinding(row, c) # NoBinding BY <1>7 DEF LotOf
  <2>2. TrustedBinding(row, c) = row.binding /\ row.binding # NoBinding BY <2>1 DEF TrustedBinding
  <2>3. row.binding = BoundTo(p, src, K) BY DEF BuiltRow
  <2> QED BY <2>1, <2>2, <2>3 DEF LotOf
<1>8. IsFiniteSet(Bound)
  <2> DEFINE f == [row \in p.rows |-> BoundTo(p, row, K)]
  <2>1. IsFiniteSet({f[row] : row \in p.rows})
    <3>1. DOMAIN f = p.rows OBVIOUS
    <3> HIDE DEF f
    <3> QED BY <1>1, <3>1, FiniteRange
  <2>2. Bound \in SUBSET {f[row] : row \in p.rows} OBVIOUS
  <2> HIDE DEF Bound, f
  <2> QED BY <2>1, <2>2, FS_Subset
<1>9. \A x, y \in Bound : x.model = y.model /\ x.supplier = y.supplier
  <2>1. "model" \notin IdentityIssues(p, K) /\ "supplier" \notin IdentityIssues(p, K)
    BY <1>4 DEF GlobalIssues
  <2> DEFINE f == [b \in Bound |-> b.model]
             g == [b \in Bound |-> b.supplier]
  <2>2. {f[b] : b \in Bound} = {b["model"] : b \in Bound} /\ {g[b] : b \in Bound} = {b["supplier"] : b \in Bound}
    OBVIOUS
  <2>3. ~ (Cardinality({f[b] : b \in Bound}) > 1) /\ ~ (Cardinality({g[b] : b \in Bound}) > 1)
    BY <2>1, <2>2 DEF IdentityIssues
  <2>4. DOMAIN f = Bound /\ DOMAIN g = Bound OBVIOUS
  <2>5. \A b \in Bound : f[b] = b.model /\ g[b] = b.supplier OBVIOUS
  <2> HIDE DEF f, g, Bound
  <2>6. IsFiniteSet({f[b] : b \in Bound}) /\ IsFiniteSet({g[b] : b \in Bound})
    BY <1>8, <2>4, FiniteRange
  <2>7. \A x, y \in {f[b] : b \in Bound} : x = y BY <2>3, <2>6, NotMany
  <2>8. \A x, y \in {g[b] : b \in Bound} : x = y BY <2>3, <2>6, NotMany
  <2> QED BY <2>5, <2>7, <2>8
<1> HIDE DEF Bound
<1>10. Cardinality({<<LotOf(row, c)[1], LotOf(row, c)[2]>> :
                      row \in {x \in c.rows : LotOf(x, c) # NoText}}) <= 1
  <2> DEFINE S == {<<LotOf(row, c)[1], LotOf(row, c)[2]>> : row \in {x \in c.rows : LotOf(x, c) # NoText}}
  <2>1. \A x \in S : \E b \in Bound : x = <<b.model, b.supplier>> BY <1>7
  <2>2. \A x, y \in S : x = y
    <3> HIDE DEF S
    <3> QED BY <1>9, <2>1
  <2> HIDE DEF S
  <2>3. Cardinality(S) <= 1 BY <2>2, AtMostOne
  <2> QED BY <2>3 DEF S
<1>11. ASSUME NEW lot \in Lots(c), lot.status = "PENDING"
       PROVE  lot.key # NoText
  <2>1. PICK row \in c.rows :
          lot = [key |-> LotOf(row, c),
                 status |-> IF \E other \in c.rows : LotOf(other, c) = LotOf(row, c) /\ other.state = "ROW_HELD"
                            THEN "HELD" ELSE "PENDING"]
    BY DEF Lots
  <2>2. row.state # "ROW_HELD" BY <1>11, <2>1
  <2>3. row.state = "LOADABLE_PENDING" BY <1>5, <2>2
  <2> QED BY <1>6, <2>1, <2>3
<1> QED BY <1>6, <1>10, <1>11 DEF PendingIsBound

-----------------------------------------------------------------------------
(* Loading.                                                                *)

\* What is asked of a workbook that was read: an eligible template gives this
\* preview.  It remains so.
WasRead(r, p) ==
  \E t \in Eligible(WorkbookOf[r], ScopeOf(r), Registered) :
    Extracts(WorkbookOf[r], t) /\ Preview(WorkbookOf[r], t) = p

\* Two templates claim the workbook.  It remains so.
Claimed(r) ==
  \E t, u \in Eligible(WorkbookOf[r], ScopeOf(r), Registered) : t # u

\* What a thread has read, and what was true when it was shown: a candidate of a
\* workbook that only one template claims since then.  Its pending rows are bound.
HoldsSo(thread) ==
  /\ thread.pc \in {"show", "confirm", "persist"} =>
       thread = [pc |-> thread.pc, receipt |-> thread.receipt, preview |-> thread.preview,
                 digest |-> thread.digest, truth |-> thread.truth]
  /\ thread.pc = "show" => WasRead(thread.receipt, thread.preview)
  /\ thread.pc = "shown" =>
       /\ Claimed(thread.receipt) \/ thread.shown \in thread.truth
       /\ PendingIsBound(thread.shown)
  /\ thread.pc \in {"confirm", "persist"} =>
       thread.digest \in thread.truth /\ PendingIsBound(thread.digest)

LoadingInv ==
  /\ DOMAIN loader = Loaders
  /\ \A l \in Loaders : HoldsSo(loader[l])
  /\ LoadedWasTrue /\ PendingRowsAreBound

LEMMA ClaimsStay ==
  ASSUME RegistryInv, Develops
  PROVE  /\ \A r, p : WasRead(r, p) => WasRead(r, p)'
         /\ \A r : Claimed(r) => Claimed(r)'
<1>1. \A t \in Registered : registry[t.id]' \in Registered' /\ Moves(t, registry'[t.id])
                            /\ registry'[t.id].id = t.id
  BY RegisteredFacts DEF Develops, Registered, Moves, SameDesign
<1>2. ASSUME NEW w, NEW scope, NEW t \in Eligible(w, scope, Registered)
      PROVE  /\ registry'[t.id] \in Eligible(w, scope, Registered')
             /\ Extracts(w, t) => Extracts(w, registry'[t.id])
             /\ Preview(w, registry'[t.id]) = Preview(w, t)
             /\ registry'[t.id].id = t.id /\ t = registry[t.id]
  <2> DEFINE u == registry'[t.id]
  <2>1. t \in Registered BY DEF Eligible
  <2>2. u \in Registered' /\ Moves(t, u) /\ u.id = t.id /\ t = registry[t.id]
    BY <1>1, <2>1, RegisteredFacts
  <2> HIDE DEF u
  <2>3. /\ u \in Eligible(w, scope, Registered')
        /\ Extracts(w, t) => Extracts(w, u)
        /\ Preview(w, u) = Preview(w, t)
    BY <2>2, SameReading
  <2> QED BY <2>2, <2>3 DEF u
<1>3. ASSUME NEW r, NEW p, WasRead(r, p) PROVE WasRead(r, p)'
  <2>1. PICK t \in Eligible(WorkbookOf[r], ScopeOf(r), Registered) :
          Extracts(WorkbookOf[r], t) /\ Preview(WorkbookOf[r], t) = p
    BY <1>3 DEF WasRead
  <2>2. /\ registry'[t.id] \in Eligible(WorkbookOf[r], ScopeOf(r), Registered')
        /\ Extracts(WorkbookOf[r], registry'[t.id]) /\ Preview(WorkbookOf[r], registry'[t.id]) = p
    BY <1>2, <2>1
  <2> QED BY <2>2 DEF WasRead
<1>4. ASSUME NEW r, Claimed(r) PROVE Claimed(r)'
  <2>1. PICK t \in Eligible(WorkbookOf[r], ScopeOf(r), Registered),
             u \in Eligible(WorkbookOf[r], ScopeOf(r), Registered) : t # u
    BY <1>4 DEF Claimed
  <2>2. /\ registry'[t.id] \in Eligible(WorkbookOf[r], ScopeOf(r), Registered')
        /\ registry'[u.id] \in Eligible(WorkbookOf[r], ScopeOf(r), Registered')
        /\ registry'[t.id] # registry'[u.id]
    BY <1>2, <2>1
  <2> QED BY <2>2 DEF Claimed
<1> QED BY <1>3, <1>4

LEMMA ThreadStays ==
  ASSUME RegistryInv, Develops, NEW thread, HoldsSo(thread)
  PROVE  HoldsSo(thread)'
BY ClaimsStay DEF HoldsSo

\* What a request that reads gets, and what was read before it.
LEMMA ReadFacts ==
  ASSUME RegistryInv, NEW r
  PROVE  /\ ReadingOf(r) # NoReading =>
              WasRead(r, Preview(WorkbookOf[r], ReadingOf(r))) /\ ~ Claimed(r)
         /\ \A p : WasRead(r, p) =>
              Claimed(r) \/ (ReadingOf(r) # NoReading /\ Preview(WorkbookOf[r], ReadingOf(r)) = p)
<1> DEFINE w == WorkbookOf[r]
           E == Eligible(w, ScopeOf(r), Registered)
           t == ReadingOf(r)
<1>1. /\ t # NoReading => t \in E /\ Extracts(w, t) /\ (\A x, y \in E : x = y)
      /\ t = NoReading => \A x \in E : Extracts(w, x) => \E y \in E : y # x
  BY RegisteredFacts, ReadingFacts DEF ReadingOf
<1>2. t # NoReading => WasRead(r, Preview(w, t)) /\ ~ Claimed(r)
  BY <1>1 DEF WasRead, Claimed
<1>3. ASSUME NEW p, WasRead(r, p), ~ Claimed(r)
      PROVE  t # NoReading /\ Preview(w, t) = p
  <2>1. PICK x \in E : Extracts(w, x) /\ Preview(w, x) = p BY <1>3 DEF WasRead
  <2>2. \A y \in E : y = x BY <1>3 DEF Claimed
  <2> HIDE DEF E, t, w
  <2> QED BY <1>1, <2>1, <2>2
<1> QED BY <1>2, <1>3

\* What is shown was read in one session and joined in another one; it is what both
\* catalogs give now, unless another template has come between.
LEMMA ShownIsTrue ==
  ASSUME RegistryInv, NEW l \in Loaders, HoldsSo(loader[l]), loader[l].pc = "show"
  PROVE  /\ Claimed(loader[l].receipt) \/ Rebuilt(l) \in Truth(loader[l].receipt)
         /\ PendingIsBound(Rebuilt(l))
<1> DEFINE r == loader[l].receipt
           p == loader[l].preview
<1>1. WasRead(r, p) BY DEF HoldsSo
<1>2. Claimed(r) \/ (ReadingOf(r) # NoReading /\ Preview(WorkbookOf[r], ReadingOf(r)) = p)
  <2> HIDE DEF r, p
  <2> QED BY <1>1, ReadFacts
<1>3. ASSUME ReadingOf(r) # NoReading, Preview(WorkbookOf[r], ReadingOf(r)) = p
      PROVE  Rebuilt(l) \in Truth(r)
  BY <1>3 DEF Rebuilt, Truth
<1>4. PendingIsBound(Rebuilt(l))
  <2>1. PICK t \in Registered : Preview(WorkbookOf[r], t) = p BY <1>1 DEF WasRead, Eligible
  <2>2. IsFiniteSet(t.rows) BY DEF Registered, RegistryInv
  <2>3. Rebuilt(l) = Candidate(Preview(WorkbookOf[r], t), IntakeOf[r], CatalogOn(p.day))
    BY <2>1 DEF Rebuilt
  <2> HIDE DEF r, p
  <2> QED BY <2>2, <2>3, CandidateIsBound
<1> QED BY <1>2, <1>3, <1>4

LEMMA ThreadsStep ==
  ASSUME DOMAIN loader' = Loaders, LoadedWasTrue', PendingRowsAreBound', RegistryInv, Develops,
         \A m \in Loaders : HoldsSo(loader'[m])
  PROVE  LoadingInv'
<1>1. ASSUME NEW m \in Loaders PROVE HoldsSo(loader[m])'
  <2> PICK e : e = loader'[m] OBVIOUS
  <2>1. HoldsSo(e)' BY ThreadStays
  <2> QED BY <2>1 DEF HoldsSo
<1> QED BY <1>1 DEF LoadingInv

LEMMA LoaderStep ==
  ASSUME LoadingInv, RegistryInv, UNCHANGED registrationVars, NEW l \in Loaders, NEW new,
         HoldsSo(new), loader' = [loader EXCEPT ![l] = new],
         LoadedWasTrue', PendingRowsAreBound'
  PROVE  LoadingInv'
<1>1. Develops BY DEF registrationVars, Develops, Moves, SameDesign
<1>2. DOMAIN loader' = Loaders /\ \A m \in Loaders : loader'[m] = IF m = l THEN new ELSE loader[m]
  BY DEF LoadingInv
<1>3. \A m \in Loaders : HoldsSo(loader'[m]) BY <1>2 DEF LoadingInv
<1> QED BY <1>1, <1>2, <1>3, ThreadsStep

\* A thread that has nothing to hold.
LEMMA NothingHeld ==
  ASSUME NEW thread, thread.pc \in {"idle", "told"}
  PROVE  HoldsSo(thread)
BY DEF HoldsSo

LEMMA LoadingStep ==
  ASSUME LoadingInv, RegistryInv, LoadingNext
  PROVE  LoadingInv'
<1> USE DEF Goto
<1>1. UNCHANGED registrationVars
  BY DEF LoadingNext, ApproveBinding, Show, Confirm, ReadMapping, ShowBindings, ConfirmBindings,
         Persist, Leave
<1>2. UNCHANGED jobs => LoadedWasTrue' /\ PendingRowsAreBound'
  BY DEF LoadingInv, LoadedWasTrue, PendingRowsAreBound
<1>3. CASE \E b \in OfferedBindings : ApproveBinding(b)
  <2>1. UNCHANGED <<loader, jobs>> BY <1>3 DEF ApproveBinding
  <2>2. Develops BY <1>1 DEF registrationVars, Develops, Moves, SameDesign
  <2> QED BY <1>2, <2>1, <2>2, ThreadsStep DEF LoadingInv
<1>4. CASE \E l \in Loaders :
             \/ \E r \in Receipts : Show(l, r)
             \/ ShowBindings(l) \/ Confirm(l) \/ ConfirmBindings(l) \/ Persist(l) \/ Leave(l)
  <2> PICK l \in Loaders :
        \/ \E r \in Receipts : Show(l, r)
        \/ ShowBindings(l) \/ Confirm(l) \/ ConfirmBindings(l) \/ Persist(l) \/ Leave(l)
    BY <1>4
  <2> DEFINE me == loader[l]
             r == me.receipt
  <2>0. HoldsSo(me) BY DEF LoadingInv
  <2>1. CASE \E q \in Receipts : Show(l, q)
    <3> PICK q \in Receipts : Show(l, q) BY <2>1
    <3> DEFINE p == Preview(WorkbookOf[q], ReadingOf(q))
               new == [pc |-> "show", receipt |-> q, preview |-> p, digest |-> NoText, truth |-> {}]
    <3>1. loader' = [loader EXCEPT ![l] = new] /\ UNCHANGED jobs /\ ReadingOf(q) # NoReading
      BY DEF Show, ReadMapping
    <3>2. WasRead(q, p) BY <3>1, ReadFacts
    <3> HIDE DEF p
    <3>3. HoldsSo(new) BY <3>2 DEF HoldsSo
    <3> HIDE DEF new
    <3> QED BY <1>1, <1>2, <3>1, <3>3, LoaderStep
  <2>2. CASE ShowBindings(l)
    <3> DEFINE new == [pc |-> "shown", receipt |-> r, shown |-> Rebuilt(l), truth |-> Truth(r)]
    <3>1. me.pc = "show" /\ loader' = [loader EXCEPT ![l] = new] /\ UNCHANGED jobs
      BY <2>2 DEF ShowBindings
    <3>2. (Claimed(r) \/ Rebuilt(l) \in Truth(r)) /\ PendingIsBound(Rebuilt(l))
      BY <2>0, <3>1, ShownIsTrue
    <3>3. HoldsSo(new) BY <3>2 DEF HoldsSo
    <3> HIDE DEF new
    <3> QED BY <1>1, <1>2, <3>1, <3>3, LoaderStep
  <2>3. CASE Confirm(l)
    <3> DEFINE p == Preview(WorkbookOf[r], ReadingOf(r))
               new == [pc |-> "confirm", receipt |-> r, preview |-> p, digest |-> me.shown,
                       truth |-> me.truth]
    <3>1. /\ me.pc = "shown" /\ loader' = [loader EXCEPT ![l] = new] /\ UNCHANGED jobs
          /\ ReadingOf(r) # NoReading
      BY <2>3 DEF Confirm, ReadMapping
    <3>2. ~ Claimed(r) BY <3>1, ReadFacts
    <3>3. me.shown \in me.truth /\ PendingIsBound(me.shown) BY <2>0, <3>1, <3>2 DEF HoldsSo
    <3> HIDE DEF p
    <3>4. HoldsSo(new) BY <3>3 DEF HoldsSo
    <3> HIDE DEF new
    <3> QED BY <1>1, <1>2, <3>1, <3>4, LoaderStep
  <2>4. CASE ConfirmBindings(l)
    <3>1. me.pc = "confirm" /\ UNCHANGED jobs BY <2>4 DEF ConfirmBindings
    <3>2. /\ me.digest \in me.truth /\ PendingIsBound(me.digest)
          /\ me = [pc |-> me.pc, receipt |-> r, preview |-> me.preview, digest |-> me.digest,
                   truth |-> me.truth]
      BY <2>0, <3>1 DEF HoldsSo
    <3> DEFINE on == [me EXCEPT !.pc = "persist"]
               off == [pc |-> "told", receipt |-> r, answer |-> "STALE"]
    <3>3. \/ loader' = [loader EXCEPT ![l] = on] \/ loader' = [loader EXCEPT ![l] = off]
      BY <2>4 DEF ConfirmBindings, LoadingInv
    <3>4. HoldsSo(on)
      <4>1. on = [pc |-> "persist", receipt |-> r, preview |-> me.preview, digest |-> me.digest,
                  truth |-> me.truth]
        BY <3>2
      <4> QED BY <3>2, <4>1 DEF HoldsSo
    <3>5. HoldsSo(off) BY NothingHeld
    <3> HIDE DEF on, off
    <3> QED BY <1>1, <1>2, <3>1, <3>3, <3>4, <3>5, LoaderStep
  <2>5. CASE Persist(l)
    <3> DEFINE Told(a) == [pc |-> "told", receipt |-> r, answer |-> a]
    <3>1. /\ me.pc = "persist"
          /\ \E a : loader' = [loader EXCEPT ![l] = Told(a)]
          /\ \/ UNCHANGED jobs
             \/ jobs' = jobs \cup {[receipt |-> r, candidate |-> me.digest, truth |-> me.truth]}
      BY <2>5 DEF Persist
    <3>2. me.digest \in me.truth /\ PendingIsBound(me.digest) BY <2>0, <3>1 DEF HoldsSo
    <3>3. LoadedWasTrue' /\ PendingRowsAreBound'
      BY <3>1, <3>2 DEF LoadingInv, LoadedWasTrue, PendingRowsAreBound
    <3> PICK a : loader' = [loader EXCEPT ![l] = Told(a)] BY <3>1
    <3> DEFINE new == Told(a)
    <3>4. HoldsSo(new) BY NothingHeld
    <3>5. loader' = [loader EXCEPT ![l] = new] OBVIOUS
    <3> HIDE DEF new
    <3> QED BY <1>1, <3>3, <3>4, <3>5, LoaderStep
  <2>6. CASE Leave(l)
    <3>1. HoldsSo(Idle0) BY NothingHeld DEF Idle0
    <3> QED BY <1>1, <1>2, <2>6, <3>1, LoaderStep DEF Leave
  <2> QED BY <2>1, <2>2, <2>3, <2>4, <2>5, <2>6
<1> QED BY <1>3, <1>4 DEF LoadingNext
-----------------------------------------------------------------------------
(* The results.                                                            *)

WorkflowInv == RegistrationInv /\ LoadingInv

LEMMA InitWorkflow == WorkflowInit => WorkflowInv
<1> SUFFICES ASSUME WorkflowInit PROVE WorkflowInv OBVIOUS
<1>1. registry = <<>> /\ Registered = {} /\ DOMAIN registry = {}
  BY DEF WorkflowInit, RegistrationInit, Registered
<1>2. RegistryInv /\ AmbiguityIsTold BY <1>1, EmptySeq DEF RegistryInv, AmbiguityIsTold
<1>3. AskedInv BY NoRequestIsSound DEF WorkflowInit, RegistrationInit, AskedInv
<1>4. LoadingInv
  BY NothingHeld DEF WorkflowInit, LoadingInit, LoadingInv, Idle0, LoadedWasTrue, PendingRowsAreBound
<1> QED BY <1>2, <1>3, <1>4 DEF WorkflowInv, RegistrationInv

LEMMA NextWorkflow == WorkflowInv /\ [WorkflowNext]_workflowVars => WorkflowInv'
<1> SUFFICES ASSUME WorkflowInv, [WorkflowNext]_workflowVars PROVE WorkflowInv' OBVIOUS
<1>0. RegistrationInv /\ LoadingInv /\ RegistryInv BY DEF WorkflowInv, RegistrationInv
<1>1. CASE [RegistrationNext]_registrationVars /\ UNCHANGED loadingVars
  <2>1. RegistrationInv' /\ Develops BY <1>0, <1>1, RegistrationStep
  <2>2. LoadingInv'
    <3>1. UNCHANGED <<loader, jobs>> BY <1>1 DEF loadingVars
    <3>2. LoadedWasTrue' /\ PendingRowsAreBound'
      BY <1>0, <3>1 DEF LoadingInv, LoadedWasTrue, PendingRowsAreBound
    <3> QED BY <1>0, <2>1, <3>1, <3>2, ThreadsStep DEF LoadingInv
  <2> QED BY <2>1, <2>2 DEF WorkflowInv
<1>2. CASE LoadingNext
  <2>1. LoadingInv' BY <1>0, <1>2, LoadingStep
  <2>2. UNCHANGED registrationVars
    BY <1>2 DEF LoadingNext, ApproveBinding, Show, Confirm, ReadMapping, ShowBindings, ConfirmBindings,
                Persist, Leave
  <2>3. RegistrationInv' BY <1>0, <2>2, RegistrationStep
  <2> QED BY <2>1, <2>3 DEF WorkflowInv
<1> QED BY <1>1, <1>2 DEF WorkflowNext, workflowVars

\* Registering and loading, together.
THEOREM WorkflowInvariance == WorkflowSpec => []WorkflowInv
<1> QED BY InitWorkflow, NextWorkflow, PTL DEF WorkflowSpec

\* Two approvals can make two workbooks unreadable at once (the check before each
\* reads a catalog that neither compares): at most one approver is told that his
\* template is ready.
THEOREM OneApproverIsTold == WorkflowSpec => []AmbiguityIsTold
<1>1. WorkflowInv => AmbiguityIsTold BY DEF WorkflowInv, RegistrationInv
<1> QED BY <1>1, WorkflowInvariance, PTL

\* What a confirmation loads is what both catalogs gave when it was shown, though
\* templates and bindings are approved between all four of its reads.
THEOREM LoadedIsTrue == WorkflowSpec => []LoadedWasTrue
<1>1. WorkflowInv => LoadedWasTrue BY DEF WorkflowInv, LoadingInv
<1> QED BY <1>1, WorkflowInvariance, PTL

\* The repository trusts the binding of every row that is loaded as pending, so that
\* it can be decided.
THEOREM PendingCanBeDecided == WorkflowSpec => []PendingRowsAreBound
<1>1. WorkflowInv => PendingRowsAreBound BY DEF WorkflowInv, LoadingInv
<1> QED BY <1>1, WorkflowInvariance, PTL
=============================================================================
