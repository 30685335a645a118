---------------------------- MODULE MCConfiguration ----------------------------
(***************************************************************************)
(* Small instances of the configuration and of what it is for: the history *)
(* of a Mapping template (MappingTemplates), the Master specifications and *)
(* row bindings (MasterConfig), templates registered from four workbooks   *)
(* (MappingRegistration), the candidates of all kinds of evidence          *)
(* (LongCandidate), and callers that confirm candidates while templates    *)
(* and bindings are approved (LongWorkflow).  A behaviour is one of them.  *)
(***************************************************************************)
EXTENDS MappingTemplates, MasterConfig, LongWorkflow, TLC

\* What a run looks at: "template", "specs", "bindings", "register", "judge", "load".
CONSTANT Parts

VARIABLE part

\* An open period, one inside it, and one that ends with it.
MCPeriods == {[from |-> 1, to |-> 3], [from |-> 2, to |-> 2], [from |-> 3, to |-> 3]}

\* An open period and one inside it.
MCDeclared == {[from |-> 1, to |-> 3], [from |-> 2, to |-> 3]}

\* The specifications are those of the first item; the second revision of the
\* binding corrects the item.
MCItemOf ==
  [h \in Histories |-> [r \in Revisions |-> IF h \in Bindings /\ r > 1 THEN "other" ELSE "item"]]

\* A run looks at one kind of history at a time: between the two there is only
\* the item they are about.  Two revisions of the bindings are enough: their
\* take-overs are those of the specifications.  Commands begin when all identities
\* are there.
Regarded(o) ==
  LET regarded == IF part = "specs" THEN Specs ELSE Bindings
  IN  CASE o.op = "none"    -> TRUE
        [] o.op = "dispose" -> \E h \in regarded, r \in Revisions : ItemOf[h][r] = o.item
        [] OTHER            -> o.in \in regarded /\ (o.in \in Bindings => o.rev <= 2)

-----------------------------------------------------------------------------
(* Workbooks, and what is selected in them.                                *)

Text(word, spelling, day) == [kind |-> "text", raw |-> <<word, spelling>>, day |-> day]
Number == [kind |-> "number", raw |-> <<"number", "exact">>, day |-> 0]
Odd(kind) == [Number EXCEPT !.kind = kind]

Grid == {<<1, 1>>, <<1, 2>>} \cup {<<2, k>> : k \in 1 .. 4} \cup {<<3, k>> : k \in 1 .. 2}

\* Two headings, the identifiers, one row of inspection.
Plain ==
  [layout |-> "one sheet",
   cells  |-> [a \in Grid |->
                 CASE a = <<1, 1>> -> Text("heading", "exact", 0)
                   [] a = <<1, 2>> -> Text("title", "exact", 0)
                   [] a = <<2, 1>> -> Text("supplier", "exact", 0)
                   [] a = <<2, 2>> -> Text("day", "exact", 3)
                   [] a = <<2, 3>> -> Text("model", "exact", 0)
                   [] a = <<2, 4>> -> Text("lot", "exact", 0)
                   [] a = <<3, 1>> -> Text("item", "exact", 0)
                   [] OTHER        -> Number],
   stale  |-> {}]

\* Another title, and a heading in other letters.
Retitled == [Plain EXCEPT !.cells[<<1, 2>>] = Text("subtitle", "exact", 0),
                          !.cells[<<1, 1>>] = Text("heading", "cased", 0)]
\* What should be the day is no date.
Undated == [Plain EXCEPT !.cells[<<2, 2>>] = Text("day", "exact", 0)]
\* One sample more than the others have.
Longer == [Plain EXCEPT !.cells = [a \in Grid \cup {<<3, 3>>} |->
                                     IF a \in Grid THEN Plain.cells[a] ELSE Number]]

MCWorkbookOf == [r \in Receipts |-> CASE r = "retitled" -> Retitled [] r = "undated" -> Undated
                                      [] r = "longer" -> Longer [] OTHER -> Plain]
Model == <<"model", "exact">>
MCIntakeOf == [r \in Receipts |-> [scope |-> "scope", models |-> {}, lots |-> {}]]

MCIds == [kind \in {"SUPPLIER", "INSPECTION_DATE", "MODEL", "LOT_NUMBER"} |->
            CASE kind = "SUPPLIER" -> <<2, 1>> [] kind = "INSPECTION_DATE" -> <<2, 2>>
              [] kind = "MODEL" -> <<2, 3>> [] OTHER -> <<2, 4>>]
Selecting(headers, from, to) ==
  [headers |-> headers, ids |-> MCIds, from |-> from, to |-> to,
   rows |-> {[key |-> "row", item |-> <<3, 1>>, roles |-> {}, samples |-> <<<<3, 2>>>>]}]
Short == Selecting({<<1, 1>>}, 1, 4)
Full == Selecting({<<1, 1>>, <<1, 2>>}, 1, 4)
MCSelections == {Short, Full, Selecting({<<1, 1>>}, 4, 4)}

\* Loading begins with an approved template of one workbook, and a reviewed
\* one, of another workbook, that reads both.
Prepared ==
  << [Derived("plain", "scope", Full) EXCEPT !.id = 1, !.status = "APPROVED", !.told = "ready"],
     [Derived("retitled", "scope", Short) EXCEPT !.id = 2, !.status = "REVIEWED"] >>

Binding(id, row, nth, from, to) ==
  [key |-> <<"scope", id, row>>, revision |-> nth, status |-> "APPROVED",
   from |-> from, to |-> to, aliases |-> {Model}, mode |-> "NUMERIC",
   model |-> "m", supplier |-> "s", part |-> "p"]
\* Two revisions for the row of the first template, the second of them for good or
\* over before the day of the inspection, and one of the second template.
MCOffered == {Binding(1, "row", 1, 1, 4), Binding(1, "row", 2, 2, 4), Binding(1, "row", 2, 2, 2),
              Binding(2, "row", 1, 1, 4)}

-----------------------------------------------------------------------------
\* The evidence of a candidate: identifiers, samples and bindings of a first
\* row; the second row is sound, or about another model or supplier.
Sample(cell, refresh) == [cell |-> cell, refresh |-> refresh]
Samples == {<<>>, <<Sample(Number, FALSE)>>, <<Sample(Text("ok", "exact", 0), FALSE)>>,
            <<Sample(Number, FALSE), Sample(Text("ok", "exact", 0), FALSE)>>,
            <<Sample(Text("ok", "spaced", 0), FALSE)>>, <<Sample(Number, TRUE)>>,
            <<Sample(Odd("formula"), FALSE)>>, <<Sample(Odd("nonfinite"), FALSE)>>,
            <<Sample(Number, FALSE), Sample(Odd("other"), FALSE)>>}
Models == {Text("model", "exact", 0), Text("model", "spaced", 0), Text("alias", "exact", 0), Number}
FirstBindings ==
  LET b == Binding(1, "first", 1, 1, 3)
  IN  {b, [b EXCEPT !.mode = "QUALITATIVE"], [b EXCEPT !.mode = "JUDGMENT_ONLY"],
       [b EXCEPT !.from = 3], [b EXCEPT !.to = 1], [b EXCEPT !.status = "DRAFT"],
       [b EXCEPT !.aliases = {<<"alias", "exact">>}], [b EXCEPT !.key[1] = "other"]}
SecondBindings ==
  LET b == Binding(1, "second", 1, 1, 3)
  IN  {b, [b EXCEPT !.model = "n"], [b EXCEPT !.supplier = "t"]}
Catalogs == {{x, y} : x \in FirstBindings, y \in FirstBindings} \cup {{}}
Previews ==
  {[template |-> 1, scope |-> "scope", day |-> 2,
    identifiers |-> [kind \in {"MODEL", "LOT_NUMBER"} |-> IF kind = "MODEL" THEN m ELSE lot],
    rows |-> {[key |-> "first", samples |-> s],
              [key |-> "second", samples |-> <<Sample(Number, FALSE)>>]}] :
     m \in Models, lot \in {Text("lot", "exact", 0), Number}, s \in Samples}
Intakes == {[models |-> m, lots |-> {}] : m \in {{}, {Model}}}
Loaded(c) == [receipt |-> "plain", candidate |-> c, truth |-> {c}]

-----------------------------------------------------------------------------
MCInit ==
  /\ part \in Parts /\ Init /\ ConfigInit
  /\ bindings = {} /\ loader = [l \in Loaders |-> Idle0]
  /\ asked = [c \in Registrars |-> NoRequest]
  /\ registry = IF part = "load" THEN Prepared ELSE <<>>
  /\ IF part # "judge" THEN jobs = {}
       ELSE \E p \in Previews, r \in Intakes, x \in Catalogs, y \in SecondBindings :
              jobs = {Loaded(Candidate(p, r, x \cup {y}))}

MCNext ==
  /\ UNCHANGED part
  /\ \/ part = "template" /\ Next /\ UNCHANGED <<configVars, workflowVars>>
     \/ part \in {"specs", "bindings"} /\ ConfigNext /\ UNCHANGED <<vars, workflowVars>>
        /\ (\A a \in Administrators : Regarded(order'[a]))
        /\ (order' = order \/ identities = Named \cup Items)
     \/ part = "register" /\ RegistrationNext /\ UNCHANGED <<vars, configVars, loadingVars>>
     \/ part = "load" /\ WorkflowNext /\ UNCHANGED <<vars, configVars>>

MCSpec == MCInit /\ [][MCNext]_<<vars, configVars, workflowVars, part>>

\* The same two persons are clients, administrators and registrars.
Interchangeable == Permutations(Clients)
=============================================================================
