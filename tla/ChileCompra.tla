------------------------------ MODULE ChileCompra ------------------------------
(***************************************************************************)
(* The ChileCompra half of the backend: POST /seed/chilecompra             *)
(* (load_chilecompra_slice) and POST /detect/chilecompra (run_detection)   *)
(* run by the worker threads of one process over the DuckDB file.          *)
(*                                                                         *)
(* Every db.execute is one action: DuckDB commits each statement on its    *)
(* own, and all threads share the one connection of db.get_db().  That     *)
(* connection holds the result of the last statement that ANY thread       *)
(* executed, and .fetchone(), .fetchall() and .df() read it (cursor).      *)
(***************************************************************************)
EXTENDS SliceFrames

CONSTANTS
  Workers,      \* threads of the server's pool that serve these endpoints
  Limits,       \* values of the limit parameter; 0 is no limit
  Bogus,        \* a value that is no slice, read as one from a foreign result
  Foreign       \* results that statements of other endpoints may leave;
                \*   empty: no other endpoint is in use

ASSUME LimitsAssumption == Limits \subseteq Nat
ASSUME BogusAssumption  == Bogus \notin Fuentes \cup {Null}

VARIABLES
  organismo,    \* rut -> the fuente of its row, Null if there is none
  empresa,      \* id -> the fuente of its row, whose file names the supplier
  contrato,     \* id -> the fuente of its row, whose file has its data
  alerta,       \* rows [patron, key, fuente, evid] with patron NOT NULL
  cursor,       \* the pending result of the shared connection
  pc,           \* worker -> the statement its request executes next
  fu,           \* worker -> the slice in hand
  con,          \* worker -> the contracts LIMIT selected, before discarding
  todo,         \* worker -> rows of the current loop or executemany left
                \*           (while counting: the values read that are no count)
  cola,         \* worker -> fuentes that run_detection has left
  rule,         \* worker -> the rule in hand
  hecho         \* worker -> fuentes in results_by_fuente

tables == <<organismo, empresa, contrato, alerta>>
locals == <<fu, con, todo, cola, rule, hecho>>
vars   == <<tables, cursor, pc, locals>>

-----------------------------------------------------------------------------
(* The results a connection can hold.                                      *)
NoResult    == [kind |-> "none", rows |-> {}]
CountResult == [kind |-> "count", rows |-> {}]
DmlResult   == [kind |-> "dml", rows |-> {}]
FuentesResult(F)  == [kind |-> "fuentes", rows |-> F]
RuleResult(r, fr) == [kind |-> r, rows |-> fr]

(* What the statements of other endpoints leave: rows that no handler here *)
(* expects, or an empty result, which looks the same whoever asked for it. *)
NoRows   == [kind |-> "other", rows |-> {}]
SomeRows == [kind |-> "other", rows |-> {Bogus}]

ASSUME ForeignAssumption ==
  Foreign \subseteq {NoResult, CountResult, DmlResult, NoRows, SomeRows}

(* Where a request stands when it holds no thread, with its last answer.   *)
Free == {"idle", "seeded", "detected", "not_found", "load_failed", "detect_failed"}

(* The three COUNTs of a load's response, each fetched before the next.    *)
FetchOf == [count_organismo |-> "fetch_organismo",
            count_empresa   |-> "fetch_empresa",
            count_contrato  |-> "fetch_contrato"]
AfterFetch == [fetch_organismo |-> "count_empresa",
               fetch_empresa   |-> "count_contrato",
               fetch_contrato  |-> "seeded"]

LoadPcs == {"del_contrato", "del_alerta", "del_empresa", "del_organismo",
            "ins_organismo", "ins_empresa", "ins_contrato"}
             \cup DOMAIN FetchOf \cup DOMAIN AfterFetch
DetectPcs == {"list", "fetch_list", "total", "fetch_total", "del_patron",
              "query", "fetch_rule", "ins_alert"}

(* P1, then P2, then P3.                                                   *)
FirstRule == "recurrente"
LastRule  == "multi-org"

(* Mutants: P2 is left out; after P2 the loop never gets to P3.            *)
NextRuleSkipping == [r \in Rules |-> "multi-org"]
NextRuleStuck    == [r \in Rules |-> "fraccionamiento"]

NextRule  == [r \in Rules |-> IF r = "recurrente" THEN "fraccionamiento"
                                                  ELSE "multi-org"]

-----------------------------------------------------------------------------
(* contrato c JOIN empresa e ON c.proveedor_id = e.id WHERE c.fuente = f.  *)
SliceContracts(f) == {i \in Ids : contrato[i] = f}

JoinedRow(f, i) ==
  LET r == ConRow(f, i)
  IN  [id |-> i, org |-> r.org, prov |-> r.prov, rut |-> EmpRut(r.prov),
       nombre |-> EmpName(empresa[r.prov], r.prov),
       monto |-> r.monto, dia |-> r.dia]

Joined(f) ==
  {JoinedRow(f, i) : i \in {j \in SliceContracts(f) :
                              empresa[ConRow(f, j).prov] # Null}}

AlertsOf(f) == {a \in alerta : a.fuente = f}

Alert(r, row, f) ==
  [patron |-> r, key |-> row.key, fuente |-> f, evid |-> row.evid]

(* What one rule has to say of the contracts C of slice f.                 *)
Findings(r, f, C) == {Alert(r, row, f) : row \in RuleFrame(r, C)}

(* PRIMARY KEY(id): the id is made of the rule's prefix, the key and f.    *)
SameId(a, b) == a.patron = b.patron /\ a.key = b.key /\ a.fuente = b.fuente

(* A contrato row has this buyer, this supplier (db.py, REFERENCES).       *)
References(i, col, k) ==
  contrato[i] # Null /\ ConRow(contrato[i], i)[col] = k

(* Mutant: a column declared without REFERENCES.                           *)
Unreferenced(k) == FALSE

OrganismoReferenced(k) == \E i \in Ids : References(i, "org", k)
EmpresaReferenced(k)   == \E i \in Ids : References(i, "prov", k)

(* Mutant: the DELETE is forgotten.                                        *)
ErasesNothing(f) == {}

(* Mutant: the DELETE has no WHERE.                                        *)
ErasesAll(f) == alerta

(* The rows of f that the DELETE FROM alerta of a load and that of a       *)
(* detection (patron IS NOT NULL) remove.                                  *)
LoadErases(f)   == AlertsOf(f)
DetectErases(f) == AlertsOf(f)

-----------------------------------------------------------------------------
Init ==
  /\ organismo = [k \in Orgs |-> Null]
  /\ empresa   = [k \in Emps |-> Null]
  /\ contrato  = [k \in Ids |-> Null]
  /\ alerta    = {}
  /\ cursor    = NoResult
  /\ pc    = [w \in Workers |-> "idle"]
  /\ fu    = [w \in Workers |-> Null]
  /\ con   = [w \in Workers |-> {}]
  /\ todo  = [w \in Workers |-> {}]
  /\ cola  = [w \in Workers |-> {}]
  /\ rule  = [w \in Workers |-> FirstRule]
  /\ hecho = [w \in Workers |-> {}]

Goto(w, label) == pc' = [pc EXCEPT ![w] = label]

(* The handler returns or raises: its locals are gone.                     *)
Return(w, label) ==
  /\ Goto(w, label)
  /\ fu'    = [fu EXCEPT ![w] = Null]
  /\ con'   = [con EXCEPT ![w] = {}]
  /\ todo'  = [todo EXCEPT ![w] = {}]
  /\ cola'  = [cola EXCEPT ![w] = {}]
  /\ rule'  = [rule EXCEPT ![w] = FirstRule]
  /\ hecho' = [hecho EXCEPT ![w] = {}]

(* A statement raises: it changed no row and leaves no result behind.      *)
Raise(w, label) == Return(w, label) /\ cursor' = NoResult /\ UNCHANGED tables
FailLoad(w)   == Raise(w, "load_failed")
FailDetect(w) == Raise(w, "detect_failed")

(* A DELETE or an INSERT leaves its row count as the result.               *)
Wrote == cursor' = DmlResult

-----------------------------------------------------------------------------
(* POST /seed/chilecompra                                                  *)

StartLoad(w, f) ==
  /\ pc[w] \in Free
  /\ IF f \in Zips
       THEN /\ \E limit \in Limits : \E S \in Slices(f, limit) :
                 con' = [con EXCEPT ![w] = S]
            /\ fu' = [fu EXCEPT ![w] = f]
            /\ Goto(w, "del_contrato")
            /\ UNCHANGED <<todo, cola, rule, hecho>>
       ELSE Return(w, "not_found")
  /\ UNCHANGED <<tables, cursor>>

(* Mutant: the DELETE has no WHERE.                                        *)
WithoutAny(table, f) == [k \in DOMAIN table |-> Null]

(* DELETE ... WHERE fuente = f.                                            *)
Without(table, f) == [k \in DOMAIN table |-> IF table[k] = f THEN Null ELSE table[k]]

DeleteContrato(w) ==
  /\ pc[w] = "del_contrato"
  /\ contrato' = Without(contrato, fu[w])
  /\ Goto(w, "del_alerta") /\ Wrote
  /\ UNCHANGED <<organismo, empresa, alerta, locals>>

DeleteAlerta(w) ==
  /\ pc[w] = "del_alerta"
  /\ alerta' = alerta \ LoadErases(fu[w])
  /\ Goto(w, "del_empresa") /\ Wrote
  /\ UNCHANGED <<organismo, empresa, contrato, locals>>

(* DuckDB refuses to delete a row that a contract references.              *)
DeleteEmpresa(w) ==
  /\ pc[w] = "del_empresa"
  /\ IF \E k \in Emps : empresa[k] = fu[w] /\ EmpresaReferenced(k)
       THEN FailLoad(w)
       ELSE /\ empresa' = Without(empresa, fu[w])
            /\ Goto(w, "del_organismo") /\ Wrote
            /\ UNCHANGED <<organismo, contrato, alerta, locals>>

DeleteOrganismo(w) ==
  /\ pc[w] = "del_organismo"
  /\ IF \E k \in Orgs : organismo[k] = fu[w] /\ OrganismoReferenced(k)
       THEN FailLoad(w)
       ELSE /\ organismo' = Without(organismo, fu[w])
            /\ todo' = [todo EXCEPT ![w] = OrgFrame(fu[w], con[w])]
            /\ Goto(w, "ins_organismo") /\ Wrote
            /\ UNCHANGED <<empresa, contrato, alerta, fu, con, cola, rule, hecho>>

(* Mutant: an executemany that stops one row early.                        *)
RowDoneEarly(w, row, all, label, frame) ==
  LET rest == todo[w] \ {row}
  IN  /\ todo' = [todo EXCEPT ![w] = IF Cardinality(rest) <= 1 THEN frame ELSE rest]
      /\ Goto(w, IF Cardinality(rest) <= 1 THEN label ELSE pc[w])
      /\ cursor' = IF Cardinality(rest) <= 1 THEN DmlResult ELSE cursor
      /\ UNCHANGED <<fu, con, cola, rule, hecho>>

(* One row of an executemany: it drops the connection's result when it     *)
(* starts and leaves its own when it ends; after the last row, the next    *)
(* executemany (label) has the rows of frame to insert.                    *)
RowDone(w, row, all, label, frame) ==
  LET rest == todo[w] \ {row}
  IN  /\ todo' = [todo EXCEPT ![w] = IF rest = {} THEN frame ELSE rest]
      /\ Goto(w, IF rest = {} THEN label ELSE pc[w])
      /\ cursor' = CASE rest = {} -> DmlResult
                     [] rest # {} /\ todo[w] = all -> NoResult
                     [] OTHER -> cursor
      /\ UNCHANGED <<fu, con, cola, rule, hecho>>

(* executemany raises on an empty list of rows.                            *)
NothingToInsert(w) ==
  /\ pc[w] \in {"ins_organismo", "ins_empresa", "ins_contrato"}
  /\ todo[w] = {}
  /\ FailLoad(w)

(* INSERT OR IGNORE: a row with this key, of any slice, stays.             *)
InsertOrganismo(w) ==
  /\ pc[w] = "ins_organismo"
  /\ \E k \in todo[w] :
       /\ organismo' = [organismo EXCEPT ![k] = IF @ = Null THEN fu[w] ELSE @]
       /\ RowDone(w, k, OrgFrame(fu[w], con[w]), "ins_empresa", EmpFrame(fu[w], con[w]))
  /\ UNCHANGED <<empresa, contrato, alerta>>

InsertEmpresa(w) ==
  /\ pc[w] = "ins_empresa"
  /\ \E k \in todo[w] :
       /\ empresa' = [empresa EXCEPT ![k] = IF @ = Null THEN fu[w] ELSE @]
       /\ RowDone(w, k, EmpFrame(fu[w], con[w]), "ins_contrato", Kept(fu[w], con[w]))
  /\ UNCHANGED <<organismo, contrato, alerta>>

(* Both parents of a contract are there (db.py, REFERENCES).               *)
HasKey(table, k) == k \in DOMAIN table /\ table[k] # Null

Anchored(f, i) ==
  HasKey(organismo, ConRow(f, i).org) /\ HasKey(empresa, ConRow(f, i).prov)

(* OR IGNORE forgives a key that is taken, never a missing parent.         *)
InsertContrato(w) ==
  /\ pc[w] = "ins_contrato"
  /\ \E i \in todo[w] :
       IF contrato[i] = Null /\ ~Anchored(fu[w], i)
         THEN FailLoad(w)
         ELSE /\ contrato' = [contrato EXCEPT ![i] = IF @ = Null THEN fu[w] ELSE @]
              /\ RowDone(w, i, Kept(fu[w], con[w]), "count_organismo", {})
              /\ UNCHANGED <<organismo, empresa, alerta>>

Count(w) ==
  /\ pc[w] \in DOMAIN FetchOf
  /\ cursor' = CountResult
  /\ Goto(w, FetchOf[pc[w]])
  /\ UNCHANGED <<tables, locals>>

(* A result of one row with one number.                                    *)
IsNumber(res) == res.kind \in {"count", "dml"}

(* What a fetchone may leave of a result: the rows but for the one it      *)
(* took; or but for the chunk that row came in, when a .df() follows; or   *)
(* all of them, for a .df() that starts over.                              *)
Rests(res) == {[res EXCEPT !.rows = S] : S \in SUBSET res.rows}

(* .fetchone()[0].                                                         *)
FetchedOne == cursor' = NoResult \/ (~IsNumber(cursor) /\ cursor' \in Rests(cursor))

HasRow(res) == IsNumber(res) \/ res.rows # {}

(* SeedResponse refuses, at the end, a count that is no number; an id of   *)
(* digits passes for one.                                                  *)
WrongAfter(res, wrong) ==
  CASE IsNumber(res)  -> {wrong}
    [] res = SomeRows -> {wrong, {Bogus}}
    [] OTHER          -> {{Bogus}}

FetchCount(w) ==
  /\ pc[w] \in DOMAIN AfterFetch
  /\ UNCHANGED tables
  /\ IF ~HasRow(cursor)
       THEN Return(w, "load_failed") /\ cursor' = NoResult
       ELSE \E wrong \in WrongAfter(cursor, todo[w]) :
              /\ FetchedOne
              /\ IF pc[w] = "fetch_contrato"
                   THEN Return(w, IF wrong = {} THEN "seeded" ELSE "load_failed")
                   ELSE /\ Goto(w, AfterFetch[pc[w]])
                        /\ todo' = [todo EXCEPT ![w] = wrong]
                        /\ UNCHANGED <<fu, con, cola, rule, hecho>>

-----------------------------------------------------------------------------
(* POST /detect/chilecompra                                                *)

StartDetect(w, f) ==
  /\ pc[w] \in Free
  /\ IF f = Null
       THEN Goto(w, "list") /\ UNCHANGED cola
       ELSE Goto(w, "total") /\ cola' = [cola EXCEPT ![w] = {f}]
  /\ UNCHANGED <<tables, cursor, fu, con, todo, rule, hecho>>

ListFuentes(w) ==
  /\ pc[w] = "list"
  /\ cursor' = FuentesResult({f \in Fuentes : SliceContracts(f) # {}})
  /\ Goto(w, "fetch_list")
  /\ UNCHANGED <<tables, locals>>

(* Mutant: fuentes = rows, without the r[0].                               *)
WholeRows(res) == {<<f>> : f \in res.rows}

(* [r[0] for r in rows]: of a foreign result, values that are no fuente.   *)
FirstColumn(res) ==
  CASE res.kind = "fuentes" -> res.rows
    [] res.kind # "fuentes" /\ HasRow(res) -> {Bogus}
    [] OTHER -> {}

(* Reading a result that is used up raises or gives no row.                *)
FetchFuentes(w) ==
  /\ pc[w] = "fetch_list"
  /\ cursor' = NoResult
  /\ UNCHANGED tables
  /\ \/ cursor = NoResult /\ Return(w, "detect_failed")
     \/ /\ cola' = [cola EXCEPT ![w] = FirstColumn(cursor)]
        /\ Goto(w, "total")
        /\ UNCHANGED <<fu, con, todo, rule, hecho>>

(* A Bogus that is a number may not compare with a VARCHAR column.         *)
CountTotal(w) ==
  /\ pc[w] = "total"
  /\ \E f \in cola[w] :
       \/ /\ fu' = [fu EXCEPT ![w] = f]
          /\ cola' = [cola EXCEPT ![w] = @ \ {f}]
          /\ cursor' = CountResult
          /\ Goto(w, "fetch_total")
          /\ UNCHANGED <<tables, con, todo, rule, hecho>>
       \/ f = Bogus /\ FailDetect(w)

(* The total is only compared with TEST_MODE_THRESHOLD = 0: no number of   *)
(* contracts is below it, so the thresholds are always the full ones.      *)
FetchTotal(w) ==
  /\ pc[w] = "fetch_total"
  /\ UNCHANGED tables
  /\ FetchedOne
  /\ IF IsNumber(cursor)
       THEN Goto(w, "del_patron") /\ UNCHANGED locals
       ELSE Return(w, "detect_failed")

DeletePatron(w) ==
  /\ pc[w] = "del_patron"
  /\ alerta' = alerta \ DetectErases(fu[w])
  /\ Goto(w, "query") /\ Wrote
  /\ UNCHANGED <<organismo, empresa, contrato, locals>>

QueryRule(w) ==
  /\ pc[w] = "query"
  /\ cursor' = RuleResult(rule[w], RuleFrame(rule[w], Joined(fu[w])))
  /\ Goto(w, "fetch_rule")
  /\ UNCHANGED <<tables, locals>>

(* The end of a rule's loop: the next rule, or the next slice.             *)
RuleDone(w) ==
  IF rule[w] = LastRule
    THEN /\ Goto(w, "total")
         /\ rule'  = [rule EXCEPT ![w] = FirstRule]
         /\ hecho' = [hecho EXCEPT ![w] = @ \cup {fu[w]}]
    ELSE /\ Goto(w, "query")
         /\ rule'  = [rule EXCEPT ![w] = NextRule[@]]
         /\ UNCHANGED hecho

(* .df() of another statement's result lacks the columns the loop reads:   *)
(* the first row raises KeyError, no row goes unnoticed.                   *)
FetchRule(w) ==
  /\ pc[w] = "fetch_rule"
  /\ cursor' = NoResult
  /\ UNCHANGED tables
  /\ \/ cursor = NoResult /\ Return(w, "detect_failed")
     \/ /\ cursor.kind # rule[w] /\ HasRow(cursor)
        /\ Return(w, "detect_failed")
     \/ /\ cursor.kind = rule[w] /\ cursor.rows # {}
        /\ todo' = [todo EXCEPT ![w] = cursor.rows]
        /\ Goto(w, "ins_alert")
        /\ UNCHANGED <<fu, con, cola, rule, hecho>>
     \/ /\ ~HasRow(cursor)
        /\ RuleDone(w)
        /\ UNCHANGED <<fu, con, todo, cola>>

(* INSERT INTO alerta, no OR IGNORE: a taken id raises.                    *)
InsertAlert(w) ==
  /\ pc[w] = "ins_alert"
  /\ \E row \in todo[w] :
       LET new  == Alert(rule[w], row, fu[w])
           rest == todo[w] \ {row}
       IN  IF \E a \in alerta : SameId(a, new)
             THEN FailDetect(w)
             ELSE /\ alerta' = alerta \cup {new}
                  /\ todo' = [todo EXCEPT ![w] = rest]
                  /\ Wrote
                  /\ IF rest = {} THEN RuleDone(w)
                                  ELSE UNCHANGED <<pc, rule, hecho>>
                  /\ UNCHANGED <<organismo, empresa, contrato, fu, con, cola>>

DetectReturns(w) ==
  /\ pc[w] = "total"
  /\ cola[w] = {}
  /\ Return(w, "detected")
  /\ UNCHANGED <<tables, cursor>>

-----------------------------------------------------------------------------
(* A statement of another endpoint on the same connection, or a fetch,     *)
(* which may take a part of what a load or a detection asked for.          *)
OtherStatement ==
  /\ cursor' \in Foreign \/ (Foreign # {} /\ cursor' \in Rests(cursor))
  /\ UNCHANGED <<tables, pc, locals>>

(* A new process opens the file: no request is under way, and its          *)
(* connection has no result.                                               *)
Reopen ==
  /\ pc'    = [w \in Workers |-> "idle"]
  /\ fu'    = [w \in Workers |-> Null]
  /\ con'   = [w \in Workers |-> {}]
  /\ todo'  = [w \in Workers |-> {}]
  /\ cola'  = [w \in Workers |-> {}]
  /\ rule'  = [w \in Workers |-> FirstRule]
  /\ hecho' = [w \in Workers |-> {}]
  /\ cursor' = NoResult

(* The process dies and is started again by hand or by the platform, not   *)
(* by the watchdog, which deletes DuckDB's log first (Durability, Crash):  *)
(* DuckDB replays the log, and what was committed stays.                   *)
Restart == Reopen /\ UNCHANGED tables

Load(w) ==
  \/ DeleteContrato(w) \/ DeleteAlerta(w) \/ DeleteEmpresa(w) \/ DeleteOrganismo(w)
  \/ NothingToInsert(w) \/ InsertOrganismo(w) \/ InsertEmpresa(w) \/ InsertContrato(w)
  \/ Count(w) \/ FetchCount(w)

Detect(w) ==
  \/ ListFuentes(w) \/ FetchFuentes(w) \/ CountTotal(w) \/ FetchTotal(w)
  \/ DeletePatron(w) \/ QueryRule(w) \/ FetchRule(w) \/ InsertAlert(w)
  \/ DetectReturns(w)

Serve(w) == Load(w) \/ Detect(w)

Arrive(w) ==
  \/ \E f \in Fuentes : StartLoad(w, f)
  \/ \E f \in Fuentes \cup {Null} : StartDetect(w, f)

Next ==
  \/ \E w \in Workers : Arrive(w) \/ Serve(w)
  \/ OtherStatement
  \/ Restart

(* Every thread runs its request to the end; requests need not come and    *)
(* the process need not die.                                               *)
Spec == Init /\ [][Next]_vars /\ \A w \in Workers : WF_vars(Serve(w))

-----------------------------------------------------------------------------
AlertRows == [patron : Rules, key : (Orgs \cup {Null}) \X (Emps \cup {Null}),
              fuente : Fuentes \cup {Bogus}, evid : SUBSET Ids]
RuleRows  == [key : (Orgs \cup {Null}) \X (Emps \cup {Null}), evid : SUBSET Ids]

Results ==
  [kind : {"none", "count", "dml"}, rows : {{}}]
    \cup [kind : {"fuentes"}, rows : SUBSET Fuentes]
    \cup [kind : {"other"}, rows : {{}, {Bogus}}]
    \cup [kind : Rules, rows : SUBSET RuleRows]

(* What todo holds depends on the loop the request is in.                  *)
TodoOf(label) ==
  CASE label = "ins_organismo" -> Orgs
    [] label = "ins_empresa"   -> Emps
    [] label = "ins_contrato"  -> Ids
    [] label = "ins_alert"     -> RuleRows
    [] label \in DOMAIN FetchOf \cup DOMAIN AfterFetch -> {Bogus}
    [] OTHER -> {}

(* Every table holds keys and owners that exist, every request stands at a *)
(* statement of its handler with locals of that statement, and the         *)
(* connection holds one of the results the handlers produce.               *)
TablesTyped ==
  /\ organismo \in [Orgs -> Fuentes \cup {Null}]
  /\ empresa \in [Emps -> Fuentes \cup {Null}]
  /\ contrato \in [Ids -> Fuentes \cup {Null}]
  /\ alerta \subseteq AlertRows

(* Statements of run_detection that work on one slice.                     *)
InSlice == {"fetch_total", "del_patron", "query", "fetch_rule", "ins_alert"}

RequestsTyped ==
  /\ pc \in [Workers -> Free \cup LoadPcs \cup DetectPcs]
  /\ fu \in [Workers -> Fuentes \cup {Bogus, Null}]
  /\ con \in [Workers -> SUBSET Ids]
  /\ todo \in [Workers -> SUBSET (Orgs \cup Emps \cup Ids \cup RuleRows \cup {Bogus})]
  /\ cola \in [Workers -> SUBSET (Fuentes \cup {Bogus})]
  /\ rule \in [Workers -> Rules]
  /\ hecho \in [Workers -> SUBSET (Fuentes \cup {Bogus})]
  /\ \A w \in Workers :
       /\ pc[w] \in LoadPcs => fu[w] \in Zips /\ con[w] \subseteq ConIds(fu[w])
       /\ pc[w] \in InSlice => fu[w] # Null
       /\ todo[w] \subseteq TodoOf(pc[w])

TypeOK == TablesTyped /\ cursor \in Results /\ RequestsTyped

(* A contract's buyer and supplier are always in their tables, whatever    *)
(* loads run at once and wherever they stop (db.py, REFERENCES): only the  *)
(* order of the loader's statements and DuckDB's refusals see to it.       *)
ContractsAnchored ==
  \A i \in Ids : contrato[i] # Null => Anchored(contrato[i], i)

(* Nothing but its own load changes the data a slice's alerts come from:   *)
(* neither the contracts nor the supplier names they are joined with, even *)
(* though suppliers are shared and their rows belong to the slice that was *)
(* loaded first.                                                           *)
OwnLoadOnly(f) ==
  \E w \in Workers : fu[w] = f /\ pc[w] \in {"del_contrato", "ins_contrato"}

SliceStable ==
  [][\A f \in Fuentes : OwnLoadOnly(f) \/ Joined(f)' = Joined(f)]_<<contrato, empresa>>

(* With one thread, the discarding of lines 153-170 does its job: no       *)
(* contract that is about to be inserted misses its buyer or its supplier, *)
(* though rows that another slice owns are ignored by the inserts.         *)
InsertsAnchored ==
  \A w \in Workers : pc[w] = "ins_contrato" =>
    \A i \in todo[w] : contrato[i] # Null \/ Anchored(fu[w], i)

(* With one thread, a load that reaches its response has every contract it *)
(* kept in the table, and nothing of an earlier load of the slice.         *)
LoadComplete ==
  \A w \in Workers : pc[w] \in DOMAIN FetchOf \cup DOMAIN AfterFetch =>
    /\ SliceContracts(fu[w]) \subseteq Kept(fu[w], con[w])
    /\ \A i \in Kept(fu[w], con[w]) : contrato[i] # Null

(* With one thread, an alert is what its rule says of the contracts its    *)
(* slice has now, across reloads, failures and restarts: it can be traced  *)
(* to them, unless an interrupted load left the slice without contracts.   *)
Explained(a) ==
  \/ SliceContracts(a.fuente) = {}
  \/ [key |-> a.key, evid |-> a.evid] \in RuleFrame(a.patron, Joined(a.fuente))

AlertsExplained == \A a \in alerta : Explained(a)

(* README.md:86, "Ejecutar reglas de detección": once run_detection has    *)
(* reported a slice, its alerts are all the rows of the three rules, and   *)
(* no others.  So it is with one thread, unless a read of another endpoint *)
(* comes between a rule's query and its .df().                             *)
AllAlerts(f) == UNION {Findings(r, f, Joined(f)) : r \in Rules}

DetectionComplete ==
  \A w \in Workers : \A f \in hecho[w] : AlertsOf(f) = AllAlerts(f)

(* With one thread, a supplier known by its rut is never reported for one  *)
(* slice both as tied to a single buyer (P1) and as present in many (P3).  *)
PatternsExclusive ==
  \A a, b \in alerta :
    (a.patron = "recurrente" /\ b.patron = "multi-org" /\ a.fuente = b.fuente
       /\ SliceContracts(a.fuente) # {})
      => a.key # b.key \/ a.key[2] = Null

(* With one thread, and suppliers that have a rut, detection never meets   *)
(* an alert id that is taken, however often it is repeated or cut short.   *)
DetectionSucceeds == \A w \in Workers : pc[w] # "detect_failed"

(* A load of a slice whose file has contracts to keep never ends in a 500. *)
LoadsSucceed == \A w \in Workers : pc[w] # "load_failed"

(* Every request gets its answer, whatever other threads do to the         *)
(* connection's result meanwhile, or dies with the process.                *)
EveryRequestAnswered ==
  \A w \in Workers : pc[w] \notin Free ~> pc[w] \in Free

-----------------------------------------------------------------------------
(* The slice that is being loaded, from its first DELETE to the answer,    *)
(* and the one whose alerts are being renewed.                             *)
BeingLoaded ==
  {f \in Fuentes : \E w \in Workers : fu[w] = f /\ pc[w] \in LoadPcs \ {"del_contrato"}}

BeingDetected ==
  {f \in Fuentes : \E w \in Workers : fu[w] = f /\ pc[w] \in {"query", "fetch_rule", "ins_alert"}}

(* What a load of f may keep of its file.                                  *)
Offers == [f \in Zips |-> {Kept(f, S) : S \in UNION {Slices(f, limit) : limit \in Limits}}]

(* What is seen of the others: the contracts and the alerts of each slice. *)
StockSeen  == [f \in Fuentes |-> IF f \in BeingLoaded THEN {} ELSE Joined(f)]
AlertsSeen ==
  [f \in Fuentes |-> IF f \in BeingLoaded \cup BeingDetected THEN {} ELSE AlertsOf(f)]

Seeded   == \E w \in Workers : pc[w] = "seeded"
Reported == Fuentes \cap UNION {hecho[w] : w \in Workers}

Seen == INSTANCE Catalogue WITH
  Lossy <- Foreign # {}, loading <- BeingLoaded, detecting <- BeingDetected,
  stock <- StockSeen, alerts <- AlertsSeen, seeded <- Seeded, reported <- Reported

(* With one thread, the two endpoints keep a catalogue: they take out one  *)
(* slice, or its alerts, and put it back, and meanwhile nothing else is    *)
(* seen to change, wherever they fail, though they work by a statement per *)
(* row, ignore rows that other slices own and share suppliers with them.   *)
KeepsCatalogue == Seen!CSpec
===============================================================================
