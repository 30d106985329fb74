------------------------------ MODULE SharedReads ------------------------------
(***************************************************************************)
(* The GET handlers (backend/routers/alerts.py, entity.py, graph.py,       *)
(* health.py and GET /alerts/chilecompra) beside the loads and detections  *)
(* of ChileCompra, on the one connection that all of them share.           *)
(*                                                                         *)
(* A read is a sequence of statements; each is executed in one step and    *)
(* fetched in another, and which statement comes next depends on what was  *)
(* fetched.  ChileCompra sees the results that reads leave as SomeRows or  *)
(* NoRows; page holds what is in them.                                     *)
(*                                                                         *)
(* A result is [kind, rows]; its kind says how many columns it has and     *)
(* what is in them, its rows keep the ids that a handler can use.          *)
(***************************************************************************)
EXTENDS ChileCompra

CONSTANTS
  Readers,      \* threads of the server's pool that serve the GET endpoints
  Questions,    \* requests that clients make
  EmptyId,      \* the id '', which a codigoproveedor of spaces becomes
  AlertsLimit, NeighborsLimit, EntityAlertsLimit   \* 500, 50 and 100

ASSUME QuestionsAssumption ==
  /\ Null \notin Questions
  /\ \A q \in Questions : q.op \in {"alert", "alerts", "alerts_cc", "health", "entity", "graph"}

ASSUME ReadersForeign == {NoResult, CountResult, NoRows, SomeRows} \subseteq Foreign

VARIABLES
  page,         \* the read result that the connection holds, if it holds one
  ask,          \* reader -> the request it serves or served last
  at,           \* reader -> the statement in hand, or how its request ended
  sent,         \* reader -> that statement is executed, not yet fetched
  got,          \* reader -> what each statement of the request has fetched
  crossed       \* reader -> since its request began another request used the
                \*   connection between an execute and its fetch, or changed a
                \*   table (history of the run, no state of the program)

reads == <<page, ask, at, sent, got, crossed>>
rvars == <<vars, reads>>

-----------------------------------------------------------------------------
Stmts == {"alert", "alerts", "alerts_cc", "one", "count", "entity", "neighbors",
          "buyer", "supplier", "entity_alerts", "org_match", "emp_match", "links", "nodes"}

Ended == {"idle", "answered", "not_found", "failed"}

(* Those that are fetched with fetchone.                                   *)
Single == {"alert", "one", "count", "entity", "org_match", "emp_match"}

(* How many columns the rows of a result have.                             *)
Columns(kind) ==
  CASE kind \in {"alerts", "alerts_cc"}              -> 12
    [] kind = "entity_alerts"                        -> 10
    [] kind \in {"neighbors", "fraccionamiento"}     -> 8
    [] kind = "recurrente"                           -> 5
    [] kind \in {"entity", "multi-org"}              -> 4
    [] kind \in {"links", "nodes", "ends"}           -> 3
    [] OTHER                                         -> 1

(* Mutant: one column too many is read.                                    *)
FitsStrictly(res, n) == HasRow(res) => Columns(res.kind) > n

(* Every row can be indexed up to column n, or there is none.              *)
Fits(res, n) == HasRow(res) => Columns(res.kind) >= n

(* The ids in the first three columns of a result.                         *)
IdsIn(res) ==
  CASE res.kind = "links" -> UNION {{l[1], l[2], l[3]} : l \in res.rows}
    [] res.kind \in {"entity", "neighbors", "ends", "nodes", "match"} ->
         {row[1] : row \in res.rows}
    [] res.kind \in Rules -> UNION {{row.key[1], row.key[2]} : row \in res.rows} \ {Null}
    [] OTHER -> {}

-----------------------------------------------------------------------------
(* The statements.                                                         *)

(* LIMIT n keeps any n of the rows: created_at, by which alerts are        *)
(* ordered, is not modelled.                                               *)
Cut(n, S) == IF Cardinality(S) <= n THEN {S} ELSE kSubset(n, S)

Of(kind, pages) == {[kind |-> kind, rows |-> S] : S \in pages}

IdOf(a) == <<a.patron, a.key, a.fuente>>

(* The contracts in the table, as <<organismo_id, proveedor_id, id>>.      *)
Link(i) == LET c == ConRow(contrato[i], i) IN <<c.org, c.prov, i>>
Links   == {Link(i) : i \in {j \in Ids : contrato[j] # Null}}

(* The rows of an id in the union of the three tables, with their types.   *)
EntityRows(id) ==
  {<<id, t[1]>> : t \in {u \in {<<"Organismo", organismo>>, <<"Empresa", empresa>>,
                                 <<"Contrato", contrato>>} : HasKey(u[2], id)}}

(* organismo_id, proveedor_id, or the second part of a p3_ id.  The first  *)
(* two are NULL in the alerts of P1 and P3.                                *)
Mentions(a, id) ==
  \/ a.patron = "fraccionamiento" /\ id \in {a.key[1], a.key[2]}
  \/ a.patron = "multi-org" /\ a.key[2] = id

Chosen(a, q) == q.patron \in {Null, a.patron} /\ q.fuente \in {Null, a.fuente}

(* Mutant: the query of the buyers, copied for the suppliers.              *)
NeighborsOfBuyers(id, tipo) ==
  {<<l[3]>> : l \in {k \in Links : k[1] = id /\ HasKey(empresa, k[2])}}

Neighbors(id, tipo) ==
  {<<l[3]>> : l \in {k \in Links : \/ tipo = "Organismo" /\ k[1] = id /\ HasKey(empresa, k[2])
                                   \/ tipo = "Empresa" /\ k[2] = id /\ HasKey(organismo, k[1])}}

(* WHERE organismo_id = ?, proveedor_id = ?, fuente = ?, or none of them.  *)
LinksAsked(q, g) ==
  {l \in Links : IF q.node = Null THEN q.fuente \in {Null, contrato[l[3]]}
                 ELSE q.node = IF HasRow(g["org_match"]) THEN l[1] ELSE l[2]}

(* Mutant: the suppliers are left out of the union.                        *)
WithoutSuppliers(ids) == {<<id>> : id \in {x \in ids : HasKey(organismo, x) \/ HasKey(contrato, x)}}

Nodes(ids) == {<<id>> : id \in {x \in ids : EntityRows(x) # {}}}

(* _fetch_nodes_batch leaves out a row whose id is empty.                  *)
NodesShown(g) == {n[1] : n \in g["nodes"].rows} \ {EmptyId}

(* Mutant: WHERE id = ? is forgotten.                                      *)
AnyAlert(q) == alerta

AlertsWithId(q) == {a \in alerta : IdOf(a) = q.id}

(* What statement s of request q may leave in the connection.              *)
Query(s, q, g) ==
  CASE s = "alert"     -> Of("alerts", {AlertsWithId(q)})
    [] s = "alerts"    -> Of("alerts", Cut(AlertsLimit, alerta))
    [] s = "alerts_cc" -> Of("alerts_cc", Cut(q.limit, {a \in alerta : Chosen(a, q)}))
    [] s \in {"one", "count"} -> {CountResult}
    [] s = "entity"    -> Of("entity", Cut(1, EntityRows(q.id)))
    [] s = "neighbors" ->
         Of("neighbors", UNION {Cut(NeighborsLimit, Neighbors(q.id, row[2])) : row \in g["entity"].rows})
    [] s = "buyer"     -> Of("ends", {{<<l[1]>> : l \in {k \in Links : k[3] = q.id}}})
    [] s = "supplier"  -> Of("ends", {{<<l[2]>> : l \in {k \in Links : k[3] = q.id}}})
    [] s = "entity_alerts" ->
         Of("entity_alerts", Cut(EntityAlertsLimit, {a \in alerta : Mentions(a, q.id)}))
    [] s = "org_match" -> Of("match", {IF HasKey(organismo, q.node) THEN {<<q.node>>} ELSE {}})
    [] s = "emp_match" -> Of("match", {IF HasKey(empresa, q.node) THEN {<<q.node>>} ELSE {}})
    [] s = "links"     -> Of("links", Cut(q.limit, LinksAsked(q, g)))
    [] s = "nodes"     -> Of("nodes", {Nodes(IdsIn(g["links"]))})

-----------------------------------------------------------------------------
(* Where each handler begins, and what it does after it fetched s.         *)
First(q) ==
  CASE q.op = "health" -> "one"
    [] q.op = "graph" /\ q.node # Null -> "org_match"
    [] q.op = "graph" /\ q.node = Null -> "links"
    [] OTHER -> q.op

(* Mutant: a read that cannot use what it fetched starts again.            *)
EndRetrying(ok) == IF ok THEN "answered" ELSE "alerts"

End(ok) == IF ok THEN "answered" ELSE "failed"

(* By the type in the row fetched; any other row of four columns has none  *)
(* of the types, and EntityResponse refuses it in the end.                 *)
Branch(res) ==
  IF res.kind # "entity" THEN "entity_alerts"
  ELSE IF \E row \in res.rows : row[2] = "Contrato" THEN "buyer" ELSE "neighbors"

(* A node of an id that is 0 is skipped before its columns are read.       *)
After(s, g) ==
  CASE s = "alert" /\ ~HasRow(g[s])   -> {"not_found"}
    [] s = "alert" /\ HasRow(g[s])    -> {End(Fits(g[s], 11))}
    [] s = "alerts"                   -> {End(Fits(g[s], 11))}
    [] s = "alerts_cc"                -> {End(Fits(g[s], 12))}
    [] s = "one"                      -> {"count"}
    [] s = "count"                    -> {End(HasRow(g[s]))}
    [] s = "entity" /\ ~HasRow(g[s])  -> {"not_found"}
    [] s = "entity" /\ HasRow(g[s])   ->
         {IF Columns(g[s].kind) = 4 THEN Branch(g[s]) ELSE "failed"}
    [] s = "neighbors"                -> {IF Fits(g[s], 8) THEN "entity_alerts" ELSE "failed"}
    [] s = "buyer"                    -> {IF Fits(g[s], 3) THEN "supplier" ELSE "failed"}
    [] s = "supplier"                 -> {IF Fits(g[s], 3) THEN "entity_alerts" ELSE "failed"}
    [] s = "entity_alerts"            -> {End(Fits(g[s], 10) /\ g["entity"].kind = "entity")}
    [] s = "org_match"                -> {"emp_match"}
    [] s = "emp_match"                ->
         {IF HasRow(g["org_match"]) \/ HasRow(g[s]) THEN "links" ELSE "not_found"}
    [] s = "links" /\ ~Fits(g[s], 3)  -> {"failed"}
    [] s = "links" /\ Fits(g[s], 3)   -> {IF HasRow(g[s]) THEN "nodes" ELSE "answered"}
    [] s = "nodes"                    ->
         {End(Fits(g[s], 3))} \cup (IF IsNumber(g[s]) THEN {"answered"} ELSE {})

-----------------------------------------------------------------------------
Nothing == [s \in Stmts |-> NoResult]

RInit ==
  /\ Init
  /\ page    = NoResult
  /\ ask     = [r \in Readers |-> Null]
  /\ at      = [r \in Readers |-> "idle"]
  /\ sent    = [r \in Readers |-> FALSE]
  /\ got     = [r \in Readers |-> Nothing]
  /\ crossed = [r \in Readers |-> FALSE]

(* A step of others than readers R on the connection, or on the tables.    *)
Crosses(R) ==
  crossed' = [r \in Readers |-> crossed[r] \/ (r \in R /\ (sent[r] \/ tables' # tables))]

(* A thread takes the next request; the last answer is out.                *)
Ask(r, q) ==
  /\ at[r] \in Ended
  /\ ask' = [ask EXCEPT ![r] = q]
  /\ at'  = [at EXCEPT ![r] = First(q)]
  /\ got' = [got EXCEPT ![r] = Nothing]
  /\ crossed' = [crossed EXCEPT ![r] = FALSE]
  /\ UNCHANGED <<vars, page, sent>>

(* Mutant: every read also records itself with an INSERT.                  *)
HoldsInsert(res) == cursor' = DmlResult /\ page' = NoResult

(* Mutant: what is left of an empty result passes for rows.                *)
HoldsRows(res) == cursor' = SomeRows /\ page' = res

(* The connection holds res.                                               *)
Holds(res) ==
  IF res \in {NoResult, CountResult}
    THEN cursor' = res /\ page' = NoResult
    ELSE cursor' = (IF res.rows = {} THEN NoRows ELSE SomeRows) /\ page' = res

Execute(r) ==
  /\ at[r] \in Stmts /\ ~sent[r]
  /\ \E res \in Query(at[r], ask[r], got[r]) : Holds(res)
  /\ sent' = [sent EXCEPT ![r] = TRUE]
  /\ UNCHANGED <<tables, pc, locals, ask, at, got>>
  /\ Crosses(Readers \ {r})

(* Of the rows of another statement some may not compare with an id.       *)
Refused(r) ==
  /\ at[r] = "nodes" /\ ~sent[r]
  /\ got[r]["links"].kind # "links"
  /\ Holds(NoResult)
  /\ at' = [at EXCEPT ![r] = "failed"]
  /\ UNCHANGED <<tables, pc, locals, ask, sent, got>>
  /\ Crosses(Readers \ {r})

(* What a fetch finds in the connection.                                   *)
Pending == IF cursor \in {NoRows, SomeRows} THEN page ELSE cursor

(* What it takes out: a row, any of several, or all of them.               *)
Taken(s) ==
  IF s \in Single /\ Pending.rows # {}
    THEN {[Pending EXCEPT !.rows = {row}] : row \in Pending.rows} ELSE {Pending}

(* What the connection holds when the rows of its result are down to rest. *)
Leaves(rest) ==
  IF cursor \in {NoRows, SomeRows} THEN Holds(rest) ELSE cursor' = rest /\ page' = NoResult

(* Of a match, or of a number, a handler only uses that there is a row.    *)
Used(s, res) ==
  IF s \notin {"one", "count", "org_match", "emp_match"} THEN res
  ELSE IF HasRow(res) THEN CountResult ELSE NoResult

Fetch(r) ==
  /\ at[r] \in Stmts /\ sent[r]
  /\ sent' = [sent EXCEPT ![r] = FALSE]
  /\ \/ Holds(NoResult)
     \/ /\ at[r] \in Single /\ ~IsNumber(Pending)
        /\ \E rest \in Rests(Pending) : Leaves(rest)
  /\ \/ /\ cursor = NoResult
        /\ at' = [at EXCEPT ![r] = "failed"]
        /\ UNCHANGED got
     \/ \E res \in Taken(at[r]) :
          /\ got' = [got EXCEPT ![r][at[r]] = Used(at[r], res)]
          /\ \E next \in After(at[r], got'[r]) : at' = [at EXCEPT ![r] = next]
  /\ UNCHANGED <<tables, pc, locals, ask>>
  /\ Crosses(Readers \ {r})

Read(r) == Execute(r) \/ Refused(r) \/ Fetch(r)

(* A step of a load or a detection: what reads left is gone when it leaves *)
(* a result of its own, and there may be less of it after its fetchone.    *)
FetchesOne(w) == pc[w] \in DOMAIN AfterFetch \cup {"fetch_total"}

Write(w) ==
  /\ Serve(w)
  /\ IF cursor' \in {NoRows, SomeRows}
       THEN /\ page' \in Rests(page) /\ (page'.rows = {} <=> cursor' = NoRows)
            /\ FetchesOne(w) \/ page' = page
       ELSE page' = NoResult
  /\ Crosses(Readers)
  /\ UNCHANGED <<ask, at, sent, got>>

RRestart ==
  /\ Restart
  /\ page'    = NoResult
  /\ ask'     = [r \in Readers |-> Null]
  /\ at'      = [r \in Readers |-> "idle"]
  /\ sent'    = [r \in Readers |-> FALSE]
  /\ got'     = [r \in Readers |-> Nothing]
  /\ crossed' = [r \in Readers |-> FALSE]

RNext ==
  \/ \E w \in Workers : Write(w) \/ (Arrive(w) /\ UNCHANGED reads)
  \/ \E r \in Readers : Read(r) \/ \E q \in Questions : Ask(r, q)
  \/ RRestart

(* As in ChileCompra: threads run their requests to the end.               *)
RSpec ==
  /\ RInit /\ [][RNext]_rvars
  /\ \A w \in Workers : WF_vars(Serve(w))
  /\ \A r \in Readers : WF_rvars(Read(r))

-----------------------------------------------------------------------------
(* Every read stands at a statement of its request, only an executed one   *)
(* waits to be fetched, and the connection holds a read's result just when *)
(* page has one.                                                           *)
ReadsTyped ==
  /\ ask \in [Readers -> Questions \cup {Null}]
  /\ at \in [Readers -> Stmts \cup Ended]
  /\ \A r \in Readers : sent[r] => at[r] \in Stmts
  /\ cursor \in {NoRows, SomeRows} <=> page # NoResult
  /\ cursor = NoRows <=> page # NoResult /\ page.rows = {}

(* The last answer to a request of this kind, if nothing crossed it.       *)
Answered(r, op) == ask[r] # Null /\ ask[r].op = op /\ at[r] = "answered" /\ ~crossed[r]

(* A read that no other request crosses is never answered with an error.   *)
UncrossedSucceed == \A r \in Readers : at[r] = "failed" => crossed[r]

(* GET /alerts/{id}, uncrossed, answers with the alert of that id, and     *)
(* with a 404 only if there is none.                                       *)
AlertFound ==
  \A r \in Readers :
    /\ Answered(r, "alert") => \E a \in alerta : got[r]["alert"].rows = {a} /\ IdOf(a) = ask[r].id
    /\ at[r] = "not_found" /\ ~crossed[r] /\ ask[r].op = "alert" =>
         \A a \in alerta : IdOf(a) # ask[r].id

(* GET /entity/{id}, uncrossed, of a contract has both its buyer and its   *)
(* supplier, and of a buyer or a supplier every contract that names it, or *)
(* as many as LIMIT allows.                                                *)
EntityShown(id, g) ==
  LET shown    == g["neighbors"].rows
      All(col) == \/ Cardinality(shown) = NeighborsLimit
                  \/ \A l \in Links : l[col] = id => <<l[3]>> \in shown
  IN  \A row \in g["entity"].rows :
        CASE row[2] = "Contrato"  -> \A s \in {"buyer", "supplier"} : g[s].rows # {}
          [] row[2] = "Organismo" -> All(1)
          [] row[2] = "Empresa"   -> All(2)

EntityWhole == \A r \in Readers : Answered(r, "entity") => EntityShown(ask[r].id, got[r])

(* The graph of an uncrossed answer is closed: both ends of a link are     *)
(* among the nodes, but for the supplier without any id, which             *)
(* _fetch_nodes_batch drops.                                               *)
GraphClosed ==
  \A r \in Readers : Answered(r, "graph") =>
    \A l \in got[r]["links"].rows :
      {l[1], l[2]} \ {EmptyId} \subseteq NodesShown(got[r])

(* Every read is answered, whatever crosses it, or dies with the process.  *)
EveryReadAnswered == \A r \in Readers : at[r] \in Stmts ~> at[r] \in Ended
===============================================================================
