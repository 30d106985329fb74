----------------------------- MODULE MCSharedReads -----------------------------
(***************************************************************************)
(* Questions for SharedReads over small months.                            *)
(***************************************************************************)
EXTENDS SharedReads, TLC

CONSTANTS f1, k1, k2, o1, e1, noid, w1, r1

Row(oc, org, prov, nombre, monto, dia) ==
  [oc |-> oc, org |-> org, prov |-> prov, nombre |-> nombre, monto |-> monto, dia |-> dia]

(* A contract with e1 and one with the supplier that has no id.            *)
MCStrip  == [id \in {o1, e1, noid} |-> id]
MCMonths == f1 :> {Row(k1, o1, e1, 1, 1, 1), Row(k2, o1, noid, 2, 1, 1)}

ReadResults == {NoResult, CountResult, NoRows, SomeRows}

AskFor(patron, emp) == [op |-> "alert", id |-> <<patron, <<Null, emp>>, f1>>]
Entity(id)         == [op |-> "entity", id |-> id]
Graph(node, limit) == [op |-> "graph", node |-> node, fuente |-> Null, limit |-> limit]

MCQuestions ==
  {[op |-> "alerts"], [op |-> "health"], AskFor("recurrente", e1),
   [op |-> "alerts_cc", patron |-> "recurrente", fuente |-> Null, limit |-> 1],
   Entity(e1), Entity(k1), Graph(Null, 1), Graph(e1, 2)}
===============================================================================
