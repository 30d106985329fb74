----------------------------- MODULE MCDurability ------------------------------
(***************************************************************************)
(* Two small months for Durability, one order each, with buyer and         *)
(* supplier in common: each month's load may be refused on account of the  *)
(* other's.                                                                *)
(***************************************************************************)
EXTENDS Durability, TLC

CONSTANTS f1, f2, k1, k2, o1, e1, w1

Row(oc, org, prov, nombre, monto, dia) ==
  [oc |-> oc, org |-> org, prov |-> prov, nombre |-> nombre, monto |-> monto, dia |-> dia]

MCStrip == [id \in {o1, e1} |-> id]

TinyMonths ==
  (f1 :> {Row(k1, o1, e1, 1, 1, 1)}) @@ (f2 :> {Row(k2, o1, e1, 2, 1, 1)})
===============================================================================
