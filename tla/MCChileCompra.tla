----------------------------- MODULE MCChileCompra -----------------------------
(***************************************************************************)
(* Small months for ChileCompra.  The thresholds are scaled down (cfg).    *)
(***************************************************************************)
EXTENDS ChileCompra, TLC

CONSTANTS f1, f2, f3,   \* slices; f3 has no file
          k1, k2, k3, k4, k5,
          o1, o2, o1tab,  \* o1tab is o1 followed by a tab
          e1, e2, e3, blank,
          w1, w2

Row(oc, org, prov, nombre, monto, dia) ==
  [oc |-> oc, org |-> org, prov |-> prov, nombre |-> nombre, monto |-> monto, dia |-> dia]

MCStrip == [id \in {o1, o2, e1, e2, e3} |-> id] @@ (o1tab :> o1)

(* Both months buy from e1, under two names; k1 is in both; k3 has an id   *)
(* that only strips to o1; one row of k1 is outdated; one row has no oc;   *)
(* e3 has no name.                                                         *)
SharedMonths ==
  (f1 :> {Row(k1, o1, e1, 1, 1, 1), Row(k1, o1, e1, 0, 5, 0), Row(k2, o1, e1, 2, 1, 2),
          Row(k3, o1tab, e1, 1, 1, 1), Row(blank, o2, e2, 1, 1, 1)})
  @@ (f2 :> {Row(k1, o2, e3, 0, 1, 1), Row(k4, o1, e1, 3, 1, 1), Row(k5, o2, e1, 3, 1, 3)})

(* A month each, one supplier in common.                                   *)
TinyMonths ==
  (f1 :> {Row(k1, o1, e1, 1, 1, 1)}) @@ (f2 :> {Row(k4, o1, e1, 2, 1, 1)})

OneMonth == f1 :> {Row(k1, o1, e1, 1, 1, 1)}

(* Reads and POST /seed run beside.                                        *)
OtherResults == {NoResult, CountResult, DmlResult, NoRows, SomeRows}

Threads == Permutations({w1, w2})
===============================================================================
