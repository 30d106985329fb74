----------------------------- MODULE PatternRules -----------------------------
(***************************************************************************)
(* The three detection rules of backend/loaders/chilecompra.py             *)
(* (run_detection): each is one SQL query that groups the contracts of a   *)
(* slice, filters the groups and yields one row per surviving group.       *)
(*                                                                         *)
(* A contract is a record of the join contrato x empresa:                  *)
(*   [id, org, prov, rut, nombre, monto, dia]                              *)
(* Names are numbers, ordered as MAX orders them; dia = 0 stands for a     *)
(* NULL date, monto = 0 for an amount TRY_CAST cannot read (SUM skips both *)
(* a NULL and a zero).  The message of an alert is abstracted to the set   *)
(* of contracts it counts and adds up: its evidence.                       *)
(***************************************************************************)
EXTENDS Integers, FiniteSets, FiniteSetsExt

CONSTANTS
  P1_THRESHOLD_COUNT,   \* recurrente: strictly more contracts than this
  P2_THRESHOLD_COUNT,   \* fraccionamiento: at least this many contracts ...
  P2_THRESHOLD_MONTO,   \* ... adding up to strictly more than this ...
  P2_THRESHOLD_DAYS,    \* ... signed within this many days
  P3_THRESHOLD_ORGS,    \* multi-org: at least this many distinct buyers
  Null                  \* SQL's NULL: no row under that key, no such value

ASSUME ThresholdsAssumption ==
  /\ P1_THRESHOLD_COUNT \in Nat
  /\ P2_THRESHOLD_COUNT \in Nat \ {0}
  /\ P2_THRESHOLD_MONTO \in Nat
  /\ P2_THRESHOLD_DAYS \in Nat
  /\ P3_THRESHOLD_ORGS \in Nat \ {0, 1}

(* The literal 'Sin nombre' that replaces the name of a supplier without.  *)
SinNombre == 0

Rules == {"recurrente", "fraccionamiento", "multi-org"}

-----------------------------------------------------------------------------
(* e.nombre != 'Sin nombre' in every rule's WHERE.                         *)
NamedOnly(C) == {c \in C : c.nombre # SinNombre}

(* c.fecha IS NOT NULL, in P2 only.                                        *)
DatedOnly(C) == {c \in C : c.dia > 0}

(* GROUP BY e.rut, e.nombre: two suppliers with a NULL rut and one name    *)
(* fall in one group.                                                      *)
BySupplier(C) ==
  {{d \in C : d.rut = c.rut /\ d.nombre = c.nombre} : c \in C}

(* GROUP BY c.organismo_id, c.proveedor_id, e.nombre, e.rut.               *)
ByBuyerAndSupplier(C) ==
  {{d \in C : d.org = c.org /\ d.prov = c.prov
              /\ d.rut = c.rut /\ d.nombre = c.nombre} : c \in C}

Buyers(G)  == {c.org : c \in G}
Days(G)    == {c.dia : c \in G}
Total(G)   == MapThenSumSet(LAMBDA c : c.monto, G)

(* Mutants: a HAVING clause is forgotten, or compares the wrong way.       *)
ManyContracts(G) == Cardinality(G) > P1_THRESHOLD_COUNT
ExactlyThoseOrgs(G) == Cardinality(Buyers(G)) = P3_THRESHOLD_ORGS

IsRecurrente(G) ==
  /\ Cardinality(G) > P1_THRESHOLD_COUNT
  /\ Cardinality(Buyers(G)) = 1

IsFraccionamiento(G) ==
  /\ Cardinality(G) >= P2_THRESHOLD_COUNT
  /\ Total(G) > P2_THRESHOLD_MONTO
  /\ Max(Days(G)) - Min(Days(G)) <= P2_THRESHOLD_DAYS

IsMultiOrg(G) == Cardinality(Buyers(G)) >= P3_THRESHOLD_ORGS

GroupsOf(r, C) ==
  CASE r = "recurrente" -> {G \in BySupplier(NamedOnly(C)) : IsRecurrente(G)}
    [] r = "fraccionamiento" ->
         {G \in ByBuyerAndSupplier(DatedOnly(NamedOnly(C))) : IsFraccionamiento(G)}
    [] r = "multi-org" -> {G \in BySupplier(NamedOnly(C)) : IsMultiOrg(G)}

(* Mutant: every alert id carries the rut only.                            *)
RutKey(r, G) == <<Null, (CHOOSE c \in G : TRUE).rut>>

(* What the primary key of the alert is made of: p1_/p3_ carry the rut     *)
(* only, with buyer and supplier columns NULL; p2_ carries both ids.       *)
KeyOf(r, G) ==
  LET c == CHOOSE c \in G : TRUE
  IN  IF r = "fraccionamiento" THEN <<c.org, c.prov>> ELSE <<Null, c.rut>>

(* The data frame of one rule.                                             *)
RuleFrame(r, C) ==
  {[key |-> KeyOf(r, G), evid |-> {c.id : c \in G}] : G \in GroupsOf(r, C)}
===============================================================================
