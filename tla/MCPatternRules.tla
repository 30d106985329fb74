---------------------------- MODULE MCPatternRules ----------------------------
(***************************************************************************)
(* The rules of PatternRules over every set of contracts drawn from a      *)
(* small pool, reached by inserting the contracts one by one.              *)
(***************************************************************************)
EXTENDS PatternRules

CONSTANTS o1, o2, o3, r1, r2, r3, Pool

(* Contract numbers stand for the ids.                                     *)
C(id, org, prov, rut, nombre, monto, dia) ==
  [id |-> id, org |-> org, prov |-> prov, rut |-> rut, nombre |-> nombre,
   monto |-> monto, dia |-> dia]

(* Suppliers with a rut: r1 is tied to o1 or spread over three buyers, r3  *)
(* has no name, and two contracts have no date.                            *)
Identified ==
  {C(1, o1, r1, r1, 1, 2, 1), C(2, o1, r1, r1, 1, 2, 2), C(3, o1, r1, r1, 1, 1, 4),
   C(4, o2, r1, r1, 1, 3, 2), C(5, o2, r1, r1, 1, 2, 3), C(6, o3, r1, r1, 1, 4, 0),
   C(7, o2, r2, r2, 2, 5, 1), C(8, o2, r2, r2, 2, 1, 2), C(9, o1, r2, r2, 2, 0, 2),
   C(10, o1, r2, r2, 2, 1, 0), C(11, o1, r3, r3, SinNombre, 3, 1),
   C(12, o2, r3, r3, SinNombre, 3, 1)}

VARIABLE contratos

Init == contratos = {}
Insert(c) == c \notin contratos /\ contratos' = contratos \cup {c}
Next == \E c \in Pool : Insert(c)
Spec == Init /\ [][Next]_contratos

-----------------------------------------------------------------------------
Frame(r) == RuleFrame(r, contratos)
Keys(r)  == {row.key : row \in Frame(r)}

(* No two rows of a rule have the alert id in common, when every supplier  *)
(* has a rut: the plain INSERTs of one rule cannot clash with each other.  *)
KeysDistinct == \A r \in Rules : Cardinality(Keys(r)) = Cardinality(Frame(r))

(* More contracts never take a supplier off the multi-org list, so loading *)
(* a month without LIMIT reports what any part of it reports.              *)
MultiOrgMonotone == [][Keys("multi-org") \subseteq Keys("multi-org")']_contratos
===============================================================================
