------------------------------ MODULE SliceFrames ------------------------------
(***************************************************************************)
(* What load_chilecompra_slice (backend/loaders/chilecompra.py) computes   *)
(* from the CSV of one month before it touches the database: the frames    *)
(* org_df, emp_df and con_df it will insert.                               *)
(*                                                                         *)
(* A CSV row is [oc, org, prov, nombre, monto, dia].  The ids are already  *)
(* passed through the TRIM of SQL, which strips spaces only; Strip is the  *)
(* str.strip of pandas, which strips every white space, so the two can     *)
(* disagree on an id that ends in a tab.  Names are numbers ordered as     *)
(* MAX orders them, SinNombre (0) standing for a blank one; dia = 0 is a   *)
(* date that is missing or cannot be read, monto = 0 such an amount.       *)
(***************************************************************************)
EXTENDS PatternRules

CONSTANTS
  Fuentes,      \* the slices chilecompra_oc_YYYY-MM
  Csv,          \* the rows of each slice whose zip file exists
  Strip,        \* str.strip on organismo and proveedor ids
  Blank,        \* what WHERE leaves out: an oc or organismo that is NULL or
                \* empty after TRIM, a proveedor that is NULL
  Unidentified  \* proveedor ids that are a codigoproveedor: no rutsucursal

ASSUME FuentesAssumption == Null \notin Fuentes

Zips == DOMAIN Csv

ASSUME ZipsAssumption == Zips \subseteq Fuentes

(* A file has finitely many rows.                                          *)
ASSUME CsvAssumption ==
  \A f \in Zips : /\ IsFiniteSet(Csv[f])
                  /\ \A r \in Csv[f] : r.dia \in Nat

-----------------------------------------------------------------------------
(* The WHERE clauses of the three reads of the file.                       *)
OrgRows(f) == {r \in Csv[f] : r.org # Blank}
EmpRows(f) == {r \in Csv[f] : r.prov # Blank}
ConRows(f) == {r \in OrgRows(f) \cap EmpRows(f) : r.oc # Blank}

ConIds(f)  == {r.oc : r \in ConRows(f)}

(* QUALIFY ROW_NUMBER() OVER (PARTITION BY id ORDER BY fecha DESC) = 1:    *)
(* of the rows of one purchase order the latest, any of them on a tie.     *)
Latest(rows) == CHOOSE r \in rows : \A s \in rows : s.dia <= r.dia

ConTable == [f \in Zips |->
              [i \in ConIds(f) |-> Latest({r \in ConRows(f) : r.oc = i})]]

ConRow(f, i) == ConTable[f][i]

(* LIMIT cuts con_df only, and keeps no particular rows.                   *)
Slices(f, limit) ==
  IF limit = 0 \/ limit >= Cardinality(ConIds(f))
    THEN {ConIds(f)} ELSE kSubset(limit, ConIds(f))

-----------------------------------------------------------------------------
(* org_df and emp_df hold the stripped ids of the whole file, the orphans  *)
(* among the ids that the contracts S need included.                       *)
NeededOrgs(f, S) == {Strip[ConRow(f, i).org] : i \in S}
NeededEmps(f, S) == {Strip[ConRow(f, i).prov] : i \in S}
KnownOrgs(f)     == {Strip[r.org] : r \in OrgRows(f)}
KnownEmps(f)     == {Strip[r.prov] : r \in EmpRows(f)}

OrgFrame(f, S) == KnownOrgs(f) \cup (NeededOrgs(f, S) \ KnownOrgs(f))
EmpFrame(f, S) == KnownEmps(f) \cup (NeededEmps(f, S) \ KnownEmps(f))

(* Mutant: nothing is discarded.                                           *)
KeptAll(f, S) == S

(* The contracts whose two ids are in the frames; the others are           *)
(* discarded.  The contract keeps its unstripped ids.                      *)
Kept(f, S) ==
  {i \in S : /\ ConRow(f, i).org \in OrgFrame(f, S)
             /\ ConRow(f, i).prov \in EmpFrame(f, S)}

(* Of the variants of an id that strip to e, INSERT OR IGNORE keeps one;   *)
(* MAX(nombre) is taken within that variant.                               *)
Variant(f, e) == CHOOSE v \in {r.prov : r \in EmpRows(f)} : Strip[v] = e

NameTable == [f \in Zips |->
               [e \in KnownEmps(f) |->
                 Max({r.nombre : r \in {s \in EmpRows(f) : s.prov = Variant(f, e)}})]]

EmpName(f, e) == NameTable[f][e]

EmpRut(e) == IF e \in Unidentified THEN Null ELSE e

-----------------------------------------------------------------------------
(* The primary keys that loads can ever insert.                            *)
Ids  == UNION {ConIds(f) : f \in Zips}
Orgs == UNION {KnownOrgs(f) : f \in Zips}
Emps == UNION {KnownEmps(f) : f \in Zips}
===============================================================================
