--------------------------- MODULE ChileCompraProofs ---------------------------
(***************************************************************************)
(* Theorems about the frames of SliceFrames for every file, and about      *)
(* ChileCompra for every set of threads, slices and files.                 *)
(***************************************************************************)
EXTENDS ChileCompra, PatternRulesProofs

-----------------------------------------------------------------------------
(* What the frames guarantee: the orphan branches of                       *)
(* load_chilecompra_slice are never taken, and the contracts that survive  *)
(* the discarding refer to rows of the two other frames.                   *)

(* Of finitely many rows with a date one is latest.                        *)
LEMMA LatestIsOne ==
  ASSUME NEW R, IsFiniteSet(R), R # {}, \A r \in R : r.dia \in Nat
  PROVE  Latest(R) \in R /\ \A s \in R : s.dia <= Latest(R).dia
PROOF
<1> DEFINE D == {r.dia : r \in R}
           F == [r \in R |-> r.dia]
<1>1. F \in Surjection(R, D)
  BY DEF Surjection
<1>2. IsFiniteSet(D) /\ D # {} /\ D \in SUBSET Int
  BY <1>1, FS_Surjection
<1>3. PICK r \in R : \A s \in R : s.dia <= r.dia
  <2>1. Max(D) \in D /\ \A d \in D : d <= Max(D)
    BY <1>2, MaxOfFinite
  <2>. QED
    BY <2>1
<1>. QED
  BY <1>3 DEF Latest

(* The row that stands for a contract is one of the rows of its order that *)
(* pass the WHERE clause of con_df.                                        *)
LEMMA ConRowIsRow ==
  ASSUME NEW f \in Zips, NEW i \in ConIds(f)
  PROVE  ConRow(f, i) \in ConRows(f) /\ ConRow(f, i).oc = i
PROOF
<1> DEFINE R == {r \in ConRows(f) : r.oc = i}
<1>1. ConRow(f, i) = Latest(R)
  BY DEF ConRow, ConTable
<1>2. ConRows(f) \subseteq Csv[f]
  BY DEF ConRows, OrgRows, EmpRows
<1>3. IsFiniteSet(R) /\ R # {} /\ \A r \in R : r.dia \in Nat
  BY <1>2, CsvAssumption, FS_Subset DEF ConIds
<1>4. Latest(R) \in R
  BY <1>3, LatestIsOne
<1>. QED
  BY <1>1, <1>4

(* orphan_org and orphan_prov are always empty (lines 100-108, 143-151):   *)
(* what the contracts need is what the whole file knows.                   *)
THEOREM NoOrphans ==
  ASSUME NEW f \in Zips, NEW S \in SUBSET ConIds(f)
  PROVE  OrgFrame(f, S) = KnownOrgs(f) /\ EmpFrame(f, S) = KnownEmps(f)
PROOF
<1>1. \A i \in S : ConRow(f, i) \in OrgRows(f) /\ ConRow(f, i) \in EmpRows(f)
  BY ConRowIsRow DEF ConRows
<1>2. NeededOrgs(f, S) \subseteq KnownOrgs(f)
  BY <1>1 DEF NeededOrgs, KnownOrgs
<1>3. NeededEmps(f, S) \subseteq KnownEmps(f)
  BY <1>1 DEF NeededEmps, KnownEmps
<1>. QED
  BY <1>2, <1>3 DEF OrgFrame, EmpFrame

(* The frames hold keys of the tables.                                     *)
LEMMA FramesAreKeys ==
  ASSUME NEW f \in Zips, NEW S \in SUBSET ConIds(f)
  PROVE  /\ OrgFrame(f, S) \subseteq Orgs
         /\ EmpFrame(f, S) \subseteq Emps
         /\ Kept(f, S) \subseteq S
         /\ ConIds(f) \subseteq Ids
PROOF
<1>1. KnownOrgs(f) \subseteq Orgs /\ KnownEmps(f) \subseteq Emps
  BY DEF Orgs, Emps
<1>. QED
  BY <1>1, NoOrphans DEF Kept, Ids

(* LIMIT keeps some of the contracts of the file.                          *)
LEMMA SlicesAreParts ==
  ASSUME NEW f, NEW limit, NEW S \in Slices(f, limit)
  PROVE  S \in SUBSET ConIds(f)
PROOF
BY DEF Slices, kSubset

-----------------------------------------------------------------------------
(* The state machine.                                                      *)

(* The rows of the contract table come from the file of their slice and    *)
(* refer to keys of the other tables; what a load has left to insert is    *)
(* what it did not discard.                                                *)
RowOK(f, i) ==
  /\ f \in Zips
  /\ i \in ConIds(f)
  /\ ConRow(f, i).org \in Orgs
  /\ ConRow(f, i).prov \in Emps

RowsInv == \A i \in Ids : contrato[i] # Null => RowOK(contrato[i], i)

TodoInv == \A w \in Workers : pc[w] = "ins_contrato" => todo[w] \subseteq Kept(fu[w], con[w])

ReqInv == RequestsTyped /\ TodoInv

(* Statements of a load after its last insertion.                          *)
Counting == DOMAIN FetchOf \cup DOMAIN AfterFetch

Inv == TypeOK /\ RowsInv /\ TodoInv

USE FuentesAssumption, BogusAssumption, ZipsAssumption DEF TypeOK

-----------------------------------------------------------------------------
(* Lemmas about the operators.                                             *)

LEMMA KeptRows ==
  ASSUME NEW f \in Zips, NEW S \in SUBSET ConIds(f), NEW i \in Kept(f, S)
  PROVE  RowOK(f, i)
PROOF
BY FramesAreKeys DEF Kept, RowOK

LEMMA TodoOfPc ==
  /\ TodoOf("ins_organismo") = Orgs
  /\ TodoOf("ins_empresa") = Emps
  /\ TodoOf("ins_contrato") = Ids
  /\ TodoOf("ins_alert") = RuleRows
  /\ \A p \in DOMAIN FetchOf \cup DOMAIN AfterFetch : TodoOf(p) = {Bogus}
PROOF
BY DEF TodoOf, FetchOf, AfterFetch

(* A rule's frame over joined rows has rows of the shape of alerts.        *)
LEMMA FrameTyped ==
  ASSUME NEW C, NEW r \in Rules,
         \A c \in C : /\ c.id \in Ids
                      /\ c.org \in Orgs /\ c.prov \in Emps
                      /\ c.rut \in Emps \cup {Null}
  PROVE  RuleFrame(r, C) \subseteq RuleRows
PROOF
<1>1. SUFFICES ASSUME NEW G \in GroupsOf(r, C)
               PROVE  [key |-> KeyOf(r, G), evid |-> {c.id : c \in G}] \in RuleRows
  BY DEF RuleFrame
<1>2. G \subseteq C /\ G # {}
  BY DEF GroupsOf, BySupplier, ByBuyerAndSupplier, NamedOnly, DatedOnly, Rules
<1>3. (CHOOSE c \in G : TRUE) \in C
  BY <1>2
<1>4. KeyOf(r, G) \in (Orgs \cup {Null}) \X (Emps \cup {Null})
  BY <1>3 DEF KeyOf
<1>5. {c.id : c \in G} \in SUBSET Ids
  BY <1>2
<1>. QED
  BY <1>4, <1>5 DEF RuleRows

LEMMA JoinedTyped ==
  ASSUME Inv, NEW f \in Fuentes \cup {Bogus}, NEW r \in Rules
  PROVE  RuleFrame(r, Joined(f)) \subseteq RuleRows
PROOF
<1>1. \A i \in SliceContracts(f) : RowOK(f, i)
  BY DEF Inv, RowsInv, SliceContracts
<1>2. \A c \in Joined(f) : /\ c.id \in Ids
                           /\ c.org \in Orgs /\ c.prov \in Emps
                           /\ c.rut \in Emps \cup {Null}
  BY <1>1 DEF Joined, JoinedRow, SliceContracts, RowOK, EmpRut
<1>. QED
  BY <1>2, FrameTyped

(* A request moves to statement p with these locals, and they suit it.     *)
Moved(w, p, f, S, T, Q, r, H) ==
  /\ pc' = [pc EXCEPT ![w] = p] /\ fu' = [fu EXCEPT ![w] = f]
  /\ con' = [con EXCEPT ![w] = S] /\ todo' = [todo EXCEPT ![w] = T]
  /\ cola' = [cola EXCEPT ![w] = Q] /\ rule' = [rule EXCEPT ![w] = r]
  /\ hecho' = [hecho EXCEPT ![w] = H]

Suits(p, f, S, T) ==
  /\ p \in Free \cup LoadPcs \cup DetectPcs
  /\ f \in Fuentes \cup {Bogus, Null}
  /\ S \subseteq Ids
  /\ T \subseteq Orgs \cup Emps \cup Ids \cup RuleRows \cup {Bogus}
  /\ T \subseteq TodoOf(p)
  /\ p \in LoadPcs => f \in Zips /\ S \subseteq ConIds(f)
  /\ p \in InSlice => f # Null
  /\ p = "ins_contrato" => T \subseteq Kept(f, S)

LEMMA MoveReq ==
  ASSUME ReqInv, NEW w \in Workers, NEW p, NEW f, NEW S, NEW T,
         NEW Q \in SUBSET (Fuentes \cup {Bogus}), NEW r \in Rules,
         NEW H \in SUBSET (Fuentes \cup {Bogus}),
         Moved(w, p, f, S, T, Q, r, H), Suits(p, f, S, T)
  PROVE  ReqInv'
PROOF
<1>1. /\ pc' \in [Workers -> Free \cup LoadPcs \cup DetectPcs]
      /\ fu' \in [Workers -> Fuentes \cup {Bogus, Null}]
      /\ con' \in [Workers -> SUBSET Ids]
      /\ todo' \in [Workers -> SUBSET (Orgs \cup Emps \cup Ids \cup RuleRows \cup {Bogus})]
      /\ cola' \in [Workers -> SUBSET (Fuentes \cup {Bogus})]
      /\ rule' \in [Workers -> Rules]
      /\ hecho' \in [Workers -> SUBSET (Fuentes \cup {Bogus})]
  BY DEF Moved, Suits, ReqInv, RequestsTyped
<1>2. \A v \in Workers : v # w =>
        /\ pc'[v] = pc[v] /\ fu'[v] = fu[v] /\ con'[v] = con[v] /\ todo'[v] = todo[v]
  BY DEF Moved, ReqInv, RequestsTyped
<1>3. pc'[w] = p /\ fu'[w] = f /\ con'[w] = S /\ todo'[w] = T
  BY DEF Moved, ReqInv, RequestsTyped
<1>4. \A v \in Workers :
        /\ pc'[v] \in LoadPcs => fu'[v] \in Zips /\ con'[v] \subseteq ConIds(fu'[v])
        /\ pc'[v] \in InSlice => fu'[v] # Null
        /\ todo'[v] \subseteq TodoOf(pc'[v])
        /\ pc'[v] = "ins_contrato" => todo'[v] \subseteq Kept(fu'[v], con'[v])
  BY <1>2, <1>3 DEF Suits, ReqInv, RequestsTyped, TodoInv
<1>. QED
  BY <1>1, <1>4 DEF ReqInv, RequestsTyped, TodoInv

LEMMA ReturnReq ==
  ASSUME ReqInv, NEW w \in Workers, NEW label \in Free, Return(w, label)
  PROVE  ReqInv'
PROOF
<1>1. Suits(label, Null, {}, {})
  BY DEF Suits, InSlice, Free, LoadPcs, FetchOf, AfterFetch
<1>2. FirstRule \in Rules
  BY DEF FirstRule, Rules
<1>3. Moved(w, label, Null, {}, {}, {}, FirstRule, {})
  BY DEF Return, Goto, Moved
<1>. QED
  BY <1>1, <1>2, <1>3, MoveReq

(* A statement that changes no local but perhaps todo.                     *)
LEMMA GotoReq ==
  ASSUME ReqInv, NEW w \in Workers, NEW p, NEW T,
         Goto(w, p), todo' = [todo EXCEPT ![w] = T], UNCHANGED <<fu, con, cola, rule, hecho>>,
         Suits(p, fu[w], con[w], T)
  PROVE  ReqInv'
PROOF
<1>1. Moved(w, p, fu[w], con[w], T, cola[w], rule[w], hecho[w])
  BY DEF Moved, Goto, ReqInv, RequestsTyped
<1>2. /\ rule[w] \in Rules /\ cola[w] \in SUBSET (Fuentes \cup {Bogus})
      /\ hecho[w] \in SUBSET (Fuentes \cup {Bogus})
  BY DEF ReqInv, RequestsTyped
<1>. QED
  BY <1>1, <1>2, MoveReq

LEMMA RowDoneReq ==
  ASSUME ReqInv, NEW w \in Workers, NEW row, NEW all, NEW label \in LoadPcs, NEW frame,
         pc[w] \in {"ins_organismo", "ins_empresa", "ins_contrato"},
         RowDone(w, row, all, label, frame),
         frame \subseteq TodoOf(label),
         frame \subseteq Orgs \cup Emps \cup Ids,
         label = "ins_contrato" => frame \subseteq Kept(fu[w], con[w])
  PROVE  ReqInv'
PROOF
<1> DEFINE rest == todo[w] \ {row}
           p == IF rest = {} THEN label ELSE pc[w]
           T == IF rest = {} THEN frame ELSE rest
<1>1. /\ Goto(w, p) /\ todo' = [todo EXCEPT ![w] = T]
      /\ UNCHANGED <<fu, con, cola, rule, hecho>>
  BY DEF RowDone
<1>2. pc[w] \in LoadPcs
  BY DEF LoadPcs
<1>3. p \in LoadPcs /\ fu[w] \in Zips /\ con[w] \subseteq ConIds(fu[w])
  BY <1>2 DEF ReqInv, RequestsTyped
<1>4. p \notin InSlice
  BY <1>3 DEF LoadPcs, FetchOf, AfterFetch, InSlice
<1>5. T \subseteq TodoOf(p) /\ T \subseteq Orgs \cup Emps \cup Ids \cup RuleRows \cup {Bogus}
  BY DEF ReqInv, RequestsTyped
<1>6. p = "ins_contrato" => T \subseteq Kept(fu[w], con[w])
  BY DEF ReqInv, TodoInv
<1>7. fu[w] \in Fuentes \cup {Bogus, Null} /\ con[w] \subseteq Ids
  BY DEF ReqInv, RequestsTyped
<1>8. Suits(p, fu[w], con[w], T)
  BY <1>3, <1>4, <1>5, <1>6, <1>7 DEF Suits
<1>. QED
  BY <1>1, <1>8, GotoReq

(* The results the statements leave.                                       *)
LEMMA ResultsTyped ==
  /\ NoResult \in Results /\ CountResult \in Results /\ DmlResult \in Results
  /\ \A F \in SUBSET Fuentes : FuentesResult(F) \in Results
  /\ \A r \in Rules, fr \in SUBSET RuleRows : RuleResult(r, fr) \in Results
PROOF
BY DEF NoResult, CountResult, DmlResult, FuentesResult, RuleResult, Results

(* A part of a result is a result of the same kind.                        *)
LEMMA RestsTyped ==
  ASSUME NEW res \in Results, NEW rest \in Rests(res)
  PROVE  rest \in Results /\ rest.kind = res.kind /\ rest.rows \subseteq res.rows
PROOF
<1>1. PICK S \in SUBSET res.rows : rest = [res EXCEPT !.rows = S]
  BY DEF Rests
<1>2. rest = [kind |-> res.kind, rows |-> S]
  BY <1>1 DEF Results
<1>. QED
  BY <1>2 DEF Results

LEMMA WithoutTyped ==
  ASSUME NEW D, NEW table \in [D -> Fuentes \cup {Null}], NEW f
  PROVE  /\ Without(table, f) \in [D -> Fuentes \cup {Null}]
         /\ \A k \in D : Without(table, f)[k] = IF table[k] = f THEN Null ELSE table[k]
PROOF
BY DEF Without

-----------------------------------------------------------------------------
(* Every step keeps Inv.                                                   *)

LEMMA InvInit == Init => Inv
PROOF
<1>1. Init => TablesTyped /\ cursor \in Results
  BY ResultsTyped DEF Init, TablesTyped
<1>2. Init => ReqInv
  BY DEF Init, ReqInv, RequestsTyped, TodoInv, InSlice, Free, LoadPcs, FetchOf, AfterFetch,
         FirstRule, Rules
<1>3. Init => RowsInv
  BY DEF Init, RowsInv
<1>. QED
  BY <1>1, <1>2, <1>3 DEF Inv, ReqInv

LEMMA RaiseInv ==
  ASSUME Inv, NEW w \in Workers, NEW label \in Free, Raise(w, label)
  PROVE  Inv'
PROOF
<1>1. ReqInv'
  BY ReturnReq DEF Raise, Inv, ReqInv
<1>2. UNCHANGED tables /\ cursor' \in Results
  BY ResultsTyped DEF Raise
<1>. QED
  BY <1>1, <1>2 DEF Inv, ReqInv, TablesTyped, RowsInv, tables

(* A statement that touches no table keeps Inv if it keeps the rest.       *)
LEMMA ReadInv ==
  ASSUME Inv, UNCHANGED tables, cursor' \in Results, ReqInv'
  PROVE  Inv'
PROOF
BY DEF Inv, ReqInv, TablesTyped, RowsInv, tables

(* Locals as they are, at another statement where they suit.               *)
LEMMA SameLocals ==
  ASSUME Inv, NEW w \in Workers, NEW p, Goto(w, p), UNCHANGED locals,
         Suits(p, fu[w], con[w], todo[w])
  PROVE  ReqInv'
PROOF
<1>1. todo' = [todo EXCEPT ![w] = todo[w]]
  BY DEF Inv, RequestsTyped, locals
<1>. QED
  BY <1>1, GotoReq DEF locals, Inv, ReqInv

(* What a request's locals are like.                                       *)
LEMMA Locals ==
  ASSUME Inv, NEW w \in Workers
  PROVE  /\ fu[w] \in Fuentes \cup {Bogus, Null} /\ con[w] \subseteq Ids
         /\ rule[w] \in Rules /\ cola[w] \in SUBSET (Fuentes \cup {Bogus})
         /\ hecho[w] \in SUBSET (Fuentes \cup {Bogus})
         /\ todo[w] \subseteq TodoOf(pc[w])
         /\ todo[w] \subseteq Orgs \cup Emps \cup Ids \cup RuleRows \cup {Bogus}
         /\ pc[w] \in LoadPcs => fu[w] \in Zips /\ con[w] \in SUBSET ConIds(fu[w])
         /\ pc[w] \in InSlice => fu[w] \in Fuentes \cup {Bogus}
         /\ pc[w] = "ins_contrato" => todo[w] \subseteq Kept(fu[w], con[w])
PROOF
BY DEF Inv, RequestsTyped, TodoInv, InSlice

LEMMA InvLoad ==
  ASSUME Inv, NEW w \in Workers, Load(w)
  PROVE  Inv'
PROOF
<1> USE DEF Inv
<1>1. CASE DeleteContrato(w)
  <2>1. Suits("del_alerta", fu[w], con[w], todo[w])
    BY <1>1, Locals DEF DeleteContrato, Suits, TodoOf, LoadPcs, InSlice, FetchOf, AfterFetch
  <2>2. ReqInv'
    BY <1>1, <2>1, SameLocals DEF DeleteContrato
  <2>3. contrato' \in [Ids -> Fuentes \cup {Null}] /\ RowsInv'
    BY <1>1, WithoutTyped DEF DeleteContrato, TablesTyped, RowsInv
  <2>. QED
    BY <1>1, <2>2, <2>3, ResultsTyped DEF DeleteContrato, Wrote, TablesTyped, ReqInv
<1>2. CASE DeleteAlerta(w)
  <2>1. Suits("del_empresa", fu[w], con[w], todo[w])
    BY <1>2, Locals DEF DeleteAlerta, Suits, TodoOf, LoadPcs, InSlice, FetchOf, AfterFetch
  <2>2. ReqInv'
    BY <1>2, <2>1, SameLocals DEF DeleteAlerta
  <2>3. alerta' \subseteq AlertRows
    BY <1>2 DEF DeleteAlerta, TablesTyped
  <2>. QED
    BY <1>2, <2>2, <2>3, ResultsTyped DEF DeleteAlerta, Wrote, TablesTyped, ReqInv, RowsInv
<1>3. CASE DeleteEmpresa(w)
  <2>1. CASE \E k \in Emps : empresa[k] = fu[w] /\ EmpresaReferenced(k)
    BY <1>3, <2>1, RaiseInv DEF DeleteEmpresa, FailLoad, Free
  <2>2. CASE ~ \E k \in Emps : empresa[k] = fu[w] /\ EmpresaReferenced(k)
    <3>1. Suits("del_organismo", fu[w], con[w], todo[w])
      BY <1>3, Locals DEF DeleteEmpresa, Suits, TodoOf, LoadPcs, InSlice, FetchOf, AfterFetch
    <3>2. ReqInv'
      BY <1>3, <2>2, <3>1, SameLocals DEF DeleteEmpresa
    <3>3. empresa' \in [Emps -> Fuentes \cup {Null}]
      BY <1>3, <2>2, WithoutTyped DEF DeleteEmpresa, TablesTyped
    <3>. QED
      BY <1>3, <2>2, <3>2, <3>3, ResultsTyped DEF DeleteEmpresa, Wrote, TablesTyped, ReqInv, RowsInv
  <2>. QED
    BY <2>1, <2>2
<1>4. CASE DeleteOrganismo(w)
  <2>1. CASE \E k \in Orgs : organismo[k] = fu[w] /\ OrganismoReferenced(k)
    BY <1>4, <2>1, RaiseInv DEF DeleteOrganismo, FailLoad, Free
  <2>2. CASE ~ \E k \in Orgs : organismo[k] = fu[w] /\ OrganismoReferenced(k)
    <3>1. Suits("ins_organismo", fu[w], con[w], OrgFrame(fu[w], con[w]))
      BY <1>4, Locals, FramesAreKeys, TodoOfPc
         DEF DeleteOrganismo, Suits, LoadPcs, InSlice, FetchOf, AfterFetch
    <3>2. ReqInv'
      BY <1>4, <2>2, <3>1, GotoReq DEF DeleteOrganismo, ReqInv
    <3>3. organismo' \in [Orgs -> Fuentes \cup {Null}]
      BY <1>4, <2>2, WithoutTyped DEF DeleteOrganismo, TablesTyped
    <3>. QED
      BY <1>4, <2>2, <3>2, <3>3, ResultsTyped DEF DeleteOrganismo, Wrote, TablesTyped, ReqInv, RowsInv
  <2>. QED
    BY <2>1, <2>2
<1>5. CASE NothingToInsert(w)
  BY <1>5, RaiseInv DEF NothingToInsert, FailLoad, Free
<1>6. CASE InsertOrganismo(w)
  <2>1. PICK k \in todo[w] :
          /\ organismo' = [organismo EXCEPT ![k] = IF @ = Null THEN fu[w] ELSE @]
          /\ RowDone(w, k, OrgFrame(fu[w], con[w]), "ins_empresa", EmpFrame(fu[w], con[w]))
    BY <1>6 DEF InsertOrganismo
  <2>2. ReqInv'
    <3>1. EmpFrame(fu[w], con[w]) \subseteq TodoOf("ins_empresa")
          /\ EmpFrame(fu[w], con[w]) \subseteq Emps
      BY <1>6, Locals, FramesAreKeys, TodoOfPc DEF InsertOrganismo, LoadPcs
    <3>2. "ins_empresa" \in LoadPcs /\ pc[w] = "ins_organismo"
      BY <1>6 DEF InsertOrganismo, LoadPcs
    <3>. QED
      BY <2>1, <3>1, <3>2, RowDoneReq DEF ReqInv
  <2>3. organismo' \in [Orgs -> Fuentes \cup {Null}] /\ cursor' \in Results
    BY <1>6, <2>1, Locals, ResultsTyped DEF InsertOrganismo, RowDone, TablesTyped, LoadPcs
  <2>. QED
    BY <1>6, <2>2, <2>3 DEF InsertOrganismo, TablesTyped, ReqInv, RowsInv
<1>7. CASE InsertEmpresa(w)
  <2>1. PICK k \in todo[w] :
          /\ empresa' = [empresa EXCEPT ![k] = IF @ = Null THEN fu[w] ELSE @]
          /\ RowDone(w, k, EmpFrame(fu[w], con[w]), "ins_contrato", Kept(fu[w], con[w]))
    BY <1>7 DEF InsertEmpresa
  <2>2. ReqInv'
    <3>1. Kept(fu[w], con[w]) \subseteq TodoOf("ins_contrato")
          /\ Kept(fu[w], con[w]) \subseteq Ids
      BY <1>7, Locals, FramesAreKeys, TodoOfPc DEF InsertEmpresa, LoadPcs
    <3>2. "ins_contrato" \in LoadPcs /\ pc[w] = "ins_empresa"
      BY <1>7 DEF InsertEmpresa, LoadPcs
    <3>. QED
      BY <2>1, <3>1, <3>2, RowDoneReq DEF ReqInv
  <2>3. empresa' \in [Emps -> Fuentes \cup {Null}] /\ cursor' \in Results
    BY <1>7, <2>1, Locals, ResultsTyped DEF InsertEmpresa, RowDone, TablesTyped, LoadPcs
  <2>. QED
    BY <1>7, <2>2, <2>3 DEF InsertEmpresa, TablesTyped, ReqInv, RowsInv
<1>8. CASE InsertContrato(w)
  <2>1. PICK i \in todo[w] :
          IF contrato[i] = Null /\ ~Anchored(fu[w], i)
            THEN FailLoad(w)
            ELSE /\ contrato' = [contrato EXCEPT ![i] = IF @ = Null THEN fu[w] ELSE @]
                 /\ RowDone(w, i, Kept(fu[w], con[w]), "count_organismo", {})
                 /\ UNCHANGED <<organismo, empresa, alerta>>
    BY <1>8 DEF InsertContrato
  <2>2. CASE contrato[i] = Null /\ ~Anchored(fu[w], i)
    BY <2>1, <2>2, RaiseInv DEF FailLoad, Free
  <2>3. CASE ~ (contrato[i] = Null /\ ~Anchored(fu[w], i))
    <3>1. fu[w] \in Zips /\ con[w] \in SUBSET ConIds(fu[w]) /\ i \in Kept(fu[w], con[w])
      BY <1>8, Locals DEF InsertContrato, LoadPcs
    <3>2. RowOK(fu[w], i) /\ i \in Ids
      BY <3>1, KeptRows, FramesAreKeys DEF RowOK
    <3>3. ReqInv'
      <4>1. "count_organismo" \in LoadPcs /\ pc[w] = "ins_contrato"
        BY <1>8 DEF InsertContrato, LoadPcs, FetchOf
      <4>. QED
        BY <2>1, <2>3, <4>1, RowDoneReq DEF ReqInv
    <3>4. contrato' \in [Ids -> Fuentes \cup {Null}] /\ RowsInv'
      BY <2>1, <2>3, <3>1, <3>2 DEF TablesTyped, RowsInv
    <3>5. cursor' \in Results
      BY <2>1, <2>3, ResultsTyped DEF RowDone
    <3>. QED
      BY <2>1, <2>3, <3>3, <3>4, <3>5 DEF TablesTyped, ReqInv
  <2>. QED
    BY <2>2, <2>3
<1>9. CASE Count(w)
  <2>1. Suits(FetchOf[pc[w]], fu[w], con[w], todo[w])
    BY <1>9, Locals, TodoOfPc DEF Count, Suits, LoadPcs, InSlice, FetchOf, AfterFetch
  <2>2. ReqInv'
    BY <1>9, <2>1, SameLocals DEF Count
  <2>. QED
    BY <1>9, <2>2, ResultsTyped, ReadInv DEF Count
<1>10. CASE FetchCount(w)
  <2>1. UNCHANGED tables /\ cursor' \in Results
    BY <1>10, ResultsTyped, RestsTyped DEF FetchCount, FetchedOne
  <2>2. CASE ~HasRow(cursor) \/ pc[w] = "fetch_contrato"
    <3>1. PICK label \in Free : Return(w, label)
      BY <1>10, <2>2 DEF FetchCount, Free
    <3>. QED
      BY <2>1, <3>1, ReturnReq, ReadInv DEF ReqInv
  <2>3. CASE HasRow(cursor) /\ pc[w] # "fetch_contrato"
    <3>1. PICK wrong \in {todo[w], {Bogus}} :
            /\ Goto(w, AfterFetch[pc[w]]) /\ todo' = [todo EXCEPT ![w] = wrong]
            /\ UNCHANGED <<fu, con, cola, rule, hecho>>
      BY <1>10, <2>3 DEF FetchCount, WrongAfter
    <3>2. Suits(AfterFetch[pc[w]], fu[w], con[w], wrong)
      BY <1>10, <2>3, Locals, TodoOfPc DEF FetchCount, Suits, LoadPcs, InSlice, FetchOf, AfterFetch
    <3>3. ReqInv'
      BY <3>1, <3>2, GotoReq DEF ReqInv
    <3>. QED
      BY <2>1, <3>3, ReadInv
  <2>. QED
    BY <2>2, <2>3
<1>. QED
  BY <1>1, <1>2, <1>3, <1>4, <1>5, <1>6, <1>7, <1>8, <1>9, <1>10 DEF Load

(* RuleDone goes on to statements that suit any locals but todo.           *)
LEMMA RuleDoneReq ==
  ASSUME Inv, NEW w \in Workers, pc[w] \in {"fetch_rule", "ins_alert"},
         RuleDone(w), todo' = [todo EXCEPT ![w] = {}], UNCHANGED <<fu, con, cola>>
  PROVE  ReqInv'
PROOF
<1>1. PICK p \in {"total", "query"}, r \in Rules, H \in {hecho[w], hecho[w] \cup {fu[w]}} :
        /\ pc' = [pc EXCEPT ![w] = p] /\ rule' = [rule EXCEPT ![w] = r]
        /\ hecho' = [hecho EXCEPT ![w] = H]
  <2>1. CASE rule[w] = LastRule
    BY <2>1 DEF RuleDone, Goto, Inv, RequestsTyped, FirstRule, Rules
  <2>2. CASE rule[w] # LastRule
    <3>1. NextRule[rule[w]] \in Rules
      BY DEF Inv, RequestsTyped, NextRule, Rules
    <3>2. hecho' = [hecho EXCEPT ![w] = hecho[w]]
      BY <2>2 DEF RuleDone, Inv, RequestsTyped
    <3>. QED
      BY <2>2, <3>1, <3>2 DEF RuleDone, Goto
  <2>. QED
    BY <2>1, <2>2
<1>2. fu[w] \in Fuentes \cup {Bogus}
  BY Locals DEF InSlice
<1>3. Suits(p, fu[w], con[w], {})
  BY <1>2, Locals DEF Suits, DetectPcs, LoadPcs, FetchOf, AfterFetch
<1>4. Moved(w, p, fu[w], con[w], {}, cola[w], r, H)
  BY <1>1 DEF Moved, Inv, RequestsTyped
<1>5. H \in SUBSET (Fuentes \cup {Bogus}) /\ cola[w] \in SUBSET (Fuentes \cup {Bogus})
  BY <1>2, Locals
<1>. QED
  BY <1>3, <1>4, <1>5, MoveReq DEF Inv, ReqInv

LEMMA InvDetect ==
  ASSUME Inv, NEW w \in Workers, Detect(w)
  PROVE  Inv'
PROOF
<1> USE DEF Inv
<1>1. CASE ListFuentes(w)
  <2>1. Suits("fetch_list", fu[w], con[w], todo[w])
    BY <1>1, Locals DEF ListFuentes, Suits, TodoOf, DetectPcs, LoadPcs, InSlice, FetchOf, AfterFetch
  <2>2. ReqInv'
    BY <1>1, <2>1, SameLocals DEF ListFuentes
  <2>3. cursor' \in Results
    BY <1>1, ResultsTyped DEF ListFuentes
  <2>. QED
    BY <1>1, <2>2, <2>3, ReadInv DEF ListFuentes
<1>2. CASE FetchFuentes(w)
  <2>1. UNCHANGED tables /\ cursor' \in Results
    BY <1>2, ResultsTyped DEF FetchFuentes
  <2>2. CASE Return(w, "detect_failed")
    BY <2>1, <2>2, ReturnReq, ReadInv DEF ReqInv, Free
  <2>3. CASE /\ cola' = [cola EXCEPT ![w] = FirstColumn(cursor)]
             /\ Goto(w, "total")
             /\ UNCHANGED <<fu, con, todo, rule, hecho>>
    <3>1. FirstColumn(cursor) \in SUBSET (Fuentes \cup {Bogus})
      BY DEF FirstColumn, Results, Rules
    <3>2. Suits("total", fu[w], con[w], {}) /\ todo[w] = {}
      BY <1>2, Locals DEF FetchFuentes, Suits, TodoOf, DetectPcs, LoadPcs, InSlice, FetchOf, AfterFetch
    <3>3. Moved(w, "total", fu[w], con[w], {}, FirstColumn(cursor), rule[w], hecho[w])
      BY <2>3, <3>2 DEF Moved, Goto, RequestsTyped
    <3>4. ReqInv'
      BY <3>1, <3>2, <3>3, Locals, MoveReq DEF ReqInv
    <3>. QED
      BY <2>1, <3>4, ReadInv
  <2>. QED
    BY <1>2, <2>2, <2>3 DEF FetchFuentes
<1>3. CASE CountTotal(w)
  <2>1. PICK f \in cola[w] :
          \/ /\ fu' = [fu EXCEPT ![w] = f]
             /\ cola' = [cola EXCEPT ![w] = @ \ {f}]
             /\ cursor' = CountResult
             /\ Goto(w, "fetch_total")
             /\ UNCHANGED <<tables, con, todo, rule, hecho>>
          \/ f = Bogus /\ FailDetect(w)
    BY <1>3 DEF CountTotal
  <2>2. CASE FailDetect(w)
    BY <2>2, RaiseInv DEF FailDetect, Free
  <2>3. CASE /\ fu' = [fu EXCEPT ![w] = f]
             /\ cola' = [cola EXCEPT ![w] = @ \ {f}]
             /\ cursor' = CountResult
             /\ Goto(w, "fetch_total")
             /\ UNCHANGED <<tables, con, todo, rule, hecho>>
    <3>1. f \in Fuentes \cup {Bogus} /\ f # Null
      BY Locals
    <3>2. Suits("fetch_total", f, con[w], {}) /\ todo[w] = {}
      BY <1>3, <3>1, Locals
         DEF CountTotal, Suits, TodoOf, DetectPcs, LoadPcs, InSlice, FetchOf, AfterFetch
    <3>3. Moved(w, "fetch_total", f, con[w], {}, cola[w] \ {f}, rule[w], hecho[w])
      BY <2>3, <3>2 DEF Moved, Goto, RequestsTyped
    <3>4. ReqInv'
      BY <3>2, <3>3, Locals, MoveReq DEF ReqInv
    <3>. QED
      BY <2>3, <3>4, ResultsTyped, ReadInv
  <2>. QED
    BY <2>1, <2>2, <2>3
<1>4. CASE FetchTotal(w)
  <2>1. UNCHANGED tables /\ cursor' \in Results
    BY <1>4, ResultsTyped, RestsTyped DEF FetchTotal, FetchedOne
  <2>2. CASE IsNumber(cursor)
    <3>1. Suits("del_patron", fu[w], con[w], todo[w])
      BY <1>4, Locals DEF FetchTotal, Suits, TodoOf, DetectPcs, LoadPcs, InSlice, FetchOf, AfterFetch
    <3>2. ReqInv'
      BY <1>4, <2>2, <3>1, SameLocals DEF FetchTotal
    <3>. QED
      BY <2>1, <3>2, ReadInv
  <2>3. CASE ~IsNumber(cursor)
    BY <1>4, <2>1, <2>3, ReturnReq, ReadInv DEF FetchTotal, ReqInv, Free
  <2>. QED
    BY <2>2, <2>3
<1>5. CASE DeletePatron(w)
  <2>1. Suits("query", fu[w], con[w], todo[w])
    BY <1>5, Locals DEF DeletePatron, Suits, TodoOf, DetectPcs, LoadPcs, InSlice, FetchOf, AfterFetch
  <2>2. ReqInv'
    BY <1>5, <2>1, SameLocals DEF DeletePatron
  <2>3. alerta' \subseteq AlertRows
    BY <1>5 DEF DeletePatron, TablesTyped
  <2>. QED
    BY <1>5, <2>2, <2>3, ResultsTyped DEF DeletePatron, Wrote, TablesTyped, ReqInv, RowsInv
<1>6. CASE QueryRule(w)
  <2>1. Suits("fetch_rule", fu[w], con[w], todo[w])
    BY <1>6, Locals DEF QueryRule, Suits, TodoOf, DetectPcs, LoadPcs, InSlice, FetchOf, AfterFetch
  <2>2. ReqInv'
    BY <1>6, <2>1, SameLocals DEF QueryRule
  <2>3. RuleFrame(rule[w], Joined(fu[w])) \in SUBSET RuleRows
    BY <1>6, Locals, JoinedTyped DEF QueryRule, InSlice
  <2>4. cursor' \in Results
    BY <1>6, <2>3, Locals, ResultsTyped DEF QueryRule
  <2>. QED
    BY <1>6, <2>2, <2>4, ReadInv DEF QueryRule
<1>7. CASE FetchRule(w)
  <2>1. UNCHANGED tables /\ cursor' \in Results
    BY <1>7, ResultsTyped DEF FetchRule
  <2>2. CASE Return(w, "detect_failed")
    BY <2>1, <2>2, ReturnReq, ReadInv DEF ReqInv, Free
  <2>3. CASE /\ cursor.kind = rule[w] /\ cursor.rows # {}
             /\ todo' = [todo EXCEPT ![w] = cursor.rows]
             /\ Goto(w, "ins_alert")
             /\ UNCHANGED <<fu, con, cola, rule, hecho>>
    <3>1. cursor.rows \subseteq RuleRows
      BY <2>3, Locals DEF Results, Rules
    <3>2. Suits("ins_alert", fu[w], con[w], cursor.rows)
      BY <1>7, <3>1, Locals, TodoOfPc
         DEF FetchRule, Suits, DetectPcs, LoadPcs, InSlice, FetchOf, AfterFetch
    <3>3. ReqInv'
      BY <2>3, <3>2, GotoReq DEF ReqInv
    <3>. QED
      BY <2>1, <3>3, ReadInv
  <2>4. CASE ~HasRow(cursor) /\ RuleDone(w) /\ UNCHANGED <<fu, con, todo, cola>>
    <3>1. todo' = [todo EXCEPT ![w] = {}]
      BY <1>7, <2>4, Locals DEF FetchRule, TodoOf, FetchOf, AfterFetch, RequestsTyped
    <3>2. ReqInv'
      BY <1>7, <2>4, <3>1, RuleDoneReq DEF FetchRule
    <3>. QED
      BY <2>1, <3>2, ReadInv
  <2>. QED
    BY <1>7, <2>2, <2>3, <2>4 DEF FetchRule
<1>8. CASE InsertAlert(w)
  <2>1. PICK row \in todo[w] :
          IF \E a \in alerta : SameId(a, Alert(rule[w], row, fu[w]))
            THEN FailDetect(w)
            ELSE /\ alerta' = alerta \cup {Alert(rule[w], row, fu[w])}
                 /\ todo' = [todo EXCEPT ![w] = todo[w] \ {row}]
                 /\ Wrote
                 /\ IF todo[w] \ {row} = {} THEN RuleDone(w) ELSE UNCHANGED <<pc, rule, hecho>>
                 /\ UNCHANGED <<organismo, empresa, contrato, fu, con, cola>>
    BY <1>8 DEF InsertAlert
  <2>2. CASE FailDetect(w)
    BY <2>2, RaiseInv DEF FailDetect, Free
  <2>3. CASE ~FailDetect(w)
    <3>1. pc[w] = "ins_alert" /\ row \in RuleRows /\ fu[w] \in Fuentes \cup {Bogus} /\ rule[w] \in Rules
      BY <1>8, Locals, TodoOfPc DEF InsertAlert, InSlice
    <3>2. alerta' \subseteq AlertRows
      BY <2>1, <2>3, <3>1 DEF Alert, RuleRows, AlertRows, TablesTyped
    <3>3. ReqInv'
      <4>1. CASE todo[w] \ {row} = {}
        BY <2>1, <2>3, <3>1, <4>1, RuleDoneReq
      <4>2. CASE todo[w] \ {row} # {}
        <5>1. Goto(w, pc[w])
          BY <2>1, <2>3, <4>2 DEF Goto, RequestsTyped
        <5>2. Suits(pc[w], fu[w], con[w], todo[w] \ {row})
          BY <3>1, Locals DEF Suits, DetectPcs, LoadPcs, InSlice, FetchOf, AfterFetch
        <5>. QED
          BY <2>1, <2>3, <4>2, <5>1, <5>2, GotoReq DEF ReqInv
      <4>. QED
        BY <4>1, <4>2
    <3>. QED
      BY <2>1, <2>3, <3>2, <3>3, ResultsTyped DEF Wrote, TablesTyped, ReqInv, RowsInv
  <2>. QED
    BY <2>2, <2>3
<1>9. CASE DetectReturns(w)
  BY <1>9, ReturnReq, ReadInv DEF DetectReturns, ReqInv, Free
<1>. QED
  BY <1>1, <1>2, <1>3, <1>4, <1>5, <1>6, <1>7, <1>8, <1>9 DEF Detect

LEMMA InvArrive ==
  ASSUME Inv, NEW w \in Workers, Arrive(w)
  PROVE  Inv'
PROOF
<1> USE DEF Inv
<1>1. ASSUME NEW f \in Fuentes, StartLoad(w, f) PROVE Inv'
  <2>1. UNCHANGED tables /\ UNCHANGED cursor
    BY <1>1 DEF StartLoad
  <2>2. CASE f \in Zips
    <3>1. PICK S \in SUBSET ConIds(f) : con' = [con EXCEPT ![w] = S]
      BY <1>1, <2>2, SlicesAreParts DEF StartLoad
    <3>2. S \subseteq Ids
      BY <2>2, FramesAreKeys
    <3>3. todo[w] = {}
      BY <1>1, Locals DEF StartLoad, TodoOf, Free, FetchOf, AfterFetch
    <3>4. Suits("del_contrato", f, S, {})
      BY <2>2, <3>2 DEF Suits, LoadPcs, InSlice
    <3>5. Moved(w, "del_contrato", f, S, {}, cola[w], rule[w], hecho[w])
      BY <1>1, <2>2, <3>1, <3>3 DEF StartLoad, Moved, Goto, RequestsTyped
    <3>6. ReqInv'
      BY <3>4, <3>5, Locals, MoveReq DEF ReqInv
    <3>. QED
      BY <2>1, <3>6, ReadInv
  <2>3. CASE f \notin Zips
    <3>1. ReqInv'
      BY <1>1, <2>3, ReturnReq DEF StartLoad, ReqInv, Free
    <3>. QED
      BY <2>1, <3>1, ReadInv
  <2>. QED
    BY <2>2, <2>3
<1>2. ASSUME NEW f \in Fuentes \cup {Null}, StartDetect(w, f) PROVE Inv'
  <2>1. UNCHANGED tables /\ UNCHANGED cursor
    BY <1>2 DEF StartDetect
  <2>2. PICK p \in {"list", "total"}, Q \in SUBSET (Fuentes \cup {Bogus}) :
          Goto(w, p) /\ cola' = [cola EXCEPT ![w] = Q]
    <3>1. cola[w] \in SUBSET (Fuentes \cup {Bogus}) /\ cola = [cola EXCEPT ![w] = cola[w]]
      BY Locals DEF RequestsTyped
    <3>. QED
      BY <1>2, <3>1 DEF StartDetect
  <2>3. Suits(p, fu[w], con[w], {}) /\ todo[w] = {}
    BY <1>2, Locals DEF StartDetect, Suits, TodoOf, Free, DetectPcs, LoadPcs, InSlice, FetchOf, AfterFetch
  <2>4. Moved(w, p, fu[w], con[w], {}, Q, rule[w], hecho[w])
    BY <1>2, <2>2, <2>3 DEF StartDetect, Moved, Goto, RequestsTyped
  <2>5. ReqInv'
    BY <2>3, <2>4, Locals, MoveReq DEF ReqInv
  <2>. QED
    BY <2>1, <2>5, ReadInv
<1>. QED
  BY <1>1, <1>2 DEF Arrive

LEMMA InvRestart ==
  ASSUME Inv, Restart
  PROVE  Inv'
PROOF
<1>1. ReqInv'
  BY DEF Restart, Reopen, ReqInv, RequestsTyped, TodoInv, InSlice, Free, LoadPcs, FetchOf, AfterFetch,
         FirstRule, Rules
<1>. QED
  BY <1>1, ResultsTyped, ReadInv DEF Restart, Reopen

LEMMA InvOther ==
  ASSUME Inv, OtherStatement
  PROVE  Inv'
PROOF
<1>1. cursor' \in Results
  <2>1. Foreign \subseteq Results
    BY ForeignAssumption DEF NoResult, CountResult, DmlResult, NoRows, SomeRows, Results
  <2>. QED
    BY <2>1, RestsTyped DEF OtherStatement, Inv
<1>. QED
  BY <1>1 DEF OtherStatement, Inv, TablesTyped, RequestsTyped, RowsInv, TodoInv, tables, locals

LEMMA InvNext == Inv /\ [Next]_vars => Inv'
PROOF
<1>1. Inv /\ Next => Inv'
  BY InvLoad, InvDetect, InvArrive, InvOther, InvRestart DEF Next, Serve
<1>2. Inv /\ UNCHANGED vars => Inv'
  BY DEF Inv, TablesTyped, RequestsTyped, RowsInv, TodoInv, vars, tables, locals
<1>. QED
  BY <1>1, <1>2

LEMMA SpecInv == Spec => []Inv
PROOF
BY InvInit, InvNext, PTL DEF Spec

(* Every state of the two endpoints' tables, requests and connection is    *)
(* well formed, for all threads, slices and files.                         *)
THEOREM TypeCorrect == Spec => []TypeOK
PROOF
<1>1. Inv => TypeOK
  BY DEF Inv
<1>. QED
  BY <1>1, SpecInv, PTL
-----------------------------------------------------------------------------
(* Foreign keys: a parent row that a contract has stays in its table, and  *)
(* stays of the same slice, whatever step is taken.                        *)
LEMMA ParentsStay ==
  ASSUME Inv, ContractsAnchored, [Next]_vars, NEW i \in Ids, contrato[i] # Null,
         NEW r, r = ConRow(contrato[i], i)
  PROVE  organismo'[r.org] = organismo[r.org] /\ empresa'[r.prov] = empresa[r.prov]
PROOF
<1>1. /\ r.org \in Orgs /\ r.prov \in Emps
      /\ organismo[r.org] # Null /\ empresa[r.prov] # Null
      /\ OrganismoReferenced(r.org) /\ EmpresaReferenced(r.prov)
  BY DEF Inv, RowsInv, RowOK, ContractsAnchored, Anchored, HasKey, OrganismoReferenced,
         EmpresaReferenced, References
<1>2. organismo \in [Orgs -> Fuentes \cup {Null}] /\ empresa \in [Emps -> Fuentes \cup {Null}]
  BY DEF Inv, TablesTyped
<1>3. ASSUME NEW w \in Workers, DeleteEmpresa(w)
      PROVE  UNCHANGED organismo /\ empresa'[r.prov] = empresa[r.prov]
  <2>1. empresa' = empresa \/ (empresa[r.prov] # fu[w] /\ empresa' = Without(empresa, fu[w]))
    BY <1>1, <1>3 DEF DeleteEmpresa, FailLoad, Raise, tables
  <2>. QED
    BY <1>1, <1>2, <1>3, <2>1, WithoutTyped DEF DeleteEmpresa, FailLoad, Raise, tables
<1>4. ASSUME NEW w \in Workers, DeleteOrganismo(w)
      PROVE  organismo'[r.org] = organismo[r.org] /\ UNCHANGED empresa
  <2>1. organismo' = organismo \/ (organismo[r.org] # fu[w] /\ organismo' = Without(organismo, fu[w]))
    BY <1>1, <1>4 DEF DeleteOrganismo, FailLoad, Raise, tables
  <2>. QED
    BY <1>1, <1>2, <1>4, <2>1, WithoutTyped DEF DeleteOrganismo, FailLoad, Raise, tables
<1>5. ASSUME NEW w \in Workers, InsertOrganismo(w)
      PROVE  organismo'[r.org] = organismo[r.org] /\ UNCHANGED empresa
  BY <1>1, <1>2, <1>5 DEF InsertOrganismo
<1>6. ASSUME NEW w \in Workers, InsertEmpresa(w)
      PROVE  UNCHANGED organismo /\ empresa'[r.prov] = empresa[r.prov]
  BY <1>1, <1>2, <1>6 DEF InsertEmpresa
<1>7. ASSUME NEW w \in Workers,
             Load(w), ~DeleteEmpresa(w), ~DeleteOrganismo(w), ~InsertOrganismo(w), ~InsertEmpresa(w)
      PROVE  UNCHANGED <<organismo, empresa>>
  BY <1>7 DEF Load, DeleteContrato, DeleteAlerta, NothingToInsert, InsertContrato, Count,
              FetchCount, FailLoad, Raise, tables
<1>8. ASSUME NEW w \in Workers, Detect(w) \/ Arrive(w)
      PROVE  UNCHANGED <<organismo, empresa>>
  BY <1>8 DEF Detect, ListFuentes, FetchFuentes, CountTotal, FetchTotal, DeletePatron, QueryRule,
              FetchRule, InsertAlert, DetectReturns, FailDetect, Raise, Arrive, StartLoad,
              StartDetect, tables
<1>9. Restart \/ OtherStatement \/ UNCHANGED vars => UNCHANGED <<organismo, empresa>>
  BY DEF Restart, OtherStatement, vars, tables
<1>. QED
  BY <1>3, <1>4, <1>5, <1>6, <1>7, <1>8, <1>9 DEF Next, Serve

(* Only two statements of a slice's own load change which contracts it has:*)
(* its DELETE, and the insertion of a contract whose parents are there.    *)
LEMMA ContratoChanges ==
  ASSUME Inv, [Next]_vars, NEW i \in Ids, contrato'[i] # contrato[i]
  PROVE  \E w \in Workers :
           \/ pc[w] = "del_contrato" /\ contrato[i] = fu[w] /\ contrato'[i] = Null
           \/ /\ pc[w] = "ins_contrato" /\ contrato[i] = Null /\ contrato'[i] = fu[w]
              /\ Anchored(fu[w], i) /\ UNCHANGED <<organismo, empresa>>
PROOF
<1>1. contrato \in [Ids -> Fuentes \cup {Null}]
  BY DEF Inv, TablesTyped
<1>2. ASSUME NEW w \in Workers, DeleteContrato(w)
      PROVE  pc[w] = "del_contrato" /\ contrato[i] = fu[w] /\ contrato'[i] = Null
  BY <1>1, <1>2, WithoutTyped DEF DeleteContrato
<1>3. ASSUME NEW w \in Workers, InsertContrato(w)
      PROVE  /\ pc[w] = "ins_contrato" /\ contrato[i] = Null /\ contrato'[i] = fu[w]
             /\ Anchored(fu[w], i) /\ UNCHANGED <<organismo, empresa>>
  BY <1>1, <1>3 DEF InsertContrato, FailLoad, Raise, tables
<1>4. ASSUME NEW w \in Workers, Load(w), ~DeleteContrato(w), ~InsertContrato(w)
      PROVE  UNCHANGED contrato
  BY <1>4 DEF Load, DeleteAlerta, DeleteEmpresa, DeleteOrganismo, InsertOrganismo, InsertEmpresa,
              NothingToInsert, Count, FetchCount, FailLoad, Raise, tables
<1>5. ASSUME NEW w \in Workers, Detect(w) \/ Arrive(w)
      PROVE  UNCHANGED contrato
  BY <1>5 DEF Detect, ListFuentes, FetchFuentes, CountTotal, FetchTotal, DeletePatron, QueryRule,
              FetchRule, InsertAlert, DetectReturns, FailDetect, Raise, Arrive, StartLoad,
              StartDetect, tables
<1>6. Restart \/ OtherStatement \/ UNCHANGED vars => UNCHANGED contrato
  BY DEF Restart, OtherStatement, vars, tables
<1>. QED
  BY <1>2, <1>3, <1>4, <1>5, <1>6 DEF Next, Serve

LEMMA AnchoredNext == Inv /\ ContractsAnchored /\ [Next]_vars => ContractsAnchored'
PROOF
<1>1. SUFFICES ASSUME Inv, ContractsAnchored, [Next]_vars, NEW i \in Ids, contrato'[i] # Null
               PROVE  Anchored(contrato[i], i)'
  BY DEF ContractsAnchored
<1>2. DOMAIN organismo' = DOMAIN organismo /\ DOMAIN empresa' = DOMAIN empresa
  BY <1>1, InvNext DEF Inv, TypeOK, TablesTyped
<1>3. CASE contrato'[i] = contrato[i]
  <2>1. Anchored(contrato[i], i)
    BY <1>1, <1>3 DEF ContractsAnchored
  <2>2. /\ organismo'[ConRow(contrato[i], i).org] # Null
        /\ empresa'[ConRow(contrato[i], i).prov] # Null
    BY <1>1, <1>3, <2>1, ParentsStay DEF Anchored, HasKey
  <2>. QED
    BY <1>2, <1>3, <2>1, <2>2 DEF Anchored, HasKey
<1>4. CASE contrato'[i] # contrato[i]
  BY <1>1, <1>4, ContratoChanges DEF Anchored
<1>. QED
  BY <1>3, <1>4

(* Whatever loads run at once, fail or are cut short, no contract is ever  *)
(* without its buyer or its supplier.                                      *)
THEOREM AlwaysAnchored == Spec => []ContractsAnchored
PROOF
<1>1. Init => ContractsAnchored
  BY DEF Init, ContractsAnchored
<1>. QED
  BY <1>1, AnchoredNext, SpecInv, PTL DEF Spec

(* What the rules see of a slice, and which contracts it has, is the same  *)
(* after a step that is not of its own load.                               *)
LEMMA SliceKept ==
  ASSUME Inv, ContractsAnchored, [Next]_vars, NEW f \in Fuentes, ~OwnLoadOnly(f)
  PROVE  SliceContracts(f)' = SliceContracts(f) /\ Joined(f)' = Joined(f)
PROOF
<1>1. SliceContracts(f)' = SliceContracts(f)
  <2>1. ASSUME NEW i \in Ids, contrato'[i] # contrato[i]
        PROVE  contrato[i] # f /\ contrato'[i] # f
    BY <2>1, ContratoChanges DEF OwnLoadOnly
  <2>. QED
    BY <2>1 DEF SliceContracts
<1>2. \A i \in SliceContracts(f) : empresa'[ConRow(f, i).prov] = empresa[ConRow(f, i).prov]
  BY ParentsStay DEF SliceContracts
<1>3. \A i \in SliceContracts(f) : JoinedRow(f, i)' = JoinedRow(f, i)
  BY <1>2 DEF JoinedRow
<1>. QED
  BY <1>1, <1>2, <1>3 DEF Joined

(* The rows that the rules see of a slice change only while a load of that *)
(* very slice deletes or inserts contracts.                                *)
THEOREM StableSlices == Spec => SliceStable
PROOF
<1>1. Inv /\ ContractsAnchored /\ [Next]_vars
        => [\A f \in Fuentes : OwnLoadOnly(f) \/ Joined(f)' = Joined(f)]_<<contrato, empresa>>
  BY SliceKept
<1>. QED
  BY <1>1, SpecInv, AlwaysAnchored, PTL DEF Spec, SliceStable
===============================================================================
