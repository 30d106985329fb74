--------------------------- MODULE SequentialProofs ----------------------------
(***************************************************************************)
(* Theorems about ChileCompra with one thread, for every set of slices and *)
(* files: what a load leaves in the tables, and what the alerts say.       *)
(***************************************************************************)
EXTENDS ChileCompraProofs

OneThread == \E w0 : Workers = {w0}

USE FuentesAssumption, BogusAssumption, ZipsAssumption DEF TypeOK

-----------------------------------------------------------------------------
(* Loads.                                                                  *)

(* The statements of a load at which its slice has no contract.            *)
Emptied == {"del_alerta", "del_empresa", "del_organismo", "ins_organismo", "ins_empresa"}

(* What an executemany does not have left to insert is in its table.       *)
Loading(w) ==
  /\ pc[w] \in Emptied => SliceContracts(fu[w]) = {}
  /\ pc[w] = "ins_organismo" =>
       \A k \in OrgFrame(fu[w], con[w]) : k \in todo[w] \/ organismo[k] # Null
  /\ pc[w] \in {"ins_empresa", "ins_contrato"} =>
       \A k \in OrgFrame(fu[w], con[w]) : organismo[k] # Null
  /\ pc[w] = "ins_empresa" =>
       \A k \in EmpFrame(fu[w], con[w]) : k \in todo[w] \/ empresa[k] # Null
  /\ pc[w] = "ins_contrato" =>
       \A k \in EmpFrame(fu[w], con[w]) : empresa[k] # Null
  /\ pc[w] = "ins_contrato" =>
       \A i \in Kept(fu[w], con[w]) : i \in todo[w] \/ contrato[i] # Null
  /\ pc[w] \in Counting =>
       \A i \in Kept(fu[w], con[w]) : contrato[i] # Null
  /\ pc[w] \in Counting \cup {"ins_contrato"} =>
       SliceContracts(fu[w]) \subseteq Kept(fu[w], con[w])

LoadInv == \A w \in Workers : Loading(w)

(* A load keeps to what it has in hand.                                    *)
LEMMA LoadingLoad ==
  ASSUME Inv, NEW w \in Workers, Loading(w), Load(w)
  PROVE  Loading(w)'
PROOF
<1>1. /\ pc \in [Workers -> Free \cup LoadPcs \cup DetectPcs]
      /\ todo \in [Workers -> SUBSET (Orgs \cup Emps \cup Ids \cup RuleRows \cup {Bogus})]
      /\ organismo \in [Orgs -> Fuentes \cup {Null}]
      /\ empresa \in [Emps -> Fuentes \cup {Null}]
      /\ contrato \in [Ids -> Fuentes \cup {Null}]
  BY DEF Inv, RequestsTyped, TablesTyped
<1>2. pc[w] \in LoadPcs => /\ fu[w] \in Zips /\ con[w] \in SUBSET ConIds(fu[w])
                           /\ fu[w] \in Fuentes /\ fu[w] # Null
  BY DEF Inv, RequestsTyped
<1>3. pc[w] \in LoadPcs => /\ OrgFrame(fu[w], con[w]) \subseteq Orgs
                           /\ EmpFrame(fu[w], con[w]) \subseteq Emps
                           /\ Kept(fu[w], con[w]) \subseteq Ids
  BY <1>2, FramesAreKeys
<1>5. ASSUME NEW label \in Free, Return(w, label) PROVE Loading(w)'
  BY <1>1, <1>5 DEF Return, Goto, Loading, Emptied, Counting, Free, FetchOf, AfterFetch
<1>6. FailLoad(w) => Loading(w)'
  BY <1>5 DEF FailLoad, Raise, Free
<1>7. CASE DeleteContrato(w)
  <2>1. /\ pc'[w] = "del_alerta" /\ fu' = fu /\ contrato' = Without(contrato, fu[w])
        /\ fu[w] # Null
    BY <1>1, <1>2, <1>7 DEF DeleteContrato, Goto, locals, LoadPcs
  <2>2. \A i \in Ids : contrato'[i] # fu[w]
    BY <1>1, <2>1, WithoutTyped
  <2>. QED
    BY <2>1, <2>2 DEF Loading, SliceContracts, Counting, FetchOf, AfterFetch
<1>8. CASE DeleteAlerta(w)
  BY <1>1, <1>8 DEF DeleteAlerta, Goto, Loading, Emptied, SliceContracts, Counting, FetchOf,
                    AfterFetch, locals
<1>9. CASE DeleteEmpresa(w)
  <2>1. CASE ~FailLoad(w)
    BY <1>1, <1>9, <2>1 DEF DeleteEmpresa, Goto, Loading, Emptied, SliceContracts, Counting, FetchOf,
                            AfterFetch, locals
  <2>. QED
    BY <1>6, <2>1
<1>10. CASE DeleteOrganismo(w)
  <2>1. CASE ~FailLoad(w)
    BY <1>1, <1>10, <2>1 DEF DeleteOrganismo, Goto, Loading, Emptied, SliceContracts, Counting, FetchOf,
                            AfterFetch
  <2>. QED
    BY <1>6, <2>1
<1>11. CASE NothingToInsert(w)
  BY <1>6, <1>11 DEF NothingToInsert
<1>12. CASE InsertOrganismo(w)
  <2>1. PICK k \in todo[w] :
          /\ organismo' = [organismo EXCEPT ![k] = IF @ = Null THEN fu[w] ELSE @]
          /\ RowDone(w, k, OrgFrame(fu[w], con[w]), "ins_empresa", EmpFrame(fu[w], con[w]))
    BY <1>12 DEF InsertOrganismo
  <2>2. /\ pc[w] = "ins_organismo" /\ pc[w] \in LoadPcs
        /\ UNCHANGED <<empresa, contrato, fu, con>>
        /\ SliceContracts(fu[w]) = {}
    BY <1>12, <2>1 DEF InsertOrganismo, RowDone, LoadPcs, Loading, Emptied
  <2>3. \A j \in OrgFrame(fu[w], con[w]) : j \in todo[w] \ {k} \/ organismo'[j] # Null
    BY <1>1, <1>2, <1>3, <2>1, <2>2 DEF Loading
  <2>4. \/ todo[w] = {k} /\ pc'[w] = "ins_empresa" /\ todo'[w] = EmpFrame(fu[w], con[w])
        \/ todo[w] # {k} /\ pc'[w] = "ins_organismo" /\ todo'[w] = todo[w] \ {k}
    BY <1>1, <2>1, <2>2 DEF RowDone, Goto
  <2>. QED
    BY <2>2, <2>3, <2>4 DEF Loading, SliceContracts, Counting, FetchOf, AfterFetch
<1>13. CASE InsertEmpresa(w)
  <2>1. PICK k \in todo[w] :
          /\ empresa' = [empresa EXCEPT ![k] = IF @ = Null THEN fu[w] ELSE @]
          /\ RowDone(w, k, EmpFrame(fu[w], con[w]), "ins_contrato", Kept(fu[w], con[w]))
    BY <1>13 DEF InsertEmpresa
  <2>2. /\ pc[w] = "ins_empresa" /\ pc[w] \in LoadPcs
        /\ UNCHANGED <<organismo, contrato, fu, con>>
        /\ SliceContracts(fu[w]) = {}
        /\ \A j \in OrgFrame(fu[w], con[w]) : organismo[j] # Null
    BY <1>13, <2>1 DEF InsertEmpresa, RowDone, LoadPcs, Loading, Emptied
  <2>3. \A j \in EmpFrame(fu[w], con[w]) : j \in todo[w] \ {k} \/ empresa'[j] # Null
    BY <1>1, <1>2, <1>3, <2>1, <2>2 DEF Loading
  <2>4. \/ todo[w] = {k} /\ pc'[w] = "ins_contrato" /\ todo'[w] = Kept(fu[w], con[w])
        \/ todo[w] # {k} /\ pc'[w] = "ins_empresa" /\ todo'[w] = todo[w] \ {k}
    BY <1>1, <2>1, <2>2 DEF RowDone, Goto
  <2>. QED
    BY <2>2, <2>3, <2>4 DEF Loading, SliceContracts, Counting, FetchOf, AfterFetch
<1>14. CASE InsertContrato(w)
  <2>1. PICK i \in todo[w] :
          IF contrato[i] = Null /\ ~Anchored(fu[w], i)
            THEN FailLoad(w)
            ELSE /\ contrato' = [contrato EXCEPT ![i] = IF @ = Null THEN fu[w] ELSE @]
                 /\ RowDone(w, i, Kept(fu[w], con[w]), "count_organismo", {})
                 /\ UNCHANGED <<organismo, empresa, alerta>>
    BY <1>14 DEF InsertContrato
  <2>2. SUFFICES ASSUME ~FailLoad(w) PROVE Loading(w)'
    BY <1>6
  <2>3. /\ pc[w] = "ins_contrato" /\ pc[w] \in LoadPcs
        /\ UNCHANGED <<organismo, empresa, fu, con>>
        /\ i \in Kept(fu[w], con[w])
        /\ \A j \in OrgFrame(fu[w], con[w]) : organismo[j] # Null
        /\ \A j \in EmpFrame(fu[w], con[w]) : empresa[j] # Null
        /\ SliceContracts(fu[w]) \subseteq Kept(fu[w], con[w])
    BY <1>14, <2>1, <2>2 DEF InsertContrato, RowDone, LoadPcs, Loading, Inv, TodoInv
  <2>4. \A j \in Kept(fu[w], con[w]) : j \in todo[w] \ {i} \/ contrato'[j] # Null
    BY <1>1, <1>2, <1>3, <2>1, <2>2, <2>3 DEF Loading
  <2>5. SliceContracts(fu[w])' \subseteq Kept(fu[w], con[w])
    BY <1>1, <2>1, <2>2, <2>3 DEF SliceContracts
  <2>6. \/ todo[w] = {i} /\ pc'[w] = "count_organismo"
        \/ todo[w] # {i} /\ pc'[w] = "ins_contrato" /\ todo'[w] = todo[w] \ {i}
    BY <1>1, <2>1, <2>2, <2>3 DEF RowDone, Goto
  <2>. QED
    BY <2>3, <2>4, <2>5, <2>6 DEF Loading, Emptied, Counting, FetchOf, AfterFetch
<1>15. CASE Count(w) \/ FetchCount(w)
  <2>1. CASE \E label \in Free : Return(w, label)
    BY <1>5, <2>1
  <2>2. CASE ~ \E label \in Free : Return(w, label)
    <3>1. pc[w] \in Counting /\ pc'[w] \in Counting /\ UNCHANGED <<contrato, fu, con>>
      BY <1>1, <1>15, <2>2 DEF Count, FetchCount, Counting, Goto, FetchOf, AfterFetch, tables, locals,
                               Free
    <3>. QED
      BY <3>1 DEF Loading, Emptied, SliceContracts, Counting, FetchOf, AfterFetch
  <2>. QED
    BY <2>1, <2>2
<1>. QED
  BY <1>7, <1>8, <1>9, <1>10, <1>11, <1>12, <1>13, <1>14, <1>15 DEF Load

(* Nor does anything else that its thread does begin in the middle.        *)
LEMMA LoadingOther ==
  ASSUME Inv, NEW w \in Workers, Arrive(w) \/ Detect(w)
  PROVE  Loading(w)'
PROOF
<1>1. pc \in [Workers -> Free \cup LoadPcs \cup DetectPcs]
  BY DEF Inv, RequestsTyped
<1>2. pc'[w] \in Free \cup DetectPcs \cup {"del_contrato"}
  BY <1>1 DEF Arrive, StartLoad, StartDetect, Detect, ListFuentes, FetchFuentes, CountTotal,
              FetchTotal, DeletePatron, QueryRule, FetchRule, InsertAlert, DetectReturns,
              RuleDone, FailDetect, Raise, Return, Goto, DetectPcs, Free
<1>. QED
  BY <1>2 DEF Loading, Emptied, Counting, DetectPcs, Free, FetchOf, AfterFetch

LEMMA LoadInvNext ==
  ASSUME OneThread, Inv, LoadInv, [Next]_vars
  PROVE  LoadInv'
PROOF
<1>1. ASSUME NEW w \in Workers, Arrive(w) \/ Serve(w) PROVE LoadInv'
  <2>1. Loading(w)'
    BY <1>1, LoadingLoad, LoadingOther DEF Serve, LoadInv
  <2>. QED
    BY <2>1 DEF OneThread, LoadInv
<1>2. Restart => LoadInv'
  BY DEF Restart, Reopen, LoadInv, Loading, Emptied, Counting, FetchOf, AfterFetch
<1>3. OtherStatement \/ UNCHANGED vars => LoadInv'
  BY DEF OtherStatement, vars, tables, locals, LoadInv, Loading, SliceContracts
<1>. QED
  BY <1>1, <1>2, <1>3 DEF Next

LEMMA SpecLoadInv == OneThread => (Spec => []LoadInv)
PROOF
<1>1. SUFFICES ASSUME OneThread PROVE Spec => []LoadInv
  OBVIOUS
<1>2. Init => LoadInv
  BY DEF Init, LoadInv, Loading, Emptied, Counting, FetchOf, AfterFetch
<1>3. Inv /\ LoadInv /\ [Next]_vars => LoadInv'
  BY <1>1, LoadInvNext
<1>. QED
  BY <1>2, <1>3, SpecInv, PTL DEF Spec

(* With one thread the foreign keys never refuse a contract that a load    *)
(* did not discard, whatever the file, the LIMIT and the slices that own   *)
(* the rows it found there.                                                *)
THEOREM NoOrphanInserted == OneThread => (Spec => []InsertsAnchored)
PROOF
<1>1. Inv /\ LoadInv => InsertsAnchored
  <2>1. SUFFICES ASSUME Inv, LoadInv, NEW w \in Workers, pc[w] = "ins_contrato",
                        NEW i \in todo[w]
                 PROVE  Anchored(fu[w], i)
    BY DEF InsertsAnchored
  <2>2. i \in Kept(fu[w], con[w]) /\ fu[w] \in Zips /\ con[w] \in SUBSET ConIds(fu[w])
    BY <2>1, Locals DEF LoadPcs
  <2>3. /\ OrgFrame(fu[w], con[w]) \subseteq Orgs
        /\ EmpFrame(fu[w], con[w]) \subseteq Emps
        /\ DOMAIN organismo = Orgs /\ DOMAIN empresa = Emps
    BY <2>1, <2>2, FramesAreKeys DEF Inv, TablesTyped
  <2>. QED
    BY <2>1, <2>2, <2>3 DEF LoadInv, Loading, Kept, Anchored, HasKey
<1>. QED
  BY <1>1, SpecInv, SpecLoadInv, PTL

(* With one thread a load that comes to its response has stored every      *)
(* contract it kept and has left none of an earlier load.                  *)
THEOREM LoadsWhole == OneThread => (Spec => []LoadComplete)
PROOF
<1>1. LoadInv => LoadComplete
  BY DEF LoadInv, Loading, LoadComplete, Counting
<1>. QED
  BY <1>1, SpecLoadInv, PTL
-----------------------------------------------------------------------------
(* Alerts.                                                                 *)

(* What the rule in hand says of the slice in hand.                        *)
OwnFrame(w) == RuleFrame(rule[w], Joined(fu[w]))

(* A load has erased the alerts of its slice before it inserts anything; a *)
(* detection fetches and inserts rows of its own rule, if not all of them. *)
Alerting(w) ==
  /\ pc[w] \in LoadPcs \ {"del_contrato", "del_alerta"} => AlertsOf(fu[w]) = {}
  /\ pc[w] = "fetch_rule" /\ cursor.kind = rule[w] => cursor.rows \subseteq OwnFrame(w)
  /\ pc[w] = "ins_alert" => todo[w] \subseteq OwnFrame(w)

AlertInv == AlertsExplained /\ \A w \in Workers : Alerting(w)

LEMMA SameJoined ==
  ASSUME UNCHANGED <<contrato, empresa>>
  PROVE  /\ \A f : Joined(f)' = Joined(f)
         /\ \A f : SliceContracts(f)' = SliceContracts(f)
PROOF
BY DEF Joined, JoinedRow, SliceContracts

(* A detection changes no contract and no supplier.                        *)
LEMMA DetectReadsOnly ==
  ASSUME NEW w, Detect(w) \/ Arrive(w)
  PROVE  UNCHANGED <<organismo, empresa, contrato>>
PROOF
BY DEF Detect, ListFuentes, FetchFuentes, CountTotal, FetchTotal, DeletePatron, QueryRule,
       FetchRule, InsertAlert, DetectReturns, FailDetect, Raise, Arrive, StartLoad, StartDetect, tables

(* Only a detection adds an alert, from a row that its rule yielded.       *)
LEMMA AlertAdded ==
  ASSUME Inv, [Next]_vars, NEW a \in alerta', a \notin alerta
  PROVE  \E w \in Workers : /\ pc[w] = "ins_alert" /\ UNCHANGED <<contrato, empresa>>
                            /\ \E row \in todo[w] : a = Alert(rule[w], row, fu[w])
PROOF
<1>1. ASSUME NEW w \in Workers, InsertAlert(w)
      PROVE  /\ pc[w] = "ins_alert" /\ UNCHANGED <<contrato, empresa>>
             /\ \E row \in todo[w] : a = Alert(rule[w], row, fu[w])
  BY <1>1 DEF InsertAlert, FailDetect, Raise, tables
<1>2. ASSUME NEW w \in Workers, Load(w) \/ Arrive(w) PROVE FALSE
  BY <1>2 DEF Load, DeleteContrato, DeleteAlerta, DeleteEmpresa, DeleteOrganismo, InsertOrganismo,
              InsertEmpresa, InsertContrato, NothingToInsert, Count, FetchCount, FailLoad, Raise,
              Arrive, StartLoad, StartDetect, tables
<1>3. ASSUME NEW w \in Workers, Detect(w), ~InsertAlert(w) PROVE FALSE
  BY <1>3 DEF Detect, ListFuentes, FetchFuentes, CountTotal, FetchTotal, DeletePatron, QueryRule,
              FetchRule, DetectReturns, FailDetect, Raise, tables
<1>4. Restart \/ OtherStatement \/ UNCHANGED vars => FALSE
  BY DEF Restart, OtherStatement, vars, tables
<1>. QED
  BY <1>1, <1>2, <1>3, <1>4 DEF Next, Serve

(* No contract is of a slice that is none.                                 *)
LEMMA NoneOfBogus == Inv => SliceContracts(Bogus) = {}
PROOF
BY DEF Inv, TablesTyped, SliceContracts

(* An alert that is explained stays so, unless its slice is being loaded.  *)
LEMMA ExplainedStays ==
  ASSUME Inv, ContractsAnchored, [Next]_vars, NEW a \in alerta, Explained(a), ~OwnLoadOnly(a.fuente)
  PROVE  Explained(a)'
PROOF
<1>1. a.fuente \in Fuentes \cup {Bogus}
  BY DEF Inv, TablesTyped, AlertRows
<1>2. CASE a.fuente \in Fuentes
  BY <1>2, SliceKept DEF Explained
<1>3. CASE a.fuente = Bogus
  <2>1. Inv'
    BY InvNext
  <2>2. SliceContracts(Bogus)' = {}
    BY <2>1 DEF Inv, TablesTyped, SliceContracts
  <2>. QED
    BY <1>3, <2>2 DEF Explained
<1>. QED
  BY <1>1, <1>2, <1>3

LEMMA ExplainedNext ==
  ASSUME OneThread, Inv, ContractsAnchored, AlertInv, [Next]_vars
  PROVE  AlertsExplained'
PROOF
<1>1. SUFFICES ASSUME NEW a \in alerta' PROVE Explained(a)'
  BY DEF AlertsExplained
<1>2. CASE a \notin alerta
  <2>0. PICK w \in Workers :
          /\ pc[w] = "ins_alert" /\ UNCHANGED <<contrato, empresa>>
          /\ \E row \in todo[w] : a = Alert(rule[w], row, fu[w])
    BY <1>2, AlertAdded
  <2>1. PICK row \in todo[w] : a = Alert(rule[w], row, fu[w])
    BY <2>0
  <2>2. row \in RuleFrame(rule[w], Joined(fu[w]))
    BY <2>0, <2>1 DEF AlertInv, Alerting, OwnFrame
  <2>3. row = [key |-> row.key, evid |-> row.evid]
    BY <2>2 DEF RuleFrame
  <2>4. a.key = row.key /\ a.evid = row.evid /\ a.patron = rule[w] /\ a.fuente = fu[w]
    BY <2>1 DEF Alert
  <2>5. Joined(a.fuente)' = Joined(a.fuente)
    BY <2>0, SameJoined
  <2>. QED
    BY <2>2, <2>3, <2>4, <2>5 DEF Explained
<1>3. CASE a \in alerta /\ ~OwnLoadOnly(a.fuente)
  BY <1>3, ExplainedStays DEF AlertInv, AlertsExplained
<1>4. CASE a \in alerta /\ OwnLoadOnly(a.fuente)
  <2>1. PICK w \in Workers : fu[w] = a.fuente /\ pc[w] \in {"del_contrato", "ins_contrato"}
    BY <1>4 DEF OwnLoadOnly
  <2>2. pc[w] = "del_contrato"
    BY <1>4, <2>1 DEF AlertInv, Alerting, AlertsOf, LoadPcs
  <2>3. DeleteContrato(w) \/ UNCHANGED <<contrato, empresa>>
    <3>1. CASE Load(w)
      BY <2>2, <3>1 DEF Load, DeleteAlerta, DeleteEmpresa, DeleteOrganismo, InsertOrganismo,
              InsertEmpresa, InsertContrato, NothingToInsert, Count, FetchCount, FetchOf, AfterFetch
    <3>2. CASE Detect(w) \/ Arrive(w)
      BY <3>2, DetectReadsOnly
    <3>3. CASE Restart \/ OtherStatement \/ UNCHANGED vars
      BY <3>3 DEF Restart, OtherStatement, vars, tables
    <3>. QED
      BY <3>1, <3>2, <3>3 DEF Next, Serve, OneThread
  <2>4. CASE UNCHANGED <<contrato, empresa>>
    BY <1>4, <2>4, SameJoined DEF AlertInv, AlertsExplained, Explained
  <2>5. CASE DeleteContrato(w)
    <3>1. fu[w] # Null /\ contrato \in [Ids -> Fuentes \cup {Null}]
      BY <2>2 DEF Inv, TablesTyped, RequestsTyped, LoadPcs
    <3>2. \A i \in Ids : contrato'[i] # fu[w]
      BY <2>5, <3>1, WithoutTyped DEF DeleteContrato
    <3>. QED
      BY <2>1, <3>2 DEF Explained, SliceContracts
  <2>. QED
    BY <2>3, <2>4, <2>5
<1>. QED
  BY <1>2, <1>3, <1>4

LEMMA AlertingLoad ==
  ASSUME Inv, NEW w \in Workers, Alerting(w), Load(w)
  PROVE  Alerting(w)'
PROOF
<1>1. pc \in [Workers -> Free \cup LoadPcs \cup DetectPcs]
  BY DEF Inv, RequestsTyped
<1>2. pc'[w] \in LoadPcs \cup Free
  BY <1>1 DEF Load, DeleteContrato, DeleteAlerta, DeleteEmpresa, DeleteOrganismo, InsertOrganismo,
              InsertEmpresa, InsertContrato, NothingToInsert, Count, FetchCount, RowDone, FailLoad,
              Raise, Return, Goto, LoadPcs, FetchOf, AfterFetch, Free
<1>3. SUFFICES ASSUME pc'[w] \in LoadPcs \ {"del_contrato", "del_alerta"} PROVE AlertsOf(fu[w])' = {}
  BY <1>2 DEF Alerting, LoadPcs, Free, FetchOf, AfterFetch
<1>4. ~FailLoad(w) /\ \A label \in Free : ~Return(w, label)
  BY <1>1, <1>3 DEF FailLoad, Raise, Return, Goto, Free, LoadPcs, FetchOf, AfterFetch
<1>5. CASE DeleteAlerta(w)
  BY <1>5 DEF DeleteAlerta, AlertsOf, LoadErases, locals
<1>6. CASE ~DeleteAlerta(w)
  <2>1. UNCHANGED <<alerta, fu>> /\ pc[w] \in LoadPcs \ {"del_contrato", "del_alerta"}
    BY <1>1, <1>3, <1>4, <1>6
       DEF Load, DeleteContrato, DeleteEmpresa, DeleteOrganismo, InsertOrganismo, InsertEmpresa,
           InsertContrato, NothingToInsert, Count, FetchCount, RowDone, Goto, LoadPcs, FetchOf,
           AfterFetch, tables, locals, Free
  <2>. QED
    BY <2>1 DEF Alerting, AlertsOf
<1>. QED
  BY <1>5, <1>6

LEMMA AlertingDetect ==
  ASSUME Inv, NEW w \in Workers, Alerting(w), Detect(w)
  PROVE  Alerting(w)'
PROOF
<1>1. /\ pc \in [Workers -> Free \cup LoadPcs \cup DetectPcs]
      /\ todo \in [Workers -> SUBSET (Orgs \cup Emps \cup Ids \cup RuleRows \cup {Bogus})]
      /\ rule \in [Workers -> Rules]
  BY DEF Inv, RequestsTyped
<1>2. \A f : Joined(f)' = Joined(f)
  BY DetectReadsOnly, SameJoined
<1>3. CASE QueryRule(w)
  BY <1>1, <1>2, <1>3 DEF QueryRule, Goto, Alerting, OwnFrame, RuleResult, LoadPcs, FetchOf, AfterFetch, locals
<1>4. CASE FetchRule(w)
  <2>1. CASE pc'[w] \in LoadPcs \cup {"fetch_rule"}
    BY <1>1, <1>4, <2>1 DEF FetchRule, Return, RuleDone, Goto, LoadPcs, FetchOf, AfterFetch
  <2>2. CASE pc'[w] = "ins_alert"
    <3>1. /\ cursor.kind = rule[w] /\ todo' = [todo EXCEPT ![w] = cursor.rows]
          /\ UNCHANGED <<fu, rule>> /\ pc[w] = "fetch_rule"
      BY <1>1, <1>4, <2>2 DEF FetchRule, Return, RuleDone, Goto
    <3>2. cursor.rows \subseteq OwnFrame(w)
      BY <1>1, <3>1 DEF Alerting
    <3>. QED
      BY <1>1, <1>2, <2>2, <3>1, <3>2 DEF Alerting, OwnFrame, LoadPcs, FetchOf, AfterFetch
  <2>. QED
    BY <2>1, <2>2 DEF Alerting
<1>5. CASE InsertAlert(w)
  <2>1. CASE pc'[w] # "ins_alert"
    BY <1>1, <1>5, <2>1 DEF InsertAlert, FailDetect, Raise, Return, RuleDone, Goto, Alerting, LoadPcs,
                            FetchOf, AfterFetch
  <2>2. CASE pc'[w] = "ins_alert"
    <3>1. todo'[w] \subseteq todo[w] /\ UNCHANGED <<fu, rule>> /\ pc[w] = "ins_alert"
      BY <1>1, <1>5, <2>2 DEF InsertAlert, FailDetect, Raise, Return, RuleDone, Goto
    <3>. QED
      BY <1>2, <2>2, <3>1 DEF Alerting, OwnFrame, LoadPcs, FetchOf, AfterFetch
  <2>. QED
    BY <2>1, <2>2
<1>6. CASE ListFuentes(w) \/ FetchFuentes(w) \/ CountTotal(w) \/ FetchTotal(w) \/ DeletePatron(w)
             \/ DetectReturns(w)
  <2>1. pc'[w] \in Free \cup {"fetch_list", "total", "fetch_total", "del_patron", "query"}
    BY <1>1, <1>6 DEF ListFuentes, FetchFuentes, CountTotal, FetchTotal, DeletePatron, DetectReturns,
                      FailDetect, Raise, Return, Goto, Free
  <2>. QED
    BY <2>1 DEF Alerting, LoadPcs, FetchOf, AfterFetch, Free
<1>. QED
  BY <1>3, <1>4, <1>5, <1>6 DEF Detect

(* Another endpoint leaves no rows of a rule but those it found.           *)
LEMMA OtherLeaves ==
  ASSUME Inv, OtherStatement
  PROVE  /\ Foreign # {}
         /\ cursor'.kind \in Rules => cursor'.kind = cursor.kind /\ cursor'.rows \subseteq cursor.rows
PROOF
<1>1. CASE cursor' \in Foreign
  BY <1>1, ForeignAssumption DEF NoResult, CountResult, DmlResult, NoRows, SomeRows, Rules
<1>2. CASE Foreign # {} /\ cursor' \in Rests(cursor)
  BY <1>2, RestsTyped DEF Inv
<1>. QED
  BY <1>1, <1>2 DEF OtherStatement

LEMMA AlertInvNext ==
  ASSUME OneThread, Inv, ContractsAnchored, AlertInv, [Next]_vars
  PROVE  AlertInv'
PROOF
<1>1. pc \in [Workers -> Free \cup LoadPcs \cup DetectPcs]
  BY DEF Inv, RequestsTyped
<1>2. ASSUME NEW w \in Workers, Arrive(w) PROVE Alerting(w)'
  <2>1. pc'[w] \in {"not_found", "del_contrato", "list", "total"}
    BY <1>1, <1>2 DEF Arrive, StartLoad, StartDetect, Return, Goto
  <2>. QED
    BY <2>1 DEF Alerting, LoadPcs, FetchOf, AfterFetch
<1>3. ASSUME NEW w \in Workers, Arrive(w) \/ Serve(w) PROVE \A v \in Workers : Alerting(v)'
  <2>1. Alerting(w)'
    BY <1>2, <1>3, AlertingLoad, AlertingDetect DEF AlertInv, Serve
  <2>. QED
    BY <2>1 DEF OneThread
<1>4. Restart => \A w \in Workers : Alerting(w)'
  BY DEF Restart, Reopen, Alerting, LoadPcs, FetchOf, AfterFetch
<1>5. OtherStatement => \A w \in Workers : Alerting(w)'
  <2>1. OtherStatement => UNCHANGED <<contrato, empresa, alerta, pc, fu, todo, rule>>
    BY DEF OtherStatement, tables, locals
  <2>. QED
    BY <1>1, <2>1, OtherLeaves, SameJoined DEF AlertInv, Alerting, AlertsOf, OwnFrame, Inv, RequestsTyped
<1>6. UNCHANGED vars => \A w \in Workers : Alerting(w)'
  BY SameJoined DEF vars, tables, locals, AlertInv, Alerting, AlertsOf, OwnFrame
<1>. QED
  BY <1>3, <1>4, <1>5, <1>6, ExplainedNext DEF AlertInv, Next

LEMMA SpecAlertInv == OneThread => (Spec => []AlertInv)
PROOF
<1>1. SUFFICES ASSUME OneThread PROVE Spec => []AlertInv
  OBVIOUS
<1>2. Init => AlertInv
  BY DEF Init, AlertInv, AlertsExplained, Alerting, LoadPcs, FetchOf, AfterFetch
<1>3. Inv /\ ContractsAnchored /\ AlertInv /\ [Next]_vars => AlertInv'
  BY <1>1, AlertInvNext
<1>. QED
  BY <1>2, <1>3, SpecInv, AlwaysAnchored, PTL DEF Spec

(* With one thread every alert is what its rule says of the contracts that *)
(* its slice has now, however loads and detections follow one another,     *)
(* fail or are cut short, unless its slice was left without contracts.     *)
THEOREM AlertsTraceable == OneThread => (Spec => []AlertsExplained)
PROOF
<1>1. AlertInv => AlertsExplained
  BY DEF AlertInv
<1>. QED
  BY <1>1, SpecAlertInv, PTL

(* The supplier of a joined row says its rut and its name, and a rut is    *)
(* that of one supplier.                                                   *)
LEMMA JoinedSuppliers ==
  ASSUME NEW f, NEW c \in Joined(f)
  PROVE  /\ c.rut = EmpRut(c.prov) /\ c.nombre = EmpName(empresa[c.prov], c.prov)
         /\ c.rut # Null => c.rut = c.prov
PROOF
<1>1. PICK i \in SliceContracts(f) : c = JoinedRow(f, i)
  BY DEF Joined
<1>. QED
  BY <1>1 DEF JoinedRow, EmpRut

(* With one thread no supplier known by its rut is reported for one slice  *)
(* both as tied to a single buyer and as present in many.                  *)
THEOREM OneBuyerOrMany == OneThread => (Spec => []PatternsExclusive)
PROOF
<1>1. AlertsExplained => PatternsExclusive
  <2>1. SUFFICES ASSUME AlertsExplained, NEW a \in alerta, NEW b \in alerta,
                        a.patron = "recurrente", b.patron = "multi-org", a.fuente = b.fuente,
                        SliceContracts(a.fuente) # {}, a.key = b.key, a.key[2] # Null
                 PROVE  FALSE
    BY DEF PatternsExclusive
  <2> DEFINE x == [key |-> a.key, evid |-> a.evid]
             y == [key |-> b.key, evid |-> b.evid]
             C == Joined(a.fuente)
  <2>2. x \in RuleFrame("recurrente", C) /\ y \in RuleFrame("multi-org", C)
    BY <2>1 DEF AlertsExplained, Explained
  <2>3. \A c, d \in C : c.rut = a.key[2] /\ d.rut = a.key[2] => c.nombre = d.nombre
    BY <2>1, JoinedSuppliers
  <2>4. x.key = a.key /\ y.key = a.key
    BY <2>1
  <2> HIDE DEF x, y, C
  <2>. QED
    BY <2>2, <2>3, <2>4, OneOrMany
<1>. QED
  BY <1>1, AlertsTraceable, PTL
-----------------------------------------------------------------------------
(* What a detection stores, rule by rule, whatever other endpoints do to   *)
(* the result it reads.                                                    *)

RuleAlerts(r, f) == Findings(r, f, Joined(f))

Alerts(r, f, rows) == {Alert(r, row, f) : row \in rows}

Stored(r, f) == {a \in AlertsOf(f) : a.patron = r}

(* A rule that was done has stored its alerts, all of them unless other    *)
(* endpoints are in use, whose fetches may have taken some of its rows, or *)
(* whose empty result may have passed for them.                            *)
Done(r, f) ==
  Stored(r, f) \subseteq RuleAlerts(r, f) /\ (Foreign = {} => Stored(r, f) = RuleAlerts(r, f))

(* The rules before r.                                                     *)
Before(r) ==
  CASE r = "recurrente"      -> {}
    [] r = "fraccionamiento" -> {"recurrente"}
    [] r = "multi-org"       -> {"recurrente", "fraccionamiento"}

(* No slice is in hand twice; of a slice that was done all the rules are,  *)
(* of the one in hand those before the rule in hand, and of that rule the  *)
(* rows that are not left.                                                 *)
Detecting(w) ==
  /\ pc[w] \notin InSlice \cup {"total"} => hecho[w] = {}
  /\ pc[w] \notin {"query", "fetch_rule", "ins_alert"} => rule[w] = FirstRule
  /\ cola[w] \cap hecho[w] = {}
  /\ pc[w] \in InSlice => fu[w] \notin cola[w] \cup hecho[w]
  /\ \A f \in hecho[w] : \A r \in Rules : Done(r, f)
  /\ pc[w] \in {"query", "fetch_rule", "ins_alert"} =>
       /\ \A r \in Before(rule[w]) : Done(r, fu[w])
       /\ \A r \in Rules \ (Before(rule[w]) \cup {rule[w]}) : Stored(r, fu[w]) = {}
  /\ pc[w] \in {"query", "fetch_rule"} => Stored(rule[w], fu[w]) = {}
  /\ pc[w] = "fetch_rule" =>
       /\ cursor.kind = rule[w] => cursor.rows \subseteq OwnFrame(w)
       /\ Foreign = {} => cursor = RuleResult(rule[w], OwnFrame(w))
  /\ pc[w] = "ins_alert" =>
       /\ todo[w] \subseteq OwnFrame(w)
       /\ Stored(rule[w], fu[w]) \subseteq Alerts(rule[w], fu[w], OwnFrame(w) \ todo[w])
       /\ Foreign = {} =>
            Stored(rule[w], fu[w]) = Alerts(rule[w], fu[w], OwnFrame(w) \ todo[w])

DetectInv == \A w \in Workers : Detecting(w)

LEMMA SameFrames ==
  ASSUME UNCHANGED <<contrato, empresa>>
  PROVE  /\ \A r, f : RuleFrame(r, Joined(f))' = RuleFrame(r, Joined(f))
         /\ \A r, f : RuleAlerts(r, f)' = RuleAlerts(r, f)
PROOF
<1>1. \A f : Joined(f)' = Joined(f)
  BY SameJoined
<1>2. \A r, f : RuleFrame(r, Joined(f))' = RuleFrame(r, Joined(f))
  BY <1>1 DEF RuleFrame, GroupsOf
<1>. QED
  BY <1>2 DEF RuleAlerts, Findings

(* Slices whose alerts are as they were are done with the rules they were. *)
LEMMA SameDone ==
  ASSUME UNCHANGED <<contrato, empresa>>, NEW f, AlertsOf(f)' = AlertsOf(f)
  PROVE  \A r : Stored(r, f)' = Stored(r, f) /\ Done(r, f)' = Done(r, f)
PROOF
<1>1. \A r : Stored(r, f)' = Stored(r, f)
  BY DEF Stored
<1>. QED
  BY <1>1, SameFrames DEF Done

(* The order of the rules.                                                 *)
LEMMA OrderOfRules ==
  /\ Before(FirstRule) = {} /\ FirstRule \in Rules
  /\ Rules = Before(LastRule) \cup {LastRule} /\ LastRule \notin Before(LastRule)
  /\ \A r \in Rules \ {LastRule} :
       NextRule[r] \in Rules /\ Before(NextRule[r]) = Before(r) \cup {r}
         /\ NextRule[r] \notin Before(r) \cup {r}
PROOF
BY DEF Before, FirstRule, LastRule, NextRule, Rules

(* The end of a rule, whose alerts are in the table.                       *)
LEMMA RuleDoneDetecting ==
  ASSUME Inv, NEW w \in Workers, Detecting(w), pc[w] \in {"fetch_rule", "ins_alert"},
         RuleDone(w), UNCHANGED <<fu, cola, contrato, empresa>>,
         NEW s, s = fu[w], NEW q, q = rule[w],
         Done(q, s)',
         \A r : r # q => Stored(r, s)' = Stored(r, s),
         \A f : f # s => AlertsOf(f)' = AlertsOf(f)
  PROVE  Detecting(w)'
PROOF
<1>1. /\ pc \in [Workers -> Free \cup LoadPcs \cup DetectPcs]
      /\ rule \in [Workers -> Rules]
      /\ hecho \in [Workers -> SUBSET (Fuentes \cup {Bogus})]
  BY DEF Inv, RequestsTyped
<1>2. /\ s \notin cola[w] \cup hecho[w] /\ cola[w] \cap hecho[w] = {}
      /\ \A f \in hecho[w] : \A r \in Rules : Done(r, f)
      /\ \A r \in Before(rule[w]) : Done(r, s)
      /\ \A r \in Rules \ (Before(rule[w]) \cup {rule[w]}) : Stored(r, s) = {}
  BY DEF Detecting, InSlice
<1>3. rule[w] \in Rules /\ rule[w] \notin Before(rule[w])
  BY <1>1 DEF Before, Rules
<1>4. \A f \in hecho[w] : \A r \in Rules : Done(r, f)'
  BY <1>2, SameDone
<1>5. \A r \in Before(rule[w]) \cup {rule[w]} : Done(r, s)'
  <2>1. \A r : r # rule[w] => Done(r, s)' = Done(r, s)
    BY SameFrames DEF Done
  <2>. QED
    BY <1>2, <1>3, <2>1
<1>6. fu'[w] = s /\ cola'[w] = cola[w]
  OBVIOUS
<1>7. CASE rule[w] = LastRule
  <2>1. pc'[w] = "total" /\ rule'[w] = FirstRule /\ hecho'[w] = hecho[w] \cup {s}
    BY <1>1, <1>7 DEF RuleDone, Goto
  <2>2. \A r \in Rules : Done(r, s)'
    BY <1>5, <1>7, OrderOfRules
  <2>. QED
    BY <1>2, <1>4, <1>6, <2>1, <2>2 DEF Detecting, InSlice
<1>8. CASE rule[w] # LastRule
  <2> DEFINE n == NextRule[rule[w]]
  <2>1. pc'[w] = "query" /\ rule'[w] = n /\ hecho' = hecho
    BY <1>1, <1>8 DEF RuleDone, Goto
  <2>2. /\ n \in Rules /\ Before(n) = Before(rule[w]) \cup {rule[w]}
        /\ n \notin Before(rule[w]) \cup {rule[w]}
    BY <1>3, <1>8, OrderOfRules
  <2>3. \A r \in Rules \ Before(n) : Stored(r, s)' = {}
    BY <1>2, <2>2
  <2>4. \A r \in Before(rule'[w]) : Done(r, fu[w])'
    BY <1>5, <1>6, <2>1, <2>2
  <2>5. /\ \A r \in Rules \ (Before(rule'[w]) \cup {rule'[w]}) : Stored(r, fu[w])' = {}
        /\ \A r : r = rule'[w] => Stored(r, fu[w])' = {}
    BY <1>6, <2>1, <2>2, <2>3
  <2>6. Stored(rule[w], fu[w])' = {}
    BY <2>5
  <2>. QED
    BY <1>2, <1>4, <1>6, <2>1, <2>4, <2>5, <2>6 DEF Detecting, InSlice
<1>. QED
  BY <1>7, <1>8

LEMMA DetectingDetect ==
  ASSUME Inv, NEW w \in Workers, Detecting(w), Detect(w)
  PROVE  Detecting(w)'
PROOF
<1>1. /\ pc \in [Workers -> Free \cup LoadPcs \cup DetectPcs]
      /\ fu \in [Workers -> Fuentes \cup {Bogus, Null}]
      /\ todo \in [Workers -> SUBSET (Orgs \cup Emps \cup Ids \cup RuleRows \cup {Bogus})]
      /\ cola \in [Workers -> SUBSET (Fuentes \cup {Bogus})]
      /\ rule \in [Workers -> Rules]
      /\ hecho \in [Workers -> SUBSET (Fuentes \cup {Bogus})]
  BY DEF Inv, RequestsTyped
<1>2. UNCHANGED <<contrato, empresa>>
  BY DetectReadsOnly
<1>3. /\ \A r, f : RuleFrame(r, Joined(f))' = RuleFrame(r, Joined(f))
      /\ \A r, f : RuleAlerts(r, f)' = RuleAlerts(r, f)
  BY <1>2, SameFrames
<1>4. ASSUME UNCHANGED alerta
      PROVE  \A f : \A r : Stored(r, f)' = Stored(r, f) /\ Done(r, f)' = Done(r, f)
  <2>1. \A f : AlertsOf(f)' = AlertsOf(f)
    BY <1>4 DEF AlertsOf
  <2>. QED
    BY <1>2, <2>1, SameDone
<1>5. ASSUME NEW label \in Free, Return(w, label) PROVE Detecting(w)'
  <2>1. pc'[w] = label /\ hecho'[w] = {} /\ cola'[w] = {} /\ rule'[w] = FirstRule
    BY <1>1, <1>5 DEF Return, Goto
  <2>. QED
    BY <2>1 DEF Detecting, Free, InSlice
<1>6. FailDetect(w) => Detecting(w)'
  BY <1>5 DEF FailDetect, Raise, Free
<1>7. CASE ListFuentes(w)
  <2>1. /\ pc[w] = "list" /\ pc'[w] = "fetch_list" /\ UNCHANGED locals
    BY <1>1, <1>7 DEF ListFuentes, Goto
  <2>. QED
    BY <2>1 DEF Detecting, InSlice, locals
<1>8. CASE FetchFuentes(w)
  <2>1. CASE \E label \in Free : Return(w, label)
    BY <1>5, <2>1
  <2>2. CASE ~ \E label \in Free : Return(w, label)
    <3>1. pc[w] = "fetch_list" /\ pc'[w] = "total" /\ UNCHANGED <<rule, hecho>>
      BY <1>1, <1>8, <2>2 DEF FetchFuentes, Goto, Free
    <3>. QED
      BY <3>1 DEF Detecting, InSlice
  <2>. QED
    BY <2>1, <2>2
<1>9. CASE CountTotal(w)
  <2>1. CASE FailDetect(w)
    BY <1>6, <2>1
  <2>2. CASE ~FailDetect(w)
    <3>1. PICK f \in cola[w] :
            /\ fu' = [fu EXCEPT ![w] = f] /\ cola' = [cola EXCEPT ![w] = @ \ {f}]
            /\ Goto(w, "fetch_total") /\ UNCHANGED <<tables, con, todo, rule, hecho>>
      BY <1>9, <2>2 DEF CountTotal
    <3>2. /\ fu'[w] = f /\ cola'[w] = cola[w] \ {f} /\ pc'[w] = "fetch_total" /\ pc[w] = "total"
          /\ UNCHANGED <<rule, hecho, alerta>>
      BY <1>1, <1>9, <3>1 DEF CountTotal, Goto, tables
    <3>3. \A g \in hecho[w] : \A r \in Rules : Done(r, g)'
      BY <1>4, <3>2 DEF Detecting
    <3>. QED
      BY <3>2, <3>3 DEF Detecting, InSlice
  <2>. QED
    BY <2>1, <2>2
<1>10. CASE FetchTotal(w)
  <2>1. CASE Return(w, "detect_failed")
    BY <1>5, <2>1 DEF Free
  <2>2. CASE ~Return(w, "detect_failed")
    <3>1. /\ pc[w] = "fetch_total" /\ pc'[w] = "del_patron"
          /\ UNCHANGED <<fu, cola, rule, hecho, alerta>>
      BY <1>1, <1>10, <2>2 DEF FetchTotal, Goto, tables, locals
    <3>2. \A g \in hecho[w] : \A r \in Rules : Done(r, g)'
      BY <1>4, <3>1 DEF Detecting
    <3>. QED
      BY <3>1, <3>2 DEF Detecting, InSlice
  <2>. QED
    BY <2>1, <2>2
<1>11. CASE DeletePatron(w)
  <2>1. /\ pc[w] = "del_patron" /\ pc'[w] = "query" /\ UNCHANGED <<fu, cola, rule, hecho>>
        /\ alerta' = alerta \ AlertsOf(fu[w])
    BY <1>1, <1>11 DEF DeletePatron, DetectErases, Goto, locals
  <2>2. /\ \A r : Stored(r, fu[w])' = {}
        /\ \A f : f # fu[w] => AlertsOf(f)' = AlertsOf(f)
    BY <2>1 DEF AlertsOf, Stored
  <2>3. \A g \in hecho[w] : \A r \in Rules : Done(r, g)'
    BY <1>2, <2>1, <2>2, SameDone DEF Detecting, InSlice
  <2>4. rule[w] = FirstRule /\ Before(rule[w]) = {}
    BY <2>1, OrderOfRules DEF Detecting
  <2>. QED
    BY <2>1, <2>2, <2>3, <2>4 DEF Detecting, InSlice
<1>12. CASE QueryRule(w)
  <2>1. /\ pc[w] = "query" /\ pc'[w] = "fetch_rule" /\ UNCHANGED <<fu, cola, rule, hecho, alerta>>
        /\ cursor' = RuleResult(rule[w], OwnFrame(w))
    BY <1>1, <1>12 DEF QueryRule, OwnFrame, Goto, locals, tables
  <2>2. cursor' = RuleResult(rule[w], OwnFrame(w))'
    BY <1>3, <2>1 DEF OwnFrame, RuleResult
  <2>3. cursor'.kind = rule'[w] => cursor'.rows \subseteq OwnFrame(w)'
    BY <2>1, <2>2 DEF RuleResult
  <2>4. Foreign = {} => cursor' = RuleResult(rule[w], OwnFrame(w))'
    BY <2>2
  <2>. QED
    BY <1>4, <2>1, <2>3, <2>4 DEF Detecting, InSlice
<1>13. CASE FetchRule(w)
  <2>1. /\ pc[w] = "fetch_rule" /\ UNCHANGED alerta
        /\ cursor.kind = rule[w] => cursor.rows \subseteq OwnFrame(w)
        /\ Foreign = {} => cursor = RuleResult(rule[w], OwnFrame(w))
        /\ Stored(rule[w], fu[w]) = {}
    BY <1>13 DEF FetchRule, tables, Detecting
  <2>2. CASE Return(w, "detect_failed")
    BY <1>5, <2>2 DEF Free
  <2>3. CASE /\ cursor.kind = rule[w]
             /\ todo' = [todo EXCEPT ![w] = cursor.rows] /\ Goto(w, "ins_alert")
             /\ UNCHANGED <<fu, con, cola, rule, hecho>>
    <3>1. todo'[w] = cursor.rows /\ pc'[w] = "ins_alert"
      BY <1>1, <2>3 DEF Goto
    <3>2. OwnFrame(w)' = OwnFrame(w)
      BY <1>3, <2>3 DEF OwnFrame
    <3>3. Stored(rule[w], fu[w])' = {}
      BY <1>4, <2>1, <2>3
    <3>4. Foreign = {} => Alerts(rule[w], fu[w], OwnFrame(w) \ todo[w])' = {}
      BY <2>1, <2>3, <3>1, <3>2 DEF Alerts, RuleResult
    <3>5. todo'[w] \subseteq OwnFrame(w)'
      BY <2>1, <2>3, <3>1, <3>2
    <3>. QED
      BY <1>4, <2>1, <2>3, <3>1, <3>3, <3>4, <3>5 DEF Detecting, InSlice
  <2>4. CASE ~HasRow(cursor) /\ RuleDone(w) /\ UNCHANGED <<fu, con, todo, cola>>
    <3>1. RuleAlerts(rule[w], fu[w]) = {} \/ Foreign # {}
      BY <2>1, <2>4 DEF HasRow, RuleResult, RuleAlerts, Findings, OwnFrame
    <3>2. Done(rule[w], fu[w])
      BY <2>1, <3>1 DEF Done
    <3>3. \A f : AlertsOf(f)' = AlertsOf(f)
      BY <2>1 DEF AlertsOf
    <3>4. \A f, r : f = fu[w] /\ r = rule[w] => Done(r, f)'
      BY <1>4, <2>1, <3>2
    <3>5. \A f, r : Stored(r, f)' = Stored(r, f)
      BY <1>4, <2>1
    <3>. QED
      BY <1>2, <2>1, <2>4, <3>3, <3>4, <3>5, RuleDoneDetecting
  <2>. QED
    BY <1>13, <2>2, <2>3, <2>4 DEF FetchRule
<1>14. CASE InsertAlert(w)
  <2>1. PICK row \in todo[w] :
          IF \E a \in alerta : SameId(a, Alert(rule[w], row, fu[w]))
            THEN FailDetect(w)
            ELSE /\ alerta' = alerta \cup {Alert(rule[w], row, fu[w])}
                 /\ todo' = [todo EXCEPT ![w] = todo[w] \ {row}]
                 /\ Wrote
                 /\ IF todo[w] \ {row} = {} THEN RuleDone(w) ELSE UNCHANGED <<pc, rule, hecho>>
                 /\ UNCHANGED <<organismo, empresa, contrato, fu, con, cola>>
    BY <1>14 DEF InsertAlert
  <2>2. SUFFICES ASSUME ~FailDetect(w) PROVE Detecting(w)'
    BY <1>6
  <2> DEFINE s == fu[w]
             new == Alert(rule[w], row, s)
  <2>3. pc[w] = "ins_alert" /\ row \in OwnFrame(w) /\ todo[w] \subseteq OwnFrame(w)
    BY <1>14 DEF InsertAlert, Detecting
  <2>4. /\ alerta' = alerta \cup {new} /\ new.fuente = s /\ new.patron = rule[w]
        /\ fu' = fu /\ cola' = cola
    BY <2>1, <2>2 DEF Alert
  <2>5. /\ \A f : f # s => AlertsOf(f)' = AlertsOf(f)
        /\ \A f, r : f = s /\ r # rule[w] => Stored(r, f)' = Stored(r, f)
        /\ \A f, r : f = s /\ r = rule[w] => Stored(r, f)' = Stored(r, f) \cup {new}
    BY <2>4 DEF AlertsOf, Stored
  <2> DEFINE most == Alerts(rule[w], s, OwnFrame(w) \ (todo[w] \ {row}))
  <2>6. /\ Stored(rule[w], s) \subseteq Alerts(rule[w], s, OwnFrame(w) \ todo[w])
        /\ Foreign = {} => Stored(rule[w], s) = Alerts(rule[w], s, OwnFrame(w) \ todo[w])
    BY <2>3 DEF Detecting
  <2>7. \A f, r : f = s /\ r = rule[w] =>
          Stored(r, f)' \subseteq most /\ (Foreign = {} => Stored(r, f)' = most)
    <3>1. most = Alerts(rule[w], s, OwnFrame(w) \ todo[w]) \cup {new}
      BY <2>3 DEF Alerts
    <3>. QED
      BY <2>5, <2>6, <3>1
  <2>8. CASE todo[w] \ {row} = {}
    <3>1. \A f, r : f = s /\ r = rule[w] => most = RuleAlerts(r, f)
      BY <2>8 DEF RuleAlerts, Findings, OwnFrame, Alerts
    <3>2. \A f, r : f = s /\ r = rule[w] => Done(r, f)'
      BY <1>3, <2>7, <3>1 DEF Done
    <3>. QED
      BY <1>2, <2>1, <2>2, <2>3, <2>4, <2>5, <2>8, <3>2, RuleDoneDetecting
  <2>9. CASE todo[w] \ {row} # {}
    <3>1. todo'[w] = todo[w] \ {row} /\ UNCHANGED <<pc, rule, hecho, fu, cola>>
      BY <1>1, <2>1, <2>2, <2>9
    <3>2. OwnFrame(w)' = OwnFrame(w)
      BY <1>3, <3>1 DEF OwnFrame
    <3>3. /\ Stored(rule[w], fu[w])' \subseteq Alerts(rule[w], fu[w], OwnFrame(w) \ todo[w])'
          /\ Foreign = {} =>
               Stored(rule[w], fu[w])' = Alerts(rule[w], fu[w], OwnFrame(w) \ todo[w])'
      BY <2>7, <3>1, <3>2 DEF Alerts
    <3>4. \A f \in hecho[w] : \A r \in Rules : Done(r, f)'
      BY <1>2, <2>3, <2>5, SameDone DEF Detecting, InSlice
    <3>5. \A r : r # rule[w] => Stored(r, fu[w])' = Stored(r, fu[w]) /\ Done(r, fu[w])' = Done(r, fu[w])
      BY <1>3, <2>5, <3>1 DEF Done
    <3>6. rule[w] \notin Before(rule[w])
      BY <1>1 DEF Before, Rules
    <3>. QED
      BY <2>3, <3>1, <3>2, <3>3, <3>4, <3>5, <3>6 DEF Detecting, InSlice
  <2>. QED
    BY <2>8, <2>9
<1>15. CASE DetectReturns(w)
  BY <1>5, <1>15 DEF DetectReturns, Free
<1>. QED
  BY <1>7, <1>8, <1>9, <1>10, <1>11, <1>12, <1>13, <1>14, <1>15 DEF Detect

(* A request that is no detection is done with none, before and after.     *)
LEMMA DetectingOther ==
  ASSUME Inv, NEW w \in Workers, Detecting(w), Arrive(w) \/ Load(w)
  PROVE  Detecting(w)'
PROOF
<1>1. /\ pc \in [Workers -> Free \cup LoadPcs \cup DetectPcs]
      /\ cola \in [Workers -> SUBSET (Fuentes \cup {Bogus})]
      /\ rule \in [Workers -> Rules]
      /\ hecho \in [Workers -> SUBSET (Fuentes \cup {Bogus})]
  BY DEF Inv, RequestsTyped
<1>2. pc[w] \in Free \cup LoadPcs
  BY DEF Arrive, StartLoad, StartDetect, Load, DeleteContrato, DeleteAlerta, DeleteEmpresa,
         DeleteOrganismo, InsertOrganismo, InsertEmpresa, InsertContrato, NothingToInsert, Count,
         FetchCount, LoadPcs, FetchOf, AfterFetch
<1>3. hecho[w] = {} /\ rule[w] = FirstRule
  BY <1>2 DEF Detecting, Free, LoadPcs, FetchOf, AfterFetch, InSlice
<1>4. pc'[w] \in Free \cup LoadPcs \cup {"list", "total"}
  BY <1>1 DEF Arrive, StartLoad, StartDetect, Load, DeleteContrato, DeleteAlerta, DeleteEmpresa,
         DeleteOrganismo, InsertOrganismo, InsertEmpresa, InsertContrato, NothingToInsert, Count,
         FetchCount, RowDone, FailLoad, Raise, Return, Goto, LoadPcs, FetchOf, AfterFetch, Free
<1>5. hecho'[w] = {} /\ rule'[w] = FirstRule
  BY <1>1, <1>3
     DEF Arrive, StartLoad, StartDetect, Load, DeleteContrato, DeleteAlerta, DeleteEmpresa,
         DeleteOrganismo, InsertOrganismo, InsertEmpresa, InsertContrato, NothingToInsert, Count,
         FetchCount, RowDone, FailLoad, Raise, Return, locals
<1>. QED
  BY <1>4, <1>5 DEF Detecting, Free, LoadPcs, FetchOf, AfterFetch, InSlice

LEMMA DetectInvNext ==
  ASSUME OneThread, Inv, DetectInv, [Next]_vars
  PROVE  DetectInv'
PROOF
<1>1. ASSUME NEW w \in Workers, Arrive(w) \/ Serve(w) PROVE DetectInv'
  <2>1. Detecting(w)'
    BY <1>1, DetectingDetect, DetectingOther DEF Serve, DetectInv
  <2>. QED
    BY <2>1 DEF OneThread, DetectInv
<1>2. Restart => DetectInv'
  BY DEF Restart, Reopen, DetectInv, Detecting, InSlice
<1>3. ASSUME UNCHANGED <<tables, pc, locals>>, cursor' = cursor \/ OtherStatement
      PROVE  DetectInv'
  <2>1. UNCHANGED <<contrato, empresa, alerta, fu, pc, todo, cola, rule, hecho>>
    BY <1>3 DEF tables, locals
  <2>2. /\ \A f : \A r : Stored(r, f)' = Stored(r, f) /\ Done(r, f)' = Done(r, f)
        /\ \A w : OwnFrame(w)' = OwnFrame(w)
    <3>1. \A f : AlertsOf(f)' = AlertsOf(f)
      BY <2>1 DEF AlertsOf
    <3>. QED
      BY <2>1, <3>1, SameDone, SameFrames DEF OwnFrame
  <2>3. ASSUME NEW w \in Workers, pc[w] = "fetch_rule"
        PROVE  /\ cursor'.kind = rule[w] => cursor'.rows \subseteq OwnFrame(w)
               /\ Foreign = {} => cursor' = RuleResult(rule[w], OwnFrame(w))
    <3>1. /\ cursor.kind = rule[w] => cursor.rows \subseteq OwnFrame(w)
          /\ Foreign = {} => cursor = RuleResult(rule[w], OwnFrame(w))
      BY <2>3 DEF DetectInv, Detecting
    <3>2. rule[w] \in Rules
      BY DEF Inv, RequestsTyped
    <3>. QED
      BY <1>3, <3>1, <3>2, OtherLeaves
  <2>. QED
    BY <2>1, <2>2, <2>3 DEF DetectInv, Detecting, Alerts, RuleResult
<1>4. OtherStatement \/ UNCHANGED vars => DetectInv'
  BY <1>3 DEF OtherStatement, vars
<1>. QED
  BY <1>1, <1>2, <1>4 DEF Next

LEMMA SpecDetectInv == OneThread => (Spec => []DetectInv)
PROOF
<1>1. SUFFICES ASSUME OneThread PROVE Spec => []DetectInv
  OBVIOUS
<1>2. Init => DetectInv
  BY DEF Init, DetectInv, Detecting, InSlice
<1>3. Inv /\ DetectInv /\ [Next]_vars => DetectInv'
  BY <1>1, DetectInvNext
<1>. QED
  BY <1>2, <1>3, SpecInv, PTL DEF Spec

(* With one thread and no other endpoint on the connection, the alerts of  *)
(* a slice that run_detection has reported are all the rows of the three   *)
(* rules and no others, whatever alerts earlier detections left there.     *)
THEOREM DetectionsWhole == OneThread /\ Foreign = {} => (Spec => []DetectionComplete)
PROOF
<1>1. SUFFICES ASSUME OneThread, Foreign = {} PROVE Spec => []DetectionComplete
  OBVIOUS
<1>2. Inv /\ DetectInv => DetectionComplete
  <2>1. SUFFICES ASSUME Inv, DetectInv, NEW w \in Workers, NEW f \in hecho[w]
                 PROVE  AlertsOf(f) = AllAlerts(f)
    BY DEF DetectionComplete
  <2>2. \A r \in Rules : Stored(r, f) = RuleAlerts(r, f)
    BY <1>1, <2>1 DEF DetectInv, Detecting, Done
  <2>3. AllAlerts(f) = UNION {RuleAlerts(r, f) : r \in Rules}
    BY DEF AllAlerts, RuleAlerts
  <2>4. \A a \in AlertsOf(f) : a.patron \in Rules
    BY <2>1 DEF Inv, TypeOK, TablesTyped, AlertRows, AlertsOf
  <2>5. AlertsOf(f) = UNION {Stored(r, f) : r \in Rules}
    BY <2>4 DEF Stored
  <2>. QED
    BY <2>2, <2>3, <2>5
<1>3. Spec => []DetectInv
  BY <1>1, SpecDetectInv
<1>. QED
  BY <1>2, <1>3, SpecInv, PTL

-----------------------------------------------------------------------------
(* Detections end well when suppliers have a rut.                          *)

(* A detection fetches what it asked for, and all it has are slices.       *)
Succeeding(w) ==
  /\ pc[w] # "detect_failed"
  /\ cola[w] \subseteq Fuentes
  /\ pc[w] = "fetch_list" => cursor.kind = "fuentes"
  /\ pc[w] = "fetch_total" => cursor = CountResult

SuccessInv == \A w \in Workers : Succeeding(w)

Identified == Emps \cap Unidentified = {}

LEMMA JoinedTells ==
  ASSUME Identified, Inv, NEW f \in Fuentes \cup {Bogus}, NEW r
  PROVE  KeysTell(r, Joined(f))
PROOF
<1>1. ASSUME NEW c \in Joined(f) PROVE c.prov \in Emps
  <2>1. PICK i \in SliceContracts(f) : c = JoinedRow(f, i)
    BY DEF Joined
  <2>2. c.prov = ConRow(f, i).prov /\ contrato[i] = f /\ i \in Ids /\ contrato[i] # Null
    BY <2>1 DEF JoinedRow, SliceContracts
  <2>. QED
    BY <2>2 DEF Inv, RowsInv, RowOK
<1>2. \A c \in Joined(f) : c.rut = c.prov /\ c.nombre = EmpName(empresa[c.prov], c.prov)
  BY <1>1, JoinedSuppliers DEF EmpRut, Identified
<1>. QED
  BY <1>2 DEF KeysTell

(* No alert in the table has the id of the next one.                       *)
LEMMA NoClash ==
  ASSUME Identified, Inv, NEW w \in Workers, Detecting(w), pc[w] = "ins_alert",
         NEW row \in todo[w], NEW a \in alerta, SameId(a, Alert(rule[w], row, fu[w]))
  PROVE  FALSE
PROOF
<1>1. rule[w] \in Rules /\ fu[w] \in Fuentes \cup {Bogus}
  BY Locals DEF InSlice
<1>2. a.patron = rule[w] /\ a.key = row.key /\ a.fuente = fu[w]
  BY DEF SameId, Alert
<1>3. a \in Stored(rule[w], fu[w])
  BY <1>2 DEF Stored, AlertsOf
<1>4. PICK x \in OwnFrame(w) \ todo[w] : a = Alert(rule[w], x, fu[w])
  BY <1>3 DEF Detecting, Alerts
<1>5. x.key = row.key
  BY <1>2, <1>4 DEF Alert
<1>6. x \in OwnFrame(w) /\ row \in OwnFrame(w)
  BY DEF Detecting
<1>7. x = row
  BY <1>1, <1>5, <1>6, JoinedTells, KeysUnique DEF OwnFrame
<1>. QED
  BY <1>7

LEMMA SucceedingDetect ==
  ASSUME Identified, Foreign = {}, Inv, NEW w \in Workers, Detecting(w), Succeeding(w), Detect(w)
  PROVE  Succeeding(w)'
PROOF
<1>1. /\ pc \in [Workers -> Free \cup LoadPcs \cup DetectPcs]
      /\ cola \in [Workers -> SUBSET (Fuentes \cup {Bogus})]
      /\ rule \in [Workers -> Rules]
  BY DEF Inv, RequestsTyped
<1>2. CASE ListFuentes(w)
  BY <1>1, <1>2 DEF ListFuentes, FuentesResult, Goto, locals, Succeeding
<1>3. CASE FetchFuentes(w)
  <2>1. cursor.kind = "fuentes" /\ cursor # NoResult
    BY <1>3 DEF FetchFuentes, Succeeding, NoResult
  <2>2. cursor \in Results
    BY DEF Inv
  <2>3. FirstColumn(cursor) \subseteq Fuentes
    BY <2>1, <2>2 DEF FirstColumn, Results, Rules
  <2>. QED
    BY <1>1, <1>3, <2>1, <2>3 DEF FetchFuentes, Goto, Succeeding
<1>4. CASE CountTotal(w)
  <2>1. Bogus \notin cola[w]
    BY DEF Succeeding
  <2>. QED
    BY <1>1, <1>4, <2>1 DEF CountTotal, Goto, Succeeding
<1>5. CASE FetchTotal(w)
  <2>1. IsNumber(cursor)
    BY <1>5 DEF FetchTotal, Succeeding, IsNumber, CountResult
  <2>. QED
    BY <1>1, <1>5, <2>1 DEF FetchTotal, Goto, Succeeding, locals
<1>6. CASE DeletePatron(w) \/ QueryRule(w)
  BY <1>1, <1>6 DEF DeletePatron, QueryRule, Goto, Succeeding, locals
<1>7. CASE FetchRule(w)
  <2>1. cursor.kind = rule[w] /\ cursor # NoResult
    BY <1>1, <1>7 DEF FetchRule, Detecting, RuleResult, NoResult, Rules
  <2>. QED
    BY <1>1, <1>7, <2>1 DEF FetchRule, RuleDone, Goto, Succeeding
<1>8. CASE InsertAlert(w)
  <2>1. \A row \in todo[w] : ~ \E a \in alerta : SameId(a, Alert(rule[w], row, fu[w]))
    BY <1>8, NoClash DEF InsertAlert
  <2>. QED
    BY <1>1, <1>8, <2>1 DEF InsertAlert, RuleDone, Goto, Succeeding
<1>9. CASE DetectReturns(w)
  BY <1>1, <1>9 DEF DetectReturns, Return, Goto, Succeeding
<1>. QED
  BY <1>2, <1>3, <1>4, <1>5, <1>6, <1>7, <1>8, <1>9 DEF Detect

LEMMA SucceedingOther ==
  ASSUME Inv, NEW w \in Workers, Succeeding(w), Arrive(w) \/ Load(w)
  PROVE  Succeeding(w)'
PROOF
<1>1. /\ pc \in [Workers -> Free \cup LoadPcs \cup DetectPcs]
      /\ cola \in [Workers -> SUBSET (Fuentes \cup {Bogus})]
  BY DEF Inv, RequestsTyped
<1>2. pc'[w] \in LoadPcs \cup {"load_failed", "seeded", "not_found", "list", "total"}
  BY <1>1 DEF Arrive, StartLoad, StartDetect, Load, DeleteContrato, DeleteAlerta, DeleteEmpresa,
         DeleteOrganismo, InsertOrganismo, InsertEmpresa, InsertContrato, NothingToInsert, Count,
         FetchCount, RowDone, FailLoad, Raise, Return, Goto, LoadPcs, FetchOf, AfterFetch
<1>3. cola'[w] \subseteq Fuentes
  <2>1. cola'[w] = cola[w] \/ cola'[w] = {} \/ \E f \in Fuentes : cola'[w] = {f}
    BY <1>1
       DEF Arrive, StartLoad, StartDetect, Load, DeleteContrato, DeleteAlerta, DeleteEmpresa,
           DeleteOrganismo, InsertOrganismo, InsertEmpresa, InsertContrato, NothingToInsert, Count,
           FetchCount, RowDone, FailLoad, Raise, Return, locals
  <2>. QED
    BY <2>1 DEF Succeeding
<1>. QED
  BY <1>2, <1>3 DEF Succeeding, LoadPcs, FetchOf, AfterFetch

(* With one thread, no other endpoint on the connection and suppliers that *)
(* have a rut, no detection ever fails: it never meets an alert id that is *)
(* taken, however often it is repeated or cut short.                       *)
THEOREM DetectionsSucceed ==
  OneThread /\ Foreign = {} /\ Identified => (Spec => []DetectionSucceeds)
PROOF
<1>1. SUFFICES ASSUME OneThread, Foreign = {}, Identified PROVE Spec => []DetectionSucceeds
  OBVIOUS
<1>2. Init => SuccessInv
  BY DEF Init, SuccessInv, Succeeding
<1>3. Inv /\ DetectInv /\ SuccessInv /\ [Next]_vars => SuccessInv'
  <2>1. SUFFICES ASSUME Inv, DetectInv, SuccessInv, [Next]_vars PROVE SuccessInv'
    OBVIOUS
  <2>2. ASSUME NEW w \in Workers, Arrive(w) \/ Serve(w) PROVE SuccessInv'
    <3>1. Succeeding(w)'
      BY <1>1, <2>1, <2>2, SucceedingDetect, SucceedingOther DEF Serve, SuccessInv, DetectInv
    <3>. QED
      BY <1>1, <3>1 DEF OneThread, SuccessInv
  <2>3. Restart => SuccessInv'
    BY DEF Restart, Reopen, SuccessInv, Succeeding
  <2>4. UNCHANGED vars => SuccessInv'
    BY <2>1 DEF vars, locals, SuccessInv, Succeeding
  <2>. QED
    BY <1>1, <2>1, <2>2, <2>3, <2>4 DEF Next, OtherStatement
<1>4. SuccessInv => DetectionSucceeds
  BY DEF SuccessInv, Succeeding, DetectionSucceeds
<1>5. Spec => []DetectInv
  BY <1>1, SpecDetectInv
<1>. QED
  BY <1>2, <1>3, <1>4, <1>5, SpecInv, PTL DEF Spec

-----------------------------------------------------------------------------
(* The catalogue.                                                          *)

(* A load works on what LIMIT selected of the file of its slice.           *)
Limited(w) == pc[w] \in LoadPcs => \E limit \in Limits : con[w] \in Slices(fu[w], limit)

OfferInv == \A w \in Workers : Limited(w)

LEMMA LimitedNext ==
  ASSUME Inv, NEW w \in Workers, Limited(w), Arrive(w) \/ Serve(w)
  PROVE  Limited(w)'
PROOF
<1>1. /\ pc \in [Workers -> Free \cup LoadPcs \cup DetectPcs]
      /\ fu \in [Workers -> Fuentes \cup {Bogus, Null}]
      /\ con \in [Workers -> SUBSET Ids]
  BY DEF Inv, RequestsTyped
<1>2. ASSUME NEW label \in Free, Return(w, label) PROVE Limited(w)'
  BY <1>1, <1>2 DEF Return, Goto, Limited, Free, LoadPcs, FetchOf, AfterFetch
<1>3. CASE Load(w)
  <2>1. pc[w] \in LoadPcs
    BY <1>3 DEF Load, DeleteContrato, DeleteAlerta, DeleteEmpresa, DeleteOrganismo, NothingToInsert,
                InsertOrganismo, InsertEmpresa, InsertContrato, Count, FetchCount, LoadPcs
  <2>2. \/ UNCHANGED <<fu, con>>
        \/ \E label \in Free : Return(w, label)
    BY <1>3 DEF Load, DeleteContrato, DeleteAlerta, DeleteEmpresa, DeleteOrganismo, NothingToInsert,
                InsertOrganismo, InsertEmpresa, InsertContrato, Count, FetchCount, RowDone, locals,
                FailLoad, Raise, Free
  <2>. QED
    BY <1>2, <2>1, <2>2 DEF Limited
<1>4. CASE Detect(w)
  <2>1. pc'[w] \notin LoadPcs
    <3>1. pc[w] \in DetectPcs
      BY <1>4 DEF Detect, ListFuentes, FetchFuentes, CountTotal, FetchTotal, DeletePatron, QueryRule,
                  FetchRule, InsertAlert, DetectReturns, DetectPcs
    <3>2. \/ pc' = pc
          \/ \E label \in DetectPcs \cup Free : Goto(w, label)
      BY <1>4 DEF Detect, ListFuentes, FetchFuentes, CountTotal, FetchTotal, DeletePatron, QueryRule,
                  FetchRule, InsertAlert, DetectReturns, DetectPcs, Free, Return, FailDetect, Raise,
                  RuleDone
    <3>. QED
      BY <1>1, <3>1, <3>2 DEF Goto, Free, LoadPcs, DetectPcs, FetchOf, AfterFetch
  <2>. QED
    BY <2>1 DEF Limited
<1>5. CASE Arrive(w)
  <2>1. CASE \E f \in Fuentes : StartLoad(w, f)
    BY <1>1, <1>2, <2>1 DEF StartLoad, Goto, Limited, Free
  <2>2. CASE \E f \in Fuentes \cup {Null} : StartDetect(w, f)
    BY <1>1, <2>2 DEF StartDetect, Goto, Limited, LoadPcs, FetchOf, AfterFetch
  <2>. QED
    BY <1>5, <2>1, <2>2 DEF Arrive
<1>. QED
  BY <1>3, <1>4, <1>5 DEF Serve

LEMMA SpecOfferInv == OneThread => (Spec => []OfferInv)
PROOF
<1>1. SUFFICES ASSUME OneThread PROVE Spec => []OfferInv
  OBVIOUS
<1>2. Init => OfferInv
  BY DEF Init, OfferInv, Limited, LoadPcs, FetchOf, AfterFetch
<1>3. Inv /\ OfferInv /\ [Next]_vars => OfferInv'
  <2>1. SUFFICES ASSUME Inv, OfferInv, [Next]_vars PROVE OfferInv'
    OBVIOUS
  <2>2. ASSUME NEW w \in Workers, Arrive(w) \/ Serve(w) PROVE OfferInv'
    BY <1>1, <2>1, <2>2, LimitedNext DEF OneThread, OfferInv
  <2>3. CASE Restart
    BY <2>3 DEF Restart, Reopen, OfferInv, Limited, LoadPcs, FetchOf, AfterFetch
  <2>4. CASE OtherStatement \/ UNCHANGED vars
    BY <2>1, <2>4 DEF OtherStatement, vars, locals, OfferInv, Limited
  <2>. QED
    BY <2>1, <2>2, <2>3, <2>4 DEF Next
<1>. QED
  BY <1>2, <1>3, SpecInv, PTL DEF Spec

-----------------------------------------------------------------------------
(* What the request of the one thread takes out of the catalogue.          *)

InHand    == LoadPcs \ {"del_contrato"}
RuleStmts == {"query", "fetch_rule", "ins_alert"}

Out(w) == IF pc[w] \in InHand THEN {fu[w]} ELSE {}
Bare(w) == IF pc[w] \in RuleStmts /\ fu[w] # Bogus THEN {fu[w]} ELSE {}

LEMMA OneSeen ==
  ASSUME NEW w, Workers = {w}, Inv
  PROVE  /\ BeingLoaded = Out(w) /\ BeingDetected = Bare(w)
         /\ Seeded = (pc[w] = "seeded") /\ Reported = Fuentes \cap hecho[w]
         /\ fu[w] \in Fuentes \cup {Bogus, Null}
         /\ pc[w] \in InHand => fu[w] \in Zips
         /\ pc[w] \in InHand \cup RuleStmts => fu[w] \in Fuentes \cup {Bogus}
         /\ InHand \cap RuleStmts = {}
PROOF
<1>1. /\ fu[w] \in Fuentes \cup {Bogus, Null}
      /\ pc[w] \in LoadPcs => fu[w] \in Zips
      /\ pc[w] \in RuleStmts => fu[w] # Null
  BY DEF Inv, RequestsTyped, RuleStmts, InSlice
<1>2. InHand \cap RuleStmts = {}
  BY DEF InHand, RuleStmts, LoadPcs, FetchOf, AfterFetch
<1>. QED
  BY <1>1, <1>2 DEF BeingLoaded, BeingDetected, Out, Bare, Seeded, Reported, InHand, RuleStmts

LEMMA OneSeenNext ==
  ASSUME NEW w, Workers = {w}, Inv'
  PROVE  /\ BeingLoaded' = Out(w)' /\ BeingDetected' = Bare(w)'
         /\ Seeded' = (pc'[w] = "seeded") /\ Reported' = Fuentes \cap hecho'[w]
         /\ fu'[w] \in Fuentes \cup {Bogus, Null}
         /\ pc'[w] \in InHand => fu'[w] \in Zips
PROOF
<1>1. /\ fu'[w] \in Fuentes \cup {Bogus, Null}
      /\ pc'[w] \in LoadPcs => fu'[w] \in Zips
      /\ pc'[w] \in RuleStmts => fu'[w] # Null
  BY DEF Inv, RequestsTyped, RuleStmts, InSlice
<1>. QED
  BY <1>1 DEF BeingLoaded, BeingDetected, Out, Bare, Seeded, Reported, InHand, RuleStmts

(* A step whose slice in hand stays the same is not seen.                  *)
LEMMA Unseen ==
  ASSUME BeingLoaded' = BeingLoaded, BeingDetected' = BeingDetected,
         Seeded' = Seeded, Reported' = Reported,
         \A f \in Fuentes \ BeingLoaded : Joined(f)' = Joined(f),
         \A f \in Fuentes \ (BeingLoaded \cup BeingDetected) : AlertsOf(f)' = AlertsOf(f)
  PROVE  UNCHANGED Seen!cvars
PROOF
<1>1. StockSeen' = StockSeen
  BY DEF StockSeen
<1>2. AlertsSeen' = AlertsSeen
  BY DEF AlertsSeen
<1>. QED
  BY <1>1, <1>2 DEF Seen!cvars

(* Alerts change in three statements, and only those of the slice in hand. *)
LEMMA AlertsElsewhere ==
  ASSUME NEW w, Workers = {w}, [Next]_vars, NEW f,
         f # fu[w] \/ pc[w] \notin {"del_alerta", "del_patron", "ins_alert"}
  PROVE  AlertsOf(f)' = AlertsOf(f)
PROOF
<1>1. \/ alerta' = alerta
      \/ /\ pc[w] \in {"del_alerta", "del_patron"}
         /\ alerta' = alerta \ AlertsOf(fu[w])
      \/ /\ pc[w] = "ins_alert"
         /\ \E row \in todo[w] : alerta' = alerta \cup {Alert(rule[w], row, fu[w])}
  <2>1. CASE Arrive(w)
    BY <2>1, DetectReadsOnly DEF Arrive, StartLoad, StartDetect, Return, Raise, tables
  <2>2. CASE Load(w)
    BY <2>2 DEF Load, DeleteContrato, DeleteAlerta, DeleteEmpresa, DeleteOrganismo, NothingToInsert,
                InsertOrganismo, InsertEmpresa, InsertContrato, Count, FetchCount, FailLoad, Raise,
                tables, LoadErases
  <2>3. CASE Detect(w)
    BY <2>3 DEF Detect, ListFuentes, FetchFuentes, CountTotal, FetchTotal, DeletePatron, QueryRule,
                FetchRule, InsertAlert, DetectReturns, FailDetect, Raise, tables, DetectErases
  <2>4. CASE OtherStatement \/ Restart \/ UNCHANGED vars
    BY <2>4 DEF OtherStatement, Restart, vars, tables
  <2>. QED
    BY <2>1, <2>2, <2>3, <2>4 DEF Next, Serve
<1>. QED
  BY <1>1 DEF AlertsOf, Alert

LEMMA JoinedElsewhere ==
  ASSUME NEW w, Workers = {w}, Inv, ContractsAnchored, [Next]_vars, NEW f \in Fuentes,
         f # fu[w] \/ pc[w] \notin {"del_contrato", "ins_contrato"}
  PROVE  Joined(f)' = Joined(f)
PROOF
BY SliceKept DEF OwnLoadOnly

LEMMA OnlyOne ==
  ASSUME NEW D, NEW S, NEW T, S = [d \in D |-> S[d]], T = [d \in D |-> T[d]],
         NEW e \in D, \A d \in D \ {e} : T[d] = S[d]
  PROVE  T = [S EXCEPT ![e] = T[e]]
PROOF
<1>1. [S EXCEPT ![e] = T[e]] = [d \in D |-> IF d = e THEN T[e] ELSE S[d]]
  OBVIOUS
<1>. QED
  BY <1>1

-----------------------------------------------------------------------------
(* The steps that are seen, for the one thread w in hand of slice s.       *)

OneInv == Inv /\ ContractsAnchored /\ LoadInv /\ AlertInv /\ DetectInv /\ OfferInv

(* Between requests, or between the slices of one.                         *)
LEMMA TurnSeen ==
  ASSUME NEW w, Workers = {w}, Inv, Inv', UNCHANGED tables,
         Out(w) = {}, Bare(w) = {}, Out(w)' = {}, Bare(w)' = {},
         pc'[w] # "seeded", hecho'[w] = {}
  PROVE  Seen!Turn
PROOF
<1>1. BeingLoaded = {} /\ BeingDetected = {} /\ BeingLoaded' = {} /\ BeingDetected' = {}
      /\ Seeded' = FALSE /\ Reported' = {}
  BY OneSeen, OneSeenNext
<1>2. StockSeen' = StockSeen /\ AlertsSeen' = AlertsSeen
  BY <1>1, SameJoined DEF StockSeen, AlertsSeen, AlertsOf, tables
<1>. QED
  BY <1>1, <1>2 DEF Seen!Turn, Seen!NothingOut

(* What is joined is what is there, since suppliers are.                   *)
LEMMA AllJoined ==
  ASSUME ContractsAnchored, NEW f \in Fuentes
  PROVE  Joined(f) = {JoinedRow(f, i) : i \in SliceContracts(f)}
         /\ Seen!IdsOf(Joined(f)) = SliceContracts(f)
PROOF
<1>1. \A i \in SliceContracts(f) : empresa[ConRow(f, i).prov] # Null
  BY DEF SliceContracts, ContractsAnchored, Anchored, HasKey
<1>2. Joined(f) = {JoinedRow(f, i) : i \in SliceContracts(f)}
  BY <1>1 DEF Joined
<1>3. \A i : JoinedRow(f, i).id = i
  BY DEF JoinedRow
<1>. QED
  BY <1>2, <1>3 DEF Seen!IdsOf

(* A load that is over, in whatever way, leaves a part of its offer.       *)
LEMMA OfferSeen ==
  ASSUME NEW w \in Workers, OneInv, pc[w] \in InHand
  PROVE  /\ Kept(fu[w], con[w]) \in Offers[fu[w]]
         /\ Seen!IdsOf(Joined(fu[w])) \subseteq Kept(fu[w], con[w])
PROOF
<1>1. pc[w] \in LoadPcs /\ fu[w] \in Zips /\ fu[w] \in Fuentes
  BY DEF OneInv, Inv, RequestsTyped, InHand
<1>2. Kept(fu[w], con[w]) \in Offers[fu[w]]
  BY <1>1 DEF OneInv, OfferInv, Limited, Offers
<1>3. SliceContracts(fu[w]) \subseteq Kept(fu[w], con[w])
  BY <1>1 DEF OneInv, LoadInv, Loading, InHand, LoadPcs, Emptied, Counting
<1>. QED
  BY <1>1, <1>2, <1>3, AllJoined DEF OneInv

(* The alerts of a slice that has contracts are findings about them.       *)
LEMMA FindingsSeen ==
  ASSUME OneInv, NEW f \in Fuentes, Joined(f) # {}
  PROVE  AlertsOf(f) \subseteq Seen!AllFindings(f, Joined(f))
PROOF
<1>1. SUFFICES ASSUME NEW a \in AlertsOf(f) PROVE a \in Seen!AllFindings(f, Joined(f))
  OBVIOUS
<1>2. a \in alerta /\ a.fuente = f /\ a \in AlertRows
  BY <1>1 DEF AlertsOf, OneInv, Inv, TablesTyped
<1>3. SliceContracts(f) # {}
  BY AllJoined DEF OneInv
<1>4. [key |-> a.key, evid |-> a.evid] \in RuleFrame(a.patron, Joined(f))
  BY <1>2, <1>3 DEF OneInv, AlertInv, AlertsExplained, Explained
<1>5. a = Alert(a.patron, [key |-> a.key, evid |-> a.evid], f) /\ a.patron \in Rules
  BY <1>2 DEF AlertRows, Alert
<1>. QED
  BY <1>4, <1>5 DEF Seen!AllFindings, Findings

(* The end of a load puts its slice back.                                  *)
LEMMA LoadSeen ==
  ASSUME NEW w, Workers = {w}, OneInv, Inv', UNCHANGED tables, pc[w] \in InHand,
         Out(w)' = {}, Bare(w)' = {}, hecho'[w] = {},
         pc'[w] = "seeded" => pc[w] \in Counting
  PROVE  Seen!PutSlice(fu[w]) \/ Seen!DropSlice(fu[w])
PROOF
<1> DEFINE s == fu[w]
<1>1. /\ BeingLoaded = {s} /\ BeingDetected = {} /\ BeingLoaded' = {} /\ BeingDetected' = {}
      /\ Seeded = FALSE /\ Reported = {} /\ Reported' = {} /\ s \in Fuentes /\ s \in Zips
  <2>1. hecho[w] = {}
    BY DEF OneInv, DetectInv, Detecting, InHand, LoadPcs, InSlice, FetchOf, AfterFetch
  <2>2. pc[w] \notin RuleStmts /\ pc[w] # "seeded"
    BY DEF RuleStmts, InHand, LoadPcs, FetchOf, AfterFetch
  <2>3. Out(w) = {s} /\ Bare(w) = {}
    BY <2>2 DEF Out, Bare
  <2>. QED
    BY <2>1, <2>2, <2>3, OneSeen, OneSeenNext DEF OneInv
<1>2. \A f : Joined(f)' = Joined(f) /\ AlertsOf(f)' = AlertsOf(f)
  BY SameJoined DEF AlertsOf, tables
<1>3. /\ StockSeen = [f \in Fuentes |-> IF f = s THEN {} ELSE Joined(f)]
      /\ StockSeen' = [f \in Fuentes |-> Joined(f)]
      /\ AlertsSeen = [f \in Fuentes |-> IF f = s THEN {} ELSE AlertsOf(f)]
      /\ AlertsSeen' = [f \in Fuentes |-> AlertsOf(f)]
  BY <1>1, <1>2 DEF StockSeen, AlertsSeen
<1>4. Seen!OnlySlice(s) /\ Seen!OnlyAlerts(s)
  BY <1>1, <1>3, OnlyOne DEF Seen!OnlySlice, Seen!OnlyAlerts
<1>5. /\ Kept(s, con[w]) \in Offers[s]
      /\ Seen!IdsOf(StockSeen'[s]) \subseteq Kept(s, con[w])
  BY <1>1, <1>3, OfferSeen
<1>6. CASE pc'[w] = "seeded"
  <2>1. \A i \in Kept(s, con[w]) : \E g \in Fuentes : i \in Seen!IdsOf(StockSeen'[g])
    <3>1. SUFFICES ASSUME NEW i \in Kept(s, con[w])
                   PROVE  \E g \in Fuentes : i \in Seen!IdsOf(Joined(g))
      BY <1>3
    <3>2. contrato[i] # Null
      BY <1>6, <3>1 DEF OneInv, LoadInv, Loading
    <3>3. i \in Ids
      BY <1>1, <3>1, FramesAreKeys DEF OneInv, Inv, RequestsTyped, InHand
    <3>4. contrato[i] \in Fuentes /\ i \in SliceContracts(contrato[i])
      BY <3>2, <3>3 DEF OneInv, Inv, TablesTyped, SliceContracts
    <3>. QED
      BY <3>4, AllJoined DEF OneInv
  <2>2. AlertsSeen' = AlertsSeen
    <3>1. AlertsOf(s) = {}
      BY <1>6 DEF OneInv, AlertInv, Alerting, Counting, LoadPcs, FetchOf, AfterFetch
    <3>. QED
      BY <1>3, <3>1
  <2>3. Seeded' = TRUE
    BY <1>6, OneSeenNext
  <2>. QED
    BY <1>1, <1>4, <1>5, <2>1, <2>2, <2>3 DEF Seen!PutSlice
<1>7. CASE pc'[w] # "seeded"
  <2>1. Seeded' = FALSE
    BY <1>7, OneSeenNext
  <2>2. StockSeen'[s] # {} => AlertsSeen'[s] \subseteq Seen!AllFindings(s, StockSeen'[s])
    BY <1>1, <1>3, FindingsSeen
  <2>. QED
    BY <1>1, <1>4, <1>5, <2>1, <2>2 DEF Seen!DropSlice
<1>. QED
  BY <1>6, <1>7

(* A rule in hand has stored findings about the slice in hand only.        *)
LEMMA PartSeen ==
  ASSUME NEW w \in Workers, OneInv, pc[w] \in RuleStmts, fu[w] \in Fuentes
  PROVE  AlertsOf(fu[w]) \subseteq Seen!AllFindings(fu[w], Joined(fu[w]))
PROOF
<1> DEFINE s == fu[w]
<1>1. SUFFICES ASSUME NEW a \in AlertsOf(s) PROVE a \in RuleAlerts(a.patron, s) /\ a.patron \in Rules
  BY DEF Seen!AllFindings, RuleAlerts
<1>2. a.patron \in Rules /\ a \in Stored(a.patron, s)
  BY DEF AlertsOf, OneInv, Inv, TablesTyped, AlertRows, Stored
<1>3. Detecting(w)
  BY DEF OneInv, DetectInv
<1>4. CASE a.patron \in Before(rule[w])
  BY <1>2, <1>3, <1>4 DEF Detecting, Done, RuleStmts
<1>5. CASE a.patron = rule[w]
  <2>1. Stored(rule[w], s) \subseteq RuleAlerts(rule[w], s)
    BY <1>3 DEF Detecting, RuleStmts, RuleAlerts, Findings, OwnFrame, Alerts
  <2>. QED
    BY <1>2, <1>5, <2>1
<1>6. CASE a.patron \in Rules \ (Before(rule[w]) \cup {rule[w]})
  BY <1>2, <1>3, <1>6 DEF Detecting, RuleStmts
<1>. QED
  BY <1>2, <1>4, <1>5, <1>6

(* A detection that fails in a slice leaves there what it had stored.      *)
LEMMA FailSeen ==
  ASSUME NEW w, Workers = {w}, OneInv, Inv', UNCHANGED tables, pc[w] \in RuleStmts,
         Out(w)' = {}, Bare(w)' = {}, hecho'[w] = {}, pc'[w] # "seeded"
  PROVE  Seen!Turn \/ \E f \in Fuentes : Seen!DropAlerts(f)
PROOF
<1> DEFINE s == fu[w]
<1>1. Out(w) = {} /\ pc[w] # "seeded" /\ s \in Fuentes \cup {Bogus}
  BY OneSeen DEF OneInv, Out, RuleStmts
<1>2. CASE s = Bogus
  BY <1>1, <1>2, TurnSeen DEF Bare, OneInv
<1>3. CASE s \in Fuentes
  <2>1. /\ BeingLoaded = {} /\ BeingDetected = {s} /\ BeingLoaded' = {} /\ BeingDetected' = {}
        /\ Seeded = FALSE /\ Seeded' = FALSE /\ Reported' = {}
    BY <1>1, <1>3, OneSeen, OneSeenNext DEF Bare, OneInv
  <2>2. \A f : Joined(f)' = Joined(f) /\ AlertsOf(f)' = AlertsOf(f)
    BY SameJoined DEF AlertsOf, tables
  <2>3. /\ StockSeen = [f \in Fuentes |-> Joined(f)]
        /\ StockSeen' = StockSeen
        /\ AlertsSeen = [f \in Fuentes |-> IF f = s THEN {} ELSE AlertsOf(f)]
        /\ AlertsSeen' = [f \in Fuentes |-> AlertsOf(f)]
    BY <2>1, <2>2 DEF StockSeen, AlertsSeen
  <2>4. Seen!OnlyAlerts(s)
    BY <1>3, <2>3, OnlyOne DEF Seen!OnlyAlerts
  <2>5. AlertsSeen'[s] \subseteq Seen!AllFindings(s, StockSeen[s])
    BY <1>3, <2>3, PartSeen
  <2>. QED
    BY <1>3, <2>1, <2>3, <2>4, <2>5 DEF Seen!DropAlerts
<1>. QED
  BY <1>1, <1>2, <1>3

(* One that is through with the last rule has all of each rule, but for    *)
(* what the statements and the fetches of other endpoints have taken.      *)
LEMMA DoneSeen ==
  ASSUME NEW w, Workers = {w}, OneInv, Inv', DetectInv', UNCHANGED <<contrato, empresa>>,
         NEW s \in Fuentes, s = fu[w], pc[w] \in RuleStmts,
         \A f : f # s => AlertsOf(f)' = AlertsOf(f),
         pc'[w] = "total", hecho' = [hecho EXCEPT ![w] = @ \cup {s}]
  PROVE  Seen!PutAlerts(s)
PROOF
<1>1. /\ BeingLoaded = {} /\ BeingDetected = {s} /\ BeingLoaded' = {} /\ BeingDetected' = {}
      /\ Seeded = FALSE /\ Seeded' = FALSE /\ Reported' = Reported \cup {s} /\ s \in hecho'[w]
  <2>1. Out(w) = {} /\ Bare(w) = {s} /\ pc[w] # "seeded"
    BY OneSeen DEF OneInv, Out, Bare, RuleStmts
  <2>2. Out(w)' = {} /\ Bare(w)' = {}
    BY DEF Out, Bare, RuleStmts, InHand, LoadPcs, FetchOf, AfterFetch
  <2>3. hecho'[w] = hecho[w] \cup {s}
    BY DEF OneInv, Inv, RequestsTyped
  <2>4. Reported' = Reported \cup {s}
    BY <2>3, OneSeen, OneSeenNext DEF OneInv
  <2>5. Seeded = FALSE /\ Seeded' = FALSE
    BY <2>1, OneSeen, OneSeenNext DEF OneInv
  <2>. QED
    BY <2>1, <2>2, <2>3, <2>4, <2>5, OneSeen, OneSeenNext DEF OneInv
<1>2. \A f : Joined(f)' = Joined(f)
  BY SameJoined
<1>3. /\ StockSeen = [f \in Fuentes |-> Joined(f)]
      /\ StockSeen' = StockSeen
      /\ AlertsSeen = [f \in Fuentes |-> IF f = s THEN {} ELSE AlertsOf(f)]
      /\ AlertsSeen' = [f \in Fuentes |-> AlertsOf(f)']
  BY <1>1, <1>2 DEF StockSeen, AlertsSeen
<1>4. \A r \in Rules : /\ Stored(r, s)' \subseteq Findings(r, s, Joined(s))
                       /\ Foreign = {} => Stored(r, s)' = Findings(r, s, Joined(s))
  BY <1>1, <1>2 DEF DetectInv, Detecting, Done, RuleAlerts
<1>5. AlertsOf(s)' = UNION {Stored(r, s)' : r \in Rules}
  BY DEF Stored, AlertsOf, Inv, TablesTyped, AlertRows
<1>6. /\ AlertsSeen'[s] \subseteq Seen!AllFindings(s, StockSeen[s])
      /\ Foreign = {} => AlertsSeen'[s] = Seen!AllFindings(s, StockSeen[s])
  BY <1>3, <1>4, <1>5 DEF Seen!AllFindings
<1>7. Seen!OnlyAlerts(s)
  BY <1>3, OnlyOne DEF Seen!OnlyAlerts
<1>. QED
  BY <1>1, <1>3, <1>6, <1>7 DEF Seen!PutAlerts

(* A step within a statement of a slice, or far from all slices.           *)
LEMMA StillSeen ==
  ASSUME NEW w, Workers = {w}, OneInv, Inv', [Next]_vars,
         Out(w)' = Out(w), Bare(w)' = Bare(w),
         pc'[w] = "seeded" <=> pc[w] = "seeded",
         Fuentes \cap hecho'[w] = Fuentes \cap hecho[w],
         pc[w] # "del_contrato", pc[w] = "del_patron" => fu[w] = Bogus
  PROVE  UNCHANGED Seen!cvars
PROOF
<1>1. /\ BeingLoaded' = BeingLoaded /\ BeingDetected' = BeingDetected
      /\ BeingLoaded = Out(w) /\ BeingDetected = Bare(w)
  BY OneSeen, OneSeenNext DEF OneInv
<1>2. Seeded' = Seeded /\ Reported' = Reported
  BY OneSeen, OneSeenNext DEF OneInv
<1>3. ASSUME NEW f \in Fuentes \ BeingLoaded PROVE Joined(f)' = Joined(f)
  <2>1. pc[w] = "ins_contrato" => f # fu[w]
    BY <1>1, <1>3 DEF Out, InHand, LoadPcs
  <2>. QED
    BY <1>3, <2>1, JoinedElsewhere DEF OneInv
<1>4. ASSUME NEW f \in Fuentes \ (BeingLoaded \cup BeingDetected) PROVE AlertsOf(f)' = AlertsOf(f)
  <2>1. pc[w] \in {"del_alerta", "del_patron", "ins_alert"} => f # fu[w]
    BY <1>1, <1>4 DEF Out, Bare, InHand, RuleStmts, LoadPcs
  <2>. QED
    BY <1>4, <2>1, AlertsElsewhere
<1>. QED
  BY <1>1, <1>2, <1>3, <1>4, Unseen

LEMMA TakeSliceSeen ==
  ASSUME NEW w, Workers = {w}, OneInv, Inv', [Next]_vars, DeleteContrato(w)
  PROVE  Seen!TakeSlice(fu[w])
PROOF
<1> DEFINE s == fu[w]
<1>1. /\ pc[w] = "del_contrato" /\ pc'[w] = "del_alerta" /\ fu'[w] = s /\ hecho'[w] = hecho[w]
      /\ s \in Fuentes
  BY DEF DeleteContrato, Goto, locals, OneInv, Inv, RequestsTyped, LoadPcs
<1>2. Out(w) = {} /\ Bare(w) = {} /\ Out(w)' = {s} /\ Bare(w)' = {}
  BY <1>1 DEF Out, Bare, InHand, RuleStmts, LoadPcs
<1>3. /\ BeingLoaded = {} /\ BeingDetected = {} /\ BeingLoaded' = {s} /\ BeingDetected' = {}
  BY <1>2, OneSeen, OneSeenNext DEF OneInv
<1>4. Seeded' = Seeded /\ Reported' = Reported
  BY <1>1, OneSeen, OneSeenNext DEF OneInv
<1>5. \A f \in Fuentes \ {s} : Joined(f)' = Joined(f) /\ AlertsOf(f)' = AlertsOf(f)
  BY JoinedElsewhere, AlertsElsewhere DEF OneInv
<1>6. /\ StockSeen = [f \in Fuentes |-> Joined(f)]
      /\ StockSeen' = [f \in Fuentes |-> IF f = s THEN {} ELSE Joined(f)']
      /\ AlertsSeen = [f \in Fuentes |-> AlertsOf(f)]
      /\ AlertsSeen' = [f \in Fuentes |-> IF f = s THEN {} ELSE AlertsOf(f)']
  BY <1>3 DEF StockSeen, AlertsSeen
<1>7. StockSeen' = [StockSeen EXCEPT ![s] = {}]
  BY <1>5, <1>6
<1>8. AlertsSeen' = [AlertsSeen EXCEPT ![s] = {}]
  BY <1>5, <1>6
<1>. QED
  BY <1>3, <1>4, <1>7, <1>8 DEF Seen!TakeSlice, Seen!NothingOut

LEMMA LoadStepSeen ==
  ASSUME NEW w, Workers = {w}, OneInv, Inv', Load(w)
  PROVE  [Seen!CNext]_(Seen!cvars)
PROOF
<1>1. /\ w \in Workers /\ pc \in [Workers -> Free \cup LoadPcs \cup DetectPcs]
      /\ fu \in [Workers -> Fuentes \cup {Bogus, Null}]
      /\ hecho \in [Workers -> SUBSET (Fuentes \cup {Bogus})]
      /\ pc[w] \in LoadPcs => fu[w] \in Fuentes
  BY DEF OneInv, Inv, RequestsTyped
<1>2. [Next]_vars
  BY DEF Next, Serve
<1>3. CASE DeleteContrato(w)
  BY <1>1, <1>2, <1>3, TakeSliceSeen DEF Seen!CNext, DeleteContrato, LoadPcs
<1>4. CASE pc[w] \in InHand /\ pc'[w] \in InHand /\ UNCHANGED <<fu, hecho>>
  <2>1. Out(w)' = Out(w) /\ Bare(w)' = Bare(w)
    BY <1>4, OneSeen DEF Out, Bare, OneInv
  <2>2. /\ pc[w] \notin {"seeded", "del_contrato", "del_patron"} /\ pc'[w] # "seeded"
    BY <1>4 DEF InHand, LoadPcs, FetchOf, AfterFetch
  <2>3. Fuentes \cap hecho'[w] = Fuentes \cap hecho[w]
    BY <1>4
  <2>. QED
    BY <1>2, <2>1, <2>2, <2>3, StillSeen
<1>5. CASE /\ pc[w] \in InHand /\ UNCHANGED tables
           /\ \E label \in {"seeded", "load_failed"} :
                Return(w, label) /\ (label = "seeded" => pc[w] = "fetch_contrato")
  <2>1. /\ pc'[w] \in {"seeded", "load_failed"} /\ hecho'[w] = {}
        /\ pc'[w] = "seeded" => pc[w] = "fetch_contrato"
    BY <1>1, <1>5 DEF Return, Goto
  <2>2. Out(w)' = {} /\ Bare(w)' = {}
    BY <2>1 DEF Out, Bare, InHand, RuleStmts, LoadPcs, FetchOf, AfterFetch
  <2>3. Seen!PutSlice(fu[w]) \/ Seen!DropSlice(fu[w])
    BY <1>5, <2>1, <2>2, LoadSeen DEF Counting, AfterFetch
  <2>. QED
    BY <1>1, <1>5, <2>3 DEF Seen!CNext, InHand
<1>6. \/ DeleteContrato(w)
      \/ pc[w] \in InHand /\ pc'[w] \in InHand /\ UNCHANGED <<fu, hecho>>
      \/ /\ pc[w] \in InHand /\ UNCHANGED tables
         /\ \E label \in {"seeded", "load_failed"} :
              Return(w, label) /\ (label = "seeded" => pc[w] = "fetch_contrato")
  <2> USE <1>1
  <2> USE DEF InHand, LoadPcs, FetchOf, AfterFetch
  <2>1. CASE DeleteAlerta(w)
    BY <2>1 DEF DeleteAlerta, Goto, locals
  <2>2. CASE DeleteEmpresa(w)
    BY <2>2 DEF DeleteEmpresa, FailLoad, Raise, Goto, locals
  <2>3. CASE DeleteOrganismo(w)
    BY <2>3 DEF DeleteOrganismo, FailLoad, Raise, Goto
  <2>4. CASE NothingToInsert(w)
    BY <2>4 DEF NothingToInsert, FailLoad, Raise
  <2>5. CASE InsertOrganismo(w)
    BY <2>5 DEF InsertOrganismo, RowDone, Goto
  <2>6. CASE InsertEmpresa(w)
    BY <2>6 DEF InsertEmpresa, RowDone, Goto
  <2>7. CASE InsertContrato(w)
    BY <2>7 DEF InsertContrato, RowDone, FailLoad, Raise, Goto
  <2>8. CASE Count(w)
    BY <2>8 DEF Count, Goto, locals
  <2>9. CASE FetchCount(w)
    BY <2>9 DEF FetchCount, Goto
  <2>. QED
    BY <2>1, <2>2, <2>3, <2>4, <2>5, <2>6, <2>7, <2>8, <2>9 DEF Load
<1>. QED
  BY <1>3, <1>4, <1>5, <1>6

(* The statements of a detection that are not about one rule.              *)
Outside == {"list", "fetch_list", "total", "fetch_total", "del_patron"}

LEMMA TakeAlertsSeen ==
  ASSUME NEW w, Workers = {w}, OneInv, Inv', DeletePatron(w)
  PROVE  (fu[w] \in Fuentes /\ Seen!TakeAlerts(fu[w])) \/ UNCHANGED Seen!cvars
PROOF
<1> DEFINE s == fu[w]
<1>1. /\ w \in Workers /\ pc[w] = "del_patron" /\ pc'[w] = "query" /\ fu'[w] = s
      /\ hecho'[w] = hecho[w] /\ UNCHANGED <<contrato, empresa>> /\ s \in Fuentes \cup {Bogus}
  BY DEF DeletePatron, Goto, locals, OneInv, Inv, RequestsTyped, InSlice
<1>2. [Next]_vars
  BY <1>1 DEF Next, Serve, Detect
<1>3. Out(w) = {} /\ Bare(w) = {} /\ Out(w)' = {} /\ Bare(w)' = {s} \ {Bogus}
  BY <1>1 DEF Out, Bare, InHand, RuleStmts, LoadPcs, FetchOf, AfterFetch
<1>4. CASE s = Bogus
  BY <1>1, <1>2, <1>3, <1>4, StillSeen
<1>5. CASE s \in Fuentes
  <2>1. /\ BeingLoaded = {} /\ BeingDetected = {} /\ BeingLoaded' = {} /\ BeingDetected' = {s}
    BY <1>3, <1>5, OneSeen, OneSeenNext DEF OneInv
  <2>2. Seeded' = Seeded /\ Reported' = Reported
    BY <1>1, OneSeen, OneSeenNext DEF OneInv
  <2>3. \A f : Joined(f)' = Joined(f)
    BY <1>1, SameJoined
  <2>4. \A f \in Fuentes \ {s} : AlertsOf(f)' = AlertsOf(f)
    BY <1>2, AlertsElsewhere
  <2>5. StockSeen' = StockSeen
    BY <2>1, <2>3 DEF StockSeen
  <2>6. /\ AlertsSeen = [f \in Fuentes |-> AlertsOf(f)]
        /\ AlertsSeen' = [f \in Fuentes |-> IF f = s THEN {} ELSE AlertsOf(f)']
    BY <2>1 DEF AlertsSeen
  <2>7. AlertsSeen' = [AlertsSeen EXCEPT ![s] = {}]
    BY <2>4, <2>6
  <2>. QED
    BY <1>1, <1>5, <2>1, <2>2, <2>5, <2>7 DEF Seen!TakeAlerts, Seen!NothingOut
<1>. QED
  BY <1>1, <1>4, <1>5

LEMMA DetectStepSeen ==
  ASSUME NEW w, Workers = {w}, OneInv, Inv', DetectInv', Detect(w)
  PROVE  [Seen!CNext]_(Seen!cvars)
PROOF
<1>1. /\ w \in Workers /\ pc \in [Workers -> Free \cup LoadPcs \cup DetectPcs]
      /\ fu \in [Workers -> Fuentes \cup {Bogus, Null}]
      /\ hecho \in [Workers -> SUBSET (Fuentes \cup {Bogus})]
      /\ rule \in [Workers -> Rules]
      /\ pc[w] \in RuleStmts => fu[w] \in Fuentes \cup {Bogus}
  BY DEF OneInv, Inv, RequestsTyped, RuleStmts, InSlice
<1>2. [Next]_vars
  BY <1>1 DEF Next, Serve
<1>3. UNCHANGED <<contrato, empresa>>
  BY DetectReadsOnly
<1>4. Outside \cap (InHand \cup RuleStmts) = {} /\ RuleStmts \cap InHand = {}
      /\ {"detected", "detect_failed", "total"} \cap (InHand \cup RuleStmts) = {}
      /\ "seeded" \notin Outside \cup RuleStmts /\ "del_contrato" \notin Outside \cup RuleStmts
      /\ "del_patron" \notin RuleStmts
  BY DEF Outside, InHand, RuleStmts, LoadPcs, FetchOf, AfterFetch
<1>5. CASE pc[w] \in Outside \ {"del_patron"} /\ pc'[w] \in Outside /\ UNCHANGED hecho
  <2>1. Out(w) = {} /\ Bare(w) = {} /\ Out(w)' = {} /\ Bare(w)' = {}
    BY <1>4, <1>5 DEF Out, Bare
  <2>. QED
    BY <1>2, <1>4, <1>5, <2>1, StillSeen
<1>6. CASE DeletePatron(w)
  BY <1>6, TakeAlertsSeen DEF Seen!CNext
<1>7. CASE pc[w] \in RuleStmts /\ pc'[w] \in RuleStmts /\ UNCHANGED <<fu, hecho>>
  <2>1. Out(w)' = Out(w) /\ Bare(w)' = Bare(w)
    BY <1>4, <1>7 DEF Out, Bare
  <2>. QED
    BY <1>2, <1>4, <1>7, <2>1, StillSeen
<1>8. CASE pc[w] \in RuleStmts /\ Return(w, "detect_failed") /\ UNCHANGED tables
  <2>1. pc'[w] = "detect_failed" /\ hecho'[w] = {}
    BY <1>1, <1>8 DEF Return, Goto
  <2>2. Out(w)' = {} /\ Bare(w)' = {}
    BY <1>4, <2>1 DEF Out, Bare
  <2>. QED
    BY <1>8, <2>1, <2>2, FailSeen DEF Seen!CNext
<1>9. CASE /\ pc[w] \in RuleStmts /\ pc'[w] = "total" /\ fu' = fu
           /\ hecho' = [hecho EXCEPT ![w] = @ \cup {fu[w]}]
  <2>1. CASE fu[w] = Bogus
    <3>1. Out(w) = {} /\ Bare(w) = {} /\ Out(w)' = {} /\ Bare(w)' = {}
      BY <1>4, <1>9, <2>1 DEF Out, Bare
    <3>2. hecho'[w] = hecho[w] \cup {Bogus}
      BY <1>1, <1>9, <2>1
    <3>. QED
      BY <1>2, <1>4, <1>9, <3>1, <3>2, StillSeen
  <2>2. CASE fu[w] \in Fuentes
    <3>1. PICK s \in Fuentes : s = fu[w]
      BY <2>2
    <3>2. \A f : f # s => AlertsOf(f)' = AlertsOf(f)
      BY <1>2, <3>1, AlertsElsewhere
    <3>3. Seen!PutAlerts(s)
      BY <1>3, <1>9, <3>1, <3>2, DoneSeen
    <3>. QED
      BY <3>3 DEF Seen!CNext
  <2>. QED
    BY <1>1, <1>9, <2>1, <2>2
<1>10. CASE /\ pc[w] \in Outside /\ UNCHANGED tables
            /\ \E label \in {"detected", "detect_failed"} : Return(w, label)
  <2>1. pc'[w] \in {"detected", "detect_failed"} /\ hecho'[w] = {}
    BY <1>1, <1>10 DEF Return, Goto
  <2>2. Out(w) = {} /\ Bare(w) = {} /\ Out(w)' = {} /\ Bare(w)' = {}
    BY <1>4, <1>10, <2>1 DEF Out, Bare
  <2>. QED
    BY <1>10, <2>1, <2>2, TurnSeen DEF Seen!CNext, OneInv
<1> DEFINE Kinds ==
      \/ pc[w] \in Outside \ {"del_patron"} /\ pc'[w] \in Outside /\ UNCHANGED hecho
      \/ DeletePatron(w)
      \/ pc[w] \in RuleStmts /\ pc'[w] \in RuleStmts /\ UNCHANGED <<fu, hecho>>
      \/ pc[w] \in RuleStmts /\ Return(w, "detect_failed") /\ UNCHANGED tables
      \/ /\ pc[w] \in RuleStmts /\ pc'[w] = "total" /\ fu' = fu
         /\ hecho' = [hecho EXCEPT ![w] = @ \cup {fu[w]}]
      \/ /\ pc[w] \in Outside /\ UNCHANGED tables
         /\ \E label \in {"detected", "detect_failed"} : Return(w, label)
<1>11. Kinds
  <2> USE <1>1
  <2> USE DEF Outside, RuleStmts
  <2>1. CASE ListFuentes(w)
    BY <2>1 DEF ListFuentes, Goto, locals
  <2>2. CASE FetchFuentes(w)
    BY <2>2 DEF FetchFuentes, Goto
  <2>3. CASE CountTotal(w)
    BY <2>3 DEF CountTotal, Goto, FailDetect, Raise
  <2>4. CASE FetchTotal(w)
    BY <2>4 DEF FetchTotal, Goto, locals
  <2>5. CASE QueryRule(w)
    BY <2>5 DEF QueryRule, Goto, locals
  <2>6. CASE FetchRule(w)
    BY <2>6 DEF FetchRule, Goto, RuleDone
  <2>7. CASE InsertAlert(w)
    BY <2>7 DEF InsertAlert, Goto, RuleDone, FailDetect, Raise
  <2>8. CASE DetectReturns(w)
    BY <2>8 DEF DetectReturns
  <2>. QED
    BY <2>1, <2>2, <2>3, <2>4, <2>5, <2>6, <2>7, <2>8 DEF Detect
<1>. QED
  BY <1>5, <1>6, <1>7, <1>8, <1>9, <1>10, <1>11

LEMMA StepSeen ==
  ASSUME NEW w, Workers = {w}, OneInv, Inv', DetectInv', [Next]_vars
  PROVE  [Seen!CNext]_(Seen!cvars)
PROOF
<1>1. /\ w \in Workers /\ pc \in [Workers -> Free \cup LoadPcs \cup DetectPcs]
  BY DEF OneInv, Inv, RequestsTyped
<1>2. pc[w] \in Free => Out(w) = {} /\ Bare(w) = {}
  BY DEF Out, Bare, Free, InHand, RuleStmts, LoadPcs, FetchOf, AfterFetch
<1>3. CASE Serve(w)
  BY <1>3, LoadStepSeen, DetectStepSeen DEF Serve
<1>4. CASE Arrive(w)
  <2>1. pc[w] \in Free /\ UNCHANGED tables
    BY <1>4 DEF Arrive, StartLoad, StartDetect
  <2>2. hecho[w] = {}
    BY <2>1 DEF OneInv, DetectInv, Detecting, Free, InSlice
  <2>3. pc'[w] \in {"del_contrato", "not_found", "list", "total"} /\ hecho'[w] = {}
    BY <1>1, <1>4, <2>2 DEF Arrive, StartLoad, StartDetect, Return, Goto, OneInv, Inv, RequestsTyped
  <2>4. Out(w)' = {} /\ Bare(w)' = {}
    BY <2>3 DEF Out, Bare, InHand, RuleStmts, LoadPcs, FetchOf, AfterFetch
  <2>. QED
    BY <1>2, <2>1, <2>3, <2>4, TurnSeen DEF Seen!CNext, OneInv
<1>5. CASE OtherStatement \/ UNCHANGED vars
  <2>1. UNCHANGED <<tables, pc, fu, hecho>>
    BY <1>5 DEF OtherStatement, vars, locals
  <2>2. BeingLoaded' = BeingLoaded /\ BeingDetected' = BeingDetected
        /\ Seeded' = Seeded /\ Reported' = Reported
    BY <2>1 DEF BeingLoaded, BeingDetected, Seeded, Reported
  <2>3. \A f : Joined(f)' = Joined(f) /\ AlertsOf(f)' = AlertsOf(f)
    BY <2>1, SameJoined DEF AlertsOf, tables
  <2>. QED
    BY <2>2, <2>3, Unseen
<1>6. CASE Restart
  <2>1. UNCHANGED tables /\ pc'[w] = "idle" /\ hecho'[w] = {}
    BY <1>1, <1>6 DEF Restart, Reopen
  <2>2. Out(w)' = {} /\ Bare(w)' = {}
    BY <2>1 DEF Out, Bare, InHand, RuleStmts, LoadPcs, FetchOf, AfterFetch
  <2>3. CASE pc[w] \in InHand
    <3>1. fu[w] \in Fuentes
      BY <2>3, OneSeen DEF OneInv
    <3>. QED
      BY <2>1, <2>2, <2>3, <3>1, LoadSeen DEF Seen!CNext
  <2>4. CASE pc[w] \in RuleStmts
    BY <2>1, <2>2, <2>4, FailSeen DEF Seen!CNext
  <2>5. CASE pc[w] \notin InHand \cup RuleStmts
    <3>1. Out(w) = {} /\ Bare(w) = {}
      BY <2>5 DEF Out, Bare
    <3>. QED
      BY <2>1, <2>2, <3>1, TurnSeen DEF Seen!CNext, OneInv
  <2>. QED
    BY <2>3, <2>4, <2>5
<1>. QED
  BY <1>1, <1>3, <1>4, <1>5, <1>6 DEF Next

(* With one thread the two endpoints implement the catalogue, for any      *)
(* slices, files, LIMITs and thresholds, through errors and restarts, and  *)
(* whatever results the other endpoints leave (then Lossy).                *)
THEOREM CatalogueKept == OneThread => (Spec => KeepsCatalogue)
PROOF
<1>1. SUFFICES ASSUME OneThread PROVE Spec => KeepsCatalogue
  OBVIOUS
<1>2. Init => Seen!CInit
  <2>1. SUFFICES ASSUME Init PROVE Seen!CInit
    OBVIOUS
  <2>2. BeingLoaded = {} /\ BeingDetected = {}
    BY <2>1 DEF Init, BeingLoaded, BeingDetected, LoadPcs, FetchOf, AfterFetch
  <2>3. Seeded = FALSE /\ Reported = {}
    BY <2>1 DEF Init, Seeded, Reported
  <2>4. \A f \in Fuentes : Joined(f) = {} /\ AlertsOf(f) = {}
    BY <2>1 DEF Init, Joined, SliceContracts, AlertsOf
  <2>. QED
    BY <2>2, <2>3, <2>4 DEF Seen!CInit, StockSeen, AlertsSeen
<1>3. OneInv /\ Inv' /\ DetectInv' /\ [Next]_vars => [Seen!CNext]_(Seen!cvars)
  BY <1>1, StepSeen DEF OneThread
<1>4. Spec => []OneInv
  <2>1. Inv /\ ContractsAnchored /\ LoadInv /\ AlertInv /\ DetectInv /\ OfferInv => OneInv
    BY DEF OneInv
  <2>. QED
    BY <1>1, <2>1, SpecInv, AlwaysAnchored, SpecLoadInv, SpecAlertInv, SpecDetectInv, SpecOfferInv, PTL
<1>5. OneInv => Inv /\ DetectInv
  BY DEF OneInv
<1>. QED
  BY <1>2, <1>3, <1>4, <1>5, PTL DEF Spec, KeepsCatalogue, Seen!CSpec
===============================================================================
