----------------------------- MODULE CaseSeedProofs -----------------------------
(***************************************************************************)
(* What POST /seed promises for a file of any length, with or without      *)
(* flaws, any number of threads and any interference on the connection.    *)
(***************************************************************************)
EXTENDS CaseSeed, TLAPS

(* The table holds the first rows of the file, and a seed that is past its *)
(* first INSERT has stored them all.                                       *)
StoredInv ==
  /\ \A i \in caso : 1 .. i \subseteq caso
  /\ \A w \in Workers : pos[w] > 1 => caso = 1 .. pos[w] - 1

(* Every label has its place in the file, and alerts have not begun before *)
(* the cases are fetched.                                                  *)
PlaceInv ==
  \A w \in Workers :
    /\ pc[w] \in Free => pos[w] = 1
    /\ pc[w] \in {"query", "fetch_casos"} => pos[w] = N + 1 /\ alerta = {}
    /\ pc[w] = "ins_alerta" =>
         pos[w] = N + 1 /\ Severe(todo[w]) \cap alerta = {}

(* As long as no other endpoint comes between SELECT and fetchall, a       *)
(* detection reads back all that is reported, unless there is nothing to   *)
(* fetch, and it has left all that has no alert yet.                       *)
AloneInv ==
  ~crossed => \A w \in Workers :
    /\ pc[w] = "fetch_casos" => cursor.kind = "none" \/ cursor.rows = file.reported
    /\ pc[w] = "ins_alerta" => Severe(todo[w]) = file.grave \ alerta
    /\ pc[w] = "seeded" => alerta = file.grave

AlertaInv == alerta \subseteq file.grave /\ AlertsComeLast

(* Once a seed has answered 200, no other can be past its first INSERT.    *)
SeededInv ==
  \A w \in Workers : pc[w] = "seeded" =>
    caso = Casos /\ \A v \in Workers : pos[v] = 1

Inv ==
  /\ TypeOK /\ OneWriter
  /\ StoredInv /\ PlaceInv /\ AloneInv /\ AlertaInv /\ SeededInv

-----------------------------------------------------------------------------
LEMMA FileTyped ==
  ASSUME file \in Files
  PROVE  /\ N \in Nat
         /\ file.reported \subseteq Casos /\ file.grave \subseteq file.reported
PROOF
  BY FileAssumption DEF File

(* An INSERT into caso that is not refused is the writer's next row, and   *)
(* no other seed is past its first.                                        *)
LEMMA InsertAlone ==
  ASSUME Inv, NEW w \in Workers, pc[w] = "ins_caso", pos[w] \notin caso
  PROVE  /\ pos[w] \in Casos /\ caso = 1 .. pos[w] - 1
         /\ \A v \in Workers : v # w => pos[v] = 1
         /\ alerta = {}
PROOF
<1>. USE DEF Casos
<1>1. N \in Nat /\ pos \in [Workers -> 1 .. N + 1] /\ pos[w] \in 1 .. N /\ caso \subseteq 1 .. N
  BY FileAssumption DEF Inv, TypeOK
<1>2. \A v \in Workers : pos[v] > 1 => 1 \in caso
  BY <1>1 DEF Inv, StoredInv
<1>3. CASE pos[w] = 1
  <2>1. \A v \in Workers : pos[v] = 1
    BY <1>1, <1>2, <1>3
  <2>2. caso = {}
    BY <1>1, <1>3 DEF Inv, StoredInv
  <2>3. alerta = {}
    BY <1>1, <1>3, <2>2 DEF Inv, AlertaInv, AlertsComeLast
  <2>. QED
    BY <1>1, <1>3, <2>1, <2>2, <2>3
<1>4. CASE pos[w] > 1
  <2>1. caso = 1 .. pos[w] - 1
    BY <1>4 DEF Inv, StoredInv
  <2>2. \A v \in Workers : v # w => pos[v] = 1
    BY <1>1, <1>4 DEF Inv, OneWriter
  <2>3. alerta = {}
    BY <1>1, <2>1 DEF Inv, AlertaInv, AlertsComeLast
  <2>. QED
    BY <1>1, <2>1, <2>2, <2>3
<1>. QED
  BY <1>1, <1>3, <1>4

(* Two seeds are through with the file only if it is empty.                *)
LEMMA BothThrough ==
  ASSUME Inv, NEW v \in Workers, NEW w \in Workers, v # w, pos[v] = N + 1, pos[w] = N + 1
  PROVE  file.reported = {} /\ file.grave = {}
PROOF
<1>1. /\ N \in Nat /\ pos \in [Workers -> 1 .. N + 1]
      /\ file.reported \subseteq 1 .. N /\ file.grave \subseteq file.reported
  BY FileTyped DEF Inv, TypeOK, Casos
<1>2. N = 0
  BY <1>1 DEF Inv, OneWriter
<1>. QED
  BY <1>1, <1>2

-----------------------------------------------------------------------------
(* A request that ends, leaving tables and result as they are, or the      *)
(* connection without a result, or with one that it has used up.           *)
LEMMA EndInv ==
  ASSUME Inv, NEW w \in Workers, Return(w, "failed"), UNCHANGED <<tables, crossed>>,
         \/ cursor' \in {cursor, NoResult}
         \/ pc[w] = "fetch_casos" /\ cursor' = EmptyResult
  PROVE  Inv'
PROOF
<1>1. TypeOK'
  BY FileAssumption DEF Inv, TypeOK, Return, Goto, tables, Free
<1>2. \A v \in Workers : /\ pos'[v] = IF v = w THEN 1 ELSE pos[v]
                         /\ pc'[v] = IF v = w THEN "failed" ELSE pc[v]
                         /\ v # w => todo'[v] = todo[v]
  BY DEF Inv, TypeOK, Return, Goto
<1>3. OneWriter' /\ StoredInv' /\ AlertaInv'
  BY <1>2 DEF Inv, OneWriter, StoredInv, AlertaInv, AlertsComeLast, tables, Casos
<1>4. PlaceInv'
  BY <1>2 DEF Inv, PlaceInv, tables, Free, Severe
<1>5. AloneInv'
  <2>1. SUFFICES ASSUME ~crossed, NEW v \in Workers, v # w, pc[v] = "fetch_casos"
                 PROVE  cursor'.kind = "none" \/ cursor'.rows = file.reported
    BY <1>2 DEF Inv, AloneInv, tables, Severe
  <2>2. cursor.kind = "none" \/ cursor.rows = file.reported
    BY <2>1 DEF Inv, AloneInv
  <2>3. CASE pc[w] = "fetch_casos" /\ cursor' = EmptyResult
    BY <2>1, <2>3, BothThrough DEF Inv, PlaceInv, EmptyResult
  <2>4. CASE cursor' \in {cursor, NoResult}
    BY <2>2, <2>4 DEF NoResult
  <2>. QED
    BY <2>3, <2>4
<1>6. SeededInv'
  BY <1>2 DEF Inv, SeededInv, tables, Casos
<1>. QED
  BY <1>1, <1>3, <1>4, <1>5, <1>6 DEF Inv

LEMMA InvInit == Init => Inv
PROOF
<1>1. SUFFICES ASSUME Init PROVE Inv
  OBVIOUS
<1>2. TypeOK
  BY <1>1, FileAssumption DEF Init, TypeOK, Free, NoResult
<1>3. OneWriter /\ StoredInv /\ PlaceInv /\ AloneInv /\ AlertaInv /\ SeededInv
  BY <1>1 DEF Init, OneWriter, StoredInv, PlaceInv, AloneInv, AlertaInv, AlertsComeLast,
              SeededInv, Free, NoResult
<1>. QED
  BY <1>2, <1>3 DEF Inv

LEMMA InvStart ==
  ASSUME Inv, NEW w \in Workers, StartSeed(w), UNCHANGED crossed PROVE Inv'
PROOF
<1>1. N \in Nat /\ pos[w] = 1 /\ pc[w] \in Free
  BY FileAssumption DEF Inv, PlaceInv, StartSeed
<1>2. pc' = [pc EXCEPT ![w] = LoadFrom(1)] /\ UNCHANGED <<tables, cursor, pos, todo>>
  BY DEF StartSeed, Goto
<1>3. \/ LoadFrom(1) = "ins_caso" /\ 1 \in Casos
      \/ LoadFrom(1) = "query" /\ N = 0
  <2>1. 1 \in Casos \/ (N = 0 /\ 1 \notin Casos)
    BY <1>1 DEF Casos
  <2>. QED
    BY <2>1 DEF LoadFrom
<1>4. N = 0 => alerta = {}
  BY <1>1 DEF Inv, TypeOK, Casos
<1>5. TypeOK'
  BY <1>1, <1>2, <1>3 DEF Inv, TypeOK, tables, Free
<1>6. OneWriter' /\ StoredInv' /\ AlertaInv'
  BY <1>2 DEF Inv, OneWriter, StoredInv, AlertaInv, AlertsComeLast, tables, Casos
<1>7. PlaceInv'
  BY <1>1, <1>2, <1>3, <1>4 DEF Inv, TypeOK, PlaceInv, tables, Free, Severe
<1>8. SeededInv'
  BY <1>2, <1>3 DEF Inv, TypeOK, SeededInv, tables, Casos
<1>9. AloneInv'
  BY <1>2, <1>3 DEF Inv, TypeOK, AloneInv, tables, Severe
<1>. QED
  BY <1>5, <1>6, <1>7, <1>8, <1>9 DEF Inv

LEMMA InvInsertCaso ==
  ASSUME Inv, NEW w \in Workers, InsertCaso(w), UNCHANGED crossed PROVE Inv'
PROOF
<1>1. CASE pos[w] \in file.bad \/ Refused(pos[w])
  BY <1>1, EndInv DEF InsertCaso, Raise
<1>2. CASE ~(pos[w] \in file.bad \/ Refused(pos[w]))
  <2>1. /\ pc[w] = "ins_caso" /\ pos[w] \notin caso
        /\ caso' = caso \cup {pos[w]} /\ cursor' = OtherRows
        /\ pos' = [pos EXCEPT ![w] = pos[w] + 1]
        /\ pc' = [pc EXCEPT ![w] = LoadFrom(pos[w] + 1)]
        /\ UNCHANGED <<file, alerta, todo>>
    BY <1>2 DEF InsertCaso, Refused, Goto
  <2>2. /\ pos[w] \in Casos /\ caso = 1 .. pos[w] - 1 /\ alerta = {}
        /\ \A v \in Workers : v # w => pos[v] = 1
    BY <2>1, InsertAlone
  <2>3. N \in Nat /\ pos[w] \in 1 .. N /\ pos[w] + 1 \in 1 .. N + 1
    BY <2>2, FileAssumption DEF Casos
  <2>4. caso' = 1 .. pos[w] + 1 - 1
    BY <2>1, <2>2, <2>3
  <2>5. \/ LoadFrom(pos[w] + 1) = "ins_caso" /\ pos[w] + 1 \in Casos
        \/ LoadFrom(pos[w] + 1) = "query" /\ pos[w] + 1 = N + 1
    BY <2>3 DEF LoadFrom, Casos
  <2>6. /\ pc' \in [Workers -> Free \cup {"ins_caso", "query", "fetch_casos", "ins_alerta"}]
        /\ pos' \in [Workers -> 1 .. N + 1]
        /\ pc'[w] = LoadFrom(pos[w] + 1) /\ pos'[w] = pos[w] + 1
        /\ \A v \in Workers : v # w => pc'[v] = pc[v] /\ pos'[v] = pos[v]
    BY <2>1, <2>3, <2>5 DEF Inv, TypeOK
  <2>7. TypeOK'
    <3>1. caso' \subseteq Casos
      BY <2>1, <2>2 DEF Inv, TypeOK
    <3>2. \A v \in Workers : pc'[v] = "ins_caso" => pos'[v] \in Casos
      BY <2>5, <2>6 DEF Inv, TypeOK
    <3>. QED
      BY <2>1, <2>6, <3>1, <3>2 DEF Inv, TypeOK, Casos
  <2>8. OneWriter' /\ StoredInv'
    BY <2>2, <2>3, <2>4, <2>6 DEF OneWriter, StoredInv
  <2>9. PlaceInv'
    BY <2>1, <2>2, <2>5, <2>6 DEF Inv, PlaceInv, Free, Severe
  <2>10. AlertaInv'
    BY <2>1, <2>2 DEF AlertaInv, AlertsComeLast
  <2>11. SeededInv'
    <3>1. \A v \in Workers : pc[v] # "seeded"
      BY <2>1, <2>2 DEF Inv, SeededInv
    <3>. QED
      BY <2>5, <2>6, <3>1 DEF SeededInv
  <2>12. AloneInv'
    <3>1. \A v \in Workers : pc'[v] \notin {"fetch_casos", "ins_alerta", "seeded"}
      <4>1. \A v \in Workers : v # w => pos[v] # N + 1
        BY <2>2, <2>3
      <4>2. \A v \in Workers : v # w => pc[v] \notin {"fetch_casos", "ins_alerta"}
        BY <4>1 DEF Inv, PlaceInv
      <4>3. \A v \in Workers : pc[v] # "seeded"
        BY <2>1, <2>2 DEF Inv, SeededInv
      <4>. QED
        BY <2>5, <2>6, <4>2, <4>3
    <3>. QED
      BY <3>1 DEF AloneInv
  <2>. QED
    BY <2>7, <2>8, <2>9, <2>10, <2>11, <2>12 DEF Inv
<1>. QED
  BY <1>1, <1>2

LEMMA InvQuery ==
  ASSUME Inv, NEW w \in Workers, QueryCasos(w), UNCHANGED crossed PROVE Inv'
PROOF
<1>1. /\ pc[w] = "query" /\ cursor' = CasosResult(caso \cap file.reported)
      /\ pc' = [pc EXCEPT ![w] = "fetch_casos"] /\ UNCHANGED <<tables, pos, todo>>
  BY DEF QueryCasos, Goto
<1>2. N \in Nat /\ file.reported \subseteq Casos /\ caso \subseteq Casos
  BY FileTyped DEF Inv, TypeOK
<1>3. pos[w] = N + 1 /\ alerta = {}
  BY <1>1 DEF Inv, PlaceInv
<1>4. file.reported \subseteq caso
  <2>1. N = 0 => file.reported = {}
    BY <1>2 DEF Casos
  <2>2. N > 0 => caso = Casos
    BY <1>2, <1>3 DEF Inv, StoredInv, Casos
  <2>. QED
    BY <1>2, <2>1, <2>2
<1>5. TypeOK'
  BY <1>1, <1>2 DEF Inv, TypeOK, tables, Free, CasosResult
<1>6. AloneInv'
  <2>1. cursor'.rows = file.reported
    BY <1>1, <1>4 DEF CasosResult
  <2>. QED
    BY <1>1, <2>1 DEF Inv, TypeOK, AloneInv, tables, Severe
<1>7. PlaceInv'
  BY <1>1, <1>3 DEF Inv, TypeOK, PlaceInv, tables, Free, Severe
<1>8. OneWriter' /\ StoredInv' /\ AlertaInv' /\ SeededInv'
  BY <1>1 DEF Inv, TypeOK, OneWriter, StoredInv, AlertaInv, AlertsComeLast, SeededInv, tables, Casos
<1>. QED
  BY <1>5, <1>6, <1>7, <1>8 DEF Inv

LEMMA InvFetch ==
  ASSUME Inv, NEW w \in Workers, FetchCasos(w), UNCHANGED crossed PROVE Inv'
PROOF
<1>1. CASE cursor.kind \in {"none", "other"} /\ Return(w, "failed")
                /\ cursor' \in {NoResult, EmptyResult}
  BY <1>1, EndInv DEF FetchCasos
<1>2. CASE /\ cursor.kind \in {"casos", "empty"}
           /\ todo' = [todo EXCEPT ![w] = cursor.rows]
           /\ cursor' = EmptyResult
           /\ Goto(w, "ins_alerta")
           /\ UNCHANGED pos
  <2>1. /\ pc[w] = "fetch_casos" /\ UNCHANGED tables
        /\ pc' = [pc EXCEPT ![w] = "ins_alerta"]
    BY <1>2 DEF FetchCasos, Goto
  <2>2. pos[w] = N + 1 /\ alerta = {}
    BY <2>1 DEF Inv, PlaceInv
  <2>3. cursor.rows \subseteq Casos
    BY <1>2 DEF Inv, TypeOK, NoResult, EmptyResult, OtherRows
  <2>4. /\ pc'[w] = "ins_alerta" /\ todo'[w] = cursor.rows /\ pos'[w] = N + 1
        /\ alerta' = {} /\ file' = file
        /\ \A v \in Workers : v # w => pc'[v] = pc[v] /\ todo'[v] = todo[v] /\ pos'[v] = pos[v]
    BY <1>2, <2>1, <2>2 DEF Inv, TypeOK, tables
  <2>5. TypeOK'
    BY <1>2, <2>1, <2>3 DEF Inv, TypeOK, tables, Free
  <2>6. PlaceInv'
    BY <2>1, <2>2, <2>4 DEF Inv, PlaceInv, Severe, tables, Free
  <2>7. OneWriter' /\ StoredInv' /\ AlertaInv' /\ SeededInv'
    BY <1>2, <2>1 DEF Inv, TypeOK, OneWriter, StoredInv, AlertaInv, AlertsComeLast,
                      SeededInv, tables, Casos
  <2>8. AloneInv'
    <3>1. SUFFICES ASSUME ~crossed
                   PROVE  \A v \in Workers :
                            /\ pc'[v] = "fetch_casos" => EmptyResult.rows = file.reported
                            /\ pc'[v] = "ins_alerta" => Severe(todo[v])' = file.grave \ alerta
                            /\ pc'[v] = "seeded" => alerta = file.grave
      BY <1>2, <2>1 DEF AloneInv, tables
    <3>2. Severe(todo[w])' = file.grave
      <4>1. cursor.rows = file.reported
        BY <1>2, <2>1, <3>1 DEF Inv, AloneInv
      <4>. QED
        BY <2>4, <4>1, FileTyped DEF Inv, TypeOK, Severe
    <3>3. ASSUME NEW v \in Workers, v # w, pc[v] = "fetch_casos"
          PROVE  EmptyResult.rows = file.reported
      BY <2>2, <3>3, BothThrough DEF Inv, PlaceInv, EmptyResult
    <3>4. ASSUME NEW v \in Workers, v # w
          PROVE  /\ pc[v] = "ins_alerta" => Severe(todo[v])' = file.grave \ alerta
                 /\ pc[v] = "seeded" => alerta = file.grave
      BY <2>4, <3>1, <3>4 DEF Inv, AloneInv, Severe
    <3>. QED
      BY <2>2, <2>4, <3>2, <3>3, <3>4
  <2>. QED
    BY <2>5, <2>6, <2>7, <2>8 DEF Inv
<1>. QED
  BY <1>1, <1>2 DEF FetchCasos

LEMMA InvInsertAlerta ==
  ASSUME Inv, NEW w \in Workers, InsertAlerta(w), UNCHANGED crossed PROVE Inv'
PROOF
<1>1. PICK i \in Severe(todo[w]) :
        IF i \in alerta
          THEN Raise(w)
          ELSE /\ alerta' = alerta \cup {i}
               /\ cursor' = OtherRows
               /\ todo' = [todo EXCEPT ![w] = @ \ {i}]
               /\ UNCHANGED <<file, caso, pc, pos>>
  BY DEF InsertAlerta
<1>2. CASE i \in alerta
  BY <1>1, <1>2, EndInv DEF Raise
<1>3. CASE i \notin alerta
  <2>1. /\ alerta' = alerta \cup {i} /\ cursor' = OtherRows
        /\ todo' = [todo EXCEPT ![w] = todo[w] \ {i}]
        /\ UNCHANGED <<file, caso, pc, pos>>
    BY <1>1, <1>3
  <2>2. /\ N \in Nat /\ file.grave \subseteq Casos /\ i \in file.grave /\ i \in todo[w]
        /\ N > 0 /\ pc[w] = "ins_alerta"
    BY FileTyped DEF Inv, TypeOK, Severe, Casos, InsertAlerta
  <2>3. pos[w] = N + 1 /\ Severe(todo[w]) \cap alerta = {}
    BY <2>2 DEF Inv, PlaceInv
  <2>4. /\ caso = Casos
        /\ \A v \in Workers : v # w => pos[v] = 1
        /\ \A v \in Workers : pc[v] # "seeded"
    <3>1. pos \in [Workers -> 1 .. N + 1] /\ pos[w] > 1
      BY <2>2, <2>3 DEF Inv, TypeOK
    <3>. QED
      BY <2>2, <2>3, <3>1 DEF Inv, OneWriter, StoredInv, SeededInv, Casos
  <2>5. TypeOK'
    BY <2>1, <2>2 DEF Inv, TypeOK
  <2>6. PlaceInv'
    <3>1. \A v \in Workers : v # w => pc[v] \notin {"query", "fetch_casos", "ins_alerta"}
      BY <2>2, <2>4 DEF Inv, PlaceInv
    <3>2. Severe(todo[w])' \cap alerta' = {}
      BY <2>1, <2>3 DEF Inv, TypeOK, Severe
    <3>. QED
      BY <2>1, <2>2, <2>3, <3>1, <3>2 DEF Inv, PlaceInv, Free
  <2>7. OneWriter' /\ StoredInv' /\ AlertaInv' /\ SeededInv'
    BY <2>1, <2>2, <2>4 DEF Inv, OneWriter, StoredInv, AlertaInv, AlertsComeLast, SeededInv, Casos
  <2>8. AloneInv'
    <3>1. \A v \in Workers : /\ v # w => pc'[v] \notin {"fetch_casos", "ins_alerta"}
                             /\ pc'[v] # "seeded"
      BY <2>1, <2>2, <2>4 DEF Inv, PlaceInv
    <3>2. Severe(todo[w])' = Severe(todo[w]) \ {i}
      BY <2>1 DEF Inv, TypeOK, Severe
    <3>. QED
      BY <2>1, <2>2, <3>1, <3>2 DEF Inv, AloneInv
  <2>. QED
    BY <2>5, <2>6, <2>7, <2>8 DEF Inv
<1>. QED
  BY <1>2, <1>3

LEMMA InvReturns ==
  ASSUME Inv, NEW w \in Workers, SeedReturns(w), UNCHANGED crossed PROVE Inv'
PROOF
<1>1. /\ pc[w] = "ins_alerta" /\ Severe(todo[w]) = {}
      /\ pc' = [pc EXCEPT ![w] = "seeded"] /\ pos' = [pos EXCEPT ![w] = 1]
      /\ todo' = [todo EXCEPT ![w] = {}] /\ UNCHANGED <<tables, cursor>>
  BY DEF SeedReturns, Return, Goto
<1>2. N \in Nat /\ file.grave \subseteq Casos /\ caso \subseteq Casos
  BY FileTyped DEF Inv, TypeOK
<1>3. pos[w] = N + 1 /\ (~crossed => alerta = file.grave)
  <2>1. file.grave \ alerta = {} => alerta = file.grave
    BY DEF Inv, AlertaInv
  <2>. QED
    BY <1>1, <2>1 DEF Inv, PlaceInv, AloneInv
<1>4. pos \in [Workers -> 1 .. N + 1]
  BY DEF Inv, TypeOK
<1>5. caso = Casos /\ \A v \in Workers : v # w => pos[v] = 1
  <2>1. CASE N = 0
    BY <1>2, <1>4, <2>1 DEF Casos
  <2>2. CASE N > 0
    BY <1>2, <1>3, <1>4, <2>2 DEF Inv, OneWriter, StoredInv, Casos
  <2>. QED
    BY <1>2, <2>1, <2>2
<1>6. TypeOK'
  BY <1>1, <1>2 DEF Inv, TypeOK, tables, Free
<1>7. \A v \in Workers : /\ pos'[v] = IF v = w THEN 1 ELSE pos[v]
                         /\ pc'[v] = IF v = w THEN "seeded" ELSE pc[v]
                         /\ v # w => todo'[v] = todo[v]
  BY <1>1 DEF Inv, TypeOK
<1>8. PlaceInv'
  BY <1>1, <1>7 DEF Inv, PlaceInv, tables, Free, Severe
<1>9. OneWriter' /\ StoredInv' /\ AlertaInv'
  BY <1>1, <1>7 DEF Inv, OneWriter, StoredInv, AlertaInv, AlertsComeLast, tables, Casos
<1>10. SeededInv'
  BY <1>1, <1>3, <1>5, <1>7 DEF SeededInv, tables, Casos
<1>11. AloneInv'
  BY <1>1, <1>3, <1>7 DEF Inv, AloneInv, tables, Severe
<1>. QED
  BY <1>6, <1>8, <1>9, <1>10, <1>11 DEF Inv

LEMMA InvOther == ASSUME Inv, OtherStatement PROVE Inv'
PROOF
<1>1. /\ UNCHANGED <<tables, pc, pos, todo>>
      /\ crossed' = (crossed \/ \E w \in Workers : pc[w] = "fetch_casos")
  BY DEF OtherStatement
<1>2. cursor' \in {NoResult, EmptyResult, OtherRows} \cup [kind : {"casos"}, rows : SUBSET Casos]
  <2>1. CASE cursor' \in Foreign
    BY <2>1, ForeignAssumption
  <2>2. ASSUME NEW i \in cursor.rows, cursor' = CasosResult(cursor.rows \ {i})
        PROVE  cursor'.kind = "casos" /\ cursor' \in [kind : {"casos"}, rows : SUBSET Casos]
    <3>1. cursor.rows \subseteq Casos
      BY <2>2 DEF Inv, TypeOK, NoResult, EmptyResult, OtherRows
    <3>. QED
      BY <2>2, <3>1 DEF CasosResult
  <2>. QED
    BY <2>1, <2>2 DEF OtherStatement
<1>3. TypeOK'
  BY <1>1, <1>2 DEF Inv, TypeOK, tables
<1>4. OneWriter' /\ StoredInv' /\ PlaceInv' /\ AloneInv' /\ AlertaInv' /\ SeededInv'
  BY <1>1 DEF Inv, OneWriter, StoredInv, PlaceInv, AloneInv, AlertaInv, AlertsComeLast,
              SeededInv, tables, Casos, Severe
<1>. QED
  BY <1>3, <1>4 DEF Inv

LEMMA InvRestart == ASSUME Inv, Restart PROVE Inv'
PROOF
<1>1. N \in Nat /\ crossed' = FALSE
  BY FileAssumption DEF Restart
<1>2. TypeOK'
  BY <1>1 DEF Inv, TypeOK, Restart, tables, Free
<1>3. OneWriter' /\ StoredInv' /\ PlaceInv' /\ AloneInv' /\ AlertaInv' /\ SeededInv'
  BY DEF Inv, OneWriter, StoredInv, PlaceInv, AloneInv, AlertaInv, AlertsComeLast,
         SeededInv, Restart, tables, NoResult, Casos, Free
<1>. QED
  BY <1>2, <1>3 DEF Inv

LEMMA InvNext == Inv /\ [Next]_<<vars, crossed>> => Inv'
PROOF
<1>1. ASSUME Inv, UNCHANGED <<vars, crossed>> PROVE Inv'
  BY <1>1 DEF vars, tables, Inv, TypeOK, OneWriter, StoredInv, PlaceInv, AloneInv, AlertaInv,
              AlertsComeLast, SeededInv, Casos, Severe
<1>. QED
  BY <1>1, InvStart, InvInsertCaso, InvQuery, InvFetch, InvInsertAlerta, InvReturns, InvOther,
     InvRestart DEF Next, Serve

LEMMA SeedInv == Spec => []Inv
PROOF
  BY InvInit, InvNext, PTL DEF Spec

-----------------------------------------------------------------------------
(* The tables hold rows of the file, every seed stands at a statement, at  *)
(* a row there is, and the connection holds a result some handler left.    *)
THEOREM SeedTyped == Spec => []TypeOK
PROOF
<1>1. Inv => TypeOK
  BY DEF Inv
<1>. QED
  BY <1>1, SeedInv, PTL

(* However many seeds run at once, only one is ever past its first INSERT. *)
THEOREM OneSeedWrites == Spec => []OneWriter
PROOF
<1>1. Inv => OneWriter
  BY DEF Inv
<1>. QED
  BY <1>1, SeedInv, PTL

(* However seeds interleave, fail or die, a 200 means that every case and  *)
(* every alert is stored, unless another endpoint came between the SELECT  *)
(* and the fetchall of a seed.                                             *)
THEOREM SeedsWhole == Spec => []SeedWhole
PROOF
<1>1. Inv => SeedWhole
  BY DEF Inv, SeededInv, AloneInv, SeedWhole
<1>. QED
  BY <1>1, SeedInv, PTL

(* Alerts are only ever derived from the whole file.                       *)
THEOREM AlertsAfterCases == Spec => []AlertsComeLast
PROOF
<1>1. Inv => AlertsComeLast
  BY DEF Inv, AlertaInv
<1>. QED
  BY <1>1, SeedInv, PTL

-----------------------------------------------------------------------------
(* The INSERT of a case that is not refused appends to the log.            *)
LEMMA CaseAppends ==
  ASSUME Inv, NEW w \in Workers, InsertCaso(w)
  PROVE  Log!Append \/ UNCHANGED tables
PROOF
<1>1. CASE pos[w] \in file.bad \/ Refused(pos[w])
  BY <1>1 DEF InsertCaso, Raise, tables
<1>2. CASE ~(pos[w] \in file.bad \/ Refused(pos[w]))
  <2>1. caso' = caso \cup {pos[w]} /\ UNCHANGED <<file, alerta>>
    BY <1>2 DEF InsertCaso
  <2>2. pos[w] \in 1 .. N /\ caso = 1 .. pos[w] - 1
    BY <1>2, InsertAlone DEF InsertCaso, Refused, Casos
  <2>3. N \in Nat
    BY FileAssumption
  <2>4. caso' = 1 .. pos[w]
    BY <2>1, <2>2, <2>3
  <2>. QED
    BY <2>1, <2>2, <2>4 DEF Log!Append
<1>. QED
  BY <1>1, <1>2

(* An alert is added when all cases are stored: what is left to report is  *)
(* a set of cases that were read back.                                     *)
LEMMA AlertReports ==
  ASSUME Inv, NEW w \in Workers, InsertAlerta(w)
  PROVE  Log!Report \/ UNCHANGED tables
PROOF
<1>1. PICK i \in Severe(todo[w]) :
        \/ Raise(w)
        \/ i \notin alerta /\ alerta' = alerta \cup {i} /\ UNCHANGED <<file, caso>>
  BY DEF InsertAlerta
<1>2. i \in file.grave
  BY DEF Severe
<1>3. caso = Casos
  <2>1. pc[w] = "ins_alerta" /\ pos[w] = N + 1
    BY DEF InsertAlerta, Inv, PlaceInv
  <2>2. N \in Nat /\ caso \subseteq 1 .. N
    BY FileAssumption DEF Inv, TypeOK, Casos
  <2>3. N > 0 => caso = 1 .. (N + 1) - 1
    BY <2>1, <2>2 DEF Inv, StoredInv
  <2>4. N = 0 => caso = 1 .. N
    BY <2>2
  <2>. QED
    BY <2>2, <2>3, <2>4 DEF Casos
<1>. QED
  BY <1>1, <1>2, <1>3 DEF Log!Report, Raise, tables, Casos

(* Whatever seeds do to the tables is an append to the log or a report of  *)
(* a complete one, for a file of any length and any number of threads.     *)
THEOREM SeedsImplementLog == Spec => SeedsKeepLog
PROOF
<1>1. Init => Log!LInit
  BY FileAssumption DEF Init, Log!LInit, File, Casos
<1>2. ASSUME Inv, [Next]_<<vars, crossed>> PROVE [Log!Append \/ Log!Report]_(Log!lvars)
  <2>1. ASSUME NEW w \in Workers,
               StartSeed(w) \/ QueryCasos(w) \/ FetchCasos(w) \/ SeedReturns(w)
        PROVE  UNCHANGED tables
    BY <2>1 DEF StartSeed, QueryCasos, FetchCasos, SeedReturns, tables
  <2>2. ASSUME OtherStatement \/ Restart \/ UNCHANGED vars PROVE UNCHANGED tables
    BY <2>2 DEF OtherStatement, Restart, vars
  <2>3. UNCHANGED tables \/ Log!Append \/ Log!Report
    BY <1>2, <2>1, <2>2, CaseAppends, AlertReports DEF Next, Serve
  <2>. QED
    BY <2>3 DEF Log!lvars, tables
<1>. QED
  BY <1>1, <1>2, SeedInv, PTL DEF Spec, SeedsKeepLog, Log!LSpec
===============================================================================
