-------------------------------- MODULE CaseSeed --------------------------------
(***************************************************************************)
(* POST /seed (backend/routers/seed.py): load_corrupcion_chile inserts the *)
(* cases of the CSV file one by one, in the order of the file, then        *)
(* run_detection_corrupcion reads them back and inserts an alert for each  *)
(* case with a keyword (backend/loaders/corrupcion.py).  Nothing is ever   *)
(* deleted and every INSERT is a plain one.                                *)
(*                                                                         *)
(* Case i is row i of the file, its id caso_00i.  No entity is inserted:   *)
(* the rows kept in memory lack the columns that lines 90-99 look for.     *)
(*                                                                         *)
(* As in ChileCompra each db.execute is an action, all threads share one   *)
(* connection, and its pending result is that of the last statement.       *)
(***************************************************************************)
EXTENDS Integers, FiniteSets

CONSTANTS
  Workers,     \* threads of the server's pool that serve POST /seed
  N,           \* number of rows of the file
  Files,       \* what the file may hold
  Foreign      \* results that statements of other endpoints may leave;
               \*   empty: no other endpoint is in use

Casos == 1 .. N

(* Of a file: the rows whose Monto int() cannot read, dots and commas      *)
(* removed; those whose Caso is blank, and caso.nombre is NOT NULL; those  *)
(* with a Conclusion, an Estado or Delitos; and those of them with a       *)
(* keyword, which get severity high or medium.                             *)
File == [bad : SUBSET Casos, nameless : SUBSET Casos,
         reported : SUBSET Casos, grave : SUBSET Casos]

ASSUME FileAssumption ==
  N \in Nat /\ Files \subseteq {f \in File : f.grave \subseteq f.reported}

VARIABLES
  file,      \* the file, which stays as it is
  caso,      \* rows of table caso
  alerta,    \* cases that have an alert alert_<id>_cc
  cursor,    \* the pending result of the shared connection
  pc,        \* worker -> the statement its request executes next
  pos,       \* worker -> the row of the file it inserts next
  todo,      \* worker -> the rows fetched that its detection has left
  crossed    \* since the process began another endpoint used the connection
             \*   between a seed's SELECT and its fetchall (history of the
             \*   run, no state of the program)

tables == <<file, caso, alerta>>
vars   == <<tables, cursor, pc, pos, todo>>

-----------------------------------------------------------------------------
(* Results: none pending; one that is used up or has no rows; rows of some *)
(* other statement; the cases that the detection asked for.                *)
NoResult    == [kind |-> "none", rows |-> {}]
EmptyResult == [kind |-> "empty", rows |-> {}]
OtherRows   == [kind |-> "other", rows |-> {}]
CasosResult(S) == [kind |-> "casos", rows |-> S]

ASSUME ForeignAssumption == Foreign \subseteq {NoResult, EmptyResult, OtherRows}

Free == {"idle", "seeded", "failed"}

(* Mutants: the loop stops before the last row; it takes one too many.     *)
LoadBefore(p) == IF p + 1 \in Casos THEN "ins_caso" ELSE "query"
LoadBeyond(p) == IF p \in 1 .. N + 1 THEN "ins_caso" ELSE "query"

(* Where a load goes on when it has come to row p of the file.             *)
LoadFrom(p) == IF p \in Casos THEN "ins_caso" ELSE "query"

Init ==
  /\ file \in Files
  /\ caso = {}
  /\ alerta = {}
  /\ cursor = NoResult
  /\ pc   = [w \in Workers |-> "idle"]
  /\ pos  = [w \in Workers |-> 1]
  /\ todo = [w \in Workers |-> {}]
  /\ crossed = FALSE

Goto(w, label) == pc' = [pc EXCEPT ![w] = label]

(* The request ends; its locals are gone.                                  *)
Return(w, label) ==
  /\ Goto(w, label)
  /\ pos'  = [pos EXCEPT ![w] = 1]
  /\ todo' = [todo EXCEPT ![w] = {}]

(* A statement raises: no row changed, no result is left, a 500.           *)
Raise(w) == Return(w, "failed") /\ cursor' = NoResult /\ UNCHANGED tables

StartSeed(w) ==
  /\ pc[w] \in Free
  /\ Goto(w, LoadFrom(1))
  /\ UNCHANGED <<tables, cursor, pos, todo>>

(* Mutant: INSERT OR IGNORE.                                               *)
Forgiven(i) == FALSE

(* The INSERT into caso is refused: the id is taken, or nombre is NULL.    *)
Refused(i) == i \in caso \/ i \in file.nameless

(* int() raises before the statement is executed.                          *)
InsertCaso(w) ==
  /\ pc[w] = "ins_caso"
  /\ LET i == pos[w]
     IN  IF i \in file.bad
           THEN Return(w, "failed") /\ UNCHANGED <<tables, cursor>>
           ELSE IF Refused(i)
             THEN Raise(w)
             ELSE /\ caso' = caso \cup {i}
                  /\ cursor' = OtherRows
                  /\ pos' = [pos EXCEPT ![w] = i + 1]
                  /\ Goto(w, LoadFrom(i + 1))
                  /\ UNCHANGED <<file, alerta, todo>>

QueryCasos(w) ==
  /\ pc[w] = "query"
  /\ cursor' = CasosResult(caso \cap file.reported)
  /\ Goto(w, "fetch_casos")
  /\ UNCHANGED <<tables, pos, todo>>

(* fetchall() takes what the connection holds: with nothing pending it     *)
(* raises, rows of another statement do not unpack into six values, and a  *)
(* result without rows passes for an empty table.                          *)
FetchCasos(w) ==
  /\ pc[w] = "fetch_casos"
  /\ UNCHANGED tables
  /\ \/ /\ cursor.kind \in {"none", "other"}
        /\ Return(w, "failed")
        /\ cursor' = IF cursor.kind = "none" THEN NoResult ELSE EmptyResult
     \/ /\ cursor.kind \in {"casos", "empty"}
        /\ todo' = [todo EXCEPT ![w] = cursor.rows]
        /\ cursor' = EmptyResult
        /\ Goto(w, "ins_alerta")
        /\ UNCHANGED pos

(* Mutant: the else branch that skips a case without keyword is lost.      *)
EveryCase(S) == S

(* The cases fetched that have a keyword.                                  *)
Severe(S) == S \cap file.grave

InsertAlerta(w) ==
  /\ pc[w] = "ins_alerta"
  /\ \E i \in Severe(todo[w]) :
       IF i \in alerta
         THEN Raise(w)
         ELSE /\ alerta' = alerta \cup {i}
              /\ cursor' = OtherRows
              /\ todo' = [todo EXCEPT ![w] = @ \ {i}]
              /\ UNCHANGED <<file, caso, pc, pos>>

(* Mutant: the loop waits for a case without a keyword to get an alert.    *)
SeedReturnsLate(w) ==
  /\ pc[w] = "ins_alerta"
  /\ todo[w] = {}
  /\ Return(w, "seeded")
  /\ UNCHANGED <<tables, cursor>>

SeedReturns(w) ==
  /\ pc[w] = "ins_alerta"
  /\ Severe(todo[w]) = {}
  /\ Return(w, "seeded")
  /\ UNCHANGED <<tables, cursor>>

(* A statement of another endpoint on the same connection, or a fetch: a   *)
(* fetchone takes one of the cases that a seed asked for and leaves the    *)
(* others.                                                                 *)
OtherStatement ==
  /\ \/ cursor' \in Foreign
     \/ /\ Foreign # {}
        /\ \E i \in cursor.rows : cursor' = CasosResult(cursor.rows \ {i})
  /\ crossed' = (crossed \/ \E w \in Workers : pc[w] = "fetch_casos")
  /\ UNCHANGED <<tables, pc, pos, todo>>

(* The process dies, a start that keeps DuckDB's log opens the same tables.*)
Restart ==
  /\ cursor' = NoResult
  /\ pc'   = [w \in Workers |-> "idle"]
  /\ pos'  = [w \in Workers |-> 1]
  /\ todo' = [w \in Workers |-> {}]
  /\ crossed' = FALSE
  /\ UNCHANGED tables

Serve(w) ==
  \/ InsertCaso(w) \/ QueryCasos(w) \/ FetchCasos(w) \/ InsertAlerta(w) \/ SeedReturns(w)

Next ==
  \/ \E w \in Workers : (StartSeed(w) \/ Serve(w)) /\ UNCHANGED crossed
  \/ OtherStatement
  \/ Restart

(* A thread runs its request to the end; requests need not come.           *)
Spec == Init /\ [][Next]_<<vars, crossed>> /\ \A w \in Workers : WF_vars(Serve(w))

(* The client repeats its request until it is answered with a 200.         *)
Persistent ==
  Spec /\ \A w \in Workers : WF_vars(pc[w] # "seeded" /\ StartSeed(w))

-----------------------------------------------------------------------------
(* The tables hold rows of the file, a request stands at a row of the file *)
(* while it inserts, and the connection holds a known kind of result.      *)
TypeOK ==
  /\ file \in Files
  /\ caso \subseteq Casos /\ alerta \subseteq Casos
  /\ cursor \in {NoResult, EmptyResult, OtherRows}
                  \cup [kind : {"casos"}, rows : SUBSET Casos]
  /\ pc \in [Workers -> Free \cup {"ins_caso", "query", "fetch_casos", "ins_alerta"}]
  /\ pos \in [Workers -> 1 .. N + 1]
  /\ todo \in [Workers -> SUBSET Casos]
  /\ \A w \in Workers : pc[w] = "ins_caso" => pos[w] \in Casos

(* Of the seeds that run at once, at most one is past its first INSERT:    *)
(* the primary key of caso_001 is the only thing that keeps them apart.    *)
OneWriter == \A v, w \in Workers : pos[v] > 1 /\ pos[w] > 1 => v = w

(* No case has an alert before all the cases of the file are stored, even  *)
(* after seeds that failed at a row or died with the process.              *)
AlertsComeLast == alerta # {} => caso = Casos

(* A seed that answers 200 has stored every case of the file and every     *)
(* alert, whatever seeds do to each other, though they read back the cases *)
(* through one connection: unless another endpoint came between execute    *)
(* and fetchall, whose fetchone may have taken a case.                     *)
SeedWhole ==
  \A w \in Workers :
    pc[w] = "seeded" /\ ~crossed => caso = Casos /\ alerta = file.grave

(* Seeds that run at once, fail at any row or die with the process only    *)
(* ever append to the log: no case is skipped, no alert comes before the   *)
(* last case or for a case without keyword, though nothing but a primary   *)
(* key coordinates them.                                                   *)
Log == INSTANCE CaseLog WITH cases <- caso, grave <- file.grave, alerts <- alerta

SeedsKeepLog == Log!LSpec

(* Every seed is answered, whatever statements interfere.                  *)
SeedAnswered == \A w \in Workers : pc[w] \notin Free ~> pc[w] \in Free

(* README.md:84, "Cargar casos corrupcion_chile": when the file has no     *)
(* flaw and seeds are repeated until one answers 200, the cases and their  *)
(* alerts are loaded in the end, unless crashes never cease.               *)
SeedRecovers ==
  []<>(caso = Casos /\ alerta = file.grave) \/ []<><<Restart>>_vars
===============================================================================
