--------------------------- MODULE DurabilityProofs ----------------------------
(***************************************************************************)
(* Theorems about Durability: what holds across stops, crashes and deleted *)
(* logs, for every set of threads, slices and files.                       *)
(***************************************************************************)
EXTENDS Durability, ChileCompraProofs

(* The contracts in the file come from the zip of their slice.             *)
DiskRows == \A i \in Ids : disk.contrato[i] # Null => RowOK(disk.contrato[i], i)

DInv == Inv /\ ContractsAnchored /\ DiskAnchored /\ DiskRows

USE FuentesAssumption, BogusAssumption, ZipsAssumption DEF TypeOK

-----------------------------------------------------------------------------
(* The tables go to the file and come back from it as they are.            *)

LEMMA ImageSound ==
  ASSUME Inv, ContractsAnchored, disk' = Image
  PROVE  DiskAnchored' /\ DiskRows'
PROOF
<1>1. /\ disk'.organismo = organismo /\ disk'.empresa = empresa
      /\ disk'.contrato = contrato /\ disk'.alerta = alerta
  BY DEF Image
<1>2. DiskTyped'
  BY <1>1 DEF Inv, TablesTyped, DiskTyped
<1>3. \A i \in Ids : contrato[i] # Null =>
        /\ RowOK(contrato[i], i)
        /\ HasKey(organismo, ConRow(contrato[i], i).org)
        /\ HasKey(empresa, ConRow(contrato[i], i).prov)
  BY DEF Inv, RowsInv, ContractsAnchored, Anchored
<1>. QED
  BY <1>1, <1>2, <1>3 DEF DiskAnchored, DiskRows

LEMMA FileKept ==
  ASSUME DiskAnchored, DiskRows, UNCHANGED disk
  PROVE  DiskAnchored' /\ DiskRows'
PROOF
BY DEF DiskAnchored, DiskTyped, DiskRows

LEMMA ReopenReq ==
  ASSUME Reopen
  PROVE  ReqInv' /\ cursor' \in Results
PROOF
<1>1. ReqInv'
  BY DEF Reopen, ReqInv, RequestsTyped, TodoInv, InSlice, Free, LoadPcs, FetchOf, AfterFetch,
         FirstRule, Rules
<1>. QED
  BY <1>1, ResultsTyped DEF Reopen

LEMMA CrashSound ==
  ASSUME DInv, Crash
  PROVE  DInv'
PROOF
<1>1. ReqInv' /\ cursor' \in Results
  BY ReopenReq DEF Crash
<1>2. /\ organismo' = disk.organismo /\ empresa' = disk.empresa
      /\ contrato' = disk.contrato /\ alerta' = disk.alerta
  BY DEF Crash
<1>3. TablesTyped' /\ RowsInv' /\ ContractsAnchored'
  BY <1>2 DEF DInv, DiskAnchored, DiskTyped, DiskRows, TablesTyped, RowsInv,
              ContractsAnchored, Anchored
<1>4. DiskAnchored' /\ DiskRows'
  BY FileKept DEF DInv, Crash
<1>. QED
  BY <1>1, <1>3, <1>4 DEF DInv, Inv, ReqInv

LEMMA DInvNext == DInv /\ [DNext]_dvars => DInv'
PROOF
<1>1. SUFFICES ASSUME DInv, [DNext]_dvars PROVE DInv'
  OBVIOUS
<1>2. ASSUME [Next]_vars, UNCHANGED disk PROVE DInv'
  BY <1>1, <1>2, InvNext, AnchoredNext, FileKept DEF DInv
<1>3. CASE Process
  BY <1>2, <1>3 DEF Process
<1>4. CASE Checkpoint
  <2>1. Inv' /\ ContractsAnchored'
    BY <1>1, <1>4, InvNext, AnchoredNext DEF DInv, Checkpoint
  <2>. QED
    BY <1>1, <1>4, <2>1, ImageSound DEF DInv, Checkpoint
<1>5. CASE Stop
  <2>1. Inv' /\ ContractsAnchored'
    BY <1>1, <1>5, InvNext, AnchoredNext DEF DInv, Stop, Next, Restart
  <2>. QED
    BY <1>1, <1>5, <2>1, ImageSound DEF DInv, Stop
<1>6. CASE Crash
  BY <1>1, <1>6, CrashSound
<1>7. CASE UNCHANGED dvars
  BY <1>2, <1>7 DEF dvars
<1>. QED
  BY <1>1, <1>3, <1>4, <1>5, <1>6, <1>7 DEF DNext

LEMMA DInvInit == DInit => DInv
PROOF
<1>1. DInit => Inv /\ ContractsAnchored
  BY InvInit DEF DInit, Init, ContractsAnchored
<1>2. DInit => DiskAnchored /\ DiskRows
  BY DEF DInit, Init, Image, DiskAnchored, DiskTyped, DiskRows
<1>. QED
  BY <1>1, <1>2 DEF DInv

LEMMA DSpecInv == DSpec => []DInv
PROOF
BY DInvInit, DInvNext, PTL DEF DSpec

(* The file a crash leaves never has a contract without its buyer or its   *)
(* supplier, wherever the loads under way had come at the last checkpoint. *)
THEOREM FileAnchored == DSpec => []DiskAnchored
PROOF
<1>1. DInv => DiskAnchored
  BY DEF DInv
<1>. QED
  BY <1>1, DSpecInv, PTL

(* Nor have the tables of the process, though a crash takes them back.     *)
THEOREM AnchoredAcrossCrashes == DSpec => []ContractsAnchored
PROOF
<1>1. DInv => ContractsAnchored
  BY DEF DInv
<1>. QED
  BY <1>1, DSpecInv, PTL
-----------------------------------------------------------------------------
(* One thread, no limit, and no purchase order in two months.              *)
Alone ==
  /\ \E w0 : Workers = {w0}
  /\ Limits = {0}
  /\ \A f, g \in Zips : f # g => ConIds(f) \cap ConIds(g) = {}

(* A load has selected all contracts of its file, and those it does not    *)
(* have left to insert are in the table.                                   *)
Progress ==
  \A w \in Workers :
    /\ pc[w] \in LoadPcs => con[w] = ConIds(fu[w])
    /\ pc[w] = "ins_contrato" =>
         \A i \in Kept(fu[w], con[w]) : i \in todo[w] \/ contrato[i] = fu[w]
    /\ pc[w] \in Counting => \A i \in Kept(fu[w], con[w]) : contrato[i] = fu[w]

(* An answered load is whole and not under way again; if it was saved, it  *)
(* is whole in the file.                                                   *)
Answered ==
  /\ loaded \subseteq Zips /\ saved \subseteq loaded
  /\ \A f \in loaded :
       /\ Whole(f)
       /\ \A w \in Workers : pc[w] \in LoadPcs => fu[w] # f
  /\ \A f \in saved : \A i \in Kept(f, ConIds(f)) : disk.contrato[i] = f

WholeInv == DInv /\ Progress /\ Answered

LEMMA KeptIds ==
  ASSUME NEW f \in Zips, NEW S \in SUBSET ConIds(f), NEW i \in Kept(f, S)
  PROVE  i \in ConIds(f) /\ i \in Ids
PROOF
BY FramesAreKeys

(* In months apart, the row that keeps an insertion from happening is the  *)
(* slice's own.                                                            *)
LEMMA TakenByItself ==
  ASSUME Alone, Inv, NEW f \in Zips, NEW i \in ConIds(f), contrato[i] # Null
  PROVE  contrato[i] = f
PROOF
<1>1. i \in Ids
  BY FramesAreKeys
<1>2. contrato[i] \in Zips /\ i \in ConIds(contrato[i])
  BY <1>1 DEF Inv, RowsInv, RowOK
<1>. QED
  BY <1>2 DEF Alone

(* How a request comes to a statement of a load.                           *)
LEMMA LoadMoves ==
  ASSUME Inv, NEW w \in Workers, Arrive(w) \/ Serve(w), pc'[w] \in LoadPcs
  PROVE  \/ /\ pc[w] \in LoadPcs
            /\ fu'[w] = fu[w] /\ con'[w] = con[w]
         \/ /\ pc[w] \in Free /\ pc'[w] = "del_contrato"
            /\ \E limit \in Limits : con'[w] \in Slices(fu'[w], limit)
            /\ UNCHANGED contrato
PROOF
<1>1. /\ pc \in [Workers -> Free \cup LoadPcs \cup DetectPcs]
      /\ fu \in [Workers -> Fuentes \cup {Bogus, Null}]
      /\ con \in [Workers -> SUBSET Ids]
  BY DEF Inv, RequestsTyped
<1>2. LoadPcs \cap (Free \cup DetectPcs) = {}
  BY DEF LoadPcs, Free, DetectPcs, FetchOf, AfterFetch
<1>3. ASSUME NEW label \in Free, Return(w, label) PROVE FALSE
  BY <1>1, <1>2, <1>3 DEF Return, Goto
<1>4. CASE Load(w)
  <2>1. pc[w] \in LoadPcs
    BY <1>4 DEF Load, DeleteContrato, DeleteAlerta, DeleteEmpresa, DeleteOrganismo, NothingToInsert,
            InsertOrganismo, InsertEmpresa, InsertContrato, Count, FetchCount, LoadPcs
  <2>2. ~FailLoad(w)
    BY <1>3 DEF FailLoad, Raise, Free
  <2>3. fu' = fu /\ con' = con
    BY <1>3, <1>4, <2>2
       DEF Load, DeleteContrato, DeleteAlerta, DeleteEmpresa, DeleteOrganismo, NothingToInsert,
           InsertOrganismo, InsertEmpresa, InsertContrato, RowDone, Count, FetchCount, locals, Free
  <2>. QED
    BY <2>1, <2>3
<1>5. CASE Detect(w)
  <2>1. pc'[w] \in DetectPcs \cup Free
    BY <1>1, <1>5
       DEF Detect, ListFuentes, FetchFuentes, CountTotal, FetchTotal, DeletePatron, QueryRule,
           FetchRule, InsertAlert, DetectReturns, RuleDone, FailDetect, Raise, Return, Goto,
           DetectPcs, Free
  <2>. QED
    BY <1>2, <2>1
<1>6. CASE Arrive(w)
  <2>1. ASSUME NEW f \in Fuentes, StartLoad(w, f)
        PROVE  /\ pc[w] \in Free /\ pc'[w] = "del_contrato"
               /\ \E limit \in Limits : con'[w] \in Slices(fu'[w], limit)
               /\ UNCHANGED contrato
    <3>1. f \in Zips
      BY <1>3, <2>1 DEF StartLoad, Free
    <3>. QED
      BY <1>1, <2>1, <3>1 DEF StartLoad, Goto, tables
  <2>2. ASSUME NEW f \in Fuentes \cup {Null}, StartDetect(w, f) PROVE FALSE
    BY <1>1, <1>2, <2>2 DEF StartDetect, Goto, DetectPcs
  <2>. QED
    BY <1>6, <2>1, <2>2 DEF Arrive
<1>. QED
  BY <1>4, <1>5, <1>6 DEF Serve

(* How the insertion of contracts begins and goes on.                      *)
LEMMA InsertMoves ==
  ASSUME Inv, NEW w \in Workers, Arrive(w) \/ Serve(w), pc'[w] = "ins_contrato"
  PROVE  /\ pc[w] \in LoadPcs /\ fu'[w] = fu[w] /\ con'[w] = con[w]
         /\ \/ todo'[w] = Kept(fu[w], con[w])
            \/ /\ pc[w] = "ins_contrato"
               /\ \E i \in todo[w] :
                    /\ todo'[w] = todo[w] \ {i}
                    /\ contrato' = [contrato EXCEPT ![i] = IF @ = Null THEN fu[w] ELSE @]
PROOF
<1>1. /\ pc \in [Workers -> Free \cup LoadPcs \cup DetectPcs]
      /\ todo \in [Workers -> SUBSET (Orgs \cup Emps \cup Ids \cup RuleRows \cup {Bogus})]
  BY DEF Inv, RequestsTyped
<1>2. pc[w] \in LoadPcs /\ fu'[w] = fu[w] /\ con'[w] = con[w]
  BY LoadMoves DEF LoadPcs
<1>3. Load(w) /\ ~FailLoad(w)
  <2>1. ~Detect(w) /\ ~Arrive(w)
    BY <1>2 DEF Detect, ListFuentes, FetchFuentes, CountTotal, FetchTotal, DeletePatron, QueryRule,
                FetchRule, InsertAlert, DetectReturns, Arrive, StartLoad, StartDetect, LoadPcs,
                FetchOf, AfterFetch, Free
  <2>2. ~FailLoad(w)
    BY <1>1 DEF FailLoad, Raise, Return, Goto
  <2>. QED
    BY <2>1, <2>2 DEF Serve
<1>4. InsertEmpresa(w) \/ InsertContrato(w)
  BY <1>1, <1>3 DEF Load, DeleteContrato, DeleteAlerta, DeleteEmpresa, DeleteOrganismo,
                    NothingToInsert, InsertOrganismo, RowDone, Count, FetchCount, Return, Goto,
                    FetchOf, AfterFetch
<1>5. CASE InsertEmpresa(w)
  BY <1>1, <1>2, <1>5 DEF InsertEmpresa, RowDone, Goto
<1>6. CASE InsertContrato(w)
  <2>1. PICK i \in todo[w] :
          /\ contrato' = [contrato EXCEPT ![i] = IF @ = Null THEN fu[w] ELSE @]
          /\ RowDone(w, i, Kept(fu[w], con[w]), "count_organismo", {})
    BY <1>3, <1>6 DEF InsertContrato
  <2>2. todo'[w] = todo[w] \ {i}
    BY <1>1, <2>1 DEF RowDone, Goto
  <2>. QED
    BY <1>2, <1>6, <2>1, <2>2 DEF InsertContrato
<1>. QED
  BY <1>4, <1>5, <1>6

(* The counting begins after the last insertion.                           *)
LEMMA CountMoves ==
  ASSUME Inv, NEW w \in Workers, Arrive(w) \/ Serve(w), pc'[w] \in Counting
  PROVE  /\ pc[w] \in LoadPcs /\ fu'[w] = fu[w] /\ con'[w] = con[w]
         /\ \/ pc[w] \in Counting /\ UNCHANGED contrato
            \/ /\ pc[w] = "ins_contrato"
               /\ \E i \in todo[w] :
                    /\ todo[w] = {i}
                    /\ contrato' = [contrato EXCEPT ![i] = IF @ = Null THEN fu[w] ELSE @]
PROOF
<1>1. /\ pc \in [Workers -> Free \cup LoadPcs \cup DetectPcs]
      /\ todo \in [Workers -> SUBSET (Orgs \cup Emps \cup Ids \cup RuleRows \cup {Bogus})]
  BY DEF Inv, RequestsTyped
<1>2. pc[w] \in LoadPcs /\ fu'[w] = fu[w] /\ con'[w] = con[w]
  BY LoadMoves DEF LoadPcs, Counting, FetchOf, AfterFetch
<1>3. Load(w) /\ ~FailLoad(w)
  <2>1. ~Detect(w) /\ ~Arrive(w)
    BY <1>2 DEF Detect, ListFuentes, FetchFuentes, CountTotal, FetchTotal, DeletePatron, QueryRule,
                FetchRule, InsertAlert, DetectReturns, Arrive, StartLoad, StartDetect, LoadPcs,
                FetchOf, AfterFetch, Free
  <2>2. ~FailLoad(w)
    BY <1>1 DEF FailLoad, Raise, Return, Goto, Counting, FetchOf, AfterFetch
  <2>. QED
    BY <2>1, <2>2 DEF Serve
<1>4. InsertContrato(w) \/ Count(w) \/ FetchCount(w)
  BY <1>1, <1>3 DEF Load, DeleteContrato, DeleteAlerta, DeleteEmpresa, DeleteOrganismo,
                    NothingToInsert, InsertOrganismo, InsertEmpresa, RowDone, Goto,
                    Counting, FetchOf, AfterFetch
<1>5. CASE Count(w) \/ FetchCount(w)
  BY <1>2, <1>5 DEF Count, FetchCount, Counting, tables
<1>6. CASE InsertContrato(w)
  <2>1. PICK i \in todo[w] :
          /\ contrato' = [contrato EXCEPT ![i] = IF @ = Null THEN fu[w] ELSE @]
          /\ RowDone(w, i, Kept(fu[w], con[w]), "count_organismo", {})
    BY <1>3, <1>6 DEF InsertContrato
  <2>2. todo[w] = {i}
    BY <1>1, <1>6, <2>1 DEF InsertContrato, RowDone, Goto, Counting, FetchOf, AfterFetch
  <2>. QED
    BY <1>2, <1>6, <2>1, <2>2 DEF InsertContrato
<1>. QED
  BY <1>4, <1>5, <1>6

(* A load that inserts leaves no contract out: what it cannot insert is    *)
(* its own already.                                                        *)
LEMMA Inserted ==
  ASSUME Alone, Inv, NEW w \in Workers, pc[w] = "ins_contrato", NEW j \in todo[w],
         contrato' = [contrato EXCEPT ![j] = IF @ = Null THEN fu[w] ELSE @],
         NEW i \in Kept(fu[w], con[w]), i = j \/ contrato[i] = fu[w]
  PROVE  contrato'[i] = fu[w]
PROOF
<1>1. fu[w] \in Zips /\ con[w] \in SUBSET ConIds(fu[w])
  BY DEF Inv, RequestsTyped, LoadPcs
<1>2. i \in ConIds(fu[w]) /\ i \in Ids
  BY <1>1, KeptIds
<1>3. contrato \in [Ids -> Fuentes \cup {Null}] /\ fu[w] # Null
  BY <1>1 DEF Inv, TablesTyped
<1>4. contrato[i] = Null \/ contrato[i] = fu[w]
  BY <1>1, <1>2, TakenByItself
<1>. QED
  BY <1>2, <1>3, <1>4

LEMMA ProgressNext ==
  ASSUME Alone, Inv, Progress, Next
  PROVE  Progress'
PROOF
<1>1. ASSUME NEW w \in Workers, Arrive(w) \/ Serve(w) PROVE Progress'
  <2>1. Workers = {w}
    BY DEF Alone
  <2>2. ASSUME pc'[w] \in LoadPcs PROVE con'[w] = ConIds(fu'[w])
    BY <1>1, <2>2, LoadMoves DEF Progress, Alone, Slices
  <2>3. ASSUME pc'[w] = "ins_contrato", NEW i \in Kept(fu'[w], con'[w])
        PROVE  i \in todo'[w] \/ contrato'[i] = fu'[w]
    <3>1. /\ pc[w] \in LoadPcs /\ fu'[w] = fu[w] /\ con'[w] = con[w]
      BY <1>1, <2>3, InsertMoves
    <3>2. CASE todo'[w] = Kept(fu[w], con[w])
      BY <2>3, <3>1, <3>2
    <3>3. ASSUME pc[w] = "ins_contrato", NEW j \in todo[w],
                 todo'[w] = todo[w] \ {j},
                 contrato' = [contrato EXCEPT ![j] = IF @ = Null THEN fu[w] ELSE @]
          PROVE  i \in todo'[w] \/ contrato'[i] = fu[w]
      <4>1. i \in todo[w] \/ contrato[i] = fu[w]
        BY <2>3, <3>1, <3>3 DEF Progress
      <4>. QED
        BY <2>3, <3>1, <3>3, <4>1, Inserted
    <3>. QED
      BY <1>1, <2>3, <3>1, <3>2, <3>3, InsertMoves
  <2>4. ASSUME pc'[w] \in Counting, NEW i \in Kept(fu'[w], con'[w])
        PROVE  contrato'[i] = fu'[w]
    <3>1. /\ pc[w] \in LoadPcs /\ fu'[w] = fu[w] /\ con'[w] = con[w]
      BY <1>1, <2>4, CountMoves
    <3>2. CASE pc[w] \in Counting /\ UNCHANGED contrato
      BY <2>4, <3>1, <3>2 DEF Progress
    <3>3. ASSUME pc[w] = "ins_contrato", NEW j \in todo[w], todo[w] = {j},
                 contrato' = [contrato EXCEPT ![j] = IF @ = Null THEN fu[w] ELSE @]
          PROVE  contrato'[i] = fu[w]
      <4>1. i = j \/ contrato[i] = fu[w]
        BY <2>4, <3>1, <3>3 DEF Progress
      <4>. QED
        BY <2>4, <3>1, <3>3, <4>1, Inserted
    <3>. QED
      BY <1>1, <2>4, <3>1, <3>2, <3>3, CountMoves
  <2>. QED
    BY <2>1, <2>2, <2>3, <2>4 DEF Progress
<1>2. OtherStatement => Progress'
  BY DEF OtherStatement, Progress, tables, locals
<1>3. Reopen => Progress'
  BY DEF Reopen, Progress, LoadPcs, Counting, FetchOf, AfterFetch
<1>. QED
  BY <1>1, <1>2, <1>3 DEF Next, Restart

LEMMA ReopenedNotLoading ==
  ASSUME Reopen
  PROVE  Progress' /\ \A w \in Workers : pc'[w] \notin LoadPcs
PROOF
BY DEF Reopen, Progress, LoadPcs, Counting, FetchOf, AfterFetch

(* A slice that is not being loaded keeps its contracts.                   *)
LEMMA WholeStays ==
  ASSUME Alone, Inv, Next, NEW f \in Zips, Whole(f),
         \A w \in Workers : ~ (pc[w] = "del_contrato" /\ fu[w] = f)
  PROVE  \A i \in Kept(f, ConIds(f)) : contrato'[i] = f
PROOF
<1>1. SUFFICES ASSUME NEW i \in Kept(f, ConIds(f)), contrato'[i] # contrato[i]
               PROVE  FALSE
  BY DEF Whole
<1>2. i \in Ids /\ contrato[i] = f /\ f # Null
  BY <1>1, KeptIds DEF Whole
<1>. QED
  BY <1>1, <1>2, ContratoChanges

LEMMA AnsweredProcess ==
  ASSUME Alone, WholeInv, Process
  PROVE  Answered'
PROOF
<1>1. Inv /\ Progress /\ Answered /\ Next
  BY DEF WholeInv, DInv, Process
<1>2. pc \in [Workers -> Free \cup LoadPcs \cup DetectPcs]
  BY <1>1 DEF Inv, RequestsTyped
<1>3. ASSUME NEW f \in loaded, f \notin Begun
      PROVE  /\ \A i \in Kept(f, ConIds(f)) : contrato'[i] = f
             /\ \A w \in Workers : pc'[w] \in LoadPcs => fu'[w] # f
  <2>1. f \in Zips /\ Whole(f) /\ \A w \in Workers : pc[w] \in LoadPcs => fu[w] # f
    BY <1>1, <1>3 DEF Answered
  <2>2. \A i \in Kept(f, ConIds(f)) : contrato'[i] = f
    BY <1>1, <2>1, WholeStays DEF LoadPcs
  <2>3. ASSUME NEW w \in Workers, pc'[w] \in LoadPcs, fu'[w] = f PROVE FALSE
    <3>1. CASE Arrive(w) \/ Serve(w)
      BY <1>1, <1>3, <2>1, <2>3, <3>1, LoadMoves DEF Begun
    <3>2. CASE OtherStatement
      BY <2>1, <2>3, <3>2 DEF OtherStatement, locals
    <3>3. CASE Restart
      BY <2>3, <3>3, ReopenedNotLoading DEF Restart
    <3>. QED
      BY <1>1, <3>1, <3>2, <3>3 DEF Next, Alone
  <2>. QED
    BY <2>2, <2>3
<1>4. ASSUME NEW f \in Finished
      PROVE  /\ f \in Zips
             /\ \A i \in Kept(f, ConIds(f)) : contrato'[i] = f
             /\ \A w \in Workers : pc'[w] \in LoadPcs => fu'[w] # f
  <2>1. PICK w \in Workers : pc[w] = "fetch_contrato" /\ pc'[w] = "seeded" /\ fu[w] = f
    BY <1>4 DEF Finished
  <2>2. pc[w] \in LoadPcs /\ pc[w] \in Counting /\ pc[w] # "del_contrato"
    BY <2>1 DEF LoadPcs, Counting, AfterFetch
  <2>3. f \in Zips /\ con[w] = ConIds(f)
    BY <1>1, <2>1, <2>2 DEF Inv, RequestsTyped, Progress
  <2>4. Whole(f)
    BY <1>1, <2>1, <2>2, <2>3 DEF Progress, Whole
  <2>5. Workers = {w}
    BY DEF Alone
  <2>6. \A i \in Kept(f, ConIds(f)) : contrato'[i] = f
    BY <1>1, <2>2, <2>3, <2>4, <2>5, WholeStays
  <2>7. pc'[w] \notin LoadPcs
    BY <2>1 DEF LoadPcs, FetchOf, AfterFetch
  <2>. QED
    BY <2>3, <2>5, <2>6, <2>7
<1>5. loaded' = (loaded \ Begun) \cup Finished /\ saved' = saved \ Begun /\ disk' = disk
  BY DEF Process
<1>6. \A f \in loaded' : /\ f \in Zips
                         /\ \A i \in Kept(f, ConIds(f)) : contrato'[i] = f
                         /\ \A w \in Workers : pc'[w] \in LoadPcs => fu'[w] # f
  BY <1>1, <1>3, <1>4, <1>5 DEF Answered
<1>7. /\ saved' \subseteq loaded'
      /\ \A f \in saved' : \A i \in Kept(f, ConIds(f)) : disk'.contrato[i] = f
  BY <1>1, <1>5 DEF Answered
<1>. QED
  BY <1>6, <1>7 DEF Answered, Whole

(* A checkpoint puts what is whole in the file, whole.                     *)
LEMMA AnsweredSaved ==
  ASSUME Answered, disk' = Image, saved' = loaded, UNCHANGED <<contrato, loaded>>,
         \A f \in loaded, w \in Workers : pc'[w] \in LoadPcs => fu'[w] # f
  PROVE  Answered'
PROOF
<1>1. disk'.contrato = contrato
  BY DEF Image
<1>. QED
  BY <1>1 DEF Answered, Whole

LEMMA AnsweredCrash ==
  ASSUME Answered, Crash
  PROVE  Answered'
PROOF
<1>1. /\ contrato' = disk.contrato /\ loaded' = saved /\ saved' = saved /\ disk' = disk
  BY DEF Crash
<1>2. \A w \in Workers : pc'[w] \notin LoadPcs
  BY ReopenedNotLoading DEF Crash
<1>3. loaded' \subseteq Zips /\ saved' \subseteq loaded'
  BY <1>1 DEF Answered
<1>4. \A f \in saved : \A i \in Kept(f, ConIds(f)) : disk.contrato[i] = f
  BY DEF Answered
<1>. QED
  BY <1>1, <1>2, <1>3, <1>4 DEF Answered, Whole

LEMMA WholeNext == Alone /\ WholeInv /\ [DNext]_dvars => WholeInv'
PROOF
<1>1. SUFFICES ASSUME Alone, WholeInv, [DNext]_dvars PROVE Progress' /\ Answered'
  BY DInvNext DEF WholeInv
<1>2. Inv /\ Progress /\ Answered
  BY <1>1 DEF WholeInv, DInv
<1>3. CASE Process
  BY <1>1, <1>2, <1>3, ProgressNext, AnsweredProcess DEF Process
<1>4. CASE Checkpoint
  <2>1. Progress'
    BY <1>2, <1>4 DEF Checkpoint, Progress, vars, tables, locals
  <2>2. \A f \in loaded, w \in Workers : pc'[w] \in LoadPcs => fu'[w] # f
    BY <1>2, <1>4 DEF Checkpoint, Answered, vars, locals
  <2>. QED
    BY <1>2, <1>4, <2>1, <2>2, AnsweredSaved DEF Checkpoint, vars, tables
<1>5. CASE Stop
  <2>1. Progress' /\ \A w \in Workers : pc'[w] \notin LoadPcs
    BY <1>5, ReopenedNotLoading DEF Stop
  <2>. QED
    BY <1>2, <1>5, <2>1, AnsweredSaved DEF Stop, tables
<1>6. CASE Crash
  BY <1>2, <1>6, ReopenedNotLoading, AnsweredCrash DEF Crash
<1>7. CASE UNCHANGED dvars
  BY <1>2, <1>7 DEF dvars, vars, tables, locals, Progress, Answered, Whole
<1>. QED
  BY <1>1, <1>3, <1>4, <1>5, <1>6, <1>7 DEF DNext

LEMMA WholeInit == DInit => WholeInv
PROOF
<1>1. DInit => Progress /\ Answered
  BY DEF DInit, Init, Progress, Answered, LoadPcs, Counting, FetchOf, AfterFetch
<1>. QED
  BY <1>1, DInvInit DEF WholeInv

(* With one thread, no limit and no order in two months, what a load was   *)
(* answered for stays in the table however other months are loaded, fail   *)
(* or are cut short, and whatever the process goes through, unless the     *)
(* watchdog deletes the log it was in.                                     *)
THEOREM AnsweredLoadsStay ==
  ASSUME Alone
  PROVE  DSpec => []SavedLoadsStay
PROOF
<1>1. WholeInv /\ [DNext]_dvars => WholeInv'
  BY WholeNext
<1>2. WholeInv => SavedLoadsStay
  BY DEF WholeInv, Answered, SavedLoadsStay
<1>. QED
  BY <1>1, <1>2, WholeInit, PTL DEF DSpec
===============================================================================
