------------------------------- MODULE Durability -------------------------------
(***************************************************************************)
(* What a restart leaves of the ChileCompra tables.  DuckDB appends every  *)
(* commit to a write-ahead log and copies the tables to the file at a      *)
(* checkpoint: when the log has grown (16 MB) and when the connection is   *)
(* closed.  watchdog.sh deletes the log before it starts the process; any  *)
(* other start replays it.                                                 *)
(***************************************************************************)
EXTENDS ChileCompra

VARIABLES
  disk,      \* the tables in the file, as of the last checkpoint
  loaded,    \* history: slices whose last load was answered with 200,
             \*   unless a crash has lost it
  saved      \* history: those of them that were so at the last checkpoint

dvars == <<vars, disk, loaded, saved>>

Image == [organismo |-> organismo, empresa |-> empresa,
          contrato |-> contrato, alerta |-> alerta]

DInit == Init /\ disk = Image /\ loaded = {} /\ saved = {}

-----------------------------------------------------------------------------
(* Slices whose load begins, and ends with a 200, in this step.            *)
Begun    == {f \in Fuentes : \E w \in Workers :
               pc[w] \in Free /\ pc'[w] = "del_contrato" /\ fu'[w] = f}
Finished == {f \in Fuentes : \E w \in Workers :
               pc[w] = "fetch_contrato" /\ pc'[w] = "seeded" /\ fu[w] = f}

(* A step of the process, or a restart that replays the log.               *)
Process ==
  /\ Next
  /\ loaded' = (loaded \ Begun) \cup Finished
  /\ saved' = saved \ Begun
  /\ UNCHANGED disk

(* DuckDB: the log has reached its limit.                                  *)
Checkpoint ==
  /\ disk' = Image
  /\ saved' = loaded
  /\ UNCHANGED <<vars, loaded>>

(* The server is told to stop: it waits for the requests under way, the    *)
(* lifespan closes the connection, and with it the log.                    *)
Stop ==
  /\ \A w \in Workers : pc[w] \in Free
  /\ Reopen
  /\ disk' = Image
  /\ saved' = loaded
  /\ UNCHANGED <<tables, loaded>>

(* The process dies and the watchdog starts another without the log.       *)
Crash ==
  /\ Reopen
  /\ organismo' = disk.organismo
  /\ empresa' = disk.empresa
  /\ contrato' = disk.contrato
  /\ alerta' = disk.alerta
  /\ loaded' = saved
  /\ UNCHANGED <<disk, saved>>

DNext == Process \/ Checkpoint \/ Stop \/ Crash

DSpec == DInit /\ [][DNext]_dvars /\ \A w \in Workers : WF_vars(Serve(w))

-----------------------------------------------------------------------------
(* The file has the tables' columns.                                       *)
DiskTyped ==
  /\ disk.organismo \in [Orgs -> Fuentes \cup {Null}]
  /\ disk.empresa \in [Emps -> Fuentes \cup {Null}]
  /\ disk.contrato \in [Ids -> Fuentes \cup {Null}]
  /\ disk.alerta \subseteq AlertRows

(* The file's columns are those of the tables, and whenever the process    *)
(* dies, in the middle of however many loads, no contract in it is without *)
(* its buyer and its supplier: what a crash brings back can be loaded over.*)
DiskAnchored ==
  /\ DiskTyped
  /\ \A i \in Ids : disk.contrato[i] # Null =>
       /\ HasKey(disk.organismo, ConRow(disk.contrato[i], i).org)
       /\ HasKey(disk.empresa, ConRow(disk.contrato[i], i).prov)

(* The slice has every contract that a load without limit keeps.           *)
Whole(f) == \A i \in Kept(f, ConIds(f)) : contrato[i] = f

(* With one thread, no limit and no order in two months, a load that was   *)
(* answered with 200, and that no crash has lost, stays whole: whatever    *)
(* loads of other months, failures, stops and crashes follow.              *)
SavedLoadsStay == \A f \in loaded : Whole(f)

(* What the endpoint's 200 and the README's table say ("Persistencia OLAP  *)
(* | DuckDB"): a load that was answered with 200 stays until the slice is  *)
(* loaded again.                                                           *)
LoadsPersist ==
  [][\A f \in loaded :
       Whole(f)' \/ \E w \in Workers : fu'[w] = f /\ pc'[w] \in LoadPcs]_dvars
===============================================================================
