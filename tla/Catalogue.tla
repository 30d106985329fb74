------------------------------- MODULE Catalogue -------------------------------
(***************************************************************************)
(* What POST /seed/chilecompra and POST /detect/chilecompra make of the    *)
(* database for somebody who sends one request at a time: a catalogue of   *)
(* slices.  One slice at a time is taken out, to be loaded or to have its  *)
(* alerts renewed, and is put back: whole, and then a request says so, or  *)
(* as far as an error or the end of the process let it come.  The others   *)
(* stay as they are.  No statements, no connection, no rows of buyers and  *)
(* suppliers.                                                              *)
(***************************************************************************)
CONSTANTS
  Fuentes,          \* the slices
  Offers,           \* slice -> the sets of contract ids that a load may keep
  Rules,
  Findings(_, _, _),\* rule, slice, its contracts -> the alerts
  Lossy             \* a part of what a rule's query found may be lost

VARIABLES
  loading,          \* the slice that is taken out to be loaded, if any
  detecting,        \* the slice whose alerts are taken out, if any
  stock,            \* slice -> its contracts, none while it is taken out
  alerts,           \* slice -> its alerts, none while they are taken out
  seeded,           \* the last request was a load, answered with 200
  reported          \* the slices that the current detection is through with

cvars == <<loading, detecting, stock, alerts, seeded, reported>>

IdsOf(C) == {c.id : c \in C}

AllFindings(f, C) == UNION {Findings(r, f, C) : r \in Rules}

CInit ==
  /\ loading = {} /\ detecting = {}
  /\ stock  = [f \in Fuentes |-> {}]
  /\ alerts = [f \in Fuentes |-> {}]
  /\ seeded = FALSE /\ reported = {}

NothingOut == loading = {} /\ detecting = {}

(* Of the slices, and of their alerts, only those of f change.             *)
OnlySlice(f)  == stock' = [stock EXCEPT ![f] = stock'[f]]
OnlyAlerts(f) == alerts' = [alerts EXCEPT ![f] = alerts'[f]]

TakeSlice(f) ==
  /\ NothingOut
  /\ loading' = {f}
  /\ stock'  = [stock EXCEPT ![f] = {}]
  /\ alerts' = [alerts EXCEPT ![f] = {}]
  /\ UNCHANGED <<detecting, seeded, reported>>

(* A load that is answered: contracts of one offer, and all of it is in    *)
(* the catalogue; an order that two slices offer may be in the other.  The *)
(* alerts of what the slice was before are gone.                           *)
PutSlice(f) ==
  /\ loading = {f} /\ loading' = {}
  /\ OnlySlice(f)
  /\ \E O \in Offers[f] :
       /\ IdsOf(stock'[f]) \subseteq O
       /\ \A i \in O : \E g \in Fuentes : i \in IdsOf(stock'[g])
  /\ seeded' = TRUE
  /\ UNCHANGED <<detecting, alerts, reported>>

(* A load that fails or is cut short: a part of one offer, and alerts that *)
(* are findings about it, unless it is empty.                              *)
DropSlice(f) ==
  /\ loading = {f} /\ loading' = {}
  /\ OnlySlice(f) /\ OnlyAlerts(f)
  /\ \E O \in Offers[f] : IdsOf(stock'[f]) \subseteq O
  /\ stock'[f] # {} => alerts'[f] \subseteq AllFindings(f, stock'[f])
  /\ UNCHANGED <<detecting, seeded, reported>>

TakeAlerts(f) ==
  /\ NothingOut
  /\ detecting' = {f}
  /\ alerts' = [alerts EXCEPT ![f] = {}]
  /\ UNCHANGED <<loading, stock, seeded, reported>>

(* A detection that is through with a slice: all that its rules found,     *)
(* unless the results of the queries may be lost.                          *)
PutAlerts(f) ==
  /\ detecting = {f} /\ detecting' = {}
  /\ OnlyAlerts(f)
  /\ IF Lossy THEN alerts'[f] \subseteq AllFindings(f, stock[f])
              ELSE alerts'[f] = AllFindings(f, stock[f])
  /\ reported' = reported \cup {f}
  /\ UNCHANGED <<loading, stock, seeded>>

(* One that fails or is cut short: some, and no slice is reported.         *)
DropAlerts(f) ==
  /\ detecting = {f} /\ detecting' = {}
  /\ OnlyAlerts(f)
  /\ alerts'[f] \subseteq AllFindings(f, stock[f])
  /\ reported' = {}
  /\ UNCHANGED <<loading, stock, seeded>>

(* A request comes or goes and has no slice in hand.                       *)
Turn ==
  /\ NothingOut
  /\ seeded' = FALSE /\ reported' = {}
  /\ UNCHANGED <<loading, detecting, stock, alerts>>

CNext ==
  \/ \E f \in Fuentes :
       \/ TakeSlice(f) \/ PutSlice(f) \/ DropSlice(f)
       \/ TakeAlerts(f) \/ PutAlerts(f) \/ DropAlerts(f)
  \/ Turn

CSpec == CInit /\ [][CNext]_cvars
===============================================================================
