------------------------------- MODULE Answering -------------------------------
(***************************************************************************)
(* What a page of the frontend promises: it waits for the answer to its    *)
(* own question and then shows it, or shows that there is none.  No        *)
(* requests, no flags, no effects.                                         *)
(***************************************************************************)
CONSTANT Pages

VARIABLES
  at,        \* the page the visitor is on
  outcome    \* what its request has come to

pvars == <<at, outcome>>

PInit == at \in Pages /\ outcome = "waiting"

PVisit(p) == p # at /\ at' = p /\ outcome' = "waiting"

PSettle(p) ==
  /\ at = p
  /\ outcome = "waiting"
  /\ outcome' \in {"answer", "nothing"}
  /\ UNCHANGED at

PNext == \E p \in Pages : PVisit(p) \/ PSettle(p)

(* A visitor who stays sees the end of the waiting.                        *)
PSpec == PInit /\ [][PNext]_pvars /\ \A p \in Pages : WF_pvars(PSettle(p))
===============================================================================
