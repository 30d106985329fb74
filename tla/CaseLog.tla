-------------------------------- MODULE CaseLog --------------------------------
(***************************************************************************)
(* What POST /seed makes of the tables, whoever calls it, how often, and   *)
(* wherever it stops: the cases of the file are appended in the order of   *)
(* the file, and only when all are stored do those with a keyword get an   *)
(* alert, one by one.                                                      *)
(***************************************************************************)
EXTENDS Integers

CONSTANT N           \* number of cases

VARIABLES
  cases,             \* those stored
  grave,             \* those with a keyword
  alerts             \* those that have an alert

lvars == <<cases, grave, alerts>>

LInit == cases = {} /\ grave \subseteq 1 .. N /\ alerts = {}

Append ==
  \E k \in 1 .. N :
    /\ cases = 1 .. k - 1
    /\ cases' = 1 .. k
    /\ UNCHANGED <<grave, alerts>>

Report ==
  /\ cases = 1 .. N
  /\ \E i \in grave \ alerts : alerts' = alerts \cup {i}
  /\ UNCHANGED <<cases, grave>>

LSpec == LInit /\ [][Append \/ Report]_lvars
===============================================================================
