--------------------------------- MODULE Views ---------------------------------
(***************************************************************************)
(* The three routed pages of the frontend and the requests they start:     *)
(* LandingView (two requests joined by Promise.all), DetailView (one when  *)
(* it is mounted, without a flag) and NodeView (one per nodeId, with a     *)
(* flag that its cleanup sets).  React commits a render first and runs the *)
(* effects later; answers come in any order and as late as they like.      *)
(*                                                                         *)
(* The landing page also has a StatItem: its text is set when it is        *)
(* mounted and afterwards only by the intervals that hovering starts.      *)
(***************************************************************************)
EXTENDS Integers, FiniteSetsExt

CONSTANTS
  Nodes,         \* values of :nodeId
  None,
  MaxRequests,   \* bound: requests under way
  MaxHovers,     \* bound: hovers of which each begins while an earlier one runs
  Ticks          \* label -> ticks until its interval is cleared

(* A page is the address it was opened at.                                 *)
Pages == {"landing", "detail"} \cup Nodes
View(p) == IF p \in Nodes THEN "node" ELSE p

Slots == 1 .. MaxRequests

ASSUME BoundsAssumption == MaxRequests \in Nat \ {0} /\ MaxHovers \in Nat

(* Three ticks per character, and one more for some lengths, at which the  *)
(* sum of thirds falls short in floating point.  formatBillions(0) and `0` *)
(* are the shortest texts a StatItem can have.                             *)
ASSUME TicksAssumption ==
  /\ Ticks \in [{"first", "data"} -> Nat \ {0}]
  /\ Ticks["first"] <= Ticks["data"]

VARIABLES
  page,       \* the page that is rendered
  effects,    \* the effects of that render have not run yet
  loading,    \* state of the mounted page ...
  shown,      \* ... the page whose answer it holds
  failed,     \* ... the page whose failure it reports
  requests,   \* slot -> a request under way
  text,       \* what the StatItem displays
  hovers,     \* id -> an interval of its that runs; ids grow (setInterval)
  hovered     \* history: one has started since the numbers arrived

state == <<loading, shown, failed>>
stat  == <<text, hovers, hovered>>
vars  == <<page, effects, state, requests, stat>>

-----------------------------------------------------------------------------
(* A request: the page it asks for, whether the component that started it  *)
(* is still mounted, its flag stale, the responses it waits for.           *)
Parts(p) == IF p = "landing" THEN {"graph", "alerts"} ELSE {"answer"}

Request == [ask : Pages, mounted : BOOLEAN, stale : BOOLEAN,
            left : SUBSET {"graph", "alerts", "answer"}]

ASSUME NodesAssumption ==
  /\ Nodes \cap {"landing", "detail", "node"} = {}
  /\ None \notin Pages \cup Request

Idle(s) == requests[s] = None

(* Its callbacks change the page: neither flagged nor of a page that left. *)
Effective(s) == ~Idle(s) /\ requests[s].mounted /\ ~requests[s].stale

(* Setting the state of a component that is gone does nothing.             *)
Unmounted ==
  [s \in Slots |-> IF Idle(s) THEN None ELSE [requests[s] EXCEPT !.mounted = FALSE]]

(* Mutant: the cleanup is forgotten.                                       *)
NoCleanup == requests

(* The effects of LandingView and NodeView return a cleanup.  What         *)
(* DetailView started is of no consequence: it left with the page.         *)
Cleanup ==
  [s \in Slots |-> IF Idle(s) THEN None ELSE [requests[s] EXCEPT !.stale = TRUE]]

-----------------------------------------------------------------------------
NoHovers == [i \in {} |-> None]

Init ==
  /\ page \in Pages
  /\ effects = TRUE
  /\ loading = TRUE /\ shown = None /\ failed = None
  /\ requests = [s \in Slots |-> None]
  /\ text = "first" /\ hovers = NoHovers /\ hovered = FALSE

(* The state a page is mounted with.                                       *)
Mount ==
  /\ loading' = TRUE /\ shown' = None /\ failed' = None
  /\ requests' = Unmounted
  /\ text' = "first" /\ hovers' = NoHovers /\ hovered' = FALSE

(* A link, a button or the history.  Between two nodes NodeView stays, and *)
(* so does its state.  React runs what effects are left before it renders. *)
Visit(p) ==
  /\ p # page
  /\ ~effects
  /\ \E s \in Slots : Idle(s)
  /\ page' = p
  /\ effects' = TRUE
  /\ IF View(p) = View(page) THEN UNCHANGED <<state, requests, stat>> ELSE Mount

(* Mutant: the page of a former failure is never left.                     *)
KeepsError == failed

(* setError(null).                                                         *)
ClearsError == None

(* Cleanups, then the effect that fetches.  DetailView sets nothing.       *)
RunEffects ==
  /\ effects
  /\ effects' = FALSE
  /\ \E s \in Slots :
       /\ Idle(s)
       /\ requests' = [Cleanup EXCEPT ![s] =
            [ask |-> page, mounted |-> TRUE, stale |-> FALSE, left |-> Parts(page)]]
  /\ IF page = "detail" THEN UNCHANGED <<loading, failed>>
                        ELSE loading' = TRUE /\ failed' = ClearsError
  /\ UNCHANGED <<page, shown, stat>>

(* A response arrives.  The last one that a request waits for fulfils its  *)
(* promise: the callback sets the answer and ends the loading.             *)
Answer(s, part) ==
  /\ ~Idle(s)
  /\ part \in requests[s].left
  /\ LET left == requests[s].left \ {part}
     IN  IF left # {}
           THEN /\ requests' = [requests EXCEPT ![s].left = left]
                /\ UNCHANGED state
           ELSE /\ requests' = [requests EXCEPT ![s] = None]
                /\ IF Effective(s)
                     THEN /\ loading' = FALSE
                          /\ shown' = requests[s].ask
                          /\ failed' = IF requests[s].ask = "detail" THEN None ELSE failed
                     ELSE UNCHANGED state
  /\ UNCHANGED <<page, effects, stat>>

(* Mutant: setLoading(false) is forgotten in the catch.                    *)
StillLoading == loading

NoLongerLoading == FALSE

(* A response that is not ok, or none: the promise is rejected, and what   *)
(* else it waited for is ignored.  LandingView reports nothing.            *)
Fail(s) ==
  /\ ~Idle(s)
  /\ requests' = [requests EXCEPT ![s] = None]
  /\ IF Effective(s)
       THEN /\ loading' = NoLongerLoading
            /\ failed' = IF requests[s].ask = "landing" THEN failed ELSE requests[s].ask
            /\ UNCHANGED shown
       ELSE UNCHANGED state
  /\ UNCHANGED <<page, effects, stat>>

-----------------------------------------------------------------------------
(* The label of the present render.                                        *)
Label == IF shown = "landing" THEN "data" ELSE "first"

(* Mutant: the callback is memoised with the label of the first render.    *)
FirstLabel == "first"

HoverLabel == Label

(* A hover starts an interval for the label of its render; none is cleared *)
(* before it has come to its end.                                          *)
Hover ==
  /\ page = "landing"
  /\ LET id  == Max({0} \cup DOMAIN hovers) + 1
         new == [label |-> HoverLabel, ticks |-> Ticks[HoverLabel]]
     IN  /\ id <= MaxHovers
         /\ hovers' = [i \in DOMAIN hovers \cup {id} |-> IF i = id THEN new ELSE hovers[i]]
  /\ hovered' = (shown = "landing")
  /\ UNCHANGED <<page, effects, state, requests, text>>

(* Mutant: cleared when it has written its label and then once more.       *)
RunningOneMore(h) == h.ticks >= 0

(* Not yet cleared.                                                        *)
Running(h) == h.ticks > 0

(* 30 ms: every interval writes its text, the latest one last; in its last *)
(* tick it is the label, before that characters are random, by chance its. *)
Tick ==
  /\ DOMAIN hovers # {}
  /\ LET after == [i \in DOMAIN hovers |-> [hovers[i] EXCEPT !.ticks = @ - 1]]
         last  == after[Max(DOMAIN hovers)]
     IN  /\ text' \in {last.label} \cup (IF last.ticks = 0 THEN {} ELSE {"random"})
         /\ hovers' = Restrict(after, {i \in DOMAIN hovers : Running(after[i])})
  /\ UNCHANGED <<page, effects, state, requests, hovered>>

-----------------------------------------------------------------------------
Reply(s) == Fail(s) \/ \E part \in {"graph", "alerts", "answer"} : Answer(s, part)

Next ==
  \/ \E p \in Pages : Visit(p)
  \/ RunEffects
  \/ \E s \in Slots : Reply(s)
  \/ Hover
  \/ Tick

(* React runs effects, the browser ends every request with a response or   *)
(* an error and its timers fire; nobody has to visit or to hover.          *)
Spec ==
  Init /\ [][Next]_vars
    /\ WF_vars(RunEffects) /\ WF_vars(Tick) /\ \A s \in Slots : WF_vars(Reply(s))

-----------------------------------------------------------------------------
(* The mounted page holds answers and failures of pages, a request under   *)
(* way waits for a response, an interval that runs has ticks left.         *)
PageTyped ==
  /\ page \in Pages
  /\ effects \in BOOLEAN /\ loading \in BOOLEAN
  /\ shown \in Pages \cup {None} /\ failed \in Pages \cup {None}
  /\ requests \in [Slots -> Request \cup {None}]
  /\ \A s \in Slots : Idle(s) \/ requests[s].left # {}

StatTyped ==
  /\ text \in {"first", "data", "random"}
  /\ hovered \in BOOLEAN
  /\ DOMAIN hovers \subseteq 1 .. MaxHovers
  /\ hovers \in [DOMAIN hovers -> [label : {"first", "data"}, ticks : Nat \ {0}]]

TypeOK == PageTyped /\ StatTyped

(* NodeView.tsx:46: when a page is done loading it shows its own answer or *)
(* its own failure, never the entity of a node that was left nor its 404,  *)
(* however many requests of pages that were left come to an end meanwhile. *)
OwnAnswer ==
  ~effects /\ ~loading =>
    IF failed # None THEN failed = page
                     ELSE shown = page \/ (page = "landing" /\ shown = None)

(* A page that is loading has a request that will end it: no cleanup, late *)
(* answer or failure of another page leaves it loading for good.           *)
LoadingServed == ~effects /\ loading => \E s \in Slots : Effective(s)

(* Whatever scrambles were under way when the numbers arrived, a hover     *)
(* after that leaves the text at the number, not at what an older interval *)
(* wrote: those are of labels that are no longer than it.                  *)
HoverShowsNumber == page = "landing" /\ hovered /\ DOMAIN hovers = {} => text = "data"

(* The pages keep their promise: stale requests, effects that run late and *)
(* the kept state of NodeView are invisible, and the waiting ends.  Until  *)
(* the effects of a render have run the page counts as waiting.            *)
Outcome ==
  CASE effects \/ loading -> "waiting"
    [] ~(effects \/ loading) /\ failed = page -> "nothing"
    [] ~(effects \/ loading) /\ failed = None /\ shown = page -> "answer"
    [] ~(effects \/ loading) /\ failed = None /\ shown = None -> "nothing"
    [] OTHER -> "of another page"

Promise == INSTANCE Answering WITH at <- page, outcome <- Outcome

PagesAnswer == Promise!PSpec
===============================================================================
