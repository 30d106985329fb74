------------------------------ MODULE ViewsProofs ------------------------------
(***************************************************************************)
(* For any nodes and any number of requests under way: a page shows what   *)
(* answers it, its loading is never for nothing, and every step of the     *)
(* pages is a step of Answering or a stutter.                              *)
(***************************************************************************)
EXTENDS Views, WellFoundedInduction, TLAPS

(* Once the effects have run, at most one request can change the page; it  *)
(* asks for the page, and it is there exactly while the page is loading.   *)
OneRequest ==
  ~effects =>
    /\ \A s \in Slots : Effective(s) => requests[s].ask = page /\ loading
    /\ \A s, t \in Slots : Effective(s) /\ Effective(t) => s = t
    /\ loading => failed = None

(* Before they have run, the page is as it was mounted, unless NodeView    *)
(* was kept; then what changes it is a request for another node.           *)
BeforeEffects ==
  effects =>
    /\ page \notin Nodes => /\ loading /\ shown = None /\ failed = None
                            /\ \A s \in Slots : ~Effective(s)
    /\ \A s \in Slots : Effective(s) => requests[s].ask \in Nodes

(* LandingView has no error to show.                                       *)
LandingSilent ==
  page = "landing" => failed = None /\ shown \in {None, "landing"}

ViewInv ==
  PageTyped /\ OneRequest /\ BeforeEffects /\ LandingSilent /\ OwnAnswer /\ LoadingServed

-----------------------------------------------------------------------------
LEMMA InitInv == Init => ViewInv
<1> SUFFICES ASSUME Init PROVE ViewInv
  OBVIOUS
<1> USE DEF Init
<1>1. PageTyped
  BY DEF PageTyped, Idle, Request
<1>2. \A s \in Slots : ~Effective(s)
  BY DEF Effective, Idle
<1> QED
  BY <1>1, <1>2 DEF ViewInv, OneRequest, BeforeEffects, LandingSilent, OwnAnswer, LoadingServed

(* Marked requests are requests, and have no effect.                       *)
LEMMA Marked ==
  ASSUME PageTyped
  PROVE  /\ Unmounted \in [Slots -> Request \cup {None}]
         /\ Cleanup \in [Slots -> Request \cup {None}]
         /\ \A s \in Slots : /\ (Unmounted[s] = None) <=> Idle(s)
                             /\ (Cleanup[s] = None) <=> Idle(s)
                             /\ ~Idle(s) => /\ ~Unmounted[s].mounted
                                            /\ Cleanup[s].stale
                                            /\ Unmounted[s].left = requests[s].left
                                            /\ Cleanup[s].left = requests[s].left
<1> QED
  BY NodesAssumption DEF PageTyped, Unmounted, Cleanup, Idle, Request

(* Another page is mounted afresh; another node finds NodeView as it was,  *)
(* with the requests of the node that is left still in effect.             *)
LEMMA VisitInv == ASSUME ViewInv, NEW p \in Pages, Visit(p) PROVE ViewInv'
<1>1. /\ page' = p /\ p # page /\ ~effects /\ effects'
  BY DEF Visit
<1>2. CASE View(p) = View(page)
  <2>1. p \in Nodes /\ page \in Nodes
    BY <1>1, <1>2, NodesAssumption DEF View, Pages, ViewInv, PageTyped
  <2>2. UNCHANGED <<state, requests>>
    BY <1>2 DEF Visit
  <2>3. PageTyped'
    BY <1>1, <2>2 DEF ViewInv, PageTyped, state, Idle
  <2>4. \A s \in Slots : Effective(s)' => requests[s]'.ask \in Nodes
    BY <1>1, <2>1, <2>2 DEF ViewInv, OneRequest, Effective, Idle
  <2> QED
    BY <1>1, <2>1, <2>3, <2>4, NodesAssumption
    DEF ViewInv, OneRequest, BeforeEffects, LandingSilent, OwnAnswer, LoadingServed
<1>3. CASE View(p) # View(page)
  <2>1. Mount
    BY <1>3 DEF Visit
  <2>2. \A s \in Slots : ~Effective(s)'
    BY <2>1, Marked DEF ViewInv, Mount, Effective, Idle
  <2>3. PageTyped'
    BY <1>1, <2>1, Marked DEF ViewInv, Mount, PageTyped, Idle
  <2> QED
    BY <1>1, <2>1, <2>2, <2>3
    DEF Mount, ViewInv, OneRequest, BeforeEffects, LandingSilent, OwnAnswer, LoadingServed
<1> QED
  BY <1>2, <1>3

(* The cleanup leaves the new request as the only one with an effect.      *)
LEMMA EffectsInv == ASSUME ViewInv, RunEffects PROVE ViewInv'
<1> DEFINE new == [ask |-> page, mounted |-> TRUE, stale |-> FALSE, left |-> Parts(page)]
<1>1. PICK s \in Slots : Idle(s) /\ requests' = [Cleanup EXCEPT ![s] = new]
  BY DEF RunEffects
<1>2. new \in Request /\ new.left # {} /\ new # None
  <2>1. Parts(page) \in SUBSET {"graph", "alerts", "answer"} /\ Parts(page) # {}
    BY DEF Parts
  <2>2. new \in Request
    BY <2>1 DEF ViewInv, PageTyped, Request
  <2> QED
    BY <2>1, <2>2, NodesAssumption
<1>3. /\ requests' \in [Slots -> Request \cup {None}]
      /\ requests'[s] = new
      /\ \A t \in Slots \ {s} : requests'[t] = Cleanup[t]
  BY <1>1, <1>2, Marked DEF ViewInv
<1>4. /\ Effective(s)'
      /\ \A t \in Slots : Effective(t)' => t = s
  BY <1>2, <1>3, Marked DEF ViewInv, Effective, Idle
<1>5. /\ ~effects' /\ page' = page /\ shown' = shown
      /\ loading' = TRUE /\ failed' = None /\ page \in Pages
  <2>1. page = "detail" => loading = TRUE /\ failed = None
    BY NodesAssumption DEF RunEffects, ViewInv, BeforeEffects, PageTyped
  <2> QED
    BY <2>1 DEF RunEffects, ClearsError, ViewInv, PageTyped
<1>6. PageTyped'
  <2>1. \A t \in Slots : requests'[t] = None \/ requests'[t].left # {}
    BY <1>2, <1>3, Marked DEF ViewInv, PageTyped, Idle
  <2>2. page' \in Pages /\ effects' \in BOOLEAN /\ loading' \in BOOLEAN
    BY <1>5 DEF RunEffects
  <2>3. shown' \in Pages \cup {None} /\ failed' \in Pages \cup {None}
    BY <1>5 DEF ViewInv, PageTyped
  <2> QED
    BY <1>3, <2>1, <2>2, <2>3 DEF PageTyped, Idle
<1>7. OneRequest' /\ LoadingServed'
  BY <1>3, <1>4, <1>5 DEF OneRequest, LoadingServed
<1> QED
  BY <1>5, <1>6, <1>7 DEF ViewInv, BeforeEffects, LandingSilent, OwnAnswer

(* A request ends without effect: the rest is as it was.                   *)
LEMMA EndsUnseen ==
  ASSUME ViewInv, NEW s \in Slots, ~Idle(s), ~Effective(s),
         requests' = [requests EXCEPT ![s] = None], UNCHANGED <<page, effects, state>>
  PROVE  ViewInv'
<1>1. \A t \in Slots : /\ Effective(t)' => Effective(t)
                       /\ Effective(t) => Effective(t)' /\ requests'[t] = requests[t]
  <2>1. requests'[s] = None /\ \A t \in Slots \ {s} : requests'[t] = requests[t]
    BY DEF ViewInv, PageTyped
  <2> QED
    BY <2>1 DEF Effective, Idle
<1>2. PageTyped'
  BY DEF ViewInv, PageTyped, Idle, state
<1>3. OneRequest' /\ BeforeEffects' /\ LoadingServed'
  BY <1>1 DEF ViewInv, OneRequest, BeforeEffects, LoadingServed, state, Effective, Idle
<1> QED
  BY <1>2, <1>3 DEF ViewInv, LandingSilent, OwnAnswer, state

(* The request with an effect ends: the page has its own answer, its own   *)
(* failure, or, on the landing page, neither.                              *)
LEMMA EndsSeen ==
  ASSUME ViewInv, NEW s \in Slots, Effective(s),
         requests' = [requests EXCEPT ![s] = None], UNCHANGED <<page, effects>>,
         loading' = FALSE,
         \/ /\ shown' = requests[s].ask
            /\ failed' = IF requests[s].ask = "detail" THEN None ELSE failed
         \/ /\ shown' = shown
            /\ failed' = IF requests[s].ask = "landing" THEN failed ELSE requests[s].ask
  PROVE  ViewInv'
<1>1. requests[s] \in Request /\ requests[s].ask \in Pages
  BY DEF ViewInv, PageTyped, Effective, Idle, Request
<1>2. PageTyped'
  BY <1>1 DEF ViewInv, PageTyped, Idle
<1>3. \A t \in Slots : Effective(t)' => t # s /\ Effective(t) /\ requests'[t] = requests[t]
  BY DEF ViewInv, PageTyped, Effective, Idle
<1>4. CASE effects
  <2>1. page \in Nodes /\ requests[s].ask \in Nodes
    BY <1>4 DEF ViewInv, BeforeEffects
  <2>2. page # "landing"
    BY <2>1, NodesAssumption
  <2> QED
    BY <1>2, <1>3, <1>4, <2>1, <2>2
    DEF ViewInv, OneRequest, BeforeEffects, LandingSilent, OwnAnswer, LoadingServed
<1>5. CASE ~effects
  <2>1. requests[s].ask = page /\ failed = None /\ page # None
    BY <1>1, <1>5, NodesAssumption DEF ViewInv, OneRequest
  <2>2. \A t \in Slots : ~Effective(t)'
    BY <1>3, <1>5 DEF ViewInv, OneRequest
  <2>3. OneRequest' /\ BeforeEffects' /\ LoadingServed'
    BY <1>5, <2>2 DEF OneRequest, BeforeEffects, LoadingServed
  <2>4. OwnAnswer' /\ LandingSilent'
    BY <1>5, <2>1 DEF ViewInv, OwnAnswer, LandingSilent
  <2> QED
    BY <1>2, <2>3, <2>4 DEF ViewInv
<1> QED
  BY <1>4, <1>5

LEMMA AnswerInv ==
  ASSUME ViewInv, NEW s \in Slots, NEW part, Answer(s, part) PROVE ViewInv'
<1> DEFINE left == requests[s].left \ {part}
<1>1. ~Idle(s) /\ UNCHANGED <<page, effects>>
  BY DEF Answer
<1>2. CASE left # {}
  <2>1. requests' = [requests EXCEPT ![s].left = left] /\ UNCHANGED state
    BY <1>2 DEF Answer
  <2>2. /\ requests[s] \in Request
        /\ requests' \in [Slots -> Request \cup {None}]
        /\ requests'[s] = [requests[s] EXCEPT !.left = left]
        /\ requests'[s] # None
        /\ \A t \in Slots \ {s} : requests'[t] = requests[t]
    BY <1>1, <2>1, NodesAssumption DEF ViewInv, PageTyped, Idle, Request
  <2>3. \A t \in Slots : /\ Effective(t)' => Effective(t)
                         /\ Effective(t) => Effective(t)'
                         /\ ~Idle(t) => requests'[t].ask = requests[t].ask
    BY <1>1, <2>2 DEF Effective, Idle, Request
  <2>4. PageTyped'
    BY <1>1, <1>2, <2>1, <2>2 DEF ViewInv, PageTyped, Idle, Request, state
  <2>5. OneRequest'
    BY <1>1, <2>1, <2>3 DEF ViewInv, OneRequest, state, Effective, Idle
  <2>6. BeforeEffects'
    BY <1>1, <2>1, <2>3 DEF ViewInv, BeforeEffects, state, Effective, Idle
  <2>7. LoadingServed'
    <3> SUFFICES ASSUME ~effects, loading PROVE \E t \in Slots : Effective(t)'
      BY <1>1, <2>1 DEF LoadingServed, state, Effective, Idle
    <3>1. PICK t \in Slots : Effective(t)
      BY DEF ViewInv, LoadingServed, Effective, Idle
    <3>2. CASE t = s
      BY <1>1, <2>2, <3>1, <3>2, NodesAssumption DEF Effective, Idle, Request
    <3>3. CASE t # s
      BY <2>2, <3>1, <3>3 DEF Effective, Idle
    <3> QED
      BY <3>2, <3>3
  <2> QED
    BY <1>1, <2>1, <2>4, <2>5, <2>6, <2>7 DEF ViewInv, LandingSilent, OwnAnswer, state
<1>3. CASE left = {}
  <2>1. requests' = [requests EXCEPT ![s] = None]
    BY <1>3 DEF Answer
  <2>2. CASE ~Effective(s)
    BY <1>1, <1>3, <2>1, <2>2, EndsUnseen DEF Answer, state
  <2>3. CASE Effective(s)
    BY <1>1, <1>3, <2>1, <2>3, EndsSeen DEF Answer
  <2> QED
    BY <2>2, <2>3
<1> QED
  BY <1>2, <1>3

LEMMA FailInv == ASSUME ViewInv, NEW s \in Slots, Fail(s) PROVE ViewInv'
<1>1. /\ ~Idle(s) /\ UNCHANGED <<page, effects>>
      /\ requests' = [requests EXCEPT ![s] = None]
  BY DEF Fail
<1>2. CASE ~Effective(s)
  BY <1>1, <1>2, EndsUnseen DEF Fail, state
<1>3. CASE Effective(s)
  BY <1>1, <1>3, EndsSeen DEF Fail, NoLongerLoading
<1> QED
  BY <1>2, <1>3

(* Hovering and its intervals concern the text only.                       *)
LEMMA TextInv ==
  ASSUME ViewInv, UNCHANGED <<page, effects, state, requests>> PROVE ViewInv'
BY DEF ViewInv, PageTyped, OneRequest, BeforeEffects, LandingSilent, OwnAnswer,
       LoadingServed, Effective, Idle, state

LEMMA NextInv == ViewInv /\ [Next]_vars => ViewInv'
<1> SUFFICES ASSUME ViewInv, [Next]_vars PROVE ViewInv'
  OBVIOUS
<1>1. CASE \E p \in Pages : Visit(p)
  BY <1>1, VisitInv
<1>2. CASE RunEffects
  BY <1>2, EffectsInv
<1>3. CASE \E s \in Slots : Reply(s)
  BY <1>3, AnswerInv, FailInv DEF Reply
<1>4. CASE Hover \/ Tick \/ UNCHANGED vars
  BY <1>4, TextInv DEF Hover, Tick, vars
<1> QED
  BY <1>1, <1>2, <1>3, <1>4 DEF Next

LEMMA Invariance == Spec => []ViewInv
BY InitInv, NextInv, PTL DEF Spec

(* Stale flags, one per effect, suffice for any number of nodes visited in *)
(* any order: when a page is done loading, what it shows is its own.       *)
THEOREM OwnAnswersOnly == Spec => []OwnAnswer
BY Invariance, PTL DEF ViewInv

(* No order of visits, answers and failures leaves a page loading with     *)
(* nothing under way that would end it.                                    *)
THEOREM NeverLoadingForNothing == Spec => []LoadingServed
BY Invariance, PTL DEF ViewInv

-----------------------------------------------------------------------------
(* The mapping never leaves the outcomes that Answering knows.             *)
LEMMA Outcomes ==
  ASSUME ViewInv
  PROVE  /\ effects \/ loading => Outcome = "waiting"
         /\ ~effects /\ ~loading => Outcome \in {"answer", "nothing"}
<1>1. effects \/ loading => Outcome = "waiting"
  BY DEF Outcome
<1>2. ASSUME ~effects, ~loading PROVE Outcome \in {"answer", "nothing"}
  <2>1. failed = page \/ (failed = None /\ shown \in {None, page})
    BY <1>2, NodesAssumption DEF ViewInv, OwnAnswer, PageTyped
  <2>2. page # None
    BY NodesAssumption DEF ViewInv, PageTyped
  <2> QED
    BY <1>2, <2>1, <2>2 DEF Outcome
<1> QED
  BY <1>1, <1>2

LEMMA SameOutcome ==
  ASSUME UNCHANGED <<page, effects, state>> PROVE UNCHANGED <<page, Outcome>>
BY DEF Outcome, state

(* The request of the page settles it; any other request is not seen.      *)
LEMMA ReplySettles ==
  ASSUME ViewInv, ViewInv', NEW s \in Slots, Reply(s)
  PROVE  Promise!PSettle(page) \/ UNCHANGED <<page, Outcome>>
<1>1. UNCHANGED <<page, effects>>
  BY DEF Reply, Answer, Fail
<1>2. CASE UNCHANGED state
  BY <1>1, <1>2, SameOutcome
<1>3. CASE ~UNCHANGED state
  <2>1. Effective(s) /\ loading' = FALSE
    BY <1>3 DEF Reply, Answer, Fail, NoLongerLoading
  <2>2. CASE effects
    <3>1. effects'
      BY <1>1, <2>2
    <3>2. Outcome = "waiting" /\ Outcome' = "waiting"
      BY <2>2, <3>1 DEF Outcome
    <3> QED
      BY <1>1, <3>2
  <2>3. CASE ~effects
    <3>1. Outcome = "waiting"
      BY <2>1, <2>3, Outcomes DEF ViewInv, OneRequest
    <3>2. (~effects /\ ~loading)'
      BY <1>1, <2>1, <2>3
    <3>3. Outcome' \in {"answer", "nothing"}
      <4>1. (effects \/ loading => Outcome = "waiting")'
            /\ (~effects /\ ~loading => Outcome \in {"answer", "nothing"})'
        BY Outcomes, PTL
      <4> QED
        BY <3>2, <4>1
    <3> QED
      BY <1>1, <3>1, <3>3 DEF Promise!PSettle
  <2> QED
    BY <2>2, <2>3
<1> QED
  BY <1>2, <1>3

(* Every step of the pages is a visit, an answer to the page that is       *)
(* there, or nothing that a visitor of Answering could tell.               *)
THEOREM PagesKeepPromise ==
  Spec => Promise!PInit /\ [][Promise!PNext]_(Promise!pvars)
<1>1. Init => Promise!PInit
  BY DEF Init, Promise!PInit, Outcome
<1>2. ASSUME ViewInv, ViewInv', [Next]_vars PROVE [Promise!PNext]_(Promise!pvars)
  <2>1. ASSUME NEW p \in Pages, Visit(p) PROVE Promise!PVisit(p)
    BY <2>1 DEF Visit, Outcome, Promise!PVisit
  <2>2. ASSUME RunEffects PROVE UNCHANGED <<page, Outcome>>
    <3>1. effects /\ loading' /\ page' = page
      <4>1. page = "detail" => loading
        BY <1>2, <2>2, NodesAssumption DEF RunEffects, ViewInv, BeforeEffects
      <4> QED
        BY <2>2, <4>1 DEF RunEffects
    <3> QED
      BY <3>1 DEF Outcome
  <2>3. ASSUME NEW s \in Slots, Reply(s)
        PROVE  Promise!PSettle(page) \/ UNCHANGED <<page, Outcome>>
    BY <1>2, <2>3, ReplySettles
  <2>4. ASSUME Hover \/ Tick \/ UNCHANGED vars PROVE UNCHANGED <<page, Outcome>>
    BY <2>4, SameOutcome DEF Hover, Tick, vars
  <2>5. page \in Pages
    BY <1>2 DEF ViewInv, PageTyped
  <2> QED
    BY <1>2, <2>1, <2>2, <2>3, <2>4, <2>5 DEF Next, Promise!PNext, Promise!pvars
<1> QED
  BY <1>1, <1>2, Invariance, PTL DEF Spec

-----------------------------------------------------------------------------
(* What a StatItem shows.  A label is at least as long as those before it, *)
(* so an interval never ends before one that started earlier: the last to  *)
(* write is the one that started last.                                     *)

LEMMA Latest ==
  ASSUME NEW n \in Nat, NEW S \in SUBSET (0 .. n), S # {}
  PROVE  Max(S) \in S /\ \A s \in S : s <= Max(S)
<1> DEFINE T == {n - s : s \in S}
<1>1. PICK x \in T : \A y \in T : ~ (<<y, x>> \in OpToRel(<, Nat))
  <2>1. T \subseteq Nat /\ T # {}
    <3>1. \A s \in S : n - s \in Nat
      OBVIOUS
    <3> QED
      BY <3>1
  <2> HIDE DEF T
  <2> QED
    BY <2>1, NatLessThanWellFounded, WFMin
<1>2. PICK m \in S : x = n - m
  BY <1>1
<1>3. \A s \in S : s <= m
  <2>1. SUFFICES ASSUME NEW s \in S, s > m PROVE FALSE
    OBVIOUS
  <2>2. n - s \in T /\ n - s \in Nat /\ n - m \in Nat /\ n - s < n - m
    BY <2>1
  <2>3. <<n - s, n - m>> \in OpToRel(<, Nat)
    BY <2>2 DEF OpToRel
  <2> QED
    BY <1>1, <1>2, <2>2, <2>3
<1>4. \A s \in S : m >= s
  BY <1>3
<1> QED
  BY <1>4 DEF Max

(* Intervals run on the landing page only; those of a number run when it   *)
(* is there; after a hover upon the number, one of a number runs until the *)
(* text is the number.                                                     *)
StatInv ==
  /\ StatTyped
  /\ hovered \/ DOMAIN hovers # {} => page = "landing"
  /\ hovered => shown = "landing"
  /\ \A i \in DOMAIN hovers :
       /\ hovers[i].label = "data" => shown = "landing"
       /\ hovers[i].ticks <= Ticks[hovers[i].label]
  /\ \A i, j \in DOMAIN hovers : i < j =>
       /\ hovers[i].ticks <= hovers[j].ticks
       /\ hovers[i].label = "data" => hovers[j].label = "data"
  /\ hovered => IF DOMAIN hovers = {} THEN text = "data"
                ELSE \E i \in DOMAIN hovers : hovers[i].label = "data"

LEMMA StatInit == Init => StatInv
BY DEF Init, StatInv, StatTyped, NoHovers

LEMMA StatMounted == ASSUME Mount PROVE StatInv'
BY DEF Mount, StatInv, StatTyped, NoHovers

(* Nothing happens to the StatItem, and the landing page keeps its answer. *)
LEMMA StatKept ==
  ASSUME StatInv, UNCHANGED stat, page' = page, page = "landing" /\ shown = "landing" => shown' = "landing"
  PROVE  StatInv'
BY DEF StatInv, StatTyped, stat

LEMMA HoverStat ==
  ASSUME StatInv, ViewInv, Hover
  PROVE  StatInv'
<1> DEFINE id  == Max({0} \cup DOMAIN hovers) + 1
           new == [label |-> Label, ticks |-> Ticks[Label]]
<1>1. /\ page = "landing" /\ UNCHANGED <<page, shown, text>> /\ id <= MaxHovers
      /\ hovers' = [i \in DOMAIN hovers \cup {id} |-> IF i = id THEN new ELSE hovers[i]]
      /\ hovered' = (shown = "landing")
  BY DEF Hover, HoverLabel, state
<1>2. id \in 1 .. MaxHovers /\ \A i \in DOMAIN hovers : i < id
  <2>1. {0} \cup DOMAIN hovers \in SUBSET (0 .. MaxHovers) /\ MaxHovers \in Nat
    BY BoundsAssumption DEF StatInv, StatTyped
  <2>2. /\ Max({0} \cup DOMAIN hovers) \in 0 .. MaxHovers
        /\ \A i \in DOMAIN hovers : i <= Max({0} \cup DOMAIN hovers)
    BY <2>1, Latest
  <2> QED
    BY <1>1, <2>1, <2>2
<1> HIDE DEF id
<1>3. /\ new.label = Label /\ new.ticks = Ticks[Label]
      /\ Label \in {"first", "data"} /\ (Label = "data" <=> shown = "landing")
      /\ Ticks["first"] \in Nat \ {0} /\ Ticks["data"] \in Nat \ {0}
      /\ Ticks["first"] <= Ticks["data"]
  BY TicksAssumption DEF Label
<1>4. /\ DOMAIN hovers' = DOMAIN hovers \cup {id}
      /\ hovers'[id] = new
      /\ \A i \in DOMAIN hovers : hovers'[i] = hovers[i]
  BY <1>1, <1>2
<1>5. StatTyped'
  BY <1>1, <1>2, <1>3, <1>4 DEF StatInv, StatTyped
<1>6. ASSUME NEW i \in DOMAIN hovers
      PROVE  hovers[i].ticks <= new.ticks /\ (hovers[i].label = "data" => new.label = "data")
  BY <1>3 DEF StatInv, StatTyped
<1> HIDE DEF new
<1>7. \A i, j \in DOMAIN hovers' : i < j =>
        /\ hovers'[i].ticks <= hovers'[j].ticks
        /\ hovers'[i].label = "data" => hovers'[j].label = "data"
  <2>1. SUFFICES ASSUME NEW i \in DOMAIN hovers', NEW j \in DOMAIN hovers', i < j
                 PROVE  /\ hovers'[i].ticks <= hovers'[j].ticks
                        /\ hovers'[i].label = "data" => hovers'[j].label = "data"
    OBVIOUS
  <2>2. i # id /\ i \in DOMAIN hovers
    BY <1>2, <1>4, <2>1 DEF StatInv, StatTyped
  <2>3. CASE j = id
    <3>1. hovers'[j] = new /\ hovers'[i] = hovers[i]
      BY <1>4, <2>2, <2>3
    <3>2. hovers[i].ticks <= new.ticks /\ (hovers[i].label = "data" => new.label = "data")
      BY <1>6, <2>2
    <3> QED
      BY <3>1, <3>2
  <2>4. CASE j # id
    BY <1>4, <2>1, <2>2, <2>4 DEF StatInv
  <2> QED
    BY <2>3, <2>4
<1>8. \A i \in DOMAIN hovers' : /\ hovers'[i].label = "data" => shown' = "landing"
                               /\ hovers'[i].ticks <= Ticks[hovers'[i].label]
  BY <1>1, <1>3, <1>4 DEF StatInv
<1>9. hovered' => /\ shown' = "landing" /\ DOMAIN hovers' # {}
                  /\ \E i \in DOMAIN hovers' : hovers'[i].label = "data"
  BY <1>1, <1>3, <1>4
<1> QED
  BY <1>1, <1>5, <1>7, <1>8, <1>9 DEF StatInv

LEMMA TickStat ==
  ASSUME StatInv, Tick
  PROVE  StatInv'
<1> DEFINE after == [i \in DOMAIN hovers |-> [hovers[i] EXCEPT !.ticks = @ - 1]]
           left  == {i \in DOMAIN hovers : Running(after[i])}
           m     == Max(DOMAIN hovers)
<1>1. /\ DOMAIN hovers # {} /\ UNCHANGED <<page, shown, hovered>>
      /\ text' \in {after[m].label} \cup (IF after[m].ticks = 0 THEN {} ELSE {"random"})
      /\ hovers' = [i \in left |-> after[i]]
  BY DEF Tick, Restrict, state
<1>2. m \in DOMAIN hovers /\ \A i \in DOMAIN hovers : i \in Int /\ m \in Int /\ i <= m
  <2>1. DOMAIN hovers \in SUBSET (0 .. MaxHovers) /\ MaxHovers \in Nat
    BY BoundsAssumption DEF StatInv, StatTyped
  <2> QED
    BY <1>1, <2>1, Latest
<1> HIDE DEF m
<1>3. \A i \in DOMAIN hovers :
        hovers[i] \in [label : {"first", "data"}, ticks : Nat \ {0}]
  BY DEF StatInv, StatTyped
<1>4. ASSUME NEW i \in DOMAIN hovers
      PROVE  /\ hovers[i].ticks \in Nat \ {0} /\ hovers[i].label \in {"first", "data"}
             /\ after[i].label = hovers[i].label /\ after[i].ticks = hovers[i].ticks - 1
             /\ after[i] \in [label : {"first", "data"}, ticks : Nat]
  <2>1. hovers[i] \in [label : {"first", "data"}, ticks : Nat \ {0}]
    BY <1>3
  <2>2. after[i] = [label |-> hovers[i].label, ticks |-> hovers[i].ticks - 1]
    BY <2>1
  <2> HIDE DEF after
  <2>3. after[i].label = hovers[i].label /\ after[i].ticks = hovers[i].ticks - 1
    BY <2>2
  <2>4. hovers[i].ticks - 1 \in Nat
    BY <2>1
  <2> QED
    BY <2>1, <2>2, <2>3, <2>4
<1> HIDE DEF after
<1>5. left \subseteq DOMAIN hovers /\ \A i \in DOMAIN hovers : i \in left <=> hovers[i].ticks > 1
  <2>1. SUFFICES ASSUME NEW i \in DOMAIN hovers PROVE Running(after[i]) <=> hovers[i].ticks > 1
    OBVIOUS
  <2>2. after[i].ticks = hovers[i].ticks - 1 /\ hovers[i].ticks \in Nat
    BY <1>4
  <2> QED
    BY <2>2 DEF Running
<1> HIDE DEF left
<1>6. /\ DOMAIN hovers' = left /\ \A i \in left : hovers'[i] = after[i]
      /\ \A i \in left : hovers'[i].label = hovers[i].label /\ hovers'[i].ticks = hovers[i].ticks - 1
  BY <1>1, <1>4, <1>5
<1>7. StatTyped'
  <2>1. text' \in {"first", "data", "random"}
    BY <1>1, <1>2, <1>4
  <2>2. \A i \in left : after[i] \in [label : {"first", "data"}, ticks : Nat \ {0}]
    <3>1. SUFFICES ASSUME NEW i \in left
                   PROVE  after[i] \in [label : {"first", "data"}, ticks : Nat \ {0}]
      OBVIOUS
    <3>2. hovers[i].ticks \in Nat /\ hovers[i].ticks > 1
      BY <1>4, <1>5
    <3>3. hovers[i].ticks - 1 \in Nat \ {0}
      BY <3>2
    <3>4. after[i] \in [label : {"first", "data"}, ticks : Nat] /\ after[i].ticks \in Nat \ {0}
      BY <1>4, <1>5, <3>3
    <3> QED
      BY <3>4
  <2>3. hovers' \in [left -> [label : {"first", "data"}, ticks : Nat \ {0}]]
    BY <1>1, <2>2
  <2>4. left \subseteq 1 .. MaxHovers /\ hovered' \in BOOLEAN
    BY <1>1, <1>5 DEF StatInv, StatTyped
  <2> QED
    BY <1>6, <2>1, <2>3, <2>4 DEF StatTyped
<1>8. ASSUME NEW i \in left
      PROVE  /\ hovers'[i].label = "data" => shown' = "landing"
             /\ hovers'[i].ticks <= Ticks[hovers'[i].label]
  <2>1. Ticks["first"] \in Nat /\ Ticks["data"] \in Nat
    BY TicksAssumption
  <2>2. /\ hovers[i].label = "data" => shown = "landing"
        /\ hovers[i].ticks <= Ticks[hovers[i].label]
    BY <1>5 DEF StatInv
  <2>3. hovers[i].ticks \in Nat /\ hovers[i].label \in {"first", "data"}
    BY <1>4, <1>5
  <2> QED
    BY <1>1, <1>6, <2>1, <2>2, <2>3
<1>9. ASSUME NEW i \in left, NEW j \in left, i < j
      PROVE  /\ hovers'[i].ticks <= hovers'[j].ticks
             /\ hovers'[i].label = "data" => hovers'[j].label = "data"
  <2>1. /\ hovers[i].ticks <= hovers[j].ticks
        /\ hovers[i].label = "data" => hovers[j].label = "data"
    BY <1>5, <1>9 DEF StatInv
  <2>2. hovers[i].ticks \in Nat /\ hovers[j].ticks \in Nat
    BY <1>4, <1>5
  <2> QED
    BY <1>6, <2>1, <2>2
<1>10. ASSUME hovered'
       PROVE  IF left = {} THEN text' = "data" ELSE \E i \in left : hovers'[i].label = "data"
  <2>1. PICK d \in DOMAIN hovers : hovers[d].label = "data"
    BY <1>1, <1>10 DEF StatInv
  <2>2. \A i \in DOMAIN hovers : i = m \/ i < m
    BY <1>2
  <2>3. hovers[m].label = "data" /\ \A i \in DOMAIN hovers : hovers[i].ticks <= hovers[m].ticks
    <3>1. ASSUME NEW i \in DOMAIN hovers
          PROVE  hovers[i].ticks <= hovers[m].ticks /\ (hovers[i].label = "data" => hovers[m].label = "data")
      <4>1. CASE i = m
        BY <1>4, <4>1
      <4>2. CASE i < m
        BY <1>2, <4>2 DEF StatInv
      <4> QED
        BY <2>2, <4>1, <4>2
    <3> QED
      BY <2>1, <3>1
  <2>4. CASE left = {}
    <3>1. after[m].ticks = 0 /\ after[m].label = "data"
      BY <1>2, <1>4, <1>5, <2>3, <2>4
    <3> QED
      BY <1>1, <2>4, <3>1
  <2>5. CASE left # {}
    <3>1. m \in left
      <4>1. PICK i \in left : TRUE
        BY <2>5
      <4>2. hovers[i].ticks > 1 /\ hovers[i].ticks <= hovers[m].ticks
        BY <1>5, <2>3, <4>1
      <4> QED
        BY <1>2, <1>4, <1>5, <4>1, <4>2
    <3> QED
      BY <1>2, <1>4, <1>6, <2>3, <2>5, <3>1
  <2> QED
    BY <2>4, <2>5
<1> QED
  BY <1>1, <1>6, <1>7, <1>8, <1>9, <1>10 DEF StatInv

LEMMA StatNext == ViewInv /\ StatInv /\ [Next]_vars => StatInv'
<1> SUFFICES ASSUME ViewInv, StatInv, [Next]_vars PROVE StatInv'
  OBVIOUS
<1>1. ASSUME NEW p \in Pages, Visit(p) PROVE StatInv'
  <2>1. CASE View(p) = View(page)
    <3>1. page # "landing"
      BY <1>1, <2>1, NodesAssumption DEF Visit, View, Pages
    <3>2. page' # "landing"
      BY <1>1, <2>1, <3>1, NodesAssumption DEF Visit, View, Pages, ViewInv, PageTyped
    <3>3. UNCHANGED <<stat, shown>>
      BY <1>1, <2>1 DEF Visit, state
    <3> QED
      BY <3>1, <3>2, <3>3 DEF StatInv, StatTyped, stat
  <2>2. CASE View(p) # View(page)
    BY <1>1, <2>2, StatMounted DEF Visit
  <2> QED
    BY <2>1, <2>2
<1>2. CASE RunEffects
  BY <1>2, StatKept DEF RunEffects
<1>3. ASSUME NEW s \in Slots, Reply(s) PROVE StatInv'
  <2>1. page' = page /\ UNCHANGED stat
    BY <1>3 DEF Reply, Answer, Fail
  <2>2. page = "landing" /\ shown = "landing" => shown' = "landing"
    <3>1. SUFFICES ASSUME page = "landing", shown = "landing" PROVE shown' = "landing"
      OBVIOUS
    <3>2. Effective(s) => ~effects /\ requests[s].ask = "landing"
      BY <3>1, NodesAssumption DEF ViewInv, OneRequest, BeforeEffects
    <3> QED
      BY <1>3, <3>1, <3>2 DEF Reply, Answer, Fail, state
  <2> QED
    BY <2>1, <2>2, StatKept
<1>4. CASE Hover
  BY <1>4, HoverStat
<1>5. CASE Tick
  BY <1>5, TickStat
<1>6. CASE UNCHANGED vars
  BY <1>6, StatKept DEF vars, state
<1> QED
  BY <1>1, <1>2, <1>3, <1>4, <1>5, <1>6 DEF Next

LEMMA StatInvariance == Spec => []StatInv
BY StatInit, StatNext, Invariance, PTL DEF Spec

(* The mounted page holds answers and failures of pages, a request under   *)
(* way waits for a response, an interval that runs has ticks left.         *)
THEOREM PagesTyped == Spec => []TypeOK
<1>1. ViewInv /\ StatInv => TypeOK
  BY DEF ViewInv, StatInv, TypeOK
<1> QED
  BY <1>1, Invariance, StatInvariance, PTL

(* However many intervals overlap and whatever they scramble, when the     *)
(* last one has ended a StatItem that was hovered since the numbers        *)
(* arrived shows its number: the older intervals end no later.             *)
THEOREM HoverEndsAtNumber == Spec => []HoverShowsNumber
<1>1. StatInv => HoverShowsNumber
  BY DEF StatInv, HoverShowsNumber
<1> QED
  BY <1>1, StatInvariance, PTL
===============================================================================
