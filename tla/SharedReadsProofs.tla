--------------------------- MODULE SharedReadsProofs ---------------------------
(***************************************************************************)
(* Reads beside loads and detections are, to ChileCompra, the foreign      *)
(* statements it was proved to endure: its theorems hold of the whole.     *)
(***************************************************************************)
EXTENDS SharedReads, SequentialProofs

LEMMA HoldsForeign ==
  ASSUME NEW res, Holds(res)
  PROVE  cursor' \in Foreign
PROOF
BY ReadersForeign DEF Holds

LEMMA ReadSteps ==
  ASSUME NEW r \in Readers, Read(r)
  PROVE  OtherStatement \/ UNCHANGED vars
PROOF
<1>1. CASE Execute(r)
  <2>1. PICK res \in Query(at[r], ask[r], got[r]) : Holds(res)
    BY <1>1 DEF Execute
  <2>. QED
    BY <1>1, <2>1, HoldsForeign DEF Execute, OtherStatement
<1>2. CASE Refused(r)
  BY <1>2, HoldsForeign DEF Refused, OtherStatement
<1>3. CASE Fetch(r)
  <2>1. UNCHANGED <<tables, pc, locals>>
    BY <1>3 DEF Fetch
  <2>2. Foreign # {}
    BY ReadersForeign
  <2>3. CASE Holds(NoResult)
    BY <2>1, <2>3, HoldsForeign DEF OtherStatement
  <2>4. CASE \E rest \in Rests(Pending) : Leaves(rest)
    <3>1. PICK rest \in Rests(Pending) : Leaves(rest)
      BY <2>4
    <3>2. CASE cursor \in {NoRows, SomeRows}
      BY <2>1, <3>1, <3>2, HoldsForeign DEF Leaves, OtherStatement
    <3>3. CASE cursor \notin {NoRows, SomeRows}
      BY <2>1, <2>2, <3>1, <3>3 DEF Leaves, Pending, OtherStatement
    <3>. QED
      BY <3>2, <3>3
  <2>. QED
    BY <1>3, <2>3, <2>4 DEF Fetch
<1>. QED
  BY <1>1, <1>2, <1>3 DEF Read

LEMMA StepsImplement == [RNext]_rvars => [Next]_vars
PROOF
<1>1. ASSUME RNext PROVE Next \/ UNCHANGED vars
  <2>1. ASSUME NEW w \in Workers, Write(w) \/ Arrive(w) PROVE Next
    BY <2>1 DEF Write, Next
  <2>2. ASSUME NEW r \in Readers, Read(r) PROVE Next \/ UNCHANGED vars
    BY <2>2, ReadSteps DEF Next
  <2>3. ASSUME NEW r \in Readers, NEW q \in Questions, Ask(r, q) PROVE UNCHANGED vars
    BY <2>3 DEF Ask
  <2>4. RRestart => Next
    BY DEF RRestart, Next
  <2>. QED
    BY <1>1, <2>1, <2>2, <2>3, <2>4 DEF RNext
<1>. QED
  BY <1>1 DEF rvars, vars

(* Whatever reads run beside them, loads and detections behave as in       *)
(* ChileCompra: its specification, with its fairness, still holds.         *)
THEOREM ReadsKeepSpec == RSpec => Spec
PROOF
<1>1. RInit => Init
  BY DEF RInit
<1>2. [RNext]_rvars => [Next]_vars
  BY StepsImplement
<1>. QED
  BY <1>1, <1>2, PTL DEF RSpec, Spec

(* No read can part a contract from its buyer or its supplier.             *)
THEOREM ReadsKeepAnchors == RSpec => []ContractsAnchored
PROOF
BY ReadsKeepSpec, AlwaysAnchored, PTL

-----------------------------------------------------------------------------
(* Why the graph of an uncrossed answer is closed: until another request   *)
(* crosses it, the connection holds the read's own result and the links it *)
(* fetched are rows of the table, whose ends are there (ContractsAnchored).*)

ReadersTyped ==
  /\ ask \in [Readers -> Questions \cup {Null}]
  /\ at \in [Readers -> Stmts \cup Ended]
  /\ sent \in [Readers -> BOOLEAN]
  /\ crossed \in [Readers -> BOOLEAN]
  /\ got = [r \in Readers |-> [s \in Stmts |-> got[r][s]]]
  /\ \A r \in Readers : sent[r] => at[r] \in Stmts

AsksGraph(r) == ask[r] # Null /\ ask[r].op = "graph"

GraphStmts == {"org_match", "emp_match", "links", "nodes"}

(* The statement that is sent has left its own result.                     *)
OwnResult(r) ==
  /\ at[r] = "links" => Pending.kind = "links" /\ Pending.rows \subseteq Links
  /\ at[r] = "nodes" => Pending.kind = "nodes" /\ Pending.rows = Nodes(IdsIn(got[r]["links"]))

UncrossedGraph(r) ==
  /\ sent[r] => OwnResult(r)
  /\ at[r] = "nodes" => got[r]["links"].kind = "links" /\ got[r]["links"].rows \subseteq Links

GraphInv ==
  \A r \in Readers : AsksGraph(r) =>
    /\ at[r] \in GraphStmts \cup Ended
    /\ ~crossed[r] => UncrossedGraph(r)

ReadInvariant == ReadersTyped /\ GraphInv /\ GraphClosed

LEMMA SameTables ==
  ASSUME UNCHANGED tables
  PROVE  /\ Links' = Links
         /\ \A ids : Nodes(ids)' = Nodes(ids)
PROOF
BY DEF tables, Links, Link, Nodes, EntityRows, HasKey

(* What the statements of a graph request leave.                           *)
LEMMA GraphResults ==
  ASSUME NEW q, NEW g, NEW s \in {"links", "nodes"}, NEW res \in Query(s, q, g)
  PROVE  /\ res.kind = s
         /\ s = "links" => res.rows \subseteq Links
         /\ s = "nodes" => res.rows = Nodes(IdsIn(g["links"]))
PROOF
<1>1. CASE s = "links"
  <2>1. res \in Of("links", Cut(q.limit, LinksAsked(q, g)))
    BY <1>1 DEF Query
  <2>2. LinksAsked(q, g) \subseteq Links
    BY DEF LinksAsked
  <2>. QED
    BY <1>1, <2>1, <2>2 DEF Of, Cut, kSubset
<1>2. CASE s = "nodes"
  <2>1. res \in Of("nodes", {Nodes(IdsIn(g["links"]))})
    BY <1>2 DEF Query
  <2>. QED
    BY <1>2, <2>1 DEF Of
<1>. QED
  BY <1>1, <1>2

LEMMA HeldIsPending ==
  ASSUME NEW res, Holds(res)
  PROVE  Pending' = res
PROOF
BY DEF Holds, Pending, NoResult, CountResult, NoRows, SomeRows

(* Another request's step: what it does not cross stays as it was.         *)
LEMMA OthersStep ==
  ASSUME ReadInvariant, NEW R \in SUBSET Readers, Crosses(R), NEW r \in R,
         ask'[r] = ask[r], at'[r] = at[r], sent'[r] = sent[r], got'[r] = got[r]
  PROVE  AsksGraph(r)' =>
           /\ at'[r] \in GraphStmts \cup Ended
           /\ ~crossed'[r] => UncrossedGraph(r)'
PROOF
<1>1. SUFFICES ASSUME AsksGraph(r)', ~crossed'[r] PROVE UncrossedGraph(r)'
  BY DEF ReadInvariant, GraphInv, AsksGraph
<1>2. ~crossed[r] /\ ~sent[r] /\ UNCHANGED tables
  BY <1>1 DEF Crosses
<1>3. UncrossedGraph(r)
  BY <1>1, <1>2 DEF ReadInvariant, GraphInv, AsksGraph
<1>. QED
  BY <1>2, <1>3, SameTables DEF UncrossedGraph

LEMMA OthersAnswers ==
  ASSUME ReadInvariant, NEW R \in SUBSET Readers, Crosses(R), NEW r \in Readers,
         ask'[r] = ask[r], at'[r] = at[r], got'[r] = got[r], Answered(r, "graph")'
  PROVE  Answered(r, "graph") /\ NodesShown(got[r])' = NodesShown(got[r])
PROOF
BY DEF Answered, Crosses, NodesShown

(* How a graph request goes on.                                            *)
LEMMA AfterGraph ==
  ASSUME NEW g
  PROVE  /\ After("org_match", g) = {"emp_match"}
         /\ After("emp_match", g) \subseteq {"links", "not_found"}
         /\ After("links", g) \subseteq {"failed", "nodes", "answered"}
         /\ "answered" \in After("links", g) => ~HasRow(g["links"])
         /\ After("nodes", g) \subseteq {"failed", "answered"}
PROOF
<1>1. After("org_match", g) = {"emp_match"}
  BY DEF After
<1>2. After("emp_match", g) \subseteq {"links", "not_found"}
  BY DEF After
<1>3. /\ After("links", g) \subseteq {"failed", "nodes", "answered"}
      /\ "answered" \in After("links", g) => ~HasRow(g["links"])
  BY DEF After
<1>4. After("nodes", g) \subseteq {"failed", "answered"}
  BY DEF After, End
<1>. QED
  BY <1>1, <1>2, <1>3, <1>4

LEMMA AfterTyped ==
  ASSUME NEW s \in Stmts, NEW g
  PROVE  After(s, g) \subseteq Stmts \cup Ended
PROOF
<1>1. CASE s \in GraphStmts
  BY <1>1, AfterGraph DEF GraphStmts, Stmts, Ended
<1>2. CASE s \in {"alert", "alerts", "alerts_cc", "one", "count"}
  BY <1>2 DEF After, End, Stmts, Ended
<1>3. CASE s \in {"entity", "neighbors"}
  BY <1>3 DEF After, Branch, Stmts, Ended
<1>4. CASE s \in {"buyer", "supplier", "entity_alerts"}
  BY <1>4 DEF After, End, Stmts, Ended
<1>. QED
  BY <1>1, <1>2, <1>3, <1>4 DEF Stmts, GraphStmts

(* Both ends of a link of the table are nodes that the batch finds.        *)
LEMMA EndsAreNodes ==
  ASSUME ContractsAnchored, NEW L, L \subseteq Links, NEW l \in L,
         NEW res, res.kind = "links", res.rows = L
  PROVE  {<<l[1]>>, <<l[2]>>} \subseteq Nodes(IdsIn(res))
PROOF
<1>1. PICK i \in Ids : contrato[i] # Null /\ l = Link(i)
  BY DEF Links
<1>2. l[1] = ConRow(contrato[i], i).org /\ l[2] = ConRow(contrato[i], i).prov
  BY <1>1 DEF Link
<1>3. HasKey(organismo, l[1]) /\ HasKey(empresa, l[2])
  BY <1>1, <1>2 DEF ContractsAnchored, Anchored
<1>4. EntityRows(l[1]) # {} /\ EntityRows(l[2]) # {}
  <2> DEFINE union == {<<"Organismo", organismo>>, <<"Empresa", empresa>>, <<"Contrato", contrato>>}
  <2>1. <<"Organismo", organismo>> \in {u \in union : HasKey(u[2], l[1])}
    BY <1>3
  <2>2. <<"Empresa", empresa>> \in {u \in union : HasKey(u[2], l[2])}
    BY <1>3
  <2>. QED
    BY <2>1, <2>2 DEF EntityRows
<1>5. l[1] \in IdsIn(res) /\ l[2] \in IdsIn(res)
  <2>1. IdsIn(res) = UNION {{k[1], k[2], k[3]} : k \in L}
    BY DEF IdsIn, Rules
  <2>. QED
    BY <2>1
<1>. QED
  BY <1>4, <1>5 DEF Nodes

LEMMA FetchStep ==
  ASSUME ReadInvariant, ContractsAnchored, NEW r \in Readers, Fetch(r)
  PROVE  ReadInvariant'
PROOF
<1>. USE DEF ReadInvariant
<1>1. UNCHANGED ask /\ UNCHANGED tables /\ Crosses(Readers \ {r})
  BY DEF Fetch
<1>2. at[r] \in Stmts /\ sent[r] /\ sent' = [sent EXCEPT ![r] = FALSE]
  BY DEF Fetch
<1>3. PICK next, g :
        /\ next \in Stmts \cup Ended
        /\ at' = [at EXCEPT ![r] = next]
        /\ got' = [got EXCEPT ![r] = g]
        /\ g = [s \in Stmts |-> g[s]]
        /\ \/ next = "failed"
           \/ \E res \in Taken(at[r]) :
                /\ g = [got[r] EXCEPT ![at[r]] = Used(at[r], res)]
                /\ next \in After(at[r], g)
  <2>1. CASE UNCHANGED got /\ at' = [at EXCEPT ![r] = "failed"]
    <3>1. got' = [got EXCEPT ![r] = got[r]] /\ got[r] = [s \in Stmts |-> got[r][s]]
      BY <2>1 DEF ReadersTyped
    <3>2. "failed" \in Stmts \cup Ended
      BY DEF Ended
    <3>. QED
      BY <2>1, <3>1, <3>2
  <2>2. ASSUME NEW res \in Taken(at[r]),
               got' = [got EXCEPT ![r][at[r]] = Used(at[r], res)],
               NEW next \in After(at[r], got'[r]), at' = [at EXCEPT ![r] = next]
        PROVE  \E g : /\ got' = [got EXCEPT ![r] = g]
                      /\ g = [s \in Stmts |-> g[s]]
                      /\ g = [got[r] EXCEPT ![at[r]] = Used(at[r], res)]
                      /\ next \in After(at[r], g)
                      /\ next \in Stmts \cup Ended
    <3> DEFINE h == [got[r] EXCEPT ![at[r]] = Used(at[r], res)]
    <3>1. got' = [got EXCEPT ![r] = h]
      BY <2>2
    <3>2. got'[r] = h
      BY <3>1 DEF ReadersTyped
    <3>3. h = [s \in Stmts |-> h[s]]
      BY DEF ReadersTyped
    <3>4. next \in Stmts \cup Ended
      BY <1>2, <2>2, AfterTyped
    <3>. QED
      BY <2>2, <3>1, <3>2, <3>3, <3>4
  <2>. QED
    BY <2>1, <2>2 DEF Fetch
<1>4. ReadersTyped'
  <2>1. ask' \in [Readers -> Questions \cup {Null}] /\ at' \in [Readers -> Stmts \cup Ended]
    BY <1>1, <1>3 DEF ReadersTyped
  <2>2. sent' \in [Readers -> BOOLEAN] /\ \A x \in Readers : sent'[x] => x # r /\ sent[x]
    BY <1>2 DEF ReadersTyped
  <2>3. crossed' \in [Readers -> BOOLEAN]
    BY <1>1 DEF Crosses
  <2>4. got' = [x \in Readers |-> [s \in Stmts |-> got'[x][s]]]
    BY <1>3 DEF ReadersTyped
  <2>5. \A x \in Readers : sent'[x] => at'[x] \in Stmts
    BY <1>3, <2>2 DEF ReadersTyped
  <2>. QED
    BY <2>1, <2>2, <2>3, <2>4, <2>5 DEF ReadersTyped
<1>5. at'[r] = next /\ got'[r] = g /\ ~sent'[r] /\ (~crossed'[r] => ~crossed[r])
  BY <1>1, <1>2, <1>3 DEF ReadersTyped, Crosses
<1>6. ASSUME NEW x \in Readers \ {r}
      PROVE  ask'[x] = ask[x] /\ at'[x] = at[x] /\ sent'[x] = sent[x] /\ got'[x] = got[x]
  BY <1>1, <1>2, <1>3 DEF ReadersTyped
<1>7. ASSUME AsksGraph(r)
      PROVE  /\ at[r] \in GraphStmts
             /\ next = "nodes" => at[r] = "links"
             /\ next = "answered" => at[r] \in {"links", "nodes"}
             /\ next = "answered" /\ at[r] = "links" => ~HasRow(g["links"])
             /\ next \in GraphStmts \cup Ended
  <2>1. at[r] \in GraphStmts
    BY <1>2, <1>7 DEF GraphInv, GraphStmts, Stmts, Ended
  <2>. QED
    BY <1>3, <2>1, AfterGraph DEF GraphStmts, Ended
<1>8. ASSUME AsksGraph(r), ~crossed[r], next # "failed", at[r] \in {"links", "nodes"}
      PROVE  g = [got[r] EXCEPT ![at[r]] = Pending] /\ OwnResult(r)
  BY <1>2, <1>3, <1>8 DEF GraphInv, UncrossedGraph, Taken, Used, Single
<1>9. GraphInv'
  <2>1. AsksGraph(r)' => AsksGraph(r)
    BY <1>1 DEF AsksGraph
  <2>2. ASSUME AsksGraph(r), ~crossed'[r], next = "nodes"
        PROVE  g["links"].kind = "links" /\ g["links"].rows \subseteq Links
    BY <1>5, <1>7, <1>8, <2>2 DEF OwnResult, ReadersTyped, Stmts
  <2>3. AsksGraph(r)' => /\ at'[r] \in GraphStmts \cup Ended
                         /\ ~crossed'[r] => UncrossedGraph(r)'
    BY <1>1, <1>5, <1>7, <2>1, <2>2, SameTables DEF UncrossedGraph
  <2>4. ASSUME NEW x \in Readers \ {r}
        PROVE  AsksGraph(x)' => /\ at'[x] \in GraphStmts \cup Ended
                                /\ ~crossed'[x] => UncrossedGraph(x)'
    BY <1>1, <1>6, OthersStep
  <2>. QED
    BY <2>3, <2>4 DEF GraphInv
<1>10. GraphClosed'
  <2>1. SUFFICES ASSUME NEW x \in Readers, Answered(x, "graph")', NEW l \in got'[x]["links"].rows
                 PROVE  {l[1], l[2]} \ {EmptyId} \subseteq NodesShown(got'[x])
    BY DEF GraphClosed, NodesShown
  <2>2. CASE x # r
    BY <1>1, <1>6, <2>1, <2>2, OthersAnswers DEF GraphClosed, NodesShown
  <2>3. CASE x = r
    <3>1. AsksGraph(r) /\ ~crossed[r] /\ next = "answered"
      BY <1>1, <1>5, <2>1, <2>3 DEF Answered, AsksGraph
    <3>2. at[r] = "nodes"
      BY <1>5, <1>7, <2>1, <2>3, <3>1 DEF HasRow
    <3>3. /\ g["links"] = got[r]["links"]
          /\ g["nodes"].rows = Nodes(IdsIn(got[r]["links"]))
      BY <1>8, <3>1, <3>2 DEF OwnResult, ReadersTyped, Stmts
    <3>4. got[r]["links"].kind = "links" /\ got[r]["links"].rows \subseteq Links
      BY <3>1, <3>2 DEF GraphInv, UncrossedGraph
    <3>5. {<<l[1]>>, <<l[2]>>} \subseteq g["nodes"].rows
      <4>1. l \in got[r]["links"].rows
        BY <1>5, <2>1, <2>3, <3>3
      <4>2. {<<l[1]>>, <<l[2]>>} \subseteq Nodes(IdsIn(got[r]["links"]))
        BY <3>4, <4>1, EndsAreNodes
      <4>. QED
        BY <3>3, <4>2
    <3>. QED
      BY <1>5, <2>3, <3>5 DEF NodesShown
  <2>. QED
    BY <2>2, <2>3
<1>. QED
  BY <1>4, <1>9, <1>10

LEMMA ExecuteStep ==
  ASSUME ReadInvariant, NEW r \in Readers, Execute(r)
  PROVE  ReadInvariant'
PROOF
<1>. USE DEF ReadInvariant
<1>1. /\ UNCHANGED <<ask, at, got>> /\ UNCHANGED tables /\ Crosses(Readers \ {r})
      /\ at[r] \in Stmts /\ sent' = [sent EXCEPT ![r] = TRUE]
  BY DEF Execute
<1>2. ReadersTyped'
  BY <1>1 DEF ReadersTyped, Crosses
<1>3. PICK res \in Query(at[r], ask[r], got[r]) : Holds(res)
  BY DEF Execute
<1>4. at[r] \in {"links", "nodes"} => OwnResult(r)'
  BY <1>1, <1>3, GraphResults, HeldIsPending, SameTables DEF OwnResult
<1>5. (~crossed'[r] => ~crossed[r]) /\ (AsksGraph(r)' => AsksGraph(r))
  BY <1>1 DEF ReadersTyped, Crosses, AsksGraph
<1>6. AsksGraph(r)' => /\ at'[r] \in GraphStmts \cup Ended
                       /\ ~crossed'[r] => UncrossedGraph(r)'
  BY <1>1, <1>4, <1>5, SameTables DEF GraphInv, UncrossedGraph, OwnResult
<1>7. ASSUME NEW x \in Readers \ {r}
      PROVE  AsksGraph(x)' => /\ at'[x] \in GraphStmts \cup Ended
                              /\ ~crossed'[x] => UncrossedGraph(x)'
  <2>1. sent'[x] = sent[x]
    BY <1>1 DEF ReadersTyped
  <2>. QED
    BY <1>1, <2>1, OthersStep
<1>8. GraphInv'
  BY <1>6, <1>7 DEF GraphInv
<1>9. GraphClosed'
  BY <1>1, OthersAnswers DEF GraphClosed, NodesShown
<1>. QED
  BY <1>2, <1>8, <1>9

LEMMA RefusedStep ==
  ASSUME ReadInvariant, NEW r \in Readers, Refused(r)
  PROVE  ReadInvariant'
PROOF
<1>. USE DEF ReadInvariant
<1>1. /\ UNCHANGED <<ask, sent, got>> /\ UNCHANGED tables /\ Crosses(Readers \ {r})
      /\ ~sent[r] /\ at' = [at EXCEPT ![r] = "failed"]
  BY DEF Refused
<1>2. ReadersTyped'
  BY <1>1 DEF ReadersTyped, Crosses, Ended
<1>3. at'[r] = "failed" /\ \A x \in Readers \ {r} : at'[x] = at[x]
  BY <1>1 DEF ReadersTyped
<1>4. ASSUME NEW x \in Readers \ {r}
      PROVE  AsksGraph(x)' => /\ at'[x] \in GraphStmts \cup Ended
                              /\ ~crossed'[x] => UncrossedGraph(x)'
  BY <1>1, <1>3, OthersStep
<1>5. GraphInv'
  BY <1>1, <1>3, <1>4 DEF GraphInv, UncrossedGraph, Ended
<1>6. \A x \in Readers : Answered(x, "graph")' => at'[x] = at[x]
  BY <1>3 DEF Answered
<1>7. GraphClosed'
  BY <1>1, <1>6, OthersAnswers DEF GraphClosed, NodesShown
<1>. QED
  BY <1>2, <1>5, <1>7

LEMMA AskStep ==
  ASSUME ReadInvariant, NEW r \in Readers, NEW q \in Questions, Ask(r, q)
  PROVE  ReadInvariant'
PROOF
<1>. USE DEF ReadInvariant
<1>1. /\ UNCHANGED vars /\ UNCHANGED <<page, sent>>
      /\ ask' = [ask EXCEPT ![r] = q] /\ at' = [at EXCEPT ![r] = First(q)]
      /\ got' = [got EXCEPT ![r] = Nothing] /\ crossed' = [crossed EXCEPT ![r] = FALSE]
  BY DEF Ask
<1>2. ~sent[r]
  BY DEF Ask, ReadersTyped, Stmts, Ended
<1>3. First(q) \in Stmts /\ (q.op = "graph" => First(q) \in {"org_match", "links"})
  BY QuestionsAssumption DEF First, Stmts
<1>4. Nothing = [s \in Stmts |-> Nothing[s]]
  BY DEF Nothing
<1>5. ReadersTyped'
  BY <1>1, <1>3, <1>4 DEF ReadersTyped
<1>6. ask'[r] = q /\ at'[r] = First(q) /\ ~sent'[r]
  BY <1>1, <1>2 DEF ReadersTyped
<1>7. \A x \in Readers \ {r} :
        /\ ask'[x] = ask[x] /\ at'[x] = at[x] /\ sent'[x] = sent[x]
        /\ got'[x] = got[x] /\ crossed'[x] = crossed[x]
  BY <1>1 DEF ReadersTyped
<1>8. UNCHANGED tables /\ Pending' = Pending
  BY <1>1 DEF vars, Pending
<1>9. ASSUME NEW x \in Readers, AsksGraph(x)'
      PROVE  /\ at'[x] \in GraphStmts \cup Ended
             /\ ~crossed'[x] => UncrossedGraph(x)'
  <2>1. CASE x = r
    BY <1>3, <1>6, <1>9, <2>1 DEF AsksGraph, UncrossedGraph, GraphStmts
  <2>2. CASE x # r
    BY <1>7, <1>8, <1>9, <2>2, SameTables DEF GraphInv, AsksGraph, UncrossedGraph, OwnResult
  <2>. QED
    BY <2>1, <2>2
<1>10. GraphInv'
  BY <1>9 DEF GraphInv
<1>11. GraphClosed'
  BY <1>3, <1>6, <1>7 DEF GraphClosed, Answered, NodesShown, Stmts
<1>. QED
  BY <1>5, <1>10, <1>11

(* Steps that no reader takes.                                             *)
LEMMA IdleReaders ==
  ASSUME ReadInvariant, UNCHANGED <<ask, at, sent, got>>, Crosses(Readers)
  PROVE  ReadInvariant'
PROOF
<1>. USE DEF ReadInvariant
<1>1. ReadersTyped'
  BY DEF ReadersTyped, Crosses
<1>2. GraphInv'
  BY OthersStep DEF GraphInv
<1>3. GraphClosed'
  BY OthersAnswers DEF GraphClosed, NodesShown
<1>. QED
  BY <1>1, <1>2, <1>3

LEMMA ReadInvNext ==
  ASSUME ReadInvariant, ContractsAnchored, [RNext]_rvars
  PROVE  ReadInvariant'
PROOF
<1>1. ASSUME NEW w \in Workers, Write(w) PROVE ReadInvariant'
  BY <1>1, IdleReaders DEF Write
<1>2. ASSUME UNCHANGED reads, UNCHANGED tables, UNCHANGED cursor PROVE ReadInvariant'
  BY <1>2, SameTables
     DEF reads, ReadInvariant, ReadersTyped, GraphInv, GraphClosed, Answered, NodesShown, AsksGraph,
         UncrossedGraph, OwnResult, Pending
<1>3. ASSUME NEW w \in Workers, Arrive(w), UNCHANGED reads PROVE ReadInvariant'
  BY <1>2, <1>3 DEF Arrive, StartLoad, StartDetect, tables
<1>4. ASSUME RRestart PROVE ReadInvariant'
  BY <1>4 DEF RRestart, ReadInvariant, ReadersTyped, GraphInv, GraphClosed, Answered, AsksGraph,
              Ended, Nothing
<1>5. ASSUME UNCHANGED rvars PROVE ReadInvariant'
  BY <1>2, <1>5 DEF rvars, vars
<1>. QED
  BY <1>1, <1>3, <1>4, <1>5, FetchStep, ExecuteStep, RefusedStep, AskStep DEF RNext, Read

(* Whatever loads, detections and other reads run beside it, a graph that  *)
(* no other request crosses has both ends of each of its links.            *)
THEOREM UncrossedGraphsClosed == RSpec => []GraphClosed
PROOF
<1>1. RInit => ReadInvariant
  BY DEF RInit, ReadInvariant, ReadersTyped, GraphInv, GraphClosed, Answered, AsksGraph, Ended, Nothing
<1>2. ReadInvariant => GraphClosed
  BY DEF ReadInvariant
<1>. QED
  BY <1>1, <1>2, ReadInvNext, ReadsKeepAnchors, PTL DEF RSpec

-----------------------------------------------------------------------------
(* What any read is worth that no other request crosses: it fetches what   *)
(* it asked for, from the tables as they are until it answers.             *)

StmtsOf(op) ==
  CASE op = "health" -> {"one", "count"}
    [] op = "entity" -> {"entity", "neighbors", "buyer", "supplier", "entity_alerts"}
    [] op = "graph"  -> GraphStmts
    [] OTHER         -> {op}

KindOf(s) ==
  CASE s = "alert"                       -> "alerts"
    [] s \in {"one", "count"}            -> "count"
    [] s \in {"buyer", "supplier"}       -> "ends"
    [] s \in {"org_match", "emp_match"}  -> "match"
    [] OTHER                             -> s

(* A request for an entity has a row of it, whose type says the branch.    *)
EntityGot(id, s, g) ==
  /\ g["entity"].kind = "entity"
  /\ \E row \in EntityRows(id) :
       /\ g["entity"].rows = {row}
       /\ s \in {"buyer", "supplier"} => row[2] = "Contrato"
       /\ s = "neighbors" => row[2] # "Contrato"

(* Request q stands at s and has fetched g, by itself.                     *)
Sound(q, s, g) ==
  /\ s # "failed"
  /\ q.op = "entity" =>
       /\ s \notin {"entity", "not_found", "idle"} => EntityGot(q.id, s, g)
       /\ s = "supplier" => g["buyer"].rows # {}
       /\ s \in {"entity_alerts", "answered"} => EntityShown(q.id, g)
  /\ q.op = "alert" =>
       /\ s = "answered" => \E a \in AlertsWithId(q) : g["alert"].rows = {a}
       /\ s = "not_found" => AlertsWithId(q) = {}

Reading(r) ==
  at[r] # "idle" =>
    /\ ask[r] \in Questions
    /\ at[r] \in StmtsOf(ask[r].op) \cup Ended
    /\ ~crossed[r] => /\ Sound(ask[r], at[r], got[r])
                      /\ sent[r] => Pending \in Query(at[r], ask[r], got[r])

AnswersInv == \A r \in Readers : Reading(r)

LEMMA QueryKinds ==
  ASSUME NEW s \in Stmts, NEW q, NEW g, NEW res \in Query(s, q, g)
  PROVE  res = [kind |-> KindOf(s), rows |-> res.rows]
PROOF
<1>1. \A k, pages : \A x \in Of(k, pages) : x = [kind |-> k, rows |-> x.rows]
  BY DEF Of
<1>2. CASE s \in {"alert", "alerts", "alerts_cc"}
  BY <1>1, <1>2 DEF Query, KindOf
<1>3. CASE s \in {"one", "count"}
  BY <1>3 DEF Query, KindOf, CountResult
<1>4. CASE s \in {"entity", "neighbors", "buyer", "supplier", "entity_alerts"}
  BY <1>1, <1>4 DEF Query, KindOf
<1>5. CASE s \in GraphStmts
  BY <1>1, <1>5 DEF Query, KindOf, GraphStmts
<1>. QED
  BY <1>2, <1>3, <1>4, <1>5 DEF Stmts, GraphStmts

LEMMA TakenKinds ==
  ASSUME NEW s \in Stmts, NEW q, NEW g, Pending \in Query(s, q, g), NEW res \in Taken(s)
  PROVE  /\ res.kind = KindOf(s)
         /\ s \in Single /\ Pending.rows # {} => \E row \in Pending.rows : res.rows = {row}
         /\ s \notin Single \/ Pending.rows = {} => res.rows = Pending.rows
PROOF
<1>1. Pending = [kind |-> KindOf(s), rows |-> Pending.rows]
  BY QueryKinds
<1>2. CASE s \in Single /\ Pending.rows # {}
  <2>1. PICK row \in Pending.rows : res = [Pending EXCEPT !.rows = {row}]
    BY <1>2 DEF Taken
  <2>2. res.kind = KindOf(s) /\ res.rows = {row}
    BY <1>1, <2>1
  <2>. QED
    BY <1>2, <2>2
<1>3. CASE ~ (s \in Single /\ Pending.rows # {})
  <2>1. res = Pending
    BY <1>3 DEF Taken
  <2>. QED
    BY <1>1, <1>3, <2>1
<1>. QED
  BY <1>2, <1>3

(* The rows that the statements about one alert and one entity find.       *)
LEMMA AlertRowsFound ==
  ASSUME NEW q, NEW g, NEW res \in Query("alert", q, g)
  PROVE  res.rows = AlertsWithId(q)
PROOF
BY DEF Query, Of

LEMMA EntityRowsFound ==
  ASSUME NEW q, NEW g, NEW res \in Query("entity", q, g)
  PROVE  res.rows \subseteq EntityRows(q.id)
PROOF
<1>1. res \in Of("entity", Cut(1, EntityRows(q.id)))
  BY DEF Query
<1>. QED
  BY <1>1 DEF Of, Cut, kSubset

LEMMA NeighborsFound ==
  ASSUME NEW q, NEW g, NEW row, g["entity"].rows = {row}, NEW res \in Query("neighbors", q, g)
  PROVE  res.rows = Neighbors(q.id, row[2]) \/ Cardinality(res.rows) = NeighborsLimit
PROOF
<1>1. res \in Of("neighbors", UNION {Cut(NeighborsLimit, Neighbors(q.id, x[2])) : x \in g["entity"].rows})
  BY DEF Query
<1>2. res.rows \in Cut(NeighborsLimit, Neighbors(q.id, row[2]))
  BY <1>1 DEF Of
<1>. QED
  BY <1>2 DEF Cut, kSubset

LEMMA EndsFound ==
  ASSUME TablesTyped, NEW q, NEW g, NEW s \in {"buyer", "supplier"}, NEW res \in Query(s, q, g),
         <<q.id, "Contrato">> \in EntityRows(q.id)
  PROVE  res.rows # {}
PROOF
<1>1. q.id \in Ids /\ contrato[q.id] # Null
  BY DEF EntityRows, HasKey, TablesTyped
<1>2. Link(q.id) \in {k \in Links : k[3] = q.id}
  BY <1>1 DEF Links, Link
<1>3. CASE s = "buyer"
  <2>1. res.rows = {<<l[1]>> : l \in {k \in Links : k[3] = q.id}}
    BY <1>3 DEF Query, Of
  <2>. QED
    BY <1>2, <2>1
<1>4. CASE s = "supplier"
  <2>1. res.rows = {<<l[2]>> : l \in {k \in Links : k[3] = q.id}}
    BY <1>4 DEF Query, Of
  <2>. QED
    BY <1>2, <2>1
<1>. QED
  BY <1>3, <1>4

(* Every contract that names a buyer or a supplier is its neighbor, since  *)
(* the other end of the contract is in its table.                          *)
LEMMA NeighborsWhole ==
  ASSUME ContractsAnchored, NEW id, NEW l \in Links
  PROVE  /\ l[1] = id => <<l[3]>> \in Neighbors(id, "Organismo")
         /\ l[2] = id => <<l[3]>> \in Neighbors(id, "Empresa")
PROOF
<1>1. PICK i \in Ids : contrato[i] # Null /\ l = Link(i)
  BY DEF Links
<1>2. HasKey(organismo, l[1]) /\ HasKey(empresa, l[2])
  BY <1>1 DEF Link, ContractsAnchored, Anchored
<1>. QED
  BY <1>2 DEF Neighbors

(* What a request that nobody crosses does with what it fetched.           *)
LEMMA AfterAlert ==
  ASSUME NEW q, q.op = "alert", NEW g, Pending \in Query("alert", q, g),
         NEW res \in Taken("alert"), NEW h, h["alert"] = Used("alert", res),
         NEW next \in After("alert", h)
  PROVE  Sound(q, next, h)
PROOF
<1>1. /\ Pending.rows = AlertsWithId(q) /\ res.kind = "alerts"
      /\ \/ Pending.rows = {} /\ res.rows = {}
         \/ \E a \in Pending.rows : res.rows = {a}
  BY AlertRowsFound, TakenKinds DEF KindOf, Stmts, Single
<1>2. h["alert"] = res
  BY DEF Used
<1>3. CASE res.rows = {}
  <2>1. ~HasRow(res)
    BY <1>1, <1>3 DEF HasRow, IsNumber
  <2>2. next = "not_found"
    BY <1>2, <2>1 DEF After
  <2>. QED
    BY <1>1, <1>3, <2>2 DEF Sound
<1>4. CASE res.rows # {}
  <2>1. HasRow(h["alert"]) /\ Fits(h["alert"], 11)
    BY <1>1, <1>2, <1>4 DEF HasRow, Fits, Columns
  <2>2. next = "answered"
    BY <2>1 DEF After, End
  <2>. QED
    BY <1>1, <1>2, <1>4, <2>2 DEF Sound
<1>. QED
  BY <1>3, <1>4

LEMMA AfterList ==
  ASSUME NEW q, NEW s \in {"alerts", "alerts_cc", "one", "count"}, q.op \notin {"alert", "entity"},
         NEW g, Pending \in Query(s, q, g),
         NEW res \in Taken(s), NEW h, h[s] = Used(s, res), NEW next \in After(s, h)
  PROVE  Sound(q, next, h)
PROOF
<1>1. res.kind = KindOf(s)
  BY TakenKinds DEF Stmts
<1>2. next # "failed"
  <2>1. CASE s \in {"alerts", "alerts_cc"}
    <3>1. Fits(h[s], 12) /\ Fits(h[s], 11)
      BY <1>1, <2>1 DEF Used, KindOf, Fits, Columns
    <3>. QED
      BY <2>1, <3>1 DEF After, End
  <2>2. CASE s \in {"one", "count"}
    <3>1. HasRow(h[s])
      BY <1>1, <2>2 DEF Used, KindOf, HasRow, IsNumber, CountResult
    <3>. QED
      BY <2>2, <3>1 DEF After, End
  <2>. QED
    BY <2>1, <2>2
<1>. QED
  BY <1>2 DEF Sound

LEMMA AfterGraphOwn ==
  ASSUME NEW q, q.op = "graph", NEW s \in GraphStmts, NEW g, Pending \in Query(s, q, g),
         NEW res \in Taken(s), NEW h, h[s] = Used(s, res), NEW next \in After(s, h)
  PROVE  Sound(q, next, h)
PROOF
<1>1. res.kind = KindOf(s)
  BY TakenKinds DEF Stmts, GraphStmts
<1>2. next # "failed"
  <2>1. CASE s \in {"org_match", "emp_match"}
    BY <2>1, AfterGraph
  <2>2. CASE s \in {"links", "nodes"}
    <3>1. Fits(h[s], 3)
      BY <1>1, <2>2 DEF Used, KindOf, Fits, Columns, Rules
    <3>. QED
      BY <2>2, <3>1 DEF After, End
  <2>. QED
    BY <2>1, <2>2 DEF GraphStmts
<1>. QED
  BY <1>2 DEF Sound

LEMMA AfterEntity ==
  ASSUME NEW q, q.op = "entity", NEW g, Pending \in Query("entity", q, g),
         NEW res \in Taken("entity"), NEW h, h["entity"] = Used("entity", res),
         NEW next \in After("entity", h)
  PROVE  Sound(q, next, h)
PROOF
<1>1. /\ Pending.rows \subseteq EntityRows(q.id) /\ res.kind = "entity"
      /\ \/ Pending.rows = {} /\ res.rows = {}
         \/ \E row \in Pending.rows : res.rows = {row}
  BY EntityRowsFound, TakenKinds DEF KindOf, Stmts, Single
<1>2. h["entity"] = res
  BY DEF Used
<1>3. CASE res.rows = {}
  <2>1. ~HasRow(res)
    BY <1>1, <1>3 DEF HasRow, IsNumber
  <2>2. next = "not_found"
    BY <1>2, <2>1 DEF After
  <2>. QED
    BY <2>2 DEF Sound
<1>4. CASE res.rows # {}
  <2>1. PICK row \in EntityRows(q.id) : res.rows = {row}
    BY <1>1, <1>4
  <2>2. HasRow(res) /\ Columns(res.kind) = 4
    BY <1>1, <1>4 DEF HasRow, Columns, Rules
  <2>3. next = IF row[2] = "Contrato" THEN "buyer" ELSE "neighbors"
    BY <1>1, <1>2, <2>1, <2>2 DEF After, Branch
  <2>4. EntityGot(q.id, next, h)
    BY <1>1, <1>2, <2>1, <2>3 DEF EntityGot
  <2>. QED
    BY <2>3, <2>4 DEF Sound
<1>. QED
  BY <1>3, <1>4

(* When a buyer or a supplier is whole.                                    *)
LEMMA ShownOfOrganismo ==
  ASSUME NEW id, NEW g, NEW row, g["entity"].rows = {row}, row[2] = "Organismo",
         \/ Cardinality(g["neighbors"].rows) = NeighborsLimit
         \/ \A l \in Links : l[1] = id => <<l[3]>> \in g["neighbors"].rows
  PROVE  EntityShown(id, g)
PROOF
BY DEF EntityShown

LEMMA ShownOfEmpresa ==
  ASSUME NEW id, NEW g, NEW row, g["entity"].rows = {row}, row[2] = "Empresa",
         \/ Cardinality(g["neighbors"].rows) = NeighborsLimit
         \/ \A l \in Links : l[2] = id => <<l[3]>> \in g["neighbors"].rows
  PROVE  EntityShown(id, g)
PROOF
BY DEF EntityShown

LEMMA AfterParts ==
  ASSUME ContractsAnchored, TablesTyped,
         NEW q, q.op = "entity", NEW s \in {"neighbors", "buyer", "supplier", "entity_alerts"},
         NEW g, Sound(q, s, g), Pending \in Query(s, q, g),
         NEW res \in Taken(s), NEW h, h[s] = Used(s, res),
         \A x \in Stmts \ {s} : h[x] = g[x],
         NEW next \in After(s, h)
  PROVE  Sound(q, next, h)
PROOF
<1>1. res.kind = KindOf(s) /\ res.rows = Pending.rows /\ h[s] = res
  BY TakenKinds DEF Stmts, Single, Used
<1>2. PICK row \in EntityRows(q.id) :
        /\ g["entity"].kind = "entity" /\ g["entity"].rows = {row}
        /\ s \in {"buyer", "supplier"} => row[2] = "Contrato"
        /\ s = "neighbors" => row[2] # "Contrato"
  BY DEF Sound, EntityGot
<1>3. h["entity"] = g["entity"]
  BY DEF Stmts
<1>4. row[1] = q.id /\ row = <<q.id, row[2]>> /\ row[2] \in {"Organismo", "Empresa", "Contrato"}
  BY DEF EntityRows
<1>5. CASE s = "neighbors"
  <2>1. next = "entity_alerts"
    BY <1>1, <1>5 DEF After, Fits, Columns, KindOf
  <2>2. h["neighbors"].rows = Neighbors(q.id, row[2]) \/ Cardinality(h["neighbors"].rows) = NeighborsLimit
    BY <1>1, <1>2, <1>5, NeighborsFound
  <2>3. ASSUME row[2] = "Organismo" PROVE EntityShown(q.id, h)
    <3>1. \/ Cardinality(h["neighbors"].rows) = NeighborsLimit
          \/ \A l \in Links : l[1] = q.id => <<l[3]>> \in h["neighbors"].rows
      BY <2>2, <2>3, NeighborsWhole
    <3>2. h["entity"].rows = {row}
      BY <1>2, <1>3
    <3>. QED
      BY <2>3, <3>1, <3>2, ShownOfOrganismo
  <2>4. ASSUME row[2] = "Empresa" PROVE EntityShown(q.id, h)
    <3>1. \/ Cardinality(h["neighbors"].rows) = NeighborsLimit
          \/ \A l \in Links : l[2] = q.id => <<l[3]>> \in h["neighbors"].rows
      BY <2>2, <2>4, NeighborsWhole
    <3>2. h["entity"].rows = {row}
      BY <1>2, <1>3
    <3>. QED
      BY <2>4, <3>1, <3>2, ShownOfEmpresa
  <2>5. EntityShown(q.id, h)
    <3>1. row[2] \in {"Organismo", "Empresa"}
      BY <1>2, <1>4, <1>5
    <3>. QED
      BY <2>3, <2>4, <3>1
  <2>. QED
    BY <1>2, <1>3, <2>1, <2>5 DEF Sound, EntityGot
<1>6. CASE s = "buyer"
  <2>1. next = "supplier"
    BY <1>1, <1>6 DEF After, Fits, Columns, KindOf, Rules
  <2>2. h["buyer"].rows # {}
    BY <1>1, <1>2, <1>4, <1>6, EndsFound
  <2>. QED
    BY <1>2, <1>3, <1>6, <2>1, <2>2 DEF Sound, EntityGot
<1>7. CASE s = "supplier"
  <2>1. next = "entity_alerts"
    BY <1>1, <1>7 DEF After, Fits, Columns, KindOf, Rules
  <2>2. h["supplier"].rows # {}
    BY <1>1, <1>2, <1>4, <1>7, EndsFound
  <2>3. h["buyer"].rows # {}
    BY <1>7 DEF Sound, Stmts
  <2>4. EntityShown(q.id, h)
    BY <1>2, <1>3, <1>7, <2>2, <2>3 DEF EntityShown
  <2>. QED
    BY <1>2, <1>3, <2>1, <2>4 DEF Sound, EntityGot
<1>8. CASE s = "entity_alerts"
  <2>1. next = "answered"
    BY <1>1, <1>2, <1>3, <1>8 DEF After, End, Fits, Columns, KindOf
  <2>2. EntityShown(q.id, g)
    BY <1>8 DEF Sound
  <2>3. /\ h["entity"].rows = g["entity"].rows /\ h["neighbors"].rows = g["neighbors"].rows
        /\ h["buyer"].rows = g["buyer"].rows /\ h["supplier"].rows = g["supplier"].rows
    BY <1>8 DEF Stmts
  <2>4. EntityShown(q.id, h)
    BY <2>2, <2>3 DEF EntityShown
  <2>. QED
    BY <1>2, <1>3, <2>1, <2>4 DEF Sound, EntityGot
<1>. QED
  BY <1>5, <1>6, <1>7, <1>8

-----------------------------------------------------------------------------
LEMMA SameQueries ==
  ASSUME UNCHANGED tables
  PROVE  \A s, q, g : Query(s, q, g)' = Query(s, q, g)
PROOF
<1>1. organismo' = organismo /\ empresa' = empresa /\ contrato' = contrato /\ alerta' = alerta
  BY DEF tables
<1>. QED
  BY <1>1 DEF Query, AlertsWithId, EntityRows, HasKey, Neighbors, Links, Link, LinksAsked, Nodes

LEMMA SameSound ==
  ASSUME UNCHANGED tables
  PROVE  \A q, s, g : Sound(q, s, g)' = Sound(q, s, g)
PROOF
<1>1. organismo' = organismo /\ empresa' = empresa /\ contrato' = contrato /\ alerta' = alerta
  BY DEF tables
<1>. QED
  BY <1>1 DEF Sound, AlertsWithId, EntityGot, EntityRows, HasKey, EntityShown, Links, Link

(* Another request's step: what it does not cross stays as it was.         *)
LEMMA OthersReading ==
  ASSUME AnswersInv, NEW R \in SUBSET Readers, Crosses(R), NEW r \in R,
         ask'[r] = ask[r], at'[r] = at[r], sent'[r] = sent[r], got'[r] = got[r]
  PROVE  Reading(r)'
PROOF
<1>1. Reading(r)
  BY DEF AnswersInv
<1>2. SUFFICES ASSUME at'[r] # "idle", ~crossed'[r]
               PROVE  Sound(ask[r], at[r], got[r])' /\ ~sent'[r]
  BY <1>1 DEF Reading
<1>3. ~crossed[r] /\ ~sent[r] /\ UNCHANGED tables
  BY <1>2 DEF Crosses
<1>. QED
  BY <1>1, <1>2, <1>3, SameSound DEF Reading

Ops == {"alert", "alerts", "alerts_cc", "health", "entity", "graph"}

LEMMA OpsAsked ==
  ASSUME NEW q \in Questions
  PROVE  q.op \in Ops /\ First(q) \in StmtsOf(q.op) /\ StmtsOf(q.op) \subseteq Stmts
PROOF
BY QuestionsAssumption DEF Ops, First, StmtsOf, Stmts, GraphStmts

(* A handler only goes on to statements of its own.                        *)
LEMMA AfterStays ==
  ASSUME NEW op \in Ops, NEW s \in StmtsOf(op), NEW h, NEW next \in After(s, h)
  PROVE  next \in StmtsOf(op) \cup Ended
PROOF
<1>1. CASE op = "graph"
  BY <1>1, AfterGraph DEF StmtsOf, GraphStmts, Ended
<1>2. CASE op \in {"alert", "alerts", "alerts_cc"}
  BY <1>2 DEF StmtsOf, After, End, Ended
<1>3. CASE op = "health"
  BY <1>3 DEF StmtsOf, After, End, Ended
<1>4. CASE op = "entity"
  <2>1. CASE s = "entity"
    BY <1>4, <2>1 DEF StmtsOf, After, Branch, Ended
  <2>2. CASE s \in {"neighbors", "buyer", "supplier", "entity_alerts"}
    BY <1>4, <2>2 DEF StmtsOf, After, End, Ended
  <2>. QED
    BY <1>4, <2>1, <2>2 DEF StmtsOf
<1>. QED
  BY <1>1, <1>2, <1>3, <1>4 DEF Ops

(* What a request that nobody crosses does with what it fetched.           *)
LEMMA AfterSound ==
  ASSUME ContractsAnchored, TablesTyped,
         NEW q \in Questions, NEW s \in StmtsOf(q.op),
         NEW g, Sound(q, s, g), Pending \in Query(s, q, g),
         NEW res \in Taken(s), NEW h, h[s] = Used(s, res),
         \A x \in Stmts \ {s} : h[x] = g[x],
         NEW next \in After(s, h)
  PROVE  Sound(q, next, h)
PROOF
<1>1. q.op \in Ops
  BY OpsAsked
<1>3. CASE q.op = "alert"
  BY <1>3, AfterAlert DEF StmtsOf
<1>4. CASE q.op \in {"alerts", "alerts_cc", "health"}
  BY <1>4, AfterList DEF StmtsOf
<1>5. CASE q.op = "graph"
  BY <1>5, AfterGraphOwn DEF StmtsOf
<1>6. CASE q.op = "entity"
  <2>1. CASE s = "entity"
    BY <1>6, <2>1, AfterEntity
  <2>2. CASE s # "entity"
    <3>1. s \in {"neighbors", "buyer", "supplier", "entity_alerts"}
      BY <1>6, <2>2 DEF StmtsOf
    <3>. QED
      BY <1>6, <3>1, AfterParts
  <2>. QED
    BY <2>1, <2>2
<1>. QED
  BY <1>1, <1>3, <1>4, <1>5, <1>6 DEF Ops

(* An own result is no used-up one.                                        *)
LEMMA OwnIsThere ==
  ASSUME NEW s \in Stmts, NEW q, NEW g, Pending \in Query(s, q, g)
  PROVE  cursor # NoResult
PROOF
<1>1. Pending.kind = KindOf(s)
  BY QueryKinds
<1>2. KindOf(s) # "none"
  BY DEF KindOf, Stmts
<1>. QED
  BY <1>1, <1>2 DEF Pending, NoResult, NoRows, SomeRows

LEMMA FetchReading ==
  ASSUME ReadInvariant, AnswersInv, ContractsAnchored, TablesTyped, NEW r \in Readers, Fetch(r)
  PROVE  AnswersInv'
PROOF
<1>1. UNCHANGED ask /\ UNCHANGED tables /\ Crosses(Readers \ {r})
  BY DEF Fetch
<1>2. at[r] \in Stmts /\ sent[r] /\ sent' = [sent EXCEPT ![r] = FALSE]
  BY DEF Fetch
<1>3. ~sent'[r] /\ (~crossed'[r] => ~crossed[r])
  BY <1>1, <1>2 DEF ReadInvariant, ReadersTyped, Crosses
<1>4. ask[r] \in Questions /\ at[r] \in StmtsOf(ask[r].op) /\ ask[r].op \in Ops
  BY <1>2, OpsAsked DEF AnswersInv, Reading, Stmts, Ended
<1>5. CASE cursor = NoResult /\ UNCHANGED got /\ at' = [at EXCEPT ![r] = "failed"]
  <2>1. at'[r] = "failed" /\ \A x \in Readers \ {r} : at'[x] = at[x] /\ sent'[x] = sent[x]
    BY <1>2, <1>5 DEF ReadInvariant, ReadersTyped
  <2>2. crossed'[r]
    BY <1>2, <1>3, <1>5, OwnIsThere DEF AnswersInv, Reading, Stmts
  <2>3. Reading(r)'
    BY <1>1, <1>4, <2>1, <2>2 DEF Reading, Ended
  <2>. QED
    BY <1>1, <1>5, <2>1, <2>3, OthersReading DEF AnswersInv
<1>6. ASSUME NEW res \in Taken(at[r]),
             got' = [got EXCEPT ![r][at[r]] = Used(at[r], res)],
             NEW next \in After(at[r], got'[r]), at' = [at EXCEPT ![r] = next]
      PROVE  AnswersInv'
  <2> DEFINE h == [got[r] EXCEPT ![at[r]] = Used(at[r], res)]
  <2>1. got[r] = [s \in Stmts |-> got[r][s]] /\ got' = [got EXCEPT ![r] = h]
    BY <1>6 DEF ReadInvariant, ReadersTyped
  <2>2. got'[r] = h /\ next \in After(at[r], h) /\ at'[r] = next
    BY <1>6, <2>1 DEF ReadInvariant, ReadersTyped
  <2>3. ASSUME NEW x \in Readers \ {r} PROVE at'[x] = at[x] /\ sent'[x] = sent[x] /\ got'[x] = got[x]
    BY <1>2, <1>6, <2>1 DEF ReadInvariant, ReadersTyped
  <2>4. next \in StmtsOf(ask[r].op) \cup Ended
    BY <1>4, <2>2, AfterStays
  <2>5. ASSUME ~crossed'[r] PROVE Sound(ask[r], next, h)
    <3>1. Sound(ask[r], at[r], got[r]) /\ Pending \in Query(at[r], ask[r], got[r])
      BY <1>2, <1>3, <2>5 DEF AnswersInv, Reading, Stmts
    <3>2. h[at[r]] = Used(at[r], res) /\ \A x \in Stmts \ {at[r]} : h[x] = got[r][x]
      BY <1>2, <2>1
    <3>. HIDE DEF h
    <3>. QED
      BY <1>4, <2>2, <3>1, <3>2, AfterSound
  <2>6. Reading(r)'
    <3>. HIDE DEF h
    <3>. QED
      BY <1>1, <1>3, <1>4, <2>2, <2>4, <2>5, SameSound DEF Reading
  <2>. QED
    BY <1>1, <2>3, <2>6, OthersReading DEF AnswersInv
<1>. QED
  BY <1>5, <1>6 DEF Fetch

LEMMA ExecuteReading ==
  ASSUME ReadInvariant, AnswersInv, NEW r \in Readers, Execute(r)
  PROVE  AnswersInv'
PROOF
<1>1. /\ UNCHANGED <<ask, at, got>> /\ UNCHANGED tables /\ Crosses(Readers \ {r})
      /\ at[r] \in Stmts /\ sent' = [sent EXCEPT ![r] = TRUE]
  BY DEF Execute
<1>2. \A x \in Readers \ {r} : sent'[x] = sent[x]
  BY <1>1 DEF ReadInvariant, ReadersTyped
<1>3. PICK res \in Query(at[r], ask[r], got[r]) : Holds(res)
  BY DEF Execute
<1>4. Pending' \in Query(at[r], ask[r], got[r])
  BY <1>3, HeldIsPending
<1>5. ~crossed'[r] => ~crossed[r]
  BY <1>1 DEF ReadInvariant, ReadersTyped, Crosses
<1>6. Reading(r)'
  BY <1>1, <1>4, <1>5, SameSound, SameQueries DEF AnswersInv, Reading
<1>. QED
  BY <1>1, <1>2, <1>6, OthersReading DEF AnswersInv

LEMMA RefusedReading ==
  ASSUME ReadInvariant, AnswersInv, NEW r \in Readers, Refused(r)
  PROVE  AnswersInv'
PROOF
<1>1. /\ UNCHANGED <<ask, sent, got>> /\ UNCHANGED tables /\ Crosses(Readers \ {r})
      /\ at[r] = "nodes" /\ got[r]["links"].kind # "links" /\ at' = [at EXCEPT ![r] = "failed"]
  BY DEF Refused
<1>2. at'[r] = "failed" /\ \A x \in Readers \ {r} : at'[x] = at[x]
  BY <1>1 DEF ReadInvariant, ReadersTyped
<1>3. ask[r] \in Questions /\ ask[r].op = "graph"
  <2>1. ask[r] \in Questions /\ "nodes" \in StmtsOf(ask[r].op) /\ ask[r].op \in Ops
    BY <1>1, OpsAsked DEF AnswersInv, Reading, Ended
  <2>. QED
    BY <2>1 DEF StmtsOf, Ops
<1>4. crossed'[r]
  <2>1. crossed[r]
    BY <1>1, <1>3, QuestionsAssumption DEF ReadInvariant, GraphInv, UncrossedGraph, AsksGraph
  <2>. QED
    BY <1>1, <2>1 DEF Crosses
<1>5. Reading(r)'
  BY <1>1, <1>2, <1>3, <1>4 DEF Reading, Ended
<1>. QED
  BY <1>1, <1>2, <1>5, OthersReading DEF AnswersInv

LEMMA AskReading ==
  ASSUME ReadInvariant, AnswersInv, NEW r \in Readers, NEW q \in Questions, Ask(r, q)
  PROVE  AnswersInv'
PROOF
<1>1. /\ UNCHANGED tables /\ Pending' = Pending
      /\ ask' = [ask EXCEPT ![r] = q] /\ at' = [at EXCEPT ![r] = First(q)]
      /\ got' = [got EXCEPT ![r] = Nothing] /\ crossed' = [crossed EXCEPT ![r] = FALSE]
      /\ UNCHANGED sent /\ ~sent[r]
  BY DEF Ask, vars, Pending, ReadInvariant, ReadersTyped, Stmts, Ended
<1>2. ask'[r] = q /\ at'[r] = First(q) /\ ~sent'[r]
  BY <1>1 DEF ReadInvariant, ReadersTyped
<1>3. \A x \in Readers \ {r} :
        /\ ask'[x] = ask[x] /\ at'[x] = at[x] /\ sent'[x] = sent[x]
        /\ got'[x] = got[x] /\ crossed'[x] = crossed[x]
  BY <1>1 DEF ReadInvariant, ReadersTyped
<1>4. \A s, g : s \in {First(q)} => Sound(q, s, g)'
  <2>1. First(q) \in Stmts /\ (q.op = "entity" => First(q) = "entity") /\ (q.op = "alert" => First(q) = "alert")
    BY QuestionsAssumption DEF First, Stmts
  <2>. QED
    BY <2>1 DEF Sound, Stmts
<1>5. Reading(r)'
  BY <1>2, <1>4, OpsAsked DEF Reading
<1>6. ASSUME NEW x \in Readers \ {r} PROVE Reading(x)'
  BY <1>1, <1>3, SameSound, SameQueries DEF AnswersInv, Reading
<1>. QED
  BY <1>5, <1>6 DEF AnswersInv

LEMMA AnswersNext ==
  ASSUME ReadInvariant, AnswersInv, ContractsAnchored, TablesTyped, [RNext]_rvars
  PROVE  AnswersInv'
PROOF
<1>1. ASSUME UNCHANGED <<ask, at, sent, got>>, Crosses(Readers) PROVE AnswersInv'
  BY <1>1, OthersReading DEF AnswersInv
<1>2. ASSUME UNCHANGED reads, UNCHANGED tables, UNCHANGED cursor PROVE AnswersInv'
  <2>1. Pending' = Pending
    BY <1>2 DEF reads, Pending
  <2>. QED
    BY <1>2, <2>1, SameSound, SameQueries DEF reads, AnswersInv, Reading
<1>3. ASSUME NEW w \in Workers, Write(w) PROVE AnswersInv'
  BY <1>1, <1>3 DEF Write
<1>4. ASSUME NEW w \in Workers, Arrive(w), UNCHANGED reads PROVE AnswersInv'
  BY <1>2, <1>4 DEF Arrive, StartLoad, StartDetect, tables
<1>5. ASSUME RRestart PROVE AnswersInv'
  BY <1>5 DEF RRestart, AnswersInv, Reading
<1>6. ASSUME UNCHANGED rvars PROVE AnswersInv'
  BY <1>2, <1>6 DEF rvars, vars
<1>. QED
  BY <1>3, <1>4, <1>5, <1>6, FetchReading, ExecuteReading, RefusedReading, AskReading DEF RNext, Read

LEMMA AnswersHold == RSpec => []AnswersInv
PROOF
<1>1. RInit => AnswersInv
  BY DEF RInit, AnswersInv, Reading
<1>2. RInit => ReadInvariant
  BY DEF RInit, ReadInvariant, ReadersTyped, GraphInv, GraphClosed, Answered, AsksGraph, Ended, Nothing
<1>3. TypeOK => TablesTyped
  BY DEF TypeOK
<1>. QED
  BY <1>1, <1>2, <1>3, ReadInvNext, AnswersNext, ReadsKeepSpec, ReadsKeepAnchors, TypeCorrect, PTL DEF RSpec

(* A read never ends in a 500 of its own doing: only another request that  *)
(* used the connection between its execute and its fetch, or changed a     *)
(* table under it, can make it fail.                                       *)
THEOREM UncrossedReadsSucceed == RSpec => []UncrossedSucceed
PROOF
<1>1. AnswersInv => UncrossedSucceed
  BY DEF AnswersInv, Reading, Sound, UncrossedSucceed
<1>. QED
  BY <1>1, AnswersHold, PTL

(* GET /alerts/{id}, uncrossed, shows the alert with that id, and says 404 *)
(* only when the table has none.                                           *)
THEOREM AlertsFound == RSpec => []AlertFound
PROOF
<1>1. ASSUME AnswersInv, NEW r \in Readers, Answered(r, "alert")
      PROVE  \E a \in alerta : got[r]["alert"].rows = {a} /\ IdOf(a) = ask[r].id
  BY <1>1 DEF AnswersInv, Reading, Sound, Answered, AlertsWithId
<1>2. ASSUME AnswersInv, NEW r \in Readers, at[r] = "not_found", ~crossed[r], ask[r].op = "alert"
      PROVE  \A a \in alerta : IdOf(a) # ask[r].id
  BY <1>2 DEF AnswersInv, Reading, Sound, AlertsWithId
<1>3. AnswersInv => AlertFound
  BY <1>1, <1>2 DEF AlertFound
<1>. QED
  BY <1>3, AnswersHold, PTL

(* GET /entity/{id}, uncrossed, shows a contract with both its ends, and a *)
(* buyer or a supplier with all its contracts, up to LIMIT.                *)
THEOREM EntitiesWhole == RSpec => []EntityWhole
PROOF
<1>1. AnswersInv => EntityWhole
  BY DEF AnswersInv, Reading, Sound, EntityWhole, Answered
<1>. QED
  BY <1>1, AnswersHold, PTL

-----------------------------------------------------------------------------
(* The page goes with the connection's result.                             *)
PageKept ==
  /\ page = [kind |-> page.kind, rows |-> page.rows]
  /\ page # NoResult => page.kind # "none"
  /\ cursor \in {NoRows, SomeRows} <=> page # NoResult
  /\ cursor = NoRows <=> page # NoResult /\ page.rows = {}

LEMMA HoldsPage ==
  ASSUME NEW k, NEW S, k # "none" \/ S = {}, Holds([kind |-> k, rows |-> S])
  PROVE  PageKept'
PROOF
BY DEF Holds, PageKept, NoResult, CountResult, NoRows, SomeRows

(* What is left of a result has its columns.                               *)
LEMMA RestOf ==
  ASSUME NEW k, NEW S, NEW rest \in Rests([kind |-> k, rows |-> S])
  PROVE  \E T \in SUBSET S : rest = [kind |-> k, rows |-> T]
PROOF
<1>1. PICK T \in SUBSET S : rest = [[kind |-> k, rows |-> S] EXCEPT !.rows = T]
  BY DEF Rests
<1>2. rest = [kind |-> k, rows |-> T]
  BY <1>1
<1>. QED
  BY <1>2

(* No load and no detection leaves a result that could pass for a read's,  *)
(* but what its fetchone left of one.                                      *)
LEMMA ServeCursor ==
  ASSUME TypeOK, NEW w \in Workers, Serve(w)
  PROVE  cursor' \in Rests(cursor) \/ cursor' \notin {NoRows, SomeRows}
PROOF
<1>1. NoResult \notin {NoRows, SomeRows} /\ CountResult \notin {NoRows, SomeRows} /\ DmlResult \notin {NoRows, SomeRows}
  BY DEF NoResult, CountResult, DmlResult, NoRows, SomeRows
<1>2. \A F : FuentesResult(F) \notin {NoRows, SomeRows}
  BY DEF FuentesResult, NoRows, SomeRows
<1>3. \A r, fr : r \in Rules => RuleResult(r, fr) \notin {NoRows, SomeRows}
  BY DEF RuleResult, NoRows, SomeRows, Rules
<1>4. rule[w] \in Rules
  BY DEF TypeOK, RequestsTyped
<1>5. cursor \in Rests(cursor)
  <2>1. cursor \in Results
    BY DEF TypeOK
  <2>2. cursor = [cursor EXCEPT !.rows = cursor.rows]
    BY <2>1 DEF Results
  <2>. QED
    BY <2>2 DEF Rests
<1>6. CASE DeleteContrato(w) \/ DeleteAlerta(w) \/ DeleteEmpresa(w) \/ DeleteOrganismo(w)
  BY <1>1, <1>6 DEF DeleteContrato, DeleteAlerta, DeleteEmpresa, DeleteOrganismo, Wrote, FailLoad, Raise
<1>7. CASE NothingToInsert(w)
  BY <1>1, <1>7 DEF NothingToInsert, FailLoad, Raise
<1>8. CASE InsertOrganismo(w) \/ InsertEmpresa(w) \/ InsertContrato(w)
  <2>1. CASE InsertOrganismo(w)
    BY <1>1, <1>5, <2>1 DEF InsertOrganismo, RowDone
  <2>2. CASE InsertEmpresa(w)
    BY <1>1, <1>5, <2>2 DEF InsertEmpresa, RowDone
  <2>3. CASE InsertContrato(w)
    BY <1>1, <1>5, <2>3 DEF InsertContrato, RowDone, FailLoad, Raise
  <2>. QED
    BY <1>8, <2>1, <2>2, <2>3
<1>9. CASE Count(w) \/ FetchCount(w)
  <2>1. CASE Count(w)
    BY <1>1, <2>1 DEF Count
  <2>2. CASE FetchCount(w)
    <3>1. CASE ~HasRow(cursor)
      BY <1>1, <2>2, <3>1 DEF FetchCount
    <3>2. CASE HasRow(cursor)
      <4>1. FetchedOne
        BY <2>2, <3>2, Zenon DEF FetchCount
      <4>. QED
        BY <1>1, <4>1 DEF FetchedOne
    <3>. QED
      BY <3>1, <3>2
  <2>. QED
    BY <1>9, <2>1, <2>2
<1>10. CASE ListFuentes(w) \/ FetchFuentes(w)
  BY <1>1, <1>2, <1>10 DEF ListFuentes, FetchFuentes
<1>11. CASE CountTotal(w) \/ FetchTotal(w)
  BY <1>1, <1>11 DEF CountTotal, FetchTotal, FetchedOne, FailDetect, Raise
<1>12. CASE DeletePatron(w) \/ QueryRule(w) \/ FetchRule(w)
  BY <1>1, <1>3, <1>4, <1>12 DEF DeletePatron, QueryRule, FetchRule, Wrote
<1>13. CASE InsertAlert(w)
  BY <1>1, <1>13 DEF InsertAlert, Wrote, FailDetect, Raise
<1>14. CASE DetectReturns(w)
  BY <1>5, <1>14 DEF DetectReturns
<1>. QED
  BY <1>6, <1>7, <1>8, <1>9, <1>10, <1>11, <1>12, <1>13, <1>14 DEF Serve, Load, Detect

(* Nothing but a read's result leaves one.                                 *)
LEMMA OnlyReadsLeave ==
  ASSUME TypeOK, cursor \notin {NoRows, SomeRows}, NEW rest \in Rests(cursor)
  PROVE  rest \notin {NoRows, SomeRows}
PROOF
<1>1. cursor \in Results
  BY DEF TypeOK
<1>2. rest.kind = cursor.kind
  BY <1>1, RestsTyped
<1>3. cursor.kind # "other"
  BY <1>1 DEF Results, NoRows, SomeRows, Rules
<1>. QED
  BY <1>2, <1>3 DEF NoRows, SomeRows

(* A page is kept by every statement of a read.                            *)
LEMMA ReadPage ==
  ASSUME TypeOK, PageKept, NEW r \in Readers, Read(r)
  PROVE  PageKept'
PROOF
<1>1. ASSUME Holds(NoResult) PROVE PageKept'
  BY <1>1, HoldsPage DEF NoResult
<1>2. CASE Execute(r)
  <2>1. PICK res \in Query(at[r], ask[r], got[r]) : Holds(res)
    BY <1>2 DEF Execute
  <2>2. res = [kind |-> KindOf(at[r]), rows |-> res.rows]
    BY <1>2, QueryKinds DEF Execute
  <2>3. KindOf(at[r]) # "none"
    BY <1>2 DEF Execute, Stmts, KindOf
  <2>. QED
    BY <2>1, <2>2, <2>3, HoldsPage
<1>3. CASE Refused(r)
  BY <1>1, <1>3 DEF Refused
<1>4. CASE Fetch(r)
  <2>1. CASE Holds(NoResult)
    BY <1>1, <2>1
  <2>2. CASE \E rest \in Rests(Pending) : Leaves(rest)
    <3>1. PICK rest \in Rests(Pending) : Leaves(rest)
      BY <2>2
    <3>2. CASE cursor \in {NoRows, SomeRows}
      <4>1. Pending = [kind |-> page.kind, rows |-> page.rows] /\ page.kind # "none"
        BY <3>2 DEF Pending, PageKept
      <4>2. PICK T \in SUBSET page.rows : rest = [kind |-> page.kind, rows |-> T]
        BY <3>1, <4>1, RestOf
      <4>. QED
        BY <3>1, <3>2, <4>1, <4>2, HoldsPage DEF Leaves
    <3>3. CASE cursor \notin {NoRows, SomeRows}
      <4>1. cursor' = rest /\ page' = NoResult /\ rest \in Rests(cursor)
        BY <3>1, <3>3 DEF Leaves, Pending
      <4>2. cursor' \notin {NoRows, SomeRows}
        BY <3>3, <4>1, OnlyReadsLeave
      <4>. QED
        BY <4>1, <4>2 DEF PageKept, NoResult, NoRows, SomeRows
    <3>. QED
      BY <3>2, <3>3
  <2>. QED
    BY <1>4, <2>1, <2>2 DEF Fetch
<1>. QED
  BY <1>2, <1>3, <1>4 DEF Read

LEMMA PageNext ==
  ASSUME TypeOK, PageKept, [RNext]_rvars
  PROVE  PageKept'
PROOF
<1>1. ASSUME NEW w \in Workers, Write(w) PROVE PageKept'
  <2>1. CASE cursor' \in {NoRows, SomeRows}
    <3>1. page' \in Rests(page) /\ (page'.rows = {} <=> cursor' = NoRows)
      BY <1>1, <2>1 DEF Write
    <3>2. cursor \in {NoRows, SomeRows}
      BY <1>1, <2>1, ServeCursor, OnlyReadsLeave DEF Write
    <3>3. page = [kind |-> page.kind, rows |-> page.rows] /\ page.kind # "none"
      BY <3>2 DEF PageKept
    <3>4. PICK T \in SUBSET page.rows : page' = [kind |-> page.kind, rows |-> T]
      BY <3>1, <3>3, RestOf
    <3>. QED
      BY <2>1, <3>1, <3>3, <3>4 DEF PageKept, NoResult
  <2>2. CASE cursor' \notin {NoRows, SomeRows}
    <3>1. page' = NoResult
      BY <1>1, <2>2 DEF Write
    <3>. QED
      BY <2>2, <3>1 DEF PageKept, NoResult, NoRows, SomeRows
  <2>. QED
    BY <2>1, <2>2
<1>2. ASSUME UNCHANGED <<cursor, page>> PROVE PageKept'
  BY <1>2 DEF PageKept
<1>3. ASSUME NEW w \in Workers, Arrive(w), UNCHANGED reads PROVE PageKept'
  BY <1>2, <1>3 DEF Arrive, StartLoad, StartDetect, reads
<1>4. ASSUME NEW r \in Readers, Read(r) PROVE PageKept'
  BY <1>4, ReadPage
<1>5. ASSUME NEW r \in Readers, NEW q \in Questions, Ask(r, q) PROVE PageKept'
  BY <1>2, <1>5 DEF Ask, vars
<1>6. ASSUME RRestart PROVE PageKept'
  BY <1>6 DEF RRestart, Restart, Reopen, PageKept, NoResult, NoRows, SomeRows
<1>7. ASSUME UNCHANGED rvars PROVE PageKept'
  BY <1>2, <1>7 DEF rvars, vars, reads
<1>. QED
  BY <1>1, <1>3, <1>4, <1>5, <1>6, <1>7 DEF RNext

(* Every read stands at a statement of its request, only an executed one   *)
(* waits to be fetched, and the connection holds a read's result just when *)
(* page has one: no load and no detection leaves one that passes for it.   *)
THEOREM ReadsAreTyped == RSpec => []ReadsTyped
PROOF
<1>1. RInit => ReadInvariant
  BY DEF RInit, ReadInvariant, ReadersTyped, GraphInv, GraphClosed, Answered, AsksGraph, Ended, Nothing
<1>2. RInit => PageKept
  BY DEF RInit, Init, PageKept, NoResult, NoRows, SomeRows
<1>3. ReadInvariant /\ PageKept => ReadsTyped
  BY DEF ReadInvariant, ReadersTyped, PageKept, ReadsTyped
<1>. QED
  BY <1>1, <1>2, <1>3, ReadInvNext, PageNext, ReadsKeepSpec, ReadsKeepAnchors, TypeCorrect, PTL DEF RSpec

-----------------------------------------------------------------------------
(* What one thread that writes may rely on, beside any that read.          *)

(* Its alerts stay explained: a read may take a rule's result from it, or  *)
(* any part of one, but puts nothing into the tables.                      *)
THEOREM ReadsKeepAlerts == OneThread => (RSpec => []AlertsExplained)
PROOF
BY ReadsKeepSpec, AlertsTraceable, PTL

(* Nor do reads change what its requests are to somebody who only looks at *)
(* the slices and their alerts: whatever part of a result they take, what  *)
(* a detection stores is some of what the three rules find (Lossy), and a  *)
(* load is as whole as without them.                                       *)
THEOREM ReadsKeepCatalogue == OneThread => (RSpec => KeepsCatalogue)
PROOF
BY ReadsKeepSpec, CatalogueKept, PTL
===============================================================================
