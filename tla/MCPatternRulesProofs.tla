-------------------------- MODULE MCPatternRulesProofs -------------------------
(***************************************************************************)
(* The properties of the three rules, for every pool of contracts and all  *)
(* thresholds.                                                             *)
(***************************************************************************)
EXTENDS MCPatternRules, PatternRulesProofs

(* What a file of suppliers with a rut looks like: the rut is the          *)
(* supplier's id, and there is one row of empresa, with one name, under    *)
(* it.                                                                     *)
PoolIdentified ==
  /\ \A c \in Pool : c.prov = c.rut
  /\ \A c, d \in Pool : c.rut = d.rut => c.nombre = d.nombre

Inv == IsFiniteSet(contratos) /\ contratos \subseteq Pool

(* Contracts are inserted one by one: there are finitely many.             *)
LEMMA Inserted == Spec => []Inv
PROOF
<1>1. Init => Inv
  BY FS_EmptySet DEF Init, Inv
<1>2. Inv /\ [Next]_contratos => Inv'
  <2> SUFFICES ASSUME Inv, [Next]_contratos PROVE Inv'
    OBVIOUS
  <2>1. CASE \E c \in Pool : Insert(c)
    BY <2>1, FS_AddElement DEF Inv, Insert
  <2>2. CASE UNCHANGED contratos
    BY <2>2 DEF Inv
  <2>. QED
    BY <2>1, <2>2 DEF Next
<1>. QED
  BY <1>1, <1>2, PTL DEF Spec

-----------------------------------------------------------------------------
(* The plain INSERTs of one rule cannot clash with each other: the number  *)
(* of rows of a data frame is that of their keys.                          *)

LEMMA FrameFinite ==
  ASSUME Inv, NEW r \in Rules
  PROVE  IsFiniteSet(Frame(r))
PROOF
<1> DEFINE P == GroupsOf(r, contratos)
           F == [G \in P |-> RowOf(r, G)]
<1>1. P \subseteq SUBSET contratos
  BY GroupOfMembers
<1>2. IsFiniteSet(P)
  BY <1>1, FS_SUBSET, FS_Subset DEF Inv
<1>3. F \in Surjection(P, Frame(r))
  <2>1. Frame(r) = {RowOf(r, G) : G \in P}
    BY FrameOfGroups DEF Frame
  <2>. QED
    BY <2>1 DEF Surjection
<1>. QED
  <2> HIDE DEF F, P
  <2>. QED  BY <1>2, <1>3, FS_Surjection

THEOREM AlertsHaveKeys == PoolIdentified => (Spec => []KeysDistinct)
PROOF
<1> SUFFICES ASSUME PoolIdentified PROVE Spec => []KeysDistinct
  OBVIOUS
<1>1. Inv => KeysDistinct
  <2> SUFFICES ASSUME Inv, NEW r \in Rules
               PROVE  Cardinality(Keys(r)) = Cardinality(Frame(r))
    BY DEF KeysDistinct
  <2> DEFINE F == [row \in Frame(r) |-> row.key]
  <2>1. KeysTell(r, contratos)
    BY DEF Inv, PoolIdentified, KeysTell
  <2>2. \A x, y \in Frame(r) : x.key = y.key => x = y
    BY <2>1, KeysUnique DEF Frame
  <2>3. F \in Bijection(Frame(r), Keys(r))
    BY <2>2 DEF Bijection, Injection, IsInjective, Surjection, Keys
  <2>. QED
    <3> HIDE DEF F
    <3>. QED  BY <2>3, FrameFinite, FS_Bijection DEF ExistsBijection
<1>. QED
  BY <1>1, Inserted, PTL

-----------------------------------------------------------------------------
(* A row of P3 stays when contracts are added: its group only grows.       *)

LEMMA BuyersFinite ==
  ASSUME NEW G, IsFiniteSet(G)
  PROVE  IsFiniteSet(Buyers(G)) /\ Cardinality(Buyers(G)) \in Nat
PROOF
<1> DEFINE F == [c \in G |-> c.org]
<1>1. F \in Surjection(G, Buyers(G))
  BY DEF Surjection, Buyers
<1>. QED
  <2> HIDE DEF F
  <2>. QED  BY <1>1, FS_Surjection, FS_CardinalityType

LEMMA GroupsGrow ==
  ASSUME NEW C1, NEW D, C1 \subseteq D, IsFiniteSet(D), NEW x \in RuleFrame("multi-org", C1)
  PROVE  \E y \in RuleFrame("multi-org", D) : y.key = x.key
PROOF
<1> DEFINE r == "multi-org"
<1>1. r \in Rules
  BY DEF Rules
<1>2. PICK G \in GroupsOf(r, C1) : x = RowOf(r, G)
  BY FrameOfGroups
<1> DEFINE c == One(G)
           H == Group(r, D, c)
<1>3. c \in Selected(r, C1) /\ G = Group(r, C1, c) /\ Having(r, G)
  BY <1>1, <1>2, GroupOfMembers
<1>4. Selected(r, C1) \subseteq Selected(r, D) /\ Selected(r, D) \subseteq D
  BY DEF Selected, NamedOnly
<1>5. G \subseteq H /\ H \subseteq D
  BY <1>3, <1>4 DEF Group
<1>6. Buyers(G) \subseteq Buyers(H)
  BY <1>5 DEF Buyers
<1>7. Cardinality(Buyers(G)) <= Cardinality(Buyers(H))
  <2> HIDE DEF H
  <2>. QED  BY <1>5, <1>6, BuyersFinite, FS_Subset
<1>8. IsMultiOrg(H)
  <2>1. Cardinality(Buyers(G)) >= P3_THRESHOLD_ORGS
    BY <1>3 DEF Having, IsMultiOrg
  <2>2. Cardinality(Buyers(G)) \in Nat /\ Cardinality(Buyers(H)) \in Nat
    <3> HIDE DEF H
    <3>. QED  BY <1>3, <1>5, BuyersFinite, FS_Subset
  <2>. QED
    BY <1>7, <2>1, <2>2, ThresholdsAssumption DEF IsMultiOrg
<1>9. H \in GroupsOf(r, D)
  <2>1. Having(r, H) /\ c \in Selected(r, D)
    BY <1>3, <1>4, <1>8 DEF Having
  <2>. QED
    BY <1>1, <2>1, GroupIsThere
<1>10. One(H).rut = c.rut
  <2>1. One(H) \in H
    BY <1>1, <1>9, GroupOfMembers
  <2>. QED
    BY <2>1 DEF Group, Together
<1>11. RowOf(r, H).key = RowOf(r, G).key
  <2>1. KeyOf(r, G) = <<Null, One(G).rut>> /\ KeyOf(r, H) = <<Null, One(H).rut>>
    BY KeyOfOne
  <2>. QED
    <3> HIDE DEF H
    <3>. QED  BY <1>10, <2>1 DEF RowOf
<1>. QED
  BY <1>2, <1>9, <1>11, FrameOfGroups

(* For any contracts, with or without ruts.                                *)
THEOREM ListingsStay == Spec => MultiOrgMonotone
PROOF
<1>1. Inv' /\ [Next]_contratos => [Keys("multi-org") \subseteq Keys("multi-org")']_contratos
  <2> SUFFICES ASSUME Inv', Next, NEW k \in Keys("multi-org")
               PROVE  k \in Keys("multi-org")'
    OBVIOUS
  <2>1. contratos \subseteq contratos' /\ IsFiniteSet(contratos')
    BY DEF Next, Insert, Inv
  <2>2. PICK x \in RuleFrame("multi-org", contratos) : k = x.key
    BY DEF Keys, Frame
  <2>3. \E y \in RuleFrame("multi-org", contratos') : y.key = k
    BY <2>1, <2>2, GroupsGrow
  <2>4. Frame("multi-org")' = RuleFrame("multi-org", contratos')
    BY DEF Frame
  <2>5. Keys("multi-org")' = {row.key : row \in RuleFrame("multi-org", contratos')}
    BY <2>4 DEF Keys
  <2>. QED
    BY <2>3, <2>5
<1>. QED
  BY <1>1, Inserted, PTL DEF Spec, MultiOrgMonotone
===============================================================================
