-------------------------- MODULE PatternRulesProofs ---------------------------
(***************************************************************************)
(* Lemmas about the grouped queries of PatternRules: a group is made of    *)
(* the rows that agree with any of its members, so the key of its alert    *)
(* says which group it is when suppliers are told apart by their rut.      *)
(***************************************************************************)
EXTENDS PatternRules, FiniteSetTheorems, WellFoundedInduction, TLAPS

-----------------------------------------------------------------------------
(* A finite set of numbers has a greatest one.                             *)

LEMMA MaxOfFinite ==
  ASSUME NEW S \in SUBSET Int, IsFiniteSet(S), S # {}
  PROVE  Max(S) \in S /\ \A s \in S : s <= Max(S)
PROOF
<1> DEFINE Above(m) == {s \in S : s > m}
           T == {Above(m) : m \in S}
<1>1. PICK x \in T : \A y \in T : ~ (<<y, x>> \in StrictSubsetOrdering(S))
  <2>1. IsWellFoundedOn(StrictSubsetOrdering(S), FiniteSubsetsOf(S))
    BY FS_StrictSubsetOrderingWellFounded
  <2>2. \A m \in S : Above(m) \in SUBSET S
    OBVIOUS
  <2>3. SUBSET S \subseteq FiniteSubsetsOf(S)
    BY FS_FiniteSubsetsOfFinite
  <2>4. T \subseteq FiniteSubsetsOf(S) /\ T # {}
    <3> HIDE DEF Above
    <3>. QED  BY <2>2, <2>3
  <2>. QED
    BY <2>1, <2>4, WFMin
<1>2. PICK m \in S : x = Above(m)
  BY <1>1
<1>3. Above(m) = {}
  <2>1. SUFFICES ASSUME NEW s \in Above(m) PROVE FALSE
    OBVIOUS
  <2>2. s \in S /\ s \in Int /\ m \in Int /\ s > m
    OBVIOUS
  <2>3. s \notin Above(s)
    BY <2>2
  <2>4. Above(s) \subseteq Above(m)
    <3>1. SUFFICES ASSUME NEW t \in Above(s) PROVE t \in Above(m)
      OBVIOUS
    <3>2. t \in S /\ t \in Int /\ t > s
      OBVIOUS
    <3>3. t > m
      <4> HIDE DEF Above
      <4>. QED  BY <2>2, <3>2
    <3>. QED  BY <3>2, <3>3
  <2>5. <<Above(s), Above(m)>> \in StrictSubsetOrdering(S)
    BY <2>2, <2>3, <2>4 DEF StrictSubsetOrdering
  <2>. QED
    BY <1>1, <1>2, <2>2, <2>5
<1>4. \A s \in S : m >= s
  BY <1>3
<1>. QED
  BY <1>4 DEF Max

-----------------------------------------------------------------------------
(* Groups.                                                                 *)

(* The rows that a rule's WHERE leaves.                                    *)
Selected(r, C) ==
  IF r = "fraccionamiento" THEN DatedOnly(NamedOnly(C)) ELSE NamedOnly(C)

(* A row of the same group as c.                                           *)
Together(r, c, d) ==
  /\ d.rut = c.rut /\ d.nombre = c.nombre
  /\ r = "fraccionamiento" => d.org = c.org /\ d.prov = c.prov

Group(r, C, c) == {d \in Selected(r, C) : Together(r, c, d)}

Having(r, G) ==
  CASE r = "recurrente"      -> IsRecurrente(G)
    [] r = "fraccionamiento" -> IsFraccionamiento(G)
    [] r = "multi-org"       -> IsMultiOrg(G)

(* The member that a group's key is read from.                             *)
One(G) == CHOOSE c \in G : TRUE

LEMMA GroupsAreGroups ==
  ASSUME NEW r \in Rules, NEW C
  PROVE  GroupsOf(r, C) = {G \in {Group(r, C, c) : c \in Selected(r, C)} : Having(r, G)}
PROOF
<1>1. CASE r = "recurrente"
  BY <1>1 DEF GroupsOf, BySupplier, Group, Together, Selected, Having
<1>2. CASE r = "fraccionamiento"
  <2> DEFINE N == DatedOnly(NamedOnly(C))
  <2>1. \A c \in N : Group(r, C, c) = {d \in N : d.org = c.org /\ d.prov = c.prov
                                                 /\ d.rut = c.rut /\ d.nombre = c.nombre}
    BY <1>2 DEF Group, Together, Selected
  <2>2. Selected(r, C) = N /\ GroupsOf(r, C) = {G \in ByBuyerAndSupplier(N) : IsFraccionamiento(G)}
    BY <1>2 DEF Selected, GroupsOf
  <2>3. ByBuyerAndSupplier(N) = {Group(r, C, c) : c \in N}
    <3> HIDE DEF N
    <3>. QED  BY <2>1 DEF ByBuyerAndSupplier
  <2>. QED
    BY <1>2, <2>2, <2>3 DEF Having
<1>3. CASE r = "multi-org"
  BY <1>3 DEF GroupsOf, BySupplier, Group, Together, Selected, Having
<1>. QED
  BY <1>1, <1>2, <1>3 DEF Rules

LEMMA GroupIsThere ==
  ASSUME NEW r \in Rules, NEW C, NEW c \in Selected(r, C), Having(r, Group(r, C, c))
  PROVE  Group(r, C, c) \in GroupsOf(r, C)
PROOF
BY GroupsAreGroups

(* A group is that of each of its members, and has one.                    *)
LEMMA GroupOfMembers ==
  ASSUME NEW r \in Rules, NEW C, NEW G \in GroupsOf(r, C)
  PROVE  /\ One(G) \in G
         /\ G \subseteq Selected(r, C) /\ Selected(r, C) \subseteq C
         /\ \A c \in G : G = Group(r, C, c)
         /\ Having(r, G)
PROOF
<1>1. PICK c \in Selected(r, C) : G = Group(r, C, c) /\ Having(r, G)
  BY GroupsAreGroups
<1>2. c \in G /\ G \subseteq Selected(r, C)
  BY <1>1 DEF Group, Together
<1>3. ASSUME NEW d \in G PROVE G = Group(r, C, d)
  BY <1>1, <1>3 DEF Group, Together
<1>4. Selected(r, C) \subseteq C
  BY DEF Selected, DatedOnly, NamedOnly
<1>. QED
  BY <1>1, <1>2, <1>3, <1>4 DEF One

(* Every row of a data frame comes from a group.                           *)
RowOf(r, G) == [key |-> KeyOf(r, G), evid |-> {c.id : c \in G}]

LEMMA FrameOfGroups ==
  ASSUME NEW r, NEW C
  PROVE  RuleFrame(r, C) = {RowOf(r, G) : G \in GroupsOf(r, C)}
PROOF
BY DEF RuleFrame, RowOf

LEMMA KeyOfOne ==
  ASSUME NEW r, NEW G
  PROVE  KeyOf(r, G) = IF r = "fraccionamiento" THEN <<One(G).org, One(G).prov>>
                                                ELSE <<Null, One(G).rut>>
PROOF
BY DEF KeyOf, One

(* The supplier says the rut and the name of a row, and for the rules      *)
(* whose key has the rut only, the rut says the name.                      *)
KeysTell(r, C) ==
  \A c, d \in C :
    /\ c.prov = d.prov => c.rut = d.rut /\ c.nombre = d.nombre
    /\ r # "fraccionamiento" /\ c.rut = d.rut => c.nombre = d.nombre

LEMMA KeyTellsGroup ==
  ASSUME NEW r \in Rules, NEW C, KeysTell(r, C),
         NEW G \in GroupsOf(r, C), NEW H \in GroupsOf(r, C), KeyOf(r, G) = KeyOf(r, H)
  PROVE  G = H
PROOF
<1>1. /\ One(G) \in C /\ G = Group(r, C, One(G))
      /\ One(H) \in C /\ H = Group(r, C, One(H))
  BY GroupOfMembers
<1>2. CASE r = "fraccionamiento"
  <2>1. One(G).org = One(H).org /\ One(G).prov = One(H).prov
    BY <1>2, KeyOfOne
  <2>2. One(G).rut = One(H).rut /\ One(G).nombre = One(H).nombre
    BY <1>1, <2>1 DEF KeysTell
  <2>. QED
    BY <1>1, <2>1, <2>2 DEF Group, Together
<1>3. CASE r # "fraccionamiento"
  <2>1. One(G).rut = One(H).rut
    BY <1>3, KeyOfOne
  <2>2. One(G).nombre = One(H).nombre
    BY <1>1, <1>3, <2>1 DEF KeysTell
  <2>. QED
    BY <1>1, <1>3, <2>1, <2>2 DEF Group, Together
<1>. QED
  BY <1>2, <1>3

(* No two rows of a data frame have the same key.                          *)
LEMMA KeysUnique ==
  ASSUME NEW r \in Rules, NEW C, KeysTell(r, C),
         NEW x \in RuleFrame(r, C), NEW y \in RuleFrame(r, C), x.key = y.key
  PROVE  x = y
PROOF
<1>1. PICK G \in GroupsOf(r, C) : x = RowOf(r, G)
  BY FrameOfGroups
<1>2. PICK H \in GroupsOf(r, C) : y = RowOf(r, H)
  BY FrameOfGroups
<1>3. KeyOf(r, G) = KeyOf(r, H)
  BY <1>1, <1>2 DEF RowOf
<1>. QED
  BY <1>1, <1>2, <1>3, KeyTellsGroup

(* P1 and P3 never report suppliers with the same rut, if it says the name.*)
LEMMA OneOrMany ==
  ASSUME NEW C, NEW x \in RuleFrame("recurrente", C), NEW y \in RuleFrame("multi-org", C),
         x.key = y.key,
         \A c, d \in C : c.rut = x.key[2] /\ d.rut = x.key[2] => c.nombre = d.nombre
  PROVE  FALSE
PROOF
<1>1. "recurrente" \in Rules /\ "multi-org" \in Rules
  BY DEF Rules
<1>2. PICK G \in GroupsOf("recurrente", C) : x = RowOf("recurrente", G)
  BY FrameOfGroups
<1>3. PICK H \in GroupsOf("multi-org", C) : y = RowOf("multi-org", H)
  BY FrameOfGroups
<1>4. /\ One(G) \in C /\ G = Group("recurrente", C, One(G)) /\ Having("recurrente", G)
      /\ One(H) \in C /\ H = Group("multi-org", C, One(H)) /\ Having("multi-org", H)
  BY <1>1, GroupOfMembers
<1>5. One(G).rut = x.key[2] /\ One(H).rut = x.key[2]
  BY <1>2, <1>3, KeyOfOne DEF RowOf
<1>6. One(G).nombre = One(H).nombre
  BY <1>4, <1>5
<1>7. G = H
  BY <1>4, <1>5, <1>6 DEF Group, Together, Selected
<1>8. Cardinality(Buyers(G)) = 1 /\ Cardinality(Buyers(G)) >= P3_THRESHOLD_ORGS
  BY <1>4, <1>7 DEF Having, IsRecurrente, IsMultiOrg
<1>. QED
  BY <1>8, ThresholdsAssumption
===============================================================================
