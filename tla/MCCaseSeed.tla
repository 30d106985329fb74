------------------------------ MODULE MCCaseSeed ------------------------------
(***************************************************************************)
(* Files of N rows for CaseSeed: with and without flaws.                   *)
(***************************************************************************)
EXTENDS CaseSeed, TLC

CONSTANTS w1, w2

Row(bad, nameless, reported, grave) ==
  [bad |-> bad, nameless |-> nameless, reported |-> reported, grave |-> grave]

(* No flaw, with a case that is not reported and one without a keyword;    *)
(* the second amount is text; the last case has no name.                   *)
SomeFiles ==
  {Row({}, {}, {1, 2, 3}, {1, 3}), Row({}, {}, {1, 2}, {1, 2}),
   Row({2}, {}, {1, 2, 3}, {1, 2, 3}), Row({}, {3}, {1, 2, 3}, {2})}

FlawlessFiles == {Row({}, {}, {1, 2}, {1, 2})}

AllResults == {NoResult, EmptyResult, OtherRows}

Threads == Permutations({w1, w2})
===============================================================================
