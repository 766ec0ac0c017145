------------------------- MODULE MCReclassification -------------------------
(***************************************************************************)
(* Instances of Reclassification for TLC: one address, one re-classifying  *)
(* event delivered twice, and screen calls of one or two transactions.     *)
(***************************************************************************)
EXTENDS Reclassification, TLC

CONSTANTS eth, a1, c1, c2, d1, d2, t1, t2, e1, id1

Eth       == <<eth>>
A1        == [address |-> <<a1>>, chain |-> Eth]
OneChain  == {Eth}
MCToLower == Eth :> Eth
OneAddress == {A1}
OneTx     == {<<t1>>}
TwoTxs    == {<<t1>>, <<t2>>}
MCThresholds == [block |-> 90, highRisk |-> 50, unknown |-> "MANUAL_REVIEW",
                 perChain |-> Eth :> [block |-> 0, highRisk |-> 0]]
ScoreAnswers == {[score |-> 10, exposure |-> ""], [score |-> 95, exposure |-> ""]}

OneEventAddress == e1 :> A1
OneEventId      == e1 :> id1

Symmetry == Permutations({c1, c2}) \cup Permutations({d1, d2}) \cup Permutations({t1, t2})
=============================================================================
