---------------------------- MODULE MCScreening ----------------------------
(***************************************************************************)
(* Instances of Screening for TLC: thresholds 50 and 90, and answers on    *)
(* both sides of them, with and without a named exposure; texts without    *)
(* colons, or, in the instance Colliding, with a colon where two requests  *)
(* come to share a key.                                                    *)
(***************************************************************************)
EXTENDS Screening, TLC

CONSTANTS eth, a1, a2, c1, c2, c3, t1, t2

Eth == <<eth>>
EthAddress(a) == [address |-> <<a>>, chain |-> Eth]

OneChain      == {Eth}
OneToLower    == Eth :> Eth
OneAddress    == {EthAddress(a1)}
TwoAddresses  == {EthAddress(a1), EthAddress(a2)}
TwoTxs        == {<<t1>>, <<t2>>}
MCThresholds  == [block |-> 90, highRisk |-> 50, unknown |-> "MANUAL_REVIEW",
                  perChain |-> [c \in Chains |-> [block |-> 0, highRisk |-> 0]]]

\* The transaction t1 with three addresses, "a1:a2" on "eth", "a1" on "a2:eth" and
\* "a2" on "eth:a1": the first two share an idempotency key, the first and the last
\* a cache key.  On the chain a2:eth more is blocked than on the others.
CollidingAddresses ==
    {[address |-> <<a1, a2>>, chain |-> Eth],
     [address |-> <<a1>>, chain |-> <<a2, eth>>],
     [address |-> <<a2>>, chain |-> <<eth, a1>>]}
CollidingChains  == {a.chain : a \in CollidingAddresses}
CollidingToLower == [c \in CollidingChains |-> c]
CollidingThresholds ==
    [MCThresholds EXCEPT !.perChain[<<a2, eth>>] = [block |-> 10, highRisk |-> 0]]
OneTx == {<<t1>>}

\* A score only, below and above the block threshold.
ScoreAnswers == {[score |-> 10, exposure |-> ""], [score |-> 95, exposure |-> ""]}

\* A score only, and a named exposure that overrides the score.
MixedAnswers == {[score |-> 95, exposure |-> ""], [score |-> 60, exposure |-> "CLEAN"]}

CallSymmetry   == Permutations({c1, c2, c3})
CallTxSymmetry == CallSymmetry \cup Permutations({t1, t2})

\* Both addresses are on the same chain.
FullSymmetry == CallTxSymmetry \cup Permutations({a1, a2})
=============================================================================
