---------------------------- MODULE MCRiskCache ----------------------------
(***************************************************************************)
(* Instances of RiskCache for TLC: one chain in two spellings, an address  *)
(* in each, a third address, on a chain whose name holds a colon, that has *)
(* the key of the first, and two environments, the second with an override *)
(* of the chain, an unsafe decision for unknown exposure and a TTL of      *)
(* zero.                                                                   *)
(***************************************************************************)
EXTENDS RiskCache, TLC

CONSTANTS eth, ETH, a1, a2

MCChains    == {<<eth>>, <<ETH>>, <<eth, a1>>}
MCToLower   == <<eth>> :> <<eth>> @@ <<ETH>> :> <<eth>> @@ <<eth, a1>> :> <<eth, a1>>
MCAddresses == {[address |-> <<a1, a2>>, chain |-> <<eth>>],
                [address |-> <<a1>>, chain |-> <<ETH>>],
                [address |-> <<a2>>, chain |-> <<eth, a1>>]}

Bare   == [block |-> {}, highRisk |-> {}, unknown |-> {}, perChain |-> <<>>]
Strict == [block |-> {}, highRisk |-> {60}, unknown |-> {"ALLOW"},
           perChain |-> <<[of |-> "block", chain |-> <<ETH>>, value |-> 20],
                          [of |-> "highRisk", chain |-> <<eth>>, value |-> 0]>>]

MCConfigs == {[env |-> Bare, ttl |-> 1, sanctionedTtl |-> 2],
              [env |-> Strict, ttl |-> 2, sanctionedTtl |-> 0]}

\* No score, one between the thresholds, and one at the default block threshold.
MCScores == {-1, 55, 90}
=============================================================================
