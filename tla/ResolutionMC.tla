---------------------------- MODULE ResolutionMC ----------------------------
(* A price, a token's supply, a datanet's approval and a chain nobody reads. *)
EXTENDS Resolution, TLC

CONSTANTS spot, supply, votes, dark, s1, s2, coinbase, kraken, datanet

Of(source, metric, operator, threshold, confidence, deadline) ==
    [source |-> source, metric |-> metric, operator |-> operator, threshold |-> threshold,
     numeric |-> TRUE, confidence |-> confidence, deadline |-> deadline]

MCPrediction ==
    (spot :> Of([kind |-> "price", parses |-> TRUE], "spot", "gt", 100, 80, 0)) @@
    (supply :> Of([kind |-> "chain", chain |-> 1, address |-> TRUE],
                  "erc20_total_supply", "gte", 5000000, 60, 0)) @@
    (votes :> Of([kind |-> "reppo"], "corpus_approval_rate", "lt", 50, 70, 1)) @@
    (dark :> Of([kind |-> "chain", chain |-> 2, address |-> TRUE],
                "block_number", "gt", 1, 50, 0))

\* Two rows that one limit takes, and three that it does not.
MCTables == {{supply, votes}, {spot, votes, dark}}

MCEndpoints == 1 :> {"rpc"}

\* Two venues a percent apart agree, ten percent apart they do not; a venue
\* that answers 0 has not answered.
MCPriceReplies == {Fault, 0, 100, 102, 120}

MCChainReplies == {Fault, Empty, 49, 50}

MCDecimalsReplies == {Fault, Empty, 1, 77}

MCCurationReplies == {<<>>, << <<>> >>,
                      <<datanet :> [up |-> 3, down |-> 1]>>, <<datanet :> [up |-> 1, down |-> 3]>>}

Twins == Permutations({s1, s2})
=============================================================================
