--------------------------- MODULE MCPluginRuntime ---------------------------
(* Two callback threads and the maintenance thread; a response of clauses    *)
(* that cite a belief, one of them twice.                                    *)
EXTENDS PluginRuntime, TLC

CONSTANTS h1, h2, h3, b1, k1, k2

MCEpisodes == 1..2
MCClauseAttr ==
  (k1 :> [says |-> b1, cites |-> {b1}, marked |-> FALSE, factual |-> TRUE]) @@
  (k2 :> [says |-> None, cites |-> {b1}, marked |-> TRUE, factual |-> FALSE])
MCTexts == {<<k1, k1, k2>>}
=============================================================================
