----------------------------- MODULE MCPipeline -----------------------------
(* Two threads, of the API process or of both processes.                   *)
EXTENDS Pipeline, TLC

CONSTANTS api, worker, t1, t2

MCProcs == {api, worker}
MCThreads == {t1, t2}
MCHomes == {h \in [MCThreads -> MCProcs] : \E t \in MCThreads : h[t] = api}
MCSymmetry == Permutations(MCThreads)
MCTexts == <<"market", "market_action">>
=============================================================================
