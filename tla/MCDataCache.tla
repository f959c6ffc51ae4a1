---------------------------- MODULE MCDataCache ----------------------------
(* Model checking DataCache: one thread of the API process, one of the     *)
(* worker.  The two run the same code: exchanging them, each with its      *)
(* thread, is a symmetry.                                                  *)
EXTENDS DataCache, TLC

CONSTANTS api, worker, a1, w1

HomeOf == (a1 :> api) @@ (w1 :> worker)
Mirror ==
    {p @@ (IF p[api] = api THEN (a1 :> a1) @@ (w1 :> w1) ELSE (a1 :> w1) @@ (w1 :> a1)) :
        p \in Permutations({api, worker})}
=============================================================================
