-------------------------- MODULE MCDeferredResolver --------------------------
(* TLC instance of DeferredResolver: two tools, two goroutines in Resolve. *)
EXTENDS DeferredResolver, TLC

CONSTANTS t1, t2, a, b, c

MCCapsOf == (t1 :> <<a>>) @@ (t2 :> <<b, c>>)
MCFallback == {{}, {c}}
MCHints == {{}, {b}}

Symmetry == Permutations(Resolvers)
=============================================================================
