----------------------------- MODULE MCRateLimit -----------------------------
(* An instance of RateLimit for TLC: two clients and two proxies; requests that     *)
(* passed both, one or none of them, with and without a header of their own; every  *)
(* kind of setting, the right number of proxies and wrong ones.                     *)
EXTENDS RateLimit, TLC
CONSTANTS a1, a2
MCPresent == {<<>>, <<a1>>, <<a2>>}
MCEnvironment == [production : {TRUE}, hops : {Unset, Invalid, 0, 1, 2, 3}, global : {FALSE}]
                   \cup {[production |-> FALSE, hops |-> Invalid, global |-> FALSE],
                         [production |-> FALSE, hops |-> Unset, global |-> TRUE]}
Symmetry == Permutations(Addr)
==============================================================================
