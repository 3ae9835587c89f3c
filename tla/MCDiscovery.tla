---------------------------- MODULE MCDiscovery ----------------------------
(* Two sets that share a namespace, for TLC.                               *)
EXTENDS Discovery, TLC

CONSTANTS s1, s2, n1

SomeSets == {s1, s2}

SharedNamespace == [s \in SomeSets |-> n1]

Interchangeable == Permutations(Requests)
=============================================================================
