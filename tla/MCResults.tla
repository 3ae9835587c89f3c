----------------------------- MODULE MCResults -----------------------------
(* A small instance of Results for TLC: every dump of at most MaxLen       *)
(* entries over SomeEntries, whose sizes collide, whose element counts sit *)
(* on the level boundaries, and whose keys share prefixes across types.    *)
EXTENDS Results

CONSTANT MaxLen

E(t, b, n, ns, s) == [type |-> t, bytes |-> b, elems |-> n, names |-> ns, slot |-> s]

SomeEntries ==
    {E("string", 1, 100, {1}, 0),
     E("string", 2, 101, {1, 2}, 1),
     E("hash",   2, 1000, {1, 2}, 0),
     E("hash",   2, 1001, {3}, 1),
     E("hash",   3, 1000001, {}, NoSlot)}

SmallInputs == UNION {[1 .. n -> SomeEntries] : n \in 0 .. MaxLen}
=============================================================================
