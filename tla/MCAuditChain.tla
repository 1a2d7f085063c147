----------------------------- MODULE MCAuditChain -----------------------------
(***************************************************************************)
(* A small instance of AuditChain: the application runs with its first     *)
(* key, then with a second one while the first stays in the ring, or is    *)
(* forgotten, or comes back with another secret under the old id.          *)
(***************************************************************************)
EXTENDS AuditChain, TLC

CONSTANTS w1, w2, e1, e2, e3, k1, k2, s1, s2

MCConfigs == { [kid |-> k1, secret |-> s1, ring |-> {}],
               [kid |-> k2, secret |-> s2, ring |-> {<<k1, s1>>}],
               [kid |-> k2, secret |-> s2, ring |-> {}],
               [kid |-> k1, secret |-> s2, ring |-> {<<k1, s1>>, <<k2, s2>>}] }
MCIds == 1 .. 4
Symmetry == Permutations({w1, w2}) \cup Permutations({e1, e2, e3})
=============================================================================
