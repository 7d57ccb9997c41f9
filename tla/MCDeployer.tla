----------------------------- MODULE MCDeployer -----------------------------
(* Deployer for TLC: two workers, two names, and two builds whose routes    *)
(* overlap in one path, so that one can be refused halfway.                 *)
EXTENDS Deployer, TLC
CONSTANTS a, b, p, q, s1, s2, w1, w2
MCNames == {a, b}
MCPaths == {p, q}
MCWorkers == {w1, w2}
MCShas == {s1, s2}
MCOffers == {[sha |-> s1, routes |-> <<p>>], [sha |-> s2, routes |-> <<q, p>>]}
\* A build whose metadata lists one route twice: nothing refuses it.
MCRepeated == {[sha |-> s1, routes |-> <<p>>], [sha |-> s2, routes |-> <<q, q>>]}
MCBootOrder == <<a, b>>
MCSymmetry == Permutations(MCWorkers)
=============================================================================
