------------------------------ MODULE MCGuest ------------------------------
(* GuestCells for TLC: two commands on one entity, k1 with an id of its own *)
(* and delivered up to twice.  The stamps of k1 and k2 are 99.9999 and      *)
(* 100.0001: the older one is the later string.                             *)
EXTENDS GuestCells, TLC
CONSTANTS w1, w2, d1, d2, k1, k2, e1, s1, s2, id1
MCWorkers == {w1, w2}
MCConns == {d1, d2}
MCCommands == {k1, k2}
MCEntities == {e1}
MCStamps == {s1, s2}
MCText == s1 :> 2 @@ s2 :> 1
MCClock ==
    [r \in {"rust", "typescript", "sql"} |-> s1 :> <<99, 9999>> @@ s2 :> <<100, 1>>]
MCEntityOf == k1 :> e1 @@ k2 :> e1
MCStampOf == k1 :> s1 @@ k2 :> s2
MCDeliveries == k1 :> 2 @@ k2 :> 1
MCScopes == {id1, "default"}
MCScopeOf == k1 :> id1 @@ k2 :> "default"
MCNoIds == k1 :> "default" @@ k2 :> "default"
=============================================================================
