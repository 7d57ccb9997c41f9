------------------------------- MODULE Router -------------------------------
(***************************************************************************)
(* FluxRouter of runtime/src/http/mod.rs, as operators on a router value.  *)
(* `owner` is registered_paths together with the radix trees that are      *)
(* filled in step with it; `mounted` and `routes` are fluxcell_routes, the *)
(* table the trees are rebuilt from.  A path stands for method and path.   *)
(***************************************************************************)
EXTENDS Naturals, Sequences

CONSTANTS Names,        \* fluxcell names
          Paths,        \* routes: a method and a full path
          Nobody        \* owner of a path that no cell claims

ASSUME NobodyAssumption == Nobody \notin Names

RoutesIn(s) == {s[i] : i \in DOMAIN s}

Routers == [owner : [Paths -> Names \cup {Nobody}],
            mounted : SUBSET Names,
            routes : [Names -> Seq(Paths)]]

NewRouter == [owner |-> [p \in Paths |-> Nobody],
              mounted |-> {},
              routes |-> [n \in Names |-> <<>>]]

\* The positions of a route list that register_fluxcell_routes refuses: the
\* path is claimed, by whatever cell, the new one and this list included.
Blocked(r, list) ==
    {i \in DOMAIN list : \/ r.owner[list[i]] # Nobody
                         \/ \E j \in DOMAIN list : j < i /\ list[j] = list[i]}

RegisterOverwriting(r, n, list) ==
    [owner   |-> [p \in Paths |-> IF p \in RoutesIn(list) THEN n ELSE r.owner[p]],
     mounted |-> r.mounted \cup {n},
     routes  |-> [r.routes EXCEPT ![n] = list]]

\* Paths are claimed one by one; the first that is refused ends the call with
\* an error, and what was claimed before it stays claimed.
Register(r, n, list) ==
    LET blocked == Blocked(r, list)
        claimed == {list[i] : i \in {k \in DOMAIN list : \A j \in blocked : k < j}}
    IN [owner   |-> [p \in Paths |-> IF p \in claimed THEN n ELSE r.owner[p]],
        mounted |-> IF blocked = {} THEN r.mounted \cup {n} ELSE r.mounted,
        routes  |-> IF blocked = {} THEN [r.routes EXCEPT ![n] = list] ELSE r.routes]

\* rebuild_routers: clear the trees and register the listed cells again.  Their
\* routes are disjoint (Agrees below), so the order, a HashMap's, is immaterial.
Rebuild(r) ==
    LET claimants(p) == {n \in r.mounted : p \in RoutesIn(r.routes[n])} IN
    [r EXCEPT !.owner = [p \in Paths |-> IF claimants(p) = {} THEN Nobody
                                         ELSE CHOOSE n \in claimants(p) : TRUE]]

\* A cell that is not listed has nothing to remove, and nothing is rebuilt.
Unregister(r, n) ==
    IF n \in r.mounted
    THEN Rebuild([r EXCEPT !.mounted = @ \ {n}, !.routes = [@ EXCEPT ![n] = <<>>]])
    ELSE r

\* The listing agrees with dispatch: a listed cell gets all its own requests.
Agrees(r) ==
    \A n \in r.mounted : \A p \in RoutesIn(r.routes[n]) : r.owner[p] = n
=============================================================================
