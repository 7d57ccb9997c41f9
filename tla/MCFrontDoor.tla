---------------------------- MODULE MCFrontDoor ----------------------------
(* FrontDoor for TLC: two users and two tokens; three command ids, two  *)
(* of them traced earlier; texts one of which names a profile that nobody defined, and    *)
(* environments with and without an overriding provider.                    *)
EXTENDS FrontDoor, TLC
CONSTANTS u1, u2, t1, t2, c1, i1, i2, i3, a, b
MCUsers == {u1, u2}
MCTokens == {t1, t2}
MCCodes == {c1}
MCIds == {i1, i2, i3}
MCEarlier == <<i2, i3>>
MCTexts == {a, b}
MCReplicas == {1, 2}
MCStoreKeys == MCTokens \cup MCCodes \cup MCIds \cup {RecentIndex}
Section(provider, key, host) == [provider |-> provider, key |-> key, host |-> host]
MCSettings ==
    a :> [mailer |-> [default |-> Section("resend", TRUE, FALSE),
                      tenants |-> [acme |-> Section("smtp", FALSE, TRUE)]],
          cell |-> [profile |-> "extended", timeout |-> Unset, instances |-> Unset]] @@
    b :> [mailer |-> [default |-> Section("postal", FALSE, FALSE), tenants |-> <<>>],
          cell |-> [profile |-> "burst", timeout |-> Unset, instances |-> Unset]] @@
    Empty :> [mailer |-> [default |-> Section(Unset, FALSE, FALSE), tenants |-> <<>>],
              cell |-> [profile |-> "extended", timeout |-> Unset, instances |-> Unset]]
Plain == [parses |-> TRUE, flux |-> Unset, name |-> Unset, keyOf |-> Unset,
          host |-> FALSE, production |-> TRUE]
MCEnvironments == {Plain, [Plain EXCEPT !.parses = FALSE],
                   [Plain EXCEPT !.flux = "sendgrid", !.keyOf = "sendgrid"]}
MCArrivals == [t \in {"links", "traces", "control", "boot"}, turns \in BOOLEAN |->
                 IF t = "boot" THEN 0 ELSE IF t = "control" /\ turns THEN 3 ELSE 2]
MCTenants == {"acme"}
=============================================================================
