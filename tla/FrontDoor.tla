----------------------------- MODULE FrontDoor -----------------------------
(***************************************************************************)
(* A chassis from its start to its crash, and what reaches it from outside *)
(* (runtime/src/runner.rs, http/handlers/dispatch.rs): it loads its        *)
(* configuration, opens its storage, migrates its database and loads its   *)
(* cells; then it serves requests and events, each handler a sequence of   *)
(* steps that interleaves with all the others.  A crash cuts them off      *)
(* anywhere.  Another replica may start on the same database.              *)
(*                                                                         *)
(* traffic says which requests come.  One chassis serves all of them; they *)
(* are kept apart for the model checker, which the parts of the state that *)
(* they share (the store, the requests) hardly need.                       *)
(***************************************************************************)
EXTENDS TraceStore, SignIn, ControlPlane, Migrations, FiniteSets

CONSTANTS Main,         \* the replica that serves
          DefaultEnvironment,
          MaxArrivals,  \* bound: requests, by traffic and inTurns
          MaxMishaps    \* bound: crashes, expired keys and edits of the file

\* The keys of tokens and codes, of traces and of their index have prefixes of
\* their own; tokens and codes differ in length, nobody minted a guess, and what is
\* not there is neither a user nor a text nor the number of a request.
ASSUME FrontDoorAssumption ==
    /\ StoreKeys = LinkKeys \cup Ids \cup {RecentIndex}
    /\ LinkKeys \cap Ids = {} /\ RecentIndex \notin LinkKeys \cup Ids
    /\ Tokens \cap Codes = {} /\ Guess \notin StoreKeys /\ NoValue \notin Users
    /\ Main \in Replicas /\ NoValue \notin Texts \cup {Empty} /\ NoValue \notin Nat
    /\ LogCapacity \in Nat /\ MaxMishaps \in Nat

VARIABLES phase,        \* how far each replica's start_server has come
          traffic,      \* setting
          mishaps

chassis == <<phase, traffic, mishaps>>
vars == <<kv, medium, req, logs, memory, signIn, control, migrations, chassis>>

Phases == {"down", "storage", "database", "migrating", "cells", "serving"}

KindsOf(t) ==
    CASE t = "links"   -> {"verify"}
      [] t = "traces"  -> {"cell", "trace", "traces"}
      [] t = "control" -> {"update", "reload"}
      [] t = "boot"    -> {}

\* Configurations under which a mail can leave.
Mailing ==
    {t \in Texts : "sent" \in SendOutcomes(
        GetConfig(Registry(DefaultEnvironment, SettingsOf[t].mailer), Unset),
        DefaultEnvironment)}

Init ==
    /\ KeyValueInit(LeftByEarlier) /\ HttpInit /\ TraceInit /\ SignInInit /\ ControlInit
    /\ MigrationsInit
    /\ phase = [c \in Replicas |-> "down"]
    /\ traffic \in {"links", "traces", "control", "boot"}
    /\ mishaps = 0
    \* What the traffic does not depend on is not varied.
    /\ traffic \in {"control", "boot"} => medium = "memory"
    /\ traffic # "control" =>
         inTurns /\ configured = DefaultPath /\ environment = DefaultEnvironment
    /\ traffic = "control" => environment # DefaultEnvironment
    /\ traffic \in {"traces", "boot"} => files[configured] = NoValue
    /\ traffic = "links" => files[configured] \in Mailing

Serving == phase[Main] = "serving"
Mishap == mishaps < MaxMishaps /\ mishaps' = mishaps + 1

-----------------------------------------------------------------------------
(* start_server *)

Enter(c, next) == phase' = [phase EXCEPT ![c] = next]

Boot(c) ==
    /\ phase[c] = "down"
    /\ c = Main \/ traffic = "boot"
    /\ Enter(c, "storage")
    /\ IF c = Main
       THEN /\ dynamic' = Booted
            /\ logs' = RecordLog(0)
       ELSE UNCHANGED <<dynamic, logs>>
    /\ synced' = FALSE
    /\ UNCHANGED <<kv, medium, req, memory, signIn, files, writing, configured,
                   environment, inTurns, acked, migrations, traffic, mishaps>>

\* Storage that does not open ends the process.
OpenStorage(c) ==
    /\ phase[c] = "storage"
    /\ \/ /\ Enter(c, "database")
          /\ IF c = Main
             THEN /\ Reopen
                  /\ logs' = RecordLog(logs)
             ELSE UNCHANGED <<kv, logs>>
       \/ Enter(c, "down") /\ UNCHANGED <<kv, logs>>
    /\ spent' = spent \cup {k \in LinkKeys : Holds(k) /\ kv'[k] = NoValue}
    /\ UNCHANGED <<medium, req, memory, mint, mails, unused, fresh, control, migrations,
                   traffic, mishaps>>

\* A database, if one is configured; its migrations may fail, which is logged.
OpenDatabase(c) ==
    /\ phase[c] = "database"
    /\ IF traffic = "boot" THEN Enter(c, "migrating") /\ BeginMigrations(c)
       ELSE Enter(c, "cells") /\ UNCHANGED migrations
    /\ UNCHANGED <<kv, medium, req, logs, memory, signIn, control, traffic, mishaps>>

RunMigrations(c) ==
    /\ phase[c] = "migrating"
    /\ Migrate(c)
    /\ UNCHANGED <<kv, medium, req, logs, memory, signIn, control, chassis>>

LoseMigrations(c) ==
    /\ phase[c] = "migrating"
    /\ MigrationFails(c)
    /\ UNCHANGED <<kv, medium, req, logs, memory, signIn, control, chassis>>

Migrated(c) ==
    /\ phase[c] = "migrating" /\ Migrating(c, "ended")
    /\ Enter(c, "cells")
    /\ UNCHANGED <<kv, medium, req, logs, memory, signIn, control, migrations,
                   traffic, mishaps>>

\* The configured cell: if its module is there and its settings do not resolve,
\* the process ends.
LoadCells(c) ==
    /\ phase[c] = "cells"
    /\ \/ Enter(c, "serving") /\ UNCHANGED migrations
       \/ /\ ~Resolves(DefaultProfiles, SettingsOf[dynamic.text].cell)
          /\ Enter(c, "down") /\ ForgetMigrator(c)
    /\ UNCHANGED <<kv, medium, req, logs, memory, signIn, control, traffic, mishaps>>

Start(c) ==
    \/ OpenStorage(c) \/ OpenDatabase(c) \/ RunMigrations(c) \/ Migrated(c)
    \/ LoadCells(c)

\* Everything in memory is gone, and every request that was in flight.
CutOff == [r \in Requests |->
             IF InFlight(r) THEN Answered(r) ELSE req[r]]
Crash(c) ==
    /\ phase[c] # "down"
    /\ Mishap
    /\ Enter(c, "down")
    /\ ForgetMigrator(c)
    /\ IF c = Main
       THEN /\ req' = CutOff
            /\ logs' = 0
            /\ mint' = NoMint
            /\ ForgetTraces /\ ForgetWriters
       ELSE UNCHANGED <<req, logs, mint, memory, writing>>
    /\ UNCHANGED <<kv, medium, mails, unused, fresh, spent, files, dynamic,
                   configured, environment, inTurns, synced, acked, traffic>>

-----------------------------------------------------------------------------
(* handle_request and handle_fluxcell_dispatch *)

\* option: an update's reload, a listing's limit.
Arguments(kind) ==
    CASE kind = "trace"  -> Ids
      [] kind = "update" -> Texts \cup {Malformed}
      [] OTHER           -> {NoValue}

Arrive(r, kind) ==
    /\ Serving
    /\ r <= MaxArrivals[traffic, inTurns] /\ kind \in KindsOf(traffic)
    /\ inTurns => \A q \in Requests : ~Admin(q)
    /\ \E arg \in Arguments(kind), option \in {TRUE, kind \notin {"update", "traces"}} :
         Receive(r, kind, arg, option)
    /\ UNCHANGED <<kv, medium, logs, memory, signIn, control, migrations, chassis>>

\* What a body says, and who typed it: a command id, a key from a mail, a guess.
Bodies(kind) ==
    IF kind = "cell" THEN Ids \X {NoValue} ELSE mails \cup {<<Guess, NoValue>>}

\* The answer, and the task that records its trace, which nobody awaits.
Answer(r, id, logged) ==
    /\ req' = [req EXCEPT ![r] = [Answered(r) EXCEPT !.arg = id]]
    /\ logs' = IF logged THEN RecordLog(logs) ELSE logs
    /\ IF traffic = "traces" THEN Spawn(r) ELSE UNCHANGED task
    /\ UNCHANGED <<recent, traces, indexed, unsaved>>

Traced(id) == IF traffic = "traces" THEN id ELSE NoValue

\* The body is read and the route looked up: a body that cannot be read (400) and
\* an error of the router (500) leave no trace, no route (404) and the wrong
\* method (405) do, and the first of these is logged.
Lookup(r) ==
    /\ At(r, "body")
    /\ \/ Reply(r) /\ UNCHANGED <<logs, memory>>
       \/ \E body \in Bodies(req[r].kind) :
            \/ /\ req' = [req EXCEPT ![r].pc = "invoke", ![r].arg = body[1],
                                     ![r].who = body[2]]
               /\ UNCHANGED <<logs, memory>>
            \/ \E logged \in BOOLEAN : Answer(r, Traced(body[1]), logged)

\* dispatch_with_spans: the guest answers, if the cell is registered; if it is
\* not, or fails, the built-in of that name does, if there is one (Redeem).
Invoke(r) ==
    /\ At(r, "invoke") /\ req[r].kind = "cell"
    /\ Answer(r, Traced(req[r].arg), TRUE)

Finish(r) == At(r, "finish") /\ Answer(r, NoValue, TRUE)

Dispatch(r) ==
    /\ \/ /\ Lookup(r) \/ Invoke(r) \/ Finish(r)
          /\ UNCHANGED <<kv, signIn>>
       \/ /\ Redeem(r)
          /\ UNCHANGED <<logs, memory>>
    /\ UNCHANGED <<medium, control, migrations, chassis>>

ServeAdmin(r) ==
    /\ Administer(r)
    /\ logs' = IF At(r, "store") THEN RecordLog(logs) ELSE logs
    /\ UNCHANGED <<kv, medium, memory, signIn, migrations, chassis>>

ServeTraces(r) ==
    /\ ReadTraces(r)
    /\ UNCHANGED <<kv, medium, logs, signIn, control, migrations, chassis>>

Handle(r) == Dispatch(r) \/ ServeAdmin(r) \/ ServeTraces(r)

Record(r) ==
    /\ RecordTrace(r)
    /\ UNCHANGED <<medium, req, logs, signIn, control, migrations, chassis>>

-----------------------------------------------------------------------------
(* Events, and what happens by itself *)

MailerConfig(tenant) == GetConfig(Registry(environment, MailerSection), tenant)

HandleEvent ==
    /\ \/ StoreToken \/ StoreCode
       \/ \E tenant \in Tenants \cup {Unset} : SendMail(MailerConfig(tenant), environment)
    /\ logs' = IF mint.pc = "mail" THEN RecordLog(logs) ELSE logs
    /\ UNCHANGED <<medium, req, memory, control, migrations, chassis>>

Ask(user) ==
    /\ Serving /\ traffic = "links"
    /\ Mint(user)
    /\ UNCHANGED <<kv, medium, req, logs, memory, control, migrations, chassis>>

Expire(k) ==
    /\ Mishap
    /\ traffic \in {"links", "traces"} /\ (traffic = "links" <=> k \in LinkKeys)
    /\ ExpireKey(k)
    /\ spent' = IF k \in LinkKeys THEN spent \cup {k} ELSE spent
    /\ unsaved' = IF k \in Ids THEN unsaved \cup {k} ELSE unsaved
    /\ UNCHANGED <<medium, req, logs, recent, traces, task, indexed, mint, mails,
                   unused, fresh, control, migrations, phase, traffic>>

Edit(text) ==
    /\ traffic = "control"
    /\ Mishap
    /\ inTurns => \A q \in Requests : ~Admin(q)
    /\ EditFile(text)
    /\ UNCHANGED <<kv, medium, req, logs, memory, signIn, migrations, phase, traffic>>
-----------------------------------------------------------------------------
Next ==
    \/ \E c \in Replicas : Boot(c) \/ Start(c) \/ LoseMigrations(c) \/ Crash(c)
    \/ \E r \in Requests : \/ \E kind \in KindsOf(traffic) : Arrive(r, kind)
                          \/ Handle(r) \/ Record(r)
    \/ \E user \in Users : Ask(user)
    \/ HandleEvent
    \/ \E k \in StoreKeys : Expire(k)
    \/ \E text \in Texts \cup {Malformed} : Edit(text)

Spec == Init /\ [][Next]_vars

\* What somebody else decides: a client sends its body whenever it likes, and a
\* guest may wait for a connection of the pool.  The server sets no timeout for
\* either, so a request may stay there for ever.
Waits(r) ==
    \/ At(r, "body")
    \/ At(r, "authorize") /\ req[r].kind = "update"
    \/ At(r, "invoke") /\ req[r].kind = "cell"

\* The runtime runs handlers and tasks that are ready, and a start goes on.  The
\* assumption on others is that a call to the store, the database or the mail
\* server is answered or fails.  Nobody is obliged to start a replica, or to send
\* a request or its body.
Work == \E r \in Requests : (Handle(r) /\ ~Waits(r)) \/ Record(r)

FairSpec ==
    /\ Spec
    /\ \A c \in Replicas : WF_vars(Start(c))
    /\ WF_vars(Work)
-----------------------------------------------------------------------------
(* Properties *)

RequestOK(x) ==
    /\ x.kind \in {"none", "cell", "verify", "trace", "traces", "update", "reload"}
    /\ x.option \in BOOLEAN /\ x.base \in Nat /\ x.status \in {0, 200, 401}

\* No more ids are kept in the list than max_recent, in memory or in the store.
TypeOK ==
    /\ medium \in {"memory", "redis"} /\ DOMAIN kv = StoreKeys
    /\ \A r \in Requests : RequestOK(req[r])
    /\ logs \in 0..(IF LogCapacity = 0 THEN 1 ELSE LogCapacity)
    /\ recent \in Seq(Ids) /\ Len(recent) <= MaxRecent
    /\ traces \in [Ids -> Requests \cup {0, NoValue}]
    /\ kv[RecentIndex] = NoValue \/ Len(kv[RecentIndex]) <= MaxRecent
    /\ mails \subseteq LinkKeys \X Users
    /\ unused \in [LinkKeys -> Int] /\ fresh \subseteq Tokens /\ spent \subseteq LinkKeys
    /\ files \in [Paths -> Texts \cup {Empty, Malformed, NoValue}]
    /\ dynamic.version \in Nat /\ dynamic.path \in Paths \cup {BuiltIn}
    /\ dynamic.text \in Texts \cup {Empty}
    /\ recorded \subseteq Versions /\ phase \in [Replicas -> Phases]
    /\ mishaps \in 0..MaxMishaps

\* "This code and link ... can only be used once": a key signs in at most as many
\* times as it was minted, through simultaneous requests, lost answers, retried
\* events and restarts.
RedeemedOnce == \A k \in LinkKeys : unused[k] >= 0

\* A user who types the token of their mail is never signed in as somebody else,
\* whatever was minted for others meanwhile.  (Codes can collide.)
SignedInAsAddressed ==
    \A r \in Requests :
        /\ req[r].kind = "verify" /\ req[r].status = 200
        /\ req[r].arg \in Tokens
        => req[r].seen = req[r].who

\* A key from a mail is refused only if it was redeemed, has expired, or the store
\* failed to take it, to find it or to keep it; with or without dashes.
RefusedForAReason ==
    \A r \in Requests :
        /\ req[r].kind = "verify" /\ req[r].status = 401
        /\ req[r].arg # Guess
        => req[r].arg \in spent

\* A command id is listed once, and its trace can be opened: it is in memory, or
\* the list came from the store's index and so can the trace, if the store has it.
ListedIsOpenable ==
    /\ Cardinality(Listed) = Len(recent)
    /\ \A i \in Listed :
          \/ traces[i] # NoValue
          \/ i \in indexed /\ (Holds(i) \/ i \in unsaved)

\* Admin requests in turns: after a configuration was stored, the file, the text
\* that is shown and the text that is in force are one, until the file is written.
FileIsInForceInTurns ==
    inTurns /\ synced =>
        /\ Exists(dynamic.path)
        /\ files[dynamic.path] = dynamic.text
        /\ dynamic.raw = dynamic.text

\* Admin requests in turns: an update that was answered 200, of a configuration
\* that came from the configured file, is what the next start will load, through
\* crashes and later updates that were refused.
UpdateSurvivesRestart ==
    inTurns /\ acked # NoValue /\ environment.parses => Loaded(configured).text = acked

\* Admin requests in turns: two configurations of one process never share a version.
VersionGrowsInTurns ==
    [][/\ inTurns
       /\ phase[Main] = "serving"
       => dynamic' = dynamic \/ dynamic'.version > dynamic.version]_vars

\* Every migration is built at most once, its row says so, and later ones never
\* stand without the earlier, however the replicas start, fail and crash.
MigratedOnce ==
    /\ \A v \in Versions : built[v] = IF v \in recorded THEN 1 ELSE 0
    /\ \A v \in recorded : 1..v \subseteq recorded

\* A start ends: the replica serves, or its process has ended.  It does not wait
\* for ever for a transaction that another replica left.
StartEnds == phase[Main] \notin {"down", "serving"} ~> phase[Main] \in {"down", "serving"}

\* The host holds nothing up: but for those that wait for their client's body or
\* for their guest, every request is answered or cut off by a crash, and every
\* trace task ends, whoever else waits meanwhile.
HostHoldsNothingUp ==
    []<>(\A r \in Requests : /\ InFlight(r) => Waits(r)
                             /\ Doing(r, "done") \/ Doing(r, "none"))
=============================================================================
