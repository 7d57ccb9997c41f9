------------------------------ MODULE Deployer ------------------------------
(***************************************************************************)
(* FluxcellDeployer of runtime/src/deployer with what it drives: the       *)
(* lockdown guard, the registry and its manifest fluxcells.json, the wasm  *)
(* files beside it, the table of loaded modules, the router (Router.tla),  *)
(* the HTTP handlers that call it, and the boot that restores from disk.   *)
(*                                                                         *)
(* Operations run on the workers of the HTTP server, on the broker's       *)
(* consumer and on spawned tasks, and nothing serialises them: each is a   *)
(* sequence of steps that take one lock or touch one file at a time.  A    *)
(* worker's job holds the steps its operation has left to take; an early   *)
(* return drops them.  A fluxcell's bytes are its sha; its record keeps    *)
(* the sha, the routes it exports under its mount path, and a status.      *)
(***************************************************************************)
EXTENDS Router

CONSTANTS Workers,
          Shas, NoSha,
          Offers,       \* what may be staged: [sha, routes]
          BootOrder,    \* names in the order list_records sorts them
          MaxInTurns,   \* bound: operations, lockdowns and crashes, in turns
          MaxOverlapped \* bound: the same, when operations overlap

ASSUME DeployerAssumption ==
    /\ NoSha \notin Shas
    /\ Offers \subseteq [sha : Shas, routes : Seq(Paths)]
    /\ BootOrder \in Seq(Names)
    /\ MaxInTurns \in Nat /\ MaxOverlapped \in Nat

VARIABLES autoActivate, \* config.auto_activate
          overlap,      \* may an operation start while another is running?
          guard,        \* deployment ingress is open (the two AtomicBools)
          records,      \* registry.records, in memory
          modules,      \* WasmHost.fluxcells: what is loaded under a name
          router,
          disk,         \* fluxcells.json: its state and what it holds
          files,        \* wasm files that hold their whole build
          handle,       \* each worker's open wasm file: its path may be gone
          boot,         \* names the boot has yet to restore, in order
          job,          \* each worker's operation and its locals
          approved,     \* history: (name, sha) somebody asked to activate
          torn,         \* history: the file of an Active build was cut short
          events        \* operations, lockdowns and crashes so far

settings == <<autoActivate, overlap>>
vars == <<autoActivate, overlap, guard, records, modules, router, disk, files,
          handle, boot, job, approved, torn, events>>

NoRecord == [sha |-> NoSha, routes |-> <<>>, status |-> "Absent"]
Records == [sha : Shas, routes : Seq(Paths), status : {"Staged", "Active"}]
Manifests == [Names -> Records \cup {NoRecord}]
EmptyManifest == [n \in Names |-> NoRecord]

Steps == {"fetch", "check", "write", "lookup", "load", "mount", "insert",
          "unmount", "unload", "forget", "erase",
          "snapshot", "truncate", "flush"}

\* name and rec: what the operation works on; copy: the manifest that its
\* save_to_disk is about to write.
Drafts == [sha : Shas \cup {NoSha}, routes : Seq(Paths),
           status : {"Absent", "Staged", "Active"}]
Jobs == [plan : Seq(Steps), name : Names \cup {Nobody}, rec : Drafts, copy : Manifests]
NoJob == [plan |-> <<>>, name |-> Nobody, rec |-> NoRecord, copy |-> EmptyManifest]

\* save_to_disk, called by record_audit, upsert_record and remove_record.
SavePlan == <<"snapshot", "truncate", "flush">>

HotActivatePlan == <<"load", "mount">>

\* stage_bytes: audit first, then upsert.
StagePlan == <<"check", "write">> \o (IF autoActivate THEN HotActivatePlan ELSE <<>>)
                 \o SavePlan \o <<"insert">> \o SavePlan

\* activate: upsert first, then audit.
ActivatePlan == <<"lookup">> \o HotActivatePlan \o <<"insert">> \o SavePlan \o SavePlan

RemovePlanForgetsLast ==
    <<"unmount", "unload">> \o SavePlan \o <<"erase">> \o SavePlan \o <<"forget">>

RemovePlan == <<"unmount", "unload", "forget">> \o SavePlan \o <<"erase">> \o SavePlan

Idle(w) == job[w] = NoJob
AllIdle == \A w \in Workers : Idle(w)

Init ==
    /\ autoActivate \in BOOLEAN
    /\ overlap \in BOOLEAN
    /\ guard = TRUE
    /\ records = EmptyManifest
    /\ modules = [n \in Names |-> NoSha]
    /\ router = NewRouter
    /\ disk = [state |-> "absent", holds |-> EmptyManifest]
    /\ files = {}
    /\ handle = [w \in Workers |-> "closed"]
    /\ boot = <<>>
    /\ job = [w \in Workers |-> NoJob]
    /\ approved = {}
    /\ torn = FALSE
    /\ events = 0

-----------------------------------------------------------------------------
(* An operation begins *)

CountEvent ==
    /\ events < IF overlap THEN MaxOverlapped ELSE MaxInTurns
    /\ events' = events + 1

Begin(w, n, r, plan) ==
    /\ boot = <<>>
    /\ Idle(w) /\ (overlap \/ AllIdle)
    /\ CountEvent
    /\ job' = [job EXCEPT ![w] =
                  [plan |-> plan, name |-> n, rec |-> r, copy |-> EmptyManifest]]
    /\ UNCHANGED <<settings, boot, guard, records, modules, router, disk, files,
                   handle, torn>>

Staging(offer) ==
    [sha |-> offer.sha, routes |-> offer.routes, status |-> "Staged"]

Approve(n, sha, granted) ==
    approved' = IF granted THEN approved \cup {<<n, sha>>} ELSE approved

\* handle_upload, which may go on to activate what it staged.  A closed guard
\* leaves an audit entry and no more.
Upload(w, n, offer, activate) ==
    /\ Begin(w, n, Staging(offer),
             IF ~guard THEN SavePlan
             ELSE IF activate THEN StagePlan \o ActivatePlan ELSE StagePlan)
    /\ Approve(n, offer.sha, autoActivate \/ activate)

\* stage_remote_artifact, in a task the broker's consumer spawned: the guard
\* is read before the artifact is fetched and not again.
StageRemote(w, n, offer) ==
    /\ Begin(w, n, Staging(offer), IF ~guard THEN SavePlan ELSE <<"fetch">> \o StagePlan)
    /\ Approve(n, offer.sha, autoActivate)

BeginActivate(w, n, sha) ==
    /\ Begin(w, n, [sha |-> sha, routes |-> <<>>, status |-> "Absent"], ActivatePlan)
    /\ Approve(n, sha, TRUE)

BeginRemove(w, n) ==
    /\ Begin(w, n, NoRecord, RemovePlan)
    /\ UNCHANGED approved

-----------------------------------------------------------------------------
(* The steps.  Each ends in Proceed, with the locals it leaves, in Return, or *)
(* in Reject, which is record_audit("REJECT", ..) and an error.              *)

At(w, step) == ~Idle(w) /\ Head(job[w].plan) = step

Advance(j) == IF Len(j.plan) = 1 THEN NoJob ELSE [j EXCEPT !.plan = Tail(@)]

Proceed(w, locals) == job' = [job EXCEPT ![w] = Advance(locals)]
Return(w) == job' = [job EXCEPT ![w] = NoJob]
Reject(w) == job' = [job EXCEPT ![w] = [@ EXCEPT !.plan = SavePlan]]

\* The download, its size and its checksum.
Fetch(w) ==
    /\ At(w, "fetch")
    /\ Proceed(w, job[w]) \/ Reject(w) \/ Return(w)
    /\ UNCHANGED <<settings, boot, guard, records, modules, router, disk, files,
                   handle, approved, torn, events>>

\* stage_bytes up to its collision check: magic header, mount path, compiling,
\* profile, and then the routes against those of other cells.
Check(w) ==
    /\ At(w, "check")
    /\ \/ Reject(w) \/ Return(w)
       \/ /\ \A p \in RoutesIn(job[w].rec.routes) :
                  router.owner[p] \in {Nobody, job[w].name}
          /\ Proceed(w, job[w])
    /\ UNCHANGED <<settings, boot, guard, records, modules, router, disk, files,
                   handle, approved, torn, events>>

\* The file of this name and sha: the record may be Active and name it already.
Path(w) == <<job[w].name, job[w].rec.sha>>

\* std::fs::write opens the file, which empties it, and then writes the build.
OpenFile(w) ==
    /\ At(w, "write") /\ handle[w] = "closed"
    /\ files' = files \ {Path(w)}
    /\ handle' = [handle EXCEPT ![w] = "open"]
    /\ UNCHANGED <<settings, boot, guard, records, modules, router, disk, job,
                   approved, torn, events>>

\* What is written to a file that was removed meanwhile is not seen again.
WriteFile(w) ==
    /\ At(w, "write") /\ handle[w] # "closed"
    /\ files' = IF handle[w] = "open" THEN files \cup {Path(w)} ELSE files
    /\ handle' = [handle EXCEPT ![w] = "closed"]
    /\ Proceed(w, job[w])
    /\ UNCHANGED <<settings, boot, guard, records, modules, router, disk, approved, torn,
                   events>>

\* The worker has emptied the file that this manifest's Active record names.
CutsShort(w, manifest) ==
    LET r == manifest[job[w].name] IN
    handle[w] = "open" /\ r.status = "Active" /\ r.sha = job[w].rec.sha

\* The file cannot be opened, or not be written: stage_bytes returns the error.
FailToWrite(w) ==
    /\ At(w, "write")
    /\ handle' = [handle EXCEPT ![w] = "closed"]
    /\ torn' = (torn \/ CutsShort(w, records))
    /\ Return(w)
    /\ UNCHANGED <<settings, boot, guard, records, modules, router, disk, files,
                   approved, events>>

LookupUnchecked(w) ==
    /\ At(w, "lookup")
    /\ Proceed(w, [job[w] EXCEPT !.rec = records[job[w].name]])
    /\ UNCHANGED <<settings, boot, guard, records, modules, router, disk, files,
                   handle, approved, torn, events>>

\* activate: the record as it is now, if it has the sha asked for and its file.
\* An emptied file is read but does not compile, which ends it just the same.
Lookup(w) ==
    /\ At(w, "lookup")
    /\ LET r == records[job[w].name] IN
       IF r.sha = job[w].rec.sha /\ <<job[w].name, r.sha>> \in files
       THEN Proceed(w, [job[w] EXCEPT !.rec = r])
       ELSE Return(w)
    /\ UNCHANGED <<settings, boot, guard, records, modules, router, disk, files,
                   handle, approved, torn, events>>

\* register_wasm_bytes replaces what is loaded under the name.
Load(w) ==
    /\ At(w, "load")
    /\ modules' = [modules EXCEPT ![job[w].name] = job[w].rec.sha]
    /\ Proceed(w, job[w])
    /\ UNCHANGED <<settings, boot, guard, records, router, disk, files,
                   handle, approved, torn, events>>

MountIgnoresError(w) ==
    /\ At(w, "mount")
    /\ router' = Register(Unregister(router, job[w].name), job[w].name, job[w].rec.routes)
    /\ Proceed(w, [job[w] EXCEPT !.rec = [@ EXCEPT !.status = "Active"]])
    /\ UNCHANGED <<settings, boot, guard, records, modules, disk, files,
                   handle, approved, torn, events>>

\* Under the router's write lock; a collision ends the operation with the old
\* routes gone, the new module loaded, and no change of the record.
Mount(w) ==
    /\ At(w, "mount")
    /\ LET cleared == Unregister(router, job[w].name)
           list == job[w].rec.routes
       IN /\ router' = Register(cleared, job[w].name, list)
          /\ IF Blocked(cleared, list) = {}
             THEN Proceed(w, [job[w] EXCEPT !.rec = [@ EXCEPT !.status = "Active"]])
             ELSE Return(w)
    /\ UNCHANGED <<settings, boot, guard, records, modules, disk, files,
                   handle, approved, torn, events>>

Insert(w) ==
    /\ At(w, "insert")
    /\ records' = [records EXCEPT ![job[w].name] = job[w].rec]
    /\ Proceed(w, job[w])
    /\ UNCHANGED <<settings, boot, guard, modules, router, disk, files,
                   handle, approved, torn, events>>

Unmount(w) ==
    /\ At(w, "unmount")
    /\ router' = Unregister(router, job[w].name)
    /\ Proceed(w, job[w])
    /\ UNCHANGED <<settings, boot, guard, records, modules, disk, files,
                   handle, approved, torn, events>>

Unload(w) ==
    /\ At(w, "unload")
    /\ modules' = [modules EXCEPT ![job[w].name] = NoSha]
    /\ Proceed(w, job[w])
    /\ UNCHANGED <<settings, boot, guard, records, router, disk, files,
                   handle, approved, torn, events>>

\* A name without a record has no file and needs no audit entry.
Forget(w) ==
    /\ At(w, "forget")
    /\ LET r == records[job[w].name] IN
       IF r = NoRecord THEN Return(w) ELSE Proceed(w, [job[w] EXCEPT !.rec = r])
    /\ records' = [records EXCEPT ![job[w].name] = NoRecord]
    /\ UNCHANGED <<settings, boot, guard, modules, router, disk, files,
                   handle, approved, torn, events>>

Erase(w) ==
    /\ At(w, "erase")
    /\ files' = files \ {Path(w)}
    /\ handle' = [v \in Workers |->
                     IF handle[v] = "open" /\ Path(v) = Path(w) THEN "unlinked" ELSE handle[v]]
    /\ Proceed(w, job[w])
    /\ UNCHANGED <<settings, boot, guard, records, modules, router, disk, approved, torn,
                   events>>

-----------------------------------------------------------------------------
(* save_to_disk: a copy of the records, then std::fs::write *)

Snapshot(w) ==
    /\ At(w, "snapshot")
    /\ Proceed(w, [job[w] EXCEPT !.copy = records])
    /\ UNCHANGED <<settings, boot, guard, records, modules, router, disk, files,
                   handle, approved, torn, events>>

Truncate(w) ==
    /\ At(w, "truncate")
    /\ disk' = [state |-> "empty", holds |-> EmptyManifest]
    /\ Proceed(w, job[w])
    /\ UNCHANGED <<settings, boot, guard, records, modules, router, files,
                   handle, approved, torn, events>>

\* If another worker wrote since the truncation, a shorter text leaves the end
\* of the longer one behind it, which does not parse.
Flush(w) ==
    /\ At(w, "flush")
    /\ \/ disk' = [state |-> "whole", holds |-> job[w].copy]
       \/ /\ disk.state \in {"whole", "torn"}
          /\ disk # [state |-> "whole", holds |-> job[w].copy]
          /\ disk' = [state |-> "torn", holds |-> EmptyManifest]
    /\ Proceed(w, [job[w] EXCEPT !.copy = EmptyManifest])
    /\ UNCHANGED <<settings, boot, guard, records, modules, router, files,
                   handle, approved, torn, events>>

-----------------------------------------------------------------------------
(* The environment *)

\* handle_lockdown.  There is no handler that lifts it.
Lockdown ==
    /\ boot = <<>>
    /\ CountEvent
    /\ guard /\ guard' = FALSE
    /\ UNCHANGED <<settings, boot, records, modules, router, disk, files, handle,
                   job, approved, torn>>

\* DeployerRegistry::new: a manifest that does not parse counts as none.
Reopened == IF disk.state = "whole" THEN disk.holds ELSE EmptyManifest

\* The process dies at any point and starts to boot.
Crash ==
    /\ CountEvent
    /\ guard' = TRUE
    /\ records' = Reopened
    /\ modules' = [n \in Names |-> NoSha]
    /\ router' = NewRouter
    /\ boot' = BootOrder
    /\ job' = [w \in Workers |-> NoJob]
    /\ handle' = [w \in Workers |-> "closed"]
    /\ torn' = (torn \/ \E w \in Workers : CutsShort(w, Reopened))
    /\ UNCHANGED <<settings, disk, files, approved>>

RestoresStaged(n) == records[n].status # "Absent" /\ <<n, records[n].sha>> \in files

\* The boot loads the cells whose record is Active and whose file is there and
\* compiles; it logs the others and goes on.
Restores(n) == records[n].status = "Active" /\ <<n, records[n].sha>> \in files

\* One turn of the boot's loop; a collision is logged and leaves its cell
\* loaded.  Requests are served when the loop is done.
Restore ==
    /\ boot # <<>>
    /\ boot' = Tail(boot)
    /\ LET n == Head(boot) IN
       IF Restores(n)
       THEN /\ modules' = [modules EXCEPT ![n] = records[n].sha]
            /\ router' = Register(router, n, records[n].routes)
       ELSE UNCHANGED <<modules, router>>
    /\ UNCHANGED <<settings, guard, records, disk, files, handle, job, approved, torn,
                   events>>

Step(w) ==
    \/ Fetch(w) \/ Check(w) \/ OpenFile(w) \/ WriteFile(w) \/ FailToWrite(w)
    \/ Lookup(w) \/ Load(w) \/ Mount(w) \/ Insert(w)
    \/ Unmount(w) \/ Unload(w) \/ Forget(w) \/ Erase(w)
    \/ Snapshot(w) \/ Truncate(w) \/ Flush(w)

Request(w) ==
    \E n \in Names :
        \/ \E offer \in Offers : \/ \E a \in BOOLEAN : Upload(w, n, offer, a)
                                 \/ StageRemote(w, n, offer)
        \/ \E sha \in Shas : BeginActivate(w, n, sha)
        \/ BeginRemove(w, n)

Next ==
    \/ \E w \in Workers : Request(w) \/ Step(w)
    \/ Lockdown
    \/ Crash
    \/ Restore

Spec == Init /\ [][Next]_vars

-----------------------------------------------------------------------------
(* Properties *)

TypeOK ==
    /\ autoActivate \in BOOLEAN /\ overlap \in BOOLEAN /\ guard \in BOOLEAN
    /\ records \in Manifests
    /\ modules \in [Names -> Shas \cup {NoSha}]
    /\ router \in Routers
    /\ disk \in [state : {"absent", "empty", "whole", "torn"}, holds : Manifests]
    /\ files \subseteq Names \X Shas
    /\ handle \in [Workers -> {"closed", "open", "unlinked"}]
    /\ boot \in Seq(Names)
    /\ job \in [Workers -> Jobs]
    /\ approved \subseteq Names \X Shas
    /\ torn \in BOOLEAN
    /\ events \in Nat

\* Whatever operations overlap or fail halfway, a cell the router lists gets
\* all requests for its routes, and no other cell does.
RoutesAgree == Agrees(router)

\* Two-phase activation: code runs under a name only if somebody asked for that
\* very sha to be activated there, through crashes, retries and races too.
OnlyApprovedRuns ==
    \A n \in Names : modules[n] # NoSha => <<n, modules[n]>> \in approved

\* When operations take turns, a cell whose record is Active is loaded with the
\* sha of the record and has its routes, whatever failed or crashed before, but
\* for one thing: a crash or an error that cut short a second upload of a build
\* already Active, over whose only file stage_bytes writes.
ActiveIsServed ==
    ~overlap /\ ~torn /\ boot = <<>> /\ AllIdle =>
        \A n \in Names : records[n].status = "Active" =>
            /\ modules[n] = records[n].sha
            /\ n \in router.mounted
            /\ router.routes[n] = records[n].routes

\* "Verify persistence across registry reboot": between operations, opening
\* the manifest again gives the records the registry has in memory.
RecordsPersist == boot = <<>> /\ AllIdle => Reopened = records

\* It does as long as operations take turns.
RecordsPersistInTurns == ~overlap => RecordsPersist

\* "Unmounts and removes a fluxcell completely": when remove returns, no
\* request is routed to the cell any more, even if nothing ran beside it.
RemoveUnmounts ==
    [][\A w \in Workers :
          ~overlap /\ Forget(w) =>
              \A p \in Paths : router'.owner[p] # job[w].name]_vars
=============================================================================
