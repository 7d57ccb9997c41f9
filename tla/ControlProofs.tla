---------------------------- MODULE ControlProofs ----------------------------
(***************************************************************************)
(* Configuration changes in turns, traces, and the types, for any texts,   *)
(* environments, ids, requests and crashes.                                *)
(*                                                                         *)
(* In turns, the handler at work is the only one, so what it read is still *)
(* true: the version it loaded, the file it truncated, the text it wrote   *)
(* or read.  An acknowledged update is in the configured file, which the   *)
(* configuration in force still names; the next truncation, which gives    *)
(* the acknowledgement up, can only be of that file.                       *)
(*                                                                         *)
(* The list of traces in memory, its copy in the store and every copy that *)
(* a task or a reader holds repeat no id and name only ids whose trace the *)
(* store has, or had or refused (Backed, Saved): so any of them may        *)
(* replace any other, whenever that is.                                    *)
(***************************************************************************)
EXTENDS SignInProofs, MigrationProofs, SequenceTheorems, FiniteSetTheorems

AdminPcs == {"authorize", "write", "writing", "load", "store"}

CTypes ==
    /\ phase \in [Replicas -> Phases]
    /\ dynamic.version \in Nat /\ dynamic.path \in Paths \cup {BuiltIn}
    /\ configured \in Paths /\ DOMAIN files = Paths

\* Where an admin request is, and what it holds there.
AdminPlaced(x) ==
    /\ x.pc \in AdminPcs => x.kind \in {"update", "reload"}
    /\ x.pc \in {"write", "writing"} => x.kind = "update" /\ Parses(x.arg)
    /\ x.pc = "store" => Parses(x.arg)
    /\ x.pc \in {"writing", "store"} => x.base \in Nat /\ x.seen \in Paths

\* Requests do not outlive their process.
Dependent == phase[Main] # "serving" => \A r \in Requests : ~InFlight(r)

OneAdmin == \A q, r \in Requests : Admin(q) /\ Admin(r) => q = r

\* What the handler at work has read is still so.
UpToDate(x) ==
    /\ x.pc \in {"writing", "store"} => x.base = dynamic.version /\ x.seen = TargetPath
    /\ x.pc = "writing" => /\ files[x.seen] = Empty /\ ~synced
                           /\ environment.parses => acked = NoValue
    /\ x.pc = "store" => files[x.seen] = x.arg

InForce ==
    synced => /\ Exists(dynamic.path)
              /\ files[dynamic.path] = dynamic.text
              /\ dynamic.raw = dynamic.text

Remembered ==
    environment.parses /\ acked # NoValue =>
        files[configured] = acked /\ Parses(acked) /\ dynamic.path = configured

InTurns ==
    /\ OneAdmin /\ InForce /\ Remembered
    /\ \A r \in Requests : UpToDate(req[r])

CInv ==
    /\ CTypes /\ Dependent
    /\ \A r \in Requests : AdminPlaced(req[r])
    /\ inTurns => InTurns

-----------------------------------------------------------------------------
LEMMA InitControl == Init => CInv
<1> SUFFICES ASSUME Init PROVE CInv
  OBVIOUS
<1>1. /\ req = [r \in Requests |-> NoRequest]
      /\ phase = [c \in Replicas |-> "down"]
      /\ synced = FALSE /\ acked = NoValue
      /\ dynamic = Booted /\ configured \in Paths /\ DOMAIN files = Paths
  BY DEF Init, HttpInit, ControlInit, Paths, DefaultPath
<1>2. dynamic.version = 1 /\ dynamic.path \in Paths \cup {BuiltIn}
  BY <1>1 DEF Booted, Loaded, Paths, FromEnvironment
<1>3. CTypes
  BY <1>1, <1>2 DEF CTypes, Phases
<1>4. \A r \in Requests : req[r].pc = "none" /\ req[r].kind = "none"
  BY <1>1 DEF NoRequest
<1>5. Dependent /\ OneAdmin
  BY <1>4 DEF Dependent, OneAdmin, InFlight, At, Admin
<1>6. \A r \in Requests : AdminPlaced(req[r]) /\ UpToDate(req[r])
  BY <1>4 DEF AdminPlaced, UpToDate, AdminPcs
<1>7. InForce /\ Remembered
  BY <1>1 DEF InForce, Remembered
<1> QED
  BY <1>3, <1>5, <1>6, <1>7 DEF CInv, InTurns

\* A step that leaves the configuration alone, and of the requests in flight
\* lets only others than admin ones go on.
Aside ==
    \A r \in Requests :
        \/ req'[r] = req[r]
        \/ /\ InFlight(r) /\ req'[r].kind = req[r].kind /\ req'[r].pc \notin AdminPcs
           /\ req'[r].pc # "none"

LEMMA AsideKeeps ==
    ASSUME CInv, RInv, Aside, UNCHANGED <<control, phase>>
    PROVE  CInv'
<1>1. CTypes'
  BY DEF CInv, CTypes, control
<1>2. Dependent'
  BY DEF CInv, Dependent, Aside, InFlight, At
<1>3. \A r \in Requests : AdminPlaced(req[r])'
  BY DEF CInv, AdminPlaced, Aside, Parses, AdminPcs
<1>4. inTurns => OneAdmin'
  BY DEF CInv, InTurns, OneAdmin, Admin, InFlight, At, Aside
<1>5. inTurns => InForce' /\ Remembered'
  BY DEF CInv, InTurns, InForce, Remembered, Exists, Parses, control
<1>6. inTurns => \A r \in Requests : UpToDate(req[r])'
  BY DEF CInv, InTurns, UpToDate, Aside, TargetPath, AdminPcs, control
<1> QED
  BY <1>1, <1>2, <1>3, <1>4, <1>5, <1>6 DEF CInv, InTurns, control

-----------------------------------------------------------------------------
(* The admin handlers *)

\* In turns, a handler at work is alone.
LEMMA Alone ==
    ASSUME CInv, inTurns, NEW r \in Requests, Admin(r), NEW q \in Requests \ {r}
    PROVE  req[q].pc \notin AdminPcs
BY DEF CInv, InTurns, OneAdmin, Admin, AdminPlaced, AdminPcs, InFlight, At

LEMMA AdminGoes ==
    ASSUME CInv, NEW r \in Requests, Admin(r), UNCHANGED <<phase, inTurns>>,
           \A q \in Requests \ {r} : req'[q] = req[q],
           req'[r].kind = req[r].kind, req'[r].pc # "none",
           AdminPlaced(req'[r]), CTypes',
           inTurns => InForce' /\ Remembered' /\ UpToDate(req[r])'
    PROVE  CInv'
<1>1. Dependent'
  BY DEF CInv, Dependent, Admin
<1>2. \A q \in Requests : AdminPlaced(req[q])'
  <2>1. AdminPlaced(req[r])'
    BY DEF AdminPlaced, Parses
  <2>2. \A q \in Requests \ {r} : AdminPlaced(req[q])'
    BY DEF CInv, AdminPlaced, Parses
  <2> QED
    BY <2>1, <2>2
<1>3. inTurns => OneAdmin'
  BY DEF CInv, InTurns, OneAdmin, Admin, InFlight, At
<1>4. inTurns => \A q \in Requests \ {r} : UpToDate(req[q])'
  BY Alone DEF UpToDate, AdminPcs
<1> QED
  BY <1>1, <1>2, <1>3, <1>4 DEF CInv, InTurns

LEMMA TargetKnown == CTypes => TargetPath \in Paths
BY DEF CTypes, TargetPath, Paths, DefaultPath

LEMMA AdminReplies ==
    ASSUME RInv, NEW r \in Requests, Reply(r)
    PROVE  /\ \A q \in Requests \ {r} : req'[q] = req[q]
           /\ req'[r].pc = "answered" /\ req'[r].kind = req[r].kind
           /\ AdminPlaced(req'[r])
           /\ UpToDate(req[r])'
<1>1. /\ \A q \in Requests \ {r} : req'[q] = req[q]
      /\ req'[r].pc = "answered" /\ req'[r].kind = req[r].kind
  BY DEF RInv, Shape, Reply, Answered, NoRequest, ReqFields
<1> QED
  BY <1>1 DEF AdminPlaced, UpToDate, AdminPcs

LEMMA AuthorizeKeeps ==
    ASSUME CInv, RInv, NEW r \in Requests, Authorize(r), UNCHANGED phase
    PROVE  CInv'
<1>1. /\ Admin(r) /\ req[r].pc = "authorize" /\ UNCHANGED control
  BY DEF CInv, AdminPlaced, AdminPcs, Authorize, At, Admin, InFlight
<1>2. CTypes' /\ (inTurns => InForce' /\ Remembered')
  BY <1>1 DEF CInv, CTypes, InTurns, InForce, Remembered, Exists, Parses, control
<1>3. CASE Reply(r)
  BY <1>1, <1>2, <1>3, AdminReplies, AdminGoes DEF control
<1>4. CASE req[r].kind = "reload" /\ Goto(r, "load")
  <2>1. /\ \A q \in Requests \ {r} : req'[q] = req[q]
        /\ req'[r].pc = "load" /\ req'[r].kind = "reload"
    BY <1>4 DEF RInv, Shape, Goto, ReqFields
  <2> QED
    BY <1>1, <1>2, <1>4, <2>1, AdminGoes DEF control, AdminPlaced, AdminPcs, UpToDate
<1>5. CASE req[r].kind = "update" /\ Parses(req[r].arg) /\ Goto(r, "write")
  <2>1. /\ \A q \in Requests \ {r} : req'[q] = req[q]
        /\ req'[r].pc = "write" /\ req'[r].kind = "update" /\ req'[r].arg = req[r].arg
    BY <1>5 DEF RInv, Shape, Goto, ReqFields
  <2> QED
    BY <1>1, <1>2, <1>5, <2>1, AdminGoes DEF control, AdminPlaced, AdminPcs, UpToDate
<1> QED
  BY <1>3, <1>4, <1>5 DEF Authorize

LEMMA OpenFileKeeps ==
    ASSUME CInv, RInv, NEW r \in Requests, OpenFile(r), UNCHANGED phase
    PROVE  CInv'
<1>1. /\ Admin(r) /\ req[r].pc = "write" /\ req[r].kind = "update"
      /\ Parses(req[r].arg) /\ UNCHANGED <<dynamic, configured, environment, inTurns>>
  BY DEF CInv, AdminPlaced, AdminPcs, OpenFile, At, Admin, InFlight
<1>2. CASE Reply(r) /\ UNCHANGED <<files, synced, acked>>
  <2>1. CTypes' /\ (inTurns => InForce' /\ Remembered')
    BY <1>1, <1>2 DEF CInv, CTypes, InTurns, InForce, Remembered, Exists, Parses
  <2> QED
    BY <1>1, <1>2, <2>1, AdminReplies, AdminGoes
<1>3. CASE /\ files' = [files EXCEPT ![TargetPath] = Empty]
           /\ req' = [req EXCEPT ![r].pc = "writing", ![r].base = dynamic.version,
                                 ![r].seen = TargetPath]
           /\ synced' = FALSE
           /\ acked' = IF dynamic.path = configured THEN NoValue ELSE acked
  <2>1. /\ \A q \in Requests \ {r} : req'[q] = req[q]
        /\ req'[r].pc = "writing" /\ req'[r].kind = "update" /\ req'[r].arg = req[r].arg
        /\ req'[r].base = dynamic.version /\ req'[r].seen = TargetPath
    BY <1>1, <1>3 DEF RInv, Shape, ReqFields
  <2>2. CTypes'
    BY <1>1, <1>3 DEF CInv, CTypes
  <2>3. AdminPlaced(req'[r])
    BY <1>1, <2>1, TargetKnown DEF AdminPlaced, AdminPcs, CInv, CTypes
  <2>4. inTurns /\ environment.parses => acked' = NoValue
    BY <1>3 DEF CInv, InTurns, Remembered
  <2>5. inTurns => InForce' /\ Remembered'
    BY <1>1, <1>3, <2>4 DEF InForce, Remembered
  <2>6. files'[TargetPath] = Empty
    BY <1>3, TargetKnown DEF CInv, CTypes
  <2>7. inTurns => UpToDate(req[r])'
    BY <1>1, <1>3, <2>1, <2>4, <2>6 DEF UpToDate, TargetPath
  <2> QED
    BY <1>1, <2>1, <2>2, <2>3, <2>5, <2>7, AdminGoes
<1> QED
  BY <1>2, <1>3 DEF OpenFile

LEMMA WriteFileKeeps ==
    ASSUME CInv, RInv, NEW r \in Requests, WriteFile(r), UNCHANGED phase
    PROVE  CInv'
<1>1. /\ Admin(r) /\ req[r].pc = "writing" /\ req[r].kind = "update"
      /\ Parses(req[r].arg) /\ req[r].base \in Nat /\ req[r].seen \in Paths
      /\ UNCHANGED <<dynamic, configured, environment, inTurns, synced>>
  BY DEF CInv, AdminPlaced, AdminPcs, WriteFile, At, Admin, InFlight
<1>2. inTurns => /\ req[r].base = dynamic.version /\ req[r].seen = TargetPath
                 /\ files[req[r].seen] = Empty /\ ~synced
                 /\ environment.parses => acked = NoValue
  BY <1>1 DEF CInv, InTurns, UpToDate
<1>3. CASE Reply(r) /\ UNCHANGED <<files, acked>>
  <2>1. CTypes' /\ (inTurns => InForce' /\ Remembered')
    BY <1>1, <1>2, <1>3 DEF CInv, CTypes, InForce, Remembered
  <2> QED
    BY <1>1, <1>3, <2>1, AdminReplies, AdminGoes
<1>4. ASSUME NEW result, files' = [files EXCEPT ![req[r].seen] = result],
             inTurns => result = req[r].arg,
             \/ Goto(r, "store") /\ UNCHANGED acked
             \/ Reply(r) /\ acked' = Acknowledged(r)
      PROVE  CInv'
  <2>1. CTypes'
    BY <1>1, <1>4 DEF CInv, CTypes
  <2>2. inTurns => files'[TargetPath] = req[r].arg
    BY <1>2, <1>4, TargetKnown DEF CInv, CTypes
  <2>3. inTurns => InForce'
    BY <1>1, <1>2 DEF InForce
  <2>4. CASE Goto(r, "store") /\ UNCHANGED acked
    <3>1. /\ \A q \in Requests \ {r} : req'[q] = req[q]
          /\ req'[r].pc = "store" /\ req'[r].kind = "update" /\ req'[r].arg = req[r].arg
          /\ req'[r].base = req[r].base /\ req'[r].seen = req[r].seen
      BY <1>1, <2>4 DEF RInv, Shape, Goto, ReqFields
    <3>2. AdminPlaced(req'[r])
      BY <1>1, <3>1 DEF AdminPlaced, AdminPcs
    <3>3. inTurns => Remembered'
      BY <1>1, <1>2, <2>4 DEF Remembered
    <3>4. inTurns => UpToDate(req[r])'
      BY <1>1, <1>2, <2>2, <3>1 DEF UpToDate, TargetPath
    <3> QED
      BY <1>1, <2>1, <2>3, <3>1, <3>2, <3>3, <3>4, AdminGoes
  <2>5. CASE Reply(r) /\ acked' = Acknowledged(r)
    <3>1. dynamic.path = configured => TargetPath = configured
      BY DEF TargetPath, CInv, CTypes, Paths, BuiltIn, DefaultPath, FromEnvironment
    <3>2. inTurns => Remembered'
      BY <1>1, <1>2, <2>2, <2>5, <3>1 DEF Remembered, Acknowledged, Parses
    <3> QED
      BY <1>1, <2>1, <2>3, <2>5, <3>2, AdminReplies, AdminGoes
  <2> QED
    BY <1>4, <2>4, <2>5
<1>5. CASE \E result \in IF files[req[r].seen] = Empty THEN {req[r].arg}
                         ELSE {req[r].arg, Malformed} :
              files' = [files EXCEPT ![req[r].seen] = result]
  <2>1. PICK result : /\ files' = [files EXCEPT ![req[r].seen] = result]
                      /\ files[req[r].seen] = Empty => result = req[r].arg
    BY <1>5
  <2>2. CASE Reply(r) /\ UNCHANGED <<files, acked>>
    BY <1>3, <2>2
  <2>3. CASE \/ Goto(r, "store") /\ UNCHANGED acked
             \/ Reply(r) /\ acked' = Acknowledged(r)
    BY <1>2, <1>4, <2>1, <2>3
  <2> QED
    BY <2>2, <2>3 DEF WriteFile
<1> QED
  BY <1>3, <1>5 DEF WriteFile

LEMMA StoreStateKeeps ==
    ASSUME CInv, RInv, NEW r \in Requests, StoreState(r), UNCHANGED phase
    PROVE  CInv'
<1>1. /\ Admin(r) /\ req[r].pc = "store" /\ Parses(req[r].arg) /\ Reply(r)
      /\ req[r].base \in Nat /\ req[r].seen \in Paths
      /\ UNCHANGED <<files, configured, environment, inTurns>>
  BY DEF CInv, AdminPlaced, AdminPcs, StoreState, At, Admin, InFlight
<1>2. /\ dynamic'.version = req[r].base + 1 /\ dynamic'.path = req[r].seen
      /\ dynamic'.text = req[r].arg /\ dynamic'.raw = req[r].arg
  BY DEF StoreState, Reloaded, NextVersion
<1>3. CTypes'
  BY <1>1, <1>2 DEF CInv, CTypes
<1>4. inTurns => req[r].seen = TargetPath /\ files[TargetPath] = req[r].arg
  BY <1>1 DEF CInv, InTurns, UpToDate
<1>5. dynamic.path = configured => TargetPath = configured
  BY DEF TargetPath, CInv, CTypes, Paths, BuiltIn, DefaultPath, FromEnvironment
<1>6. inTurns => InForce'
  BY <1>1, <1>2, <1>4, FrontDoorAssumption DEF InForce, Exists, Parses
<1>7. acked' = acked \/ (acked' = req[r].arg /\ dynamic.path = configured)
  BY DEF StoreState, Acknowledged
<1>8. inTurns => Remembered'
  <2>1. CASE acked' = acked
    BY <1>1, <1>2, <1>4, <1>5, <2>1 DEF CInv, InTurns, Remembered, Parses
  <2>2. CASE acked' = req[r].arg /\ dynamic.path = configured
    BY <1>1, <1>2, <1>4, <1>5, <2>2 DEF Remembered, Parses
  <2> QED
    BY <1>7, <2>1, <2>2
<1> QED
  BY <1>1, <1>3, <1>6, <1>8, AdminReplies, AdminGoes

LEMMA ReloadFileKeeps ==
    ASSUME CInv, RInv, NEW r \in Requests, ReloadFile(r), UNCHANGED phase
    PROVE  CInv'
<1>1. /\ Admin(r) /\ req[r].pc = "load" /\ UNCHANGED control
  BY DEF CInv, AdminPlaced, AdminPcs, ReloadFile, At, Admin, InFlight
<1>2. CTypes' /\ (inTurns => InForce' /\ Remembered')
  BY <1>1 DEF CInv, CTypes, InTurns, InForce, Remembered, Exists, Parses, control
<1>3. CASE Reply(r)
  BY <1>1, <1>2, <1>3, AdminReplies, AdminGoes DEF control
<1>4. CASE /\ Exists(TargetPath) /\ Parses(RawText(TargetPath))
           /\ req' = [req EXCEPT ![r].pc = "store", ![r].base = dynamic.version,
                                 ![r].seen = TargetPath, ![r].arg = RawText(TargetPath)]
  <2>1. /\ \A q \in Requests \ {r} : req'[q] = req[q]
        /\ req'[r].pc = "store" /\ req'[r].kind = req[r].kind
        /\ req'[r].arg = RawText(TargetPath)
        /\ req'[r].base = dynamic.version /\ req'[r].seen = TargetPath
    BY <1>4 DEF RInv, Shape, ReqFields
  <2>2. RawText(TargetPath) = files[TargetPath]
    BY <1>4 DEF RawText
  <2>3. AdminPlaced(req'[r])
    BY <1>1, <1>4, <2>1, TargetKnown DEF CInv, CTypes, AdminPlaced, AdminPcs, Admin
  <2>4. UpToDate(req[r])'
    BY <1>1, <2>1, <2>2 DEF UpToDate, TargetPath, control
  <2> QED
    BY <1>1, <1>2, <2>1, <2>3, <2>4, AdminGoes DEF control
<1> QED
  BY <1>3, <1>4 DEF ReloadFile

LEMMA ServeAdminInControl ==
    ASSUME CInv, RInv, NEW r \in Requests, ServeAdmin(r)
    PROVE  CInv'
BY AuthorizeKeeps, OpenFileKeeps, WriteFileKeeps, StoreStateKeeps, ReloadFileKeeps
DEF ServeAdmin, Administer, chassis

-----------------------------------------------------------------------------
(* Everything else *)

\* A configuration of the file, acknowledged, is the one the next start loads.
LEMMA LoadedAgain ==
    ASSUME CInv, inTurns, environment.parses, acked # NoValue
    PROVE  Loaded(configured).text = acked /\ Loaded(configured).path = configured
BY FrontDoorAssumption DEF CInv, CTypes, InTurns, Remembered, Loaded, Exists, Parses

LEMMA BootKeeps ==
    ASSUME CInv, NEW c \in Replicas, Boot(c)
    PROVE  CInv'
<1>1. /\ UNCHANGED <<req, files, configured, environment, inTurns, acked>>
      /\ synced' = FALSE
      /\ phase' \in [Replicas -> Phases]
  BY DEF Boot, Enter, CInv, CTypes, Phases
<1>2. CASE c = Main
  <2>1. \A r \in Requests : ~InFlight(r)
    BY <1>2 DEF Boot, CInv, Dependent
  <2>2. dynamic' = Booted
    BY <1>2 DEF Boot
  <2>3. CTypes'
    BY <1>1, <2>2 DEF CInv, CTypes, Booted, Loaded, Paths, FromEnvironment
  <2>4. inTurns => Remembered'
    BY <1>1, <2>2, LoadedAgain DEF CInv, InTurns, Remembered, Booted, Parses
  <2>5. inTurns => InForce'
    BY <1>1 DEF InForce
  <2>6. Dependent' /\ OneAdmin'
    BY <1>1, <2>1 DEF Dependent, OneAdmin, Admin, InFlight, At
  <2>7. \A r \in Requests : AdminPlaced(req[r])' /\ UpToDate(req[r])'
    BY <1>1, <2>1 DEF CInv, AdminPlaced, UpToDate, Parses, InFlight, At, AdminPcs
  <2> QED
    BY <1>1, <2>3, <2>4, <2>5, <2>6, <2>7 DEF CInv, InTurns
<1>3. CASE c # Main
  <2>1. UNCHANGED dynamic /\ phase'[Main] = phase[Main]
    BY <1>3, FrontDoorAssumption DEF Boot, Enter, CInv, CTypes
  <2>2. CTypes'
    BY <1>1, <2>1 DEF CInv, CTypes
  <2>3. Dependent' /\ \A r \in Requests : AdminPlaced(req[r])'
    BY <1>1, <2>1 DEF CInv, Dependent, InFlight, At, AdminPlaced, Parses
  <2>4. inTurns => InTurns'
    BY <1>1, <2>1 DEF CInv, InTurns, OneAdmin, Admin, InFlight, At, InForce, Remembered,
                      Parses, UpToDate, TargetPath
  <2> QED
    BY <1>1, <2>2, <2>3, <2>4 DEF CInv
<1> QED
  BY <1>2, <1>3

\* A start goes on: it has no requests yet.
LEMMA StartKeeps ==
    ASSUME CInv, NEW c \in Replicas, Start(c) \/ LoseMigrations(c)
    PROVE  CInv'
<1>1. UNCHANGED <<req, control>> /\ phase' \in [Replicas -> Phases]
  BY DEF Start, OpenStorage, OpenDatabase, RunMigrations, LoseMigrations, Migrated,
         LoadCells, Enter, chassis, CInv, CTypes, Phases
<1>2. phase'[Main] = phase[Main] \/ phase[Main] # "serving"
  BY FrontDoorAssumption
  DEF Start, OpenStorage, OpenDatabase, RunMigrations, LoseMigrations, Migrated,
      LoadCells, Enter, chassis, CInv, CTypes
<1>3. CTypes'
  BY <1>1 DEF CInv, CTypes, control
<1>4. Dependent'
  BY <1>1, <1>2 DEF CInv, Dependent, InFlight, At
<1>5. \A r \in Requests : AdminPlaced(req[r])'
  BY <1>1 DEF CInv, AdminPlaced, Parses
<1>6. inTurns => InTurns'
  BY <1>1 DEF CInv, InTurns, OneAdmin, Admin, InFlight, At, InForce, Remembered, Exists,
              Parses, UpToDate, TargetPath, control
<1> QED
  BY <1>1, <1>3, <1>4, <1>5, <1>6 DEF CInv, control

LEMMA CrashCutsOff ==
    ASSUME CInv, RInv, NEW c \in Replicas, Crash(c)
    PROVE  CInv'
<1>1. /\ UNCHANGED <<files, dynamic, configured, environment, inTurns, synced, acked>>
      /\ phase' \in [Replicas -> Phases]
  BY DEF Crash, Enter, CInv, CTypes, Phases
<1>2. CTypes'
  BY <1>1 DEF CInv, CTypes
<1>3. inTurns => InForce' /\ Remembered'
  BY <1>1 DEF CInv, InTurns, InForce, Remembered, Exists, Parses
<1>4. CASE c = Main
  <2>1. \A r \in Requests :
           /\ req'[r].pc \in {"none", "answered"}
           /\ req'[r].pc = "none" \/ req'[r].pc = "answered"
    BY <1>4 DEF Crash, CutOff, Answered, InFlight, At, NoRequest
  <2>2. Dependent' /\ OneAdmin'
    BY <2>1 DEF Dependent, OneAdmin, Admin, InFlight, At
  <2>3. \A r \in Requests : AdminPlaced(req[r])' /\ UpToDate(req[r])'
    BY <2>1 DEF AdminPlaced, UpToDate, AdminPcs
  <2> QED
    BY <1>1, <1>2, <1>3, <2>2, <2>3 DEF CInv, InTurns
<1>5. CASE c # Main
  <2>1. UNCHANGED req /\ phase'[Main] = phase[Main]
    BY <1>5, FrontDoorAssumption DEF Crash, Enter, CInv, CTypes
  <2>2. Dependent' /\ \A r \in Requests : AdminPlaced(req[r])'
    BY <1>1, <2>1 DEF CInv, Dependent, InFlight, At, AdminPlaced, Parses
  <2>3. inTurns => OneAdmin' /\ \A r \in Requests : UpToDate(req[r])'
    BY <1>1, <2>1 DEF CInv, InTurns, OneAdmin, Admin, InFlight, At, UpToDate, TargetPath
  <2> QED
    BY <1>1, <1>2, <1>3, <2>2, <2>3 DEF CInv, InTurns
<1> QED
  BY <1>4, <1>5

\* In turns, an admin request arrives when none is at work.
LEMMA ArriveInControl ==
    ASSUME CInv, RInv, NEW r \in Requests, NEW kind \in KindsOf(traffic), Arrive(r, kind)
    PROVE  CInv'
<1>1. /\ \A q \in Requests \ {r} : req'[q] = req[q]
      /\ req'[r].kind = kind /\ req'[r].pc = Entry(kind)
  BY DEF Arrive, Receive, RInv, Shape, NoRequest, ReqFields
<1>2. /\ Entry(kind) \in {"authorize", "recent", "cached", "body"}
      /\ Entry(kind) = "authorize" => kind \in {"update", "reload"}
  <2>1. CASE traffic = "links"
    BY <2>1 DEF KindsOf, Entry
  <2>2. CASE traffic = "traces"
    BY <2>2 DEF KindsOf, Entry
  <2>3. CASE traffic = "control"
    BY <2>3 DEF KindsOf, Entry
  <2>4. CASE traffic = "boot"
    BY <2>4 DEF KindsOf, Entry
  <2> QED
    BY <2>1, <2>2, <2>3, <2>4 DEF RInv
<1>3. /\ UNCHANGED <<control, phase>> /\ phase[Main] = "serving"
      /\ inTurns => \A q \in Requests : ~Admin(q)
  BY DEF Arrive, Serving, chassis
<1>4. CTypes' /\ Dependent'
  BY <1>3 DEF CInv, CTypes, Dependent, control
<1>5. \A q \in Requests : AdminPlaced(req[q])'
  <2>1. AdminPlaced(req[r])'
    BY <1>1, <1>2 DEF AdminPlaced, AdminPcs
  <2>2. \A q \in Requests \ {r} : AdminPlaced(req[q])'
    BY <1>1 DEF CInv, AdminPlaced, Parses
  <2> QED
    BY <2>1, <2>2
<1>6. inTurns => OneAdmin'
  BY <1>1, <1>3 DEF OneAdmin, Admin, InFlight, At
<1>7. inTurns => InForce' /\ Remembered'
  BY <1>3 DEF CInv, InTurns, InForce, Remembered, Exists, Parses, control
<1>8. inTurns => \A q \in Requests : UpToDate(req[q])'
  <2>1. UpToDate(req[r])'
    BY <1>1, <1>2 DEF UpToDate
  <2>2. inTurns => \A q \in Requests \ {r} : UpToDate(req[q])'
    BY <1>1, <1>3 DEF CInv, InTurns, UpToDate, TargetPath, control
  <2> QED
    BY <2>1, <2>2
<1> QED
  BY <1>3, <1>4, <1>5, <1>6, <1>7, <1>8 DEF CInv, InTurns, control

LEMMA EditKeeps ==
    ASSUME CInv, NEW text, Edit(text)
    PROVE  CInv'
<1>1. /\ UNCHANGED <<req, phase, dynamic, configured, environment, inTurns>>
      /\ synced' = FALSE /\ acked' = NoValue /\ DOMAIN files' = DOMAIN files
      /\ inTurns => \A q \in Requests : ~Admin(q)
  BY DEF Edit, EditFile
<1>2. CTypes' /\ Dependent'
  BY <1>1 DEF CInv, CTypes, Dependent, InFlight, At
<1>3. \A q \in Requests : AdminPlaced(req[q])'
  BY <1>1 DEF CInv, AdminPlaced, Parses
<1>4. inTurns => OneAdmin' /\ InForce' /\ Remembered'
  BY <1>1 DEF OneAdmin, Admin, InFlight, At, InForce, Remembered
<1>5. inTurns => \A q \in Requests : UpToDate(req[q])'
  BY <1>1 DEF CInv, AdminPlaced, AdminPcs, UpToDate, Admin, InFlight, At
<1> QED
  BY <1>1, <1>2, <1>3, <1>4, <1>5 DEF CInv, InTurns

LEMMA DispatchAside ==
    ASSUME CInv, RInv, NEW r \in Requests, Dispatch(r)
    PROVE  CInv'
<1>1. UNCHANGED <<control, phase>>
  BY DEF Dispatch, chassis
<1>2. InFlight(r)
  BY DEF Dispatch, Lookup, Invoke, Finish, Redeem, At, InFlight
<1>3. /\ \A q \in Requests \ {r} : req'[q] = req[q]
      /\ req'[r].kind = req[r].kind /\ req'[r].pc \in {"answered", "invoke", "finish"}
  <2>1. CASE Reply(r)
    BY <2>1, AdminReplies
  <2>2. CASE \E id, logged : Answer(r, id, logged)
    BY <2>2 DEF Answer, Answered, NoRequest, RInv, Shape, ReqFields
  <2>3. CASE \E body \in Bodies(req[r].kind) :
               req' = [req EXCEPT ![r].pc = "invoke", ![r].arg = body[1], ![r].who = body[2]]
    BY <2>3 DEF RInv, Shape, ReqFields
  <2>4. CASE Redeem(r) /\ UNCHANGED memory
    BY <2>4, RedeemPlaced DEF Dispatch, memory, chassis
  <2> QED
    BY <2>1, <2>2, <2>3, <2>4 DEF Dispatch, Lookup, Invoke, Finish
<1>4. Aside
  BY <1>2, <1>3 DEF Aside, AdminPcs
<1> QED
  BY <1>1, <1>4, AsideKeeps

LEMMA ServeTracesAside ==
    ASSUME CInv, RInv, NEW r \in Requests, ServeTraces(r)
    PROVE  CInv'
<1>1. UNCHANGED <<control, phase>> /\ InFlight(r)
  BY DEF ServeTraces, ReadTraces, GetTrace, FetchTrace, KeepTrace, ListRecent, FetchIndex,
         AdoptIndex, At, InFlight, chassis
<1>2. \/ Reply(r)
      \/ \E pc \in {"fetch", "index"} : Goto(r, pc)
      \/ \E pc \in {"keep", "adopt"} : \E seen :
            req' = [req EXCEPT ![r].pc = pc, ![r].seen = seen]
  <2>1. CASE GetTrace(r) \/ KeepTrace(r) \/ ListRecent(r) \/ AdoptIndex(r)
    BY <2>1 DEF GetTrace, KeepTrace, ListRecent, AdoptIndex
  <2>2. CASE FetchTrace(r)
    BY <2>2 DEF FetchTrace
  <2>3. CASE FetchIndex(r)
    BY <2>3 DEF FetchIndex
  <2> QED
    BY <2>1, <2>2, <2>3 DEF ServeTraces, ReadTraces
<1>3. /\ \A q \in Requests \ {r} : req'[q] = req[q]
      /\ req'[r].kind = req[r].kind
      /\ req'[r].pc \in {"answered", "fetch", "index", "keep", "adopt"}
  BY <1>2 DEF Reply, Answered, Goto, NoRequest, RInv, Shape, ReqFields
<1>4. Aside
  BY <1>1, <1>3 DEF Aside, AdminPcs
<1> QED
  BY <1>1, <1>4, AsideKeeps

LEMMA ControlInductive == CInv /\ RInv /\ [Next]_vars => CInv'
<1> SUFFICES ASSUME CInv, RInv, [Next]_vars PROVE CInv'
  OBVIOUS
<1>1. CASE UNCHANGED vars
  BY <1>1, AsideKeeps DEF vars, Aside, chassis
<1>2. ASSUME NEW c \in Replicas, Boot(c) \/ Start(c) \/ LoseMigrations(c) \/ Crash(c)
      PROVE  CInv'
  BY <1>2, BootKeeps, StartKeeps, CrashCutsOff
<1>3. ASSUME NEW r \in Requests, NEW kind \in KindsOf(traffic), Arrive(r, kind)
      PROVE  CInv'
  BY <1>3, ArriveInControl
<1>4. ASSUME NEW r \in Requests, Handle(r)
      PROVE  CInv'
  BY <1>4, DispatchAside, ServeAdminInControl, ServeTracesAside DEF Handle
<1>5. CASE \/ \E r \in Requests : Record(r)
           \/ \E user \in Users : Ask(user)
           \/ HandleEvent
           \/ \E k \in StoreKeys : Expire(k)
  <2>1. UNCHANGED <<req, control, phase>>
    BY <1>5 DEF Record, Ask, HandleEvent, Expire, chassis
  <2> QED
    BY <2>1, AsideKeeps DEF Aside
<1>6. ASSUME NEW text \in Texts \cup {Malformed}, Edit(text)
      PROVE  CInv'
  BY <1>6, EditKeeps
<1> QED
  BY <1>1, <1>2, <1>3, <1>4, <1>5, <1>6 DEF Next

ControlInv == SignedInv /\ CInv

LEMMA AlwaysControlled == Spec => []ControlInv
<1>1. Init => ControlInv
  BY InitRequests, InitKeys, InitControl DEF SignedInv, ControlInv
<1>2. ControlInv /\ [Next]_vars => ControlInv'
  BY SignedInductive, ControlInductive DEF SignedInv, ControlInv
<1> QED
  BY <1>1, <1>2, PTL DEF Spec

-----------------------------------------------------------------------------
(* The theorems about the configuration *)

\* After an update or a reload was stored in turns, the file, what
\* /admin/config shows and what is in force are one text.
THEOREM FileInForce == Spec => []FileIsInForceInTurns
<1>1. ControlInv => FileIsInForceInTurns
  BY DEF ControlInv, CInv, InTurns, InForce, FileIsInForceInTurns
<1> QED
  BY <1>1, AlwaysControlled, PTL

\* An update that was answered 200 in turns is loaded by the next start, through
\* crashes, reloads and updates that failed before they opened the file.
THEOREM AcknowledgedIsLoaded == Spec => []UpdateSurvivesRestart
<1>1. ControlInv => UpdateSurvivesRestart
  BY LoadedAgain DEF ControlInv, UpdateSurvivesRestart
<1> QED
  BY <1>1, AlwaysControlled, PTL

\* While the process serves, a stored configuration has a greater version than
\* the one it replaces: in turns, no handler stores what it based on a version
\* that somebody else has replaced.
THEOREM VersionsGrow == Spec => VersionGrowsInTurns
<1>1. ASSUME ControlInv, [Next]_vars
      PROVE  inTurns /\ phase[Main] = "serving" =>
                dynamic' = dynamic \/ dynamic'.version > dynamic.version
  <2> SUFFICES ASSUME inTurns, phase[Main] = "serving"
               PROVE  dynamic' = dynamic \/ dynamic'.version > dynamic.version
    OBVIOUS
  <2>1. ASSUME NEW r \in Requests, StoreState(r)
        PROVE  dynamic'.version > dynamic.version
    <3>1. req[r].pc = "store" /\ dynamic'.version = req[r].base + 1
      BY <2>1 DEF StoreState, Reloaded, NextVersion, At
    <3>2. UpToDate(req[r]) /\ dynamic.version \in Nat
      BY <1>1 DEF ControlInv, CInv, CTypes, InTurns
    <3>3. dynamic'.version = dynamic.version + 1
      BY <3>1, <3>2 DEF UpToDate
    <3> QED
      BY <3>2, <3>3
  <2>2. ASSUME NEW r \in Requests, ServeAdmin(r)
        PROVE  dynamic' = dynamic \/ StoreState(r)
    BY <2>2 DEF ServeAdmin, Administer, Authorize, OpenFile, WriteFile, ReloadFile, control
  <2>3. ASSUME NEW c \in Replicas, Boot(c)
        PROVE  dynamic' = dynamic
    BY <2>3 DEF Boot
  <2>4. CASE /\ ~\E r \in Requests : ServeAdmin(r)
             /\ ~\E c \in Replicas : Boot(c)
    <3>1. CASE UNCHANGED vars
      BY <3>1 DEF vars, control
    <3>2. ASSUME NEW c \in Replicas, Start(c) \/ LoseMigrations(c) \/ Crash(c)
          PROVE  dynamic' = dynamic
      BY <3>2 DEF Start, OpenStorage, OpenDatabase, RunMigrations, LoseMigrations,
                  Migrated, LoadCells, Crash, control
    <3>3. ASSUME NEW r \in Requests,
                 \/ \E kind \in KindsOf(traffic) : Arrive(r, kind)
                 \/ Dispatch(r) \/ ServeTraces(r) \/ Record(r)
          PROVE  dynamic' = dynamic
      BY <3>3 DEF Arrive, Dispatch, ServeTraces, Record, control
    <3>4. CASE \/ \E user \in Users : Ask(user)
               \/ HandleEvent
               \/ \E k \in StoreKeys : Expire(k)
               \/ \E text \in Texts \cup {Malformed} : Edit(text)
      BY <3>4 DEF Ask, HandleEvent, Expire, Edit, EditFile, control
    <3> QED
      BY <1>1, <2>4, <3>1, <3>2, <3>3, <3>4 DEF Next, Handle
  <2> QED
    BY <2>1, <2>2, <2>3, <2>4
<1>2. ControlInv /\ [Next]_vars =>
        [/\ inTurns
         /\ phase[Main] = "serving"
         => dynamic' = dynamic \/ dynamic'.version > dynamic.version]_vars
  BY <1>1
<1> QED
  BY <1>2, AlwaysControlled, PTL DEF Spec, VersionGrowsInTurns

-----------------------------------------------------------------------------
(* Lists of traces *)

\* A list of ids without repetition, no longer than it may be, of traces that the
\* store has taken or lost.
Backed(list, saved) ==
    /\ list \in Seq(Ids) /\ Len(list) <= MaxRecent
    /\ \A m, n \in DOMAIN list : list[m] = list[n] => m = n
    /\ \A n \in DOMAIN list : list[n] \in saved

LEMMA EmptyBacked == ASSUME NEW saved PROVE Backed(<<>>, saved)
BY EmptySeq, TraceAssumption DEF Backed

\* The list front is the list with this id moved from place p to its front.
Arranged(front, list, id, p) ==
    /\ p \in 1..(Len(list) + 1) /\ (p <= Len(list) => list[p] = id)
    /\ p = Len(list) + 1 => \A n \in DOMAIN list : list[n] # id
    /\ front \in Seq(Ids)
    /\ Len(front) = IF p <= Len(list) THEN Len(list) ELSE Len(list) + 1
    /\ \A n \in 1..Len(front) : front[n] = IF n = 1 THEN id
                                ELSE IF n <= p THEN list[n - 1] ELSE list[n]

\* What InFront does, by position.
LEMMA InFrontArranged ==
    ASSUME NEW list \in Seq(Ids), NEW id \in Ids, NEW p, p = Place(list, id),
           NEW front, front = InFront(list, id)
    PROVE  Arranged(front, list, id, p)
<1> DEFINE a == SubSeq(list, 1, p - 1) b == SubSeq(list, p + 1, Len(list))
           h == <<id>> \o a
<1>0. front = h \o b
  BY DEF InFront
<1>1. Len(list) \in Nat /\ DOMAIN list = 1..Len(list)
      /\ \A n \in 1..Len(list) : list[n] \in Ids
  BY LenProperties, ElementOfSeq
<1>2. /\ p \in 1..(Len(list) + 1) /\ (p <= Len(list) => list[p] = id)
      /\ p = Len(list) + 1 => \A n \in DOMAIN list : list[n] # id
  <2>1. CASE \E n \in DOMAIN list : list[n] = id
    <3>1. p \in DOMAIN list /\ list[p] = id
      BY <2>1 DEF Place
    <3> QED BY <1>1, <3>1
  <2>2. CASE ~\E n \in DOMAIN list : list[n] = id
    <3>1. p = Len(list) + 1
      BY <2>2 DEF Place
    <3> QED BY <1>1, <2>2, <3>1
  <2> QED BY <2>1, <2>2
<1>3. a \in Seq(Ids) /\ Len(a) = p - 1 /\ \A n \in 1..(p - 1) : a[n] = list[n]
  <2>1. p - 1 \in Int /\ 1 \in Int /\ \A n \in 1..(p - 1) : list[n] \in Ids
    BY <1>1, <1>2
  <2>2. /\ a \in Seq(Ids) /\ Len(a) = IF 1 <= p - 1 THEN (p - 1) - 1 + 1 ELSE 0
        /\ \A n \in 1..((p - 1) - 1 + 1) : a[n] = list[1 + n - 1]
    BY <2>1, SubSeqProperties
  <2> HIDE DEF a
  <2>3. Len(a) = p - 1
    BY <1>1, <1>2, <2>2
  <2>4. \A n \in 1..(p - 1) : 1 + n - 1 = n /\ n \in 1..((p - 1) - 1 + 1)
    BY <1>1, <1>2
  <2> QED BY <2>2, <2>3, <2>4
<1>4. /\ b \in Seq(Ids) /\ Len(b) = IF p + 1 <= Len(list) THEN Len(list) - p ELSE 0
      /\ \A n \in 1..(Len(list) - p) : b[n] = list[p + n]
  <2>1. p + 1 \in Int /\ Len(list) \in Int /\ \A n \in (p + 1)..Len(list) : list[n] \in Ids
    BY <1>1, <1>2
  <2>2. /\ b \in Seq(Ids) /\ Len(b) = IF p + 1 <= Len(list) THEN Len(list) - (p + 1) + 1 ELSE 0
        /\ \A n \in 1..(Len(list) - (p + 1) + 1) : b[n] = list[(p + 1) + n - 1]
    BY <2>1, SubSeqProperties
  <2> HIDE DEF b
  <2>3. Len(list) - (p + 1) + 1 = Len(list) - p
    BY <1>1, <1>2
  <2>4. \A n \in 1..(Len(list) - p) : (p + 1) + n - 1 = p + n
    BY <1>1, <1>2
  <2> QED BY <2>2, <2>3, <2>4
<1>5. <<id>> \in Seq(Ids) /\ Len(<<id>>) = 1 /\ <<id>>[1] = id
  OBVIOUS
<1>6. /\ h \in Seq(Ids) /\ Len(h) = p
      /\ \A n \in 1..p : h[n] = IF n = 1 THEN id ELSE list[n - 1]
  <2>1. /\ h \in Seq(Ids) /\ Len(h) = 1 + Len(a)
        /\ \A n \in 1..(1 + Len(a)) : h[n] = IF n <= 1 THEN <<id>>[n] ELSE a[n - 1]
    <3> HIDE DEF a
    <3>1. /\ <<id>> \o a \in Seq(Ids) /\ Len(<<id>> \o a) = Len(<<id>>) + Len(a)
          /\ \A n \in 1 .. Len(<<id>>) + Len(a) : (<<id>> \o a)[n] =
                     IF n <= Len(<<id>>) THEN <<id>>[n] ELSE a[n - Len(<<id>>)]
      BY <1>3, <1>5, ConcatProperties
    <3> QED BY <3>1, <1>5
  <2> HIDE DEF h, a
  <2>2. Len(h) = p
    BY <1>1, <1>2, <1>3, <2>1
  <2>3. ASSUME NEW n \in 1..p PROVE h[n] = IF n = 1 THEN id ELSE list[n - 1]
    <3>1. n \in 1..(1 + Len(a)) /\ (n # 1 => n - 1 \in 1..(p - 1) /\ ~(n <= 1))
      BY <1>1, <1>2, <1>3
    <3> QED BY <3>1, <2>1, <1>3, <1>5
  <2> QED BY <2>1, <2>2, <2>3
<1> HIDE DEF a, b, h
<1>7. /\ front \in Seq(Ids) /\ Len(front) = p + Len(b)
      /\ \A n \in 1..(p + Len(b)) : front[n] = IF n <= p THEN h[n] ELSE b[n - p]
  <2>1. /\ h \o b \in Seq(Ids) /\ Len(h \o b) = Len(h) + Len(b)
        /\ \A n \in 1..(Len(h) + Len(b)) : (h \o b)[n] = IF n <= Len(h) THEN h[n] ELSE b[n - Len(h)]
    BY <1>4, <1>6, ConcatProperties
  <2> QED BY <2>1, <1>6, <1>0
<1>8. Len(front) = IF p <= Len(list) THEN Len(list) ELSE Len(list) + 1
  BY <1>1, <1>2, <1>4, <1>7
<1>9. ASSUME NEW n \in 1..Len(front)
      PROVE  front[n] = IF n = 1 THEN id ELSE IF n <= p THEN list[n - 1] ELSE list[n]
  <2>1. front[n] = IF n <= p THEN h[n] ELSE b[n - p]
    BY <1>7
  <2>2. CASE n <= p
    <3>1. n \in 1..p
      BY <2>2, <1>2, <1>1
    <3> QED BY <2>1, <2>2, <3>1, <1>6
  <2>3. CASE ~(n <= p)
    <3>1. n - p \in 1..(Len(list) - p) /\ p + (n - p) = n /\ n # 1
      BY <2>3, <1>1, <1>2, <1>8
    <3>2. b[n - p] = list[n]
      BY <3>1, <1>4
    <3> QED BY <2>1, <2>3, <3>1, <3>2
  <2> QED BY <2>2, <2>3
<1> QED BY <1>2, <1>7, <1>8, <1>9 DEF Arranged

\* The list after an id was moved to its front: still good, the others in it were
\* listed before, and what fell off its end is not in it.
LEMMA MovedToFront ==
    ASSUME NEW saved, NEW list, Backed(list, saved), NEW id \in Ids, id \in saved,
           NEW front, front = InFront(list, id), NEW t, t = Trimmed(front)
    PROVE  /\ Backed(t, saved)
           /\ \A n \in DOMAIN t : /\ t[n] = id \/ \E m \in DOMAIN list : list[m] = t[n]
                                /\ t[n] \notin Popped(front)
<1>p. PICK p : p = Place(list, id)
  OBVIOUS
<1>1. /\ list \in Seq(Ids) /\ Len(list) \in Nat /\ DOMAIN list = 1..Len(list)
      /\ \A m, n \in 1..Len(list) : list[m] = list[n] => m = n
      /\ \A n \in 1..Len(list) : list[n] \in saved
      /\ MaxRecent \in Nat \ {0}
  BY LenProperties, TraceAssumption DEF Backed
<1>2. /\ p \in 1..(Len(list) + 1) /\ (p <= Len(list) => list[p] = id)
      /\ p = Len(list) + 1 => \A n \in 1..Len(list) : list[n] # id
      /\ front \in Seq(Ids)
      /\ Len(front) = IF p <= Len(list) THEN Len(list) ELSE Len(list) + 1
      /\ \A n \in 1..Len(front) : front[n] = IF n = 1 THEN id
                                  ELSE IF n <= p THEN list[n - 1] ELSE list[n]
  <2>1. list \in Seq(Ids) /\ id \in Ids
    BY <1>1
  <2>2. Arranged(front, list, id, p)
    BY <2>1, <1>p, InFrontArranged
  <2> QED BY <2>2, <1>1 DEF Arranged
<1>3. ASSUME NEW n \in 1..Len(list), list[n] = id PROVE n = p
  <2>1. p \in 1..Len(list) /\ list[p] = id
    <3>1. p # Len(list) + 1
      BY <1>2, <1>3
    <3> QED BY <3>1, <1>1, <1>2
  <2> QED BY <2>1, <1>1, <1>3
<1>4. \A n \in 1..Len(front) : \/ n = 1 /\ front[n] = id
                               \/ /\ n \in 2..p /\ n - 1 \in 1..Len(list) /\ n - 1 # p
                                  /\ front[n] = list[n - 1]
                               \/ /\ n > p /\ n # 1 /\ n \in 1..Len(list) /\ front[n] = list[n]
  <2>1. SUFFICES ASSUME NEW n \in 1..Len(front)
                 PROVE  \/ n = 1 /\ front[n] = id
                        \/ /\ n \in 2..p /\ n - 1 \in 1..Len(list) /\ n - 1 # p
                           /\ front[n] = list[n - 1]
                        \/ /\ n > p /\ n # 1 /\ n \in 1..Len(list) /\ front[n] = list[n]
    OBVIOUS
  <2>2. front[n] = IF n = 1 THEN id ELSE IF n <= p THEN list[n - 1] ELSE list[n]
    BY <1>2
  <2>3. CASE n = 1
    BY <2>2, <2>3
  <2>4. CASE n # 1 /\ n <= p
    BY <2>2, <2>4, <1>1, <1>2
  <2>5. CASE n # 1 /\ ~(n <= p)
    BY <2>2, <2>5, <1>1, <1>2
  <2> QED BY <2>3, <2>4, <2>5
<1>5. \A m, n \in 1..Len(front) : front[m] = front[n] => m = n
  <2> SUFFICES ASSUME NEW m \in 1..Len(front), NEW n \in 1..Len(front), front[m] = front[n]
               PROVE  m = n
    OBVIOUS
  <2>1. CASE m = 1 /\ n # 1
    BY <2>1, <1>1, <1>2, <1>3, <1>4
  <2>2. CASE m # 1 /\ n = 1
    BY <2>2, <1>1, <1>2, <1>3, <1>4
  <2>3. CASE m # 1 /\ n # 1
    <3>1. ASSUME NEW k \in 1..Len(front), k # 1
          PROVE  \E x \in 1..Len(list) : /\ front[k] = list[x]
                                         /\ \/ x = k - 1 /\ k <= p
                                            \/ x = k /\ k > p
      <4>1. CASE k \in 2..p /\ k - 1 \in 1..Len(list) /\ front[k] = list[k - 1]
        BY <4>1, <1>1, <1>2
      <4>2. CASE k > p /\ k \in 1..Len(list) /\ front[k] = list[k]
        BY <4>2
      <4> QED BY <3>1, <4>1, <4>2, <1>4
    <3>2. PICK x \in 1..Len(list) : /\ front[m] = list[x]
                                    /\ (x = m - 1 /\ m <= p) \/ (x = m /\ m > p)
      BY <2>3, <3>1
    <3>4. PICK y \in 1..Len(list) : /\ front[n] = list[y]
                                    /\ (y = n - 1 /\ n <= p) \/ (y = n /\ n > p)
      BY <2>3, <3>1
    <3>3. x = y
      BY <3>2, <3>4, <1>1
    <3> QED BY <3>2, <3>4, <3>3, <1>1, <1>2
  <2>4. CASE m = 1 /\ n = 1
    BY <2>4
  <2> QED BY <2>1, <2>2, <2>3, <2>4
<1>6. \A n \in 1..Len(front) : /\ front[n] \in saved
                               /\ front[n] = id \/ \E m \in 1..Len(list) : list[m] = front[n]
  BY <1>1, <1>4
<1>8. /\ t \in Seq(Ids) /\ Len(t) <= MaxRecent /\ Len(t) <= Len(front) /\ Len(t) \in Nat
      /\ \A n \in 1..Len(t) : t[n] = front[n]
      /\ Len(front) > MaxRecent => Len(t) = MaxRecent
  <2>1. Len(front) \in Nat /\ \A n \in 1..Len(front) : front[n] \in Ids
    BY <1>1, <1>2, LenProperties, ElementOfSeq
  <2>2. CASE Len(front) > MaxRecent
    <3>1. t = SubSeq(front, 1, MaxRecent)
      BY <2>2 DEF Trimmed
    <3>2. 1 \in Int /\ MaxRecent \in Int /\ \A n \in 1..MaxRecent : front[n] \in Ids
      BY <1>1, <2>1, <2>2
    <3>3. /\ t \in Seq(Ids) /\ Len(t) = IF 1 <= MaxRecent THEN MaxRecent - 1 + 1 ELSE 0
          /\ \A n \in 1..(MaxRecent - 1 + 1) : t[n] = front[1 + n - 1]
      BY <3>1, <3>2, SubSeqProperties
    <3>4. Len(t) = MaxRecent /\ \A n \in 1..MaxRecent : 1 + n - 1 = n
      BY <1>1, <3>3
    <3> QED BY <1>1, <2>1, <2>2, <3>3, <3>4
  <2>3. CASE ~(Len(front) > MaxRecent)
    BY <1>1, <1>2, <2>1, <2>3 DEF Trimmed
  <2> QED BY <2>2, <2>3
<1>9. DOMAIN t = 1..Len(t)
  BY <1>8, LenProperties
<1>10. Backed(t, saved)
  <2>1. \A n \in 1..Len(t) : n \in 1..Len(front)
    BY <1>8, <1>2, LenProperties
  <2>2. \A m, n \in 1..Len(t) : t[m] = t[n] => m = n
    BY <1>5, <1>8, <2>1
  <2>3. \A n \in 1..Len(t) : t[n] \in saved
    BY <1>6, <1>8, <2>1
  <2> QED BY <1>8, <1>9, <2>2, <2>3 DEF Backed
<1>11. ASSUME NEW n \in 1..Len(t) PROVE t[n] \notin Popped(front)
  <2>1. SUFFICES ASSUME NEW m \in (MaxRecent + 1)..Len(front), front[m] = t[n] PROVE FALSE
    BY DEF Popped
  <2>2. m \in 1..Len(front) /\ n \in 1..Len(front) /\ n < m
    BY <1>1, <1>2, <1>8, LenProperties
  <2> QED BY <2>1, <2>2, <1>5, <1>8
<1>12. ASSUME NEW n \in 1..Len(t)
       PROVE  t[n] = id \/ \E m \in DOMAIN list : list[m] = t[n]
  <2>1. n \in 1..Len(front) /\ t[n] = front[n]
    BY <1>8, <1>2, LenProperties
  <2> QED BY <2>1, <1>1, <1>6
<1> QED BY <1>9, <1>10, <1>11, <1>12

\* A list without repetition has as many members as entries.
LEMMA ListedOnce ==
    ASSUME NEW saved, NEW list, Backed(list, saved)
    PROVE  Cardinality({list[n] : n \in DOMAIN list}) = Len(list)
<1> DEFINE S == {list[n] : n \in DOMAIN list}
<1>1. Len(list) \in Nat /\ DOMAIN list = 1..Len(list) /\ list \in [1..Len(list) -> S]
  BY LenProperties DEF Backed
<1>2. list \in Bijection(1..Len(list), S)
  BY <1>1 DEF Backed, Bijection, Injection, Surjection, IsInjective
<1>3. IsFiniteSet(1..Len(list)) /\ Cardinality(1..Len(list)) = Len(list)
  <2>1. 1 \in Int /\ Len(list) \in Int
    BY <1>1
  <2>2. Cardinality(1..Len(list)) = IF 1 > Len(list) THEN 0 ELSE Len(list) - 1 + 1
    BY <2>1, FS_Interval
  <2>3. IsFiniteSet(1..Len(list))
    BY <2>1, FS_Interval
  <2>4. (IF 1 > Len(list) THEN 0 ELSE Len(list) - 1 + 1) = Len(list)
    BY <1>1
  <2> QED BY <2>2, <2>3, <2>4
<1> QED BY <1>2, <1>3, FS_Bijection DEF ExistsBijection

-----------------------------------------------------------------------------
(* The traces: what is listed, stored and held *)

\* The ids whose trace the store has, or had and lost.
Saved == {i \in Ids : kv[i] # NoValue \/ i \in unsaved}
Recorded == Requests \cup {0}

\* What a request that reads traces holds.
ReaderOK(x, saved) ==
    /\ x.pc \in {"cached", "fetch", "keep"} => x.arg \in Ids
    /\ x.pc = "keep" => x.seen \in Recorded
    /\ x.pc = "adopt" => Backed(x.seen, saved)

\* What a task that records one does.
TaskOK(t, x, saved) ==
    /\ t.pc \in {"save", "remember"} => x.pc = "answered" /\ x.arg \in Ids
    /\ t.pc = "remember" => x.arg \in saved
    /\ Backed(t.copy, saved)

StoreOK ==
    /\ \A i \in Ids : kv[i] \in Recorded \cup {NoValue}
    /\ kv[RecentIndex] = NoValue \/ Backed(kv[RecentIndex], Saved)

MemoryOK ==
    /\ Backed(recent, Saved)
    /\ traces \in [Ids -> Recorded \cup {NoValue}]
    /\ \A i \in Listed : traces[i] # NoValue \/ i \in indexed

\* The memory of a process that does not serve is empty.
Forgotten == recent = <<>> /\ \A r \in Requests : task[r] = NoTask

TInv ==
    /\ StoreOK /\ MemoryOK
    /\ \A r \in Requests : ReaderOK(req[r], Saved) /\ TaskOK(task[r], req[r], Saved)
    /\ phase[Main] # "serving" => Forgotten

LEMMA BackedMore ==
    ASSUME NEW list, NEW saved, Backed(list, saved), NEW more, saved \subseteq more
    PROVE  Backed(list, more)
BY DEF Backed

LEMMA KnownIsSaved == ASSUME NEW r \in Recorded PROVE r # NoValue
BY FrontDoorAssumption DEF Recorded, Requests

LEMMA InitTraces == Init => TInv
<1> SUFFICES ASSUME Init PROVE TInv
  OBVIOUS
<1>1. /\ recent = <<>> /\ traces = [i \in Ids |-> NoValue]
      /\ task = [r \in Requests |-> NoTask] /\ req = [r \in Requests |-> NoRequest]
  BY DEF Init, TraceInit, HttpInit
<1>2. RecentIndex \in StoreKeys /\ RecentIndex \notin Ids /\ Ids \subseteq StoreKeys
  BY FrontDoorAssumption
<1>3. StoreOK
  <2>1. CASE medium = "memory"
    <3>1. kv = [k \in StoreKeys |-> NoValue]
      BY <2>1 DEF Init, KeyValueInit
    <3> QED BY <3>1, <1>2 DEF StoreOK
  <2>2. CASE medium # "memory"
    <3>1. kv = LeftByEarlier
      BY <2>2 DEF Init, KeyValueInit
    <3>2. \A i \in Ids : kv[i] = IF \E n \in DOMAIN Earlier : Earlier[n] = i THEN 0 ELSE NoValue
      BY <3>1, <1>2 DEF LeftByEarlier
    <3>3. kv[RecentIndex] = IF Earlier = <<>> THEN NoValue ELSE Earlier
      BY <3>1, <1>2 DEF LeftByEarlier
    <3>4. \A n \in DOMAIN Earlier : Earlier[n] \in Ids
      BY TraceAssumption, ElementOfSeq, LenProperties
    <3>5. 0 # NoValue
      BY FrontDoorAssumption
    <3>6. \A n \in DOMAIN Earlier : Earlier[n] \in Saved
      BY <3>2, <3>4, <3>5 DEF Saved
    <3>7. Backed(Earlier, Saved)
      BY <3>6, TraceAssumption DEF Backed
    <3> QED BY <3>2, <3>3, <3>7 DEF StoreOK, Recorded
  <2> QED BY <2>1, <2>2
<1>4. Backed(<<>>, Saved)
  BY EmptyBacked
<1>5. MemoryOK
  BY <1>1, <1>4 DEF MemoryOK, Listed
<1>6. ASSUME NEW r \in Requests
      PROVE  ReaderOK(req[r], Saved) /\ TaskOK(task[r], req[r], Saved) /\ task[r] = NoTask
  BY <1>1, <1>4 DEF NoRequest, NoTask, ReaderOK, TaskOK
<1> QED BY <1>1, <1>3, <1>5, <1>6 DEF TInv, Forgotten

\* A step that leaves the traces alone.
TracesAside ==
    /\ UNCHANGED memory
    /\ \A k \in Ids \cup {RecentIndex} : kv'[k] = kv[k]
    /\ phase'[Main] # "serving" => phase[Main] # "serving"

LEMMA AsideKeepsTraces ==
    ASSUME TInv, TracesAside,
           \A r \in Requests : \/ req'[r] = req[r]
                               \/ req[r].pc # "answered" /\ ReaderOK(req'[r], Saved)
    PROVE  TInv'
<1>1. Saved' = Saved /\ recent' = recent /\ traces' = traces /\ task' = task
      /\ indexed' = indexed
  BY DEF TracesAside, Saved, memory
<1>2. StoreOK' /\ MemoryOK'
  BY <1>1 DEF TInv, StoreOK, MemoryOK, TracesAside, Listed
<1>3. ASSUME NEW r \in Requests
      PROVE  ReaderOK(req[r], Saved)' /\ TaskOK(task[r], req[r], Saved)'
  <2>1. ReaderOK(req[r], Saved) /\ TaskOK(task[r], req[r], Saved)
    BY DEF TInv
  <2>2. CASE req'[r] = req[r]
    BY <2>1, <2>2, <1>1
  <2>3. CASE req[r].pc # "answered" /\ ReaderOK(req'[r], Saved)
    <3>1. task[r].pc \notin {"save", "remember"}
      BY <2>1, <2>3 DEF TaskOK
    <3> QED BY <2>1, <2>3, <3>1, <1>1 DEF TaskOK
  <2> QED BY <2>2, <2>3
<1>4. phase'[Main] # "serving" => Forgotten'
  BY <1>1 DEF TInv, TracesAside, Forgotten
<1> QED BY <1>2, <1>3, <1>4 DEF TInv

-----------------------------------------------------------------------------
(* Recording *)

\* The store takes a value under a key, or its answer is lost.
LEMMA SetCases ==
    ASSUME DOMAIN kv = StoreKeys, NEW k \in StoreKeys, NEW v, Set(k, v) \/ SetFails(k, v)
    PROVE  /\ \A j \in StoreKeys \ {k} : kv'[j] = kv[j]
           /\ kv'[k] \in {kv[k], v}
           /\ Set(k, v) => kv'[k] = v
BY DEF Set, SetFails

LEMMA SaveTraceKeeps ==
    ASSUME TInv, Shape, DOMAIN kv = StoreKeys, NEW r \in Requests, SaveTrace(r),
           UNCHANGED <<req, phase>>
    PROVE  TInv'
<1> DEFINE id == req[r].arg
<1>1. task[r].pc = "save" /\ TaskOK(task[r], req[r], Saved)
  BY DEF SaveTrace, Doing, TInv
<1>2. id \in Ids /\ id \in StoreKeys /\ id # RecentIndex
  BY <1>1, FrontDoorAssumption DEF TaskOK
<1>3. r \in Recorded /\ r # NoValue
  BY KnownIsSaved DEF Recorded
<1>4. /\ \A k \in StoreKeys \ {id} : kv'[k] = kv[k]
      /\ kv'[id] \in {kv[id], r}
      /\ \/ kv'[id] = r /\ unsaved' = unsaved \ {id}
         \/ unsaved' = unsaved \cup {id}
  BY <1>2, SetCases DEF SaveTrace
<1>5. Ids \subseteq StoreKeys /\ RecentIndex \in StoreKeys
  BY FrontDoorAssumption
<1>6. Saved \subseteq Saved' /\ id \in Saved'
  BY <1>2, <1>3, <1>4, <1>5 DEF Saved
<1>7. /\ UNCHANGED <<recent, traces, indexed>>
      /\ \A q \in Requests \ {r} : task'[q] = task[q]
      /\ task'[r].pc = "remember" /\ task'[r].copy = task[r].copy
  BY DEF SaveTrace, Step, Shape
<1>8. StoreOK'
  <2>1. \A i \in Ids : kv'[i] \in Recorded \cup {NoValue}
    BY <1>3, <1>4, <1>5 DEF TInv, StoreOK
  <2>2. kv'[RecentIndex] = kv[RecentIndex]
    BY <1>2, <1>4, <1>5
  <2> QED BY <2>1, <2>2, <1>6, BackedMore DEF TInv, StoreOK
<1>9. MemoryOK'
  BY <1>6, <1>7, BackedMore DEF TInv, MemoryOK, Listed
<1>10. ASSUME NEW q \in Requests
       PROVE  ReaderOK(req[q], Saved)' /\ TaskOK(task[q], req[q], Saved)'
  <2>1. ReaderOK(req[q], Saved) /\ TaskOK(task[q], req[q], Saved) /\ req'[q] = req[q]
    BY DEF TInv
  <2>2. ReaderOK(req[q], Saved)'
    BY <2>1, <1>6, BackedMore DEF ReaderOK
  <2>3. CASE q = r
    BY <2>1, <2>2, <2>3, <1>1, <1>2, <1>6, <1>7, BackedMore DEF TaskOK
  <2>4. CASE q # r
    <3>1. task'[q] = task[q]
      BY <2>4, <1>7
    <3> QED BY <2>1, <2>2, <3>1, <1>6, BackedMore DEF TaskOK
  <2> QED BY <2>3, <2>4
<1>11. phase[Main] = "serving"
  BY <1>1 DEF TInv, Forgotten, NoTask
<1> QED BY <1>8, <1>9, <1>10, <1>11 DEF TInv

LEMMA RememberKeeps ==
    ASSUME TInv, Shape, NEW r \in Requests, Remember(r), UNCHANGED <<req, phase>>
    PROVE  TInv'
<1>i. PICK id : id = req[r].arg
  OBVIOUS
<1>f. PICK front : front = InFront(recent, id)
  OBVIOUS
<1>1. task[r].pc = "remember" /\ TaskOK(task[r], req[r], Saved)
  BY DEF Remember, Doing, TInv
<1>2. id \in Ids /\ id \in Saved
  BY <1>1, <1>i DEF TaskOK
<1>3. /\ recent' = Trimmed(front)
      /\ traces' = [i \in Ids |-> IF i = id THEN r
                                  ELSE IF i \in Popped(front) THEN NoValue ELSE traces[i]]
      /\ indexed' = indexed \ {id}
      /\ Step(r, "copy") /\ UNCHANGED <<kv, unsaved>>
  BY <1>i, <1>f DEF Remember
<1>4. Saved' = Saved
  BY <1>3 DEF Saved
<1>5. Backed(recent, Saved)
  BY DEF TInv, MemoryOK
<1>6. /\ Backed(recent', Saved)
      /\ \A n \in DOMAIN recent' :
            /\ recent'[n] = id \/ \E m \in DOMAIN recent : recent[m] = recent'[n]
            /\ recent'[n] \notin Popped(front)
  BY <1>2, <1>3, <1>5, <1>f, MovedToFront
<1>7. r # NoValue /\ r \in Recorded
  BY KnownIsSaved DEF Recorded
<1>8. MemoryOK'
  <2>1. traces' \in [Ids -> Recorded \cup {NoValue}]
    BY <1>3, <1>7 DEF TInv, MemoryOK
  <2>2. ASSUME NEW n \in DOMAIN recent'
        PROVE  traces'[recent'[n]] # NoValue \/ recent'[n] \in indexed'
    <3>1. recent'[n] \in Ids /\ recent'[n] \notin Popped(front)
      BY <1>6, LenProperties, ElementOfSeq DEF Backed
    <3>2. CASE recent'[n] = id
      BY <3>1, <3>2, <1>3, <1>7
    <3>3. CASE recent'[n] # id
      <4>1. recent'[n] \in Listed
        BY <3>3, <1>6 DEF Listed
      <4>2. traces[recent'[n]] # NoValue \/ recent'[n] \in indexed
        BY <4>1 DEF TInv, MemoryOK
      <4> QED BY <4>2, <3>1, <3>3, <1>3
    <3> QED BY <3>2, <3>3
  <2>3. \A i \in Listed' : traces'[i] # NoValue \/ i \in indexed'
    BY <2>2 DEF Listed
  <2> QED BY <2>1, <2>3, <1>4, <1>6 DEF MemoryOK
<1>9. StoreOK'
  BY <1>3, <1>4 DEF TInv, StoreOK
<1>10. ASSUME NEW q \in Requests
       PROVE  ReaderOK(req[q], Saved)' /\ TaskOK(task[q], req[q], Saved)'
  <2>1. ReaderOK(req[q], Saved) /\ TaskOK(task[q], req[q], Saved) /\ req'[q] = req[q]
    BY DEF TInv
  <2>2. task'[q] = task[q] \/ (task'[q].pc = "copy" /\ task'[q].copy = task[q].copy)
    BY <1>3 DEF Step, Shape
  <2> QED BY <2>1, <2>2, <1>4 DEF TaskOK
<1>11. phase[Main] = "serving"
  BY <1>1 DEF TInv, Forgotten, NoTask
<1> QED BY <1>8, <1>9, <1>10, <1>11 DEF TInv

LEMMA CopyRecentKeeps ==
    ASSUME TInv, Shape, NEW r \in Requests, CopyRecent(r), UNCHANGED <<req, phase>>
    PROVE  TInv'
<1>1. /\ task[r].pc = "copy" /\ UNCHANGED <<kv, recent, traces, indexed, unsaved>>
      /\ task' = [task EXCEPT ![r].pc = "index", ![r].copy = recent]
  BY DEF CopyRecent, Doing
<1>2. Saved' = Saved
  BY <1>1 DEF Saved
<1>3. StoreOK' /\ MemoryOK'
  BY <1>1, <1>2 DEF TInv, StoreOK, MemoryOK, Listed
<1>4. ASSUME NEW q \in Requests
      PROVE  ReaderOK(req[q], Saved)' /\ TaskOK(task[q], req[q], Saved)'
  <2>1. /\ ReaderOK(req[q], Saved) /\ TaskOK(task[q], req[q], Saved) /\ req'[q] = req[q]
        /\ Backed(recent, Saved)
    BY DEF TInv, MemoryOK
  <2>2. task'[q] = task[q] \/ (task'[q].pc = "index" /\ task'[q].copy = recent)
    BY <1>1 DEF Shape
  <2> QED BY <2>1, <2>2, <1>2 DEF TaskOK
<1>5. phase[Main] = "serving"
  BY <1>1 DEF TInv, Forgotten, NoTask
<1> QED BY <1>3, <1>4, <1>5 DEF TInv

LEMMA SaveIndexKeeps ==
    ASSUME TInv, Shape, DOMAIN kv = StoreKeys, NEW r \in Requests, SaveIndex(r),
           UNCHANGED <<req, phase>>
    PROVE  TInv'
<1>1. /\ task[r].pc = "index" /\ UNCHANGED <<recent, traces, indexed, unsaved>>
      /\ task' = [task EXCEPT ![r] = [NoTask EXCEPT !.pc = "done"]]
  BY DEF SaveIndex, Doing
<1>2. RecentIndex \in StoreKeys /\ RecentIndex \notin Ids /\ Ids \subseteq StoreKeys
  BY FrontDoorAssumption
<1>3. /\ \A k \in StoreKeys \ {RecentIndex} : kv'[k] = kv[k]
      /\ kv'[RecentIndex] \in {kv[RecentIndex], task[r].copy}
  BY <1>2, SetCases DEF SaveIndex
<1>4. Saved' = Saved
  BY <1>1, <1>2, <1>3 DEF Saved
<1>5. Backed(task[r].copy, Saved)
  BY DEF TInv, TaskOK
<1>6. StoreOK' /\ MemoryOK'
  <2>1. MemoryOK'
    BY <1>1, <1>4 DEF TInv, MemoryOK, Listed
  <2>2. \A i \in Ids : kv'[i] \in Recorded \cup {NoValue}
    BY <1>2, <1>3 DEF TInv, StoreOK
  <2>3. kv'[RecentIndex] = NoValue \/ Backed(kv'[RecentIndex], Saved)
    BY <1>3, <1>5 DEF TInv, StoreOK
  <2> QED BY <2>1, <2>2, <2>3, <1>4 DEF StoreOK
<1>7. ASSUME NEW q \in Requests
      PROVE  ReaderOK(req[q], Saved)' /\ TaskOK(task[q], req[q], Saved)'
  <2>1. /\ ReaderOK(req[q], Saved) /\ TaskOK(task[q], req[q], Saved) /\ req'[q] = req[q]
        /\ Backed(<<>>, Saved)
    BY EmptyBacked DEF TInv
  <2>2. task'[q] = task[q] \/ (task'[q].pc = "done" /\ task'[q].copy = <<>>)
    BY <1>1 DEF Shape, NoTask
  <2> QED BY <2>1, <2>2, <1>4 DEF TaskOK
<1>8. phase[Main] = "serving"
  BY <1>1 DEF TInv, Forgotten, NoTask
<1> QED BY <1>6, <1>7, <1>8 DEF TInv

\* What requests and tasks hold stays good while the store loses nothing.
LEMMA RequestsHold ==
    ASSUME TInv, Saved \subseteq Saved', UNCHANGED task,
           \A r \in Requests : \/ req'[r] = req[r]
                               \/ req[r].pc # "answered" /\ ReaderOK(req'[r], Saved)
    PROVE  \A r \in Requests : ReaderOK(req[r], Saved)' /\ TaskOK(task[r], req[r], Saved)'
<1> TAKE r \in Requests
<1>1. ReaderOK(req[r], Saved) /\ TaskOK(task[r], req[r], Saved)
  BY DEF TInv
<1>2. ReaderOK(req'[r], Saved)
  BY <1>1
<1>3. ReaderOK(req[r], Saved)'
  BY <1>2, BackedMore DEF ReaderOK
<1>4. /\ Backed(task[r].copy, Saved')
      /\ task[r].pc = "remember" => req[r].arg \in Saved'
      /\ task[r].pc \in {"save", "remember"} => req'[r] = req[r]
  BY <1>1, BackedMore DEF TaskOK
<1> QED BY <1>1, <1>3, <1>4 DEF TaskOK

-----------------------------------------------------------------------------
(* Reading *)

LEMMA ReplyMoves ==
    ASSUME Shape, NEW r \in Requests, Reply(r)
    PROVE  /\ \A q \in Requests \ {r} : req'[q] = req[q]
           /\ req'[r].pc = "answered" /\ \A saved : ReaderOK(req'[r], saved)
<1>1. \A q \in Requests \ {r} : req'[q] = req[q]
  BY DEF Shape, Reply
<1>2. req'[r].pc = "answered"
  BY DEF Shape, Reply, Answered, NoRequest
<1> QED BY <1>1, <1>2 DEF ReaderOK

LEMMA OneReaderMoves ==
    ASSUME TInv, TracesAside, NEW r \in Requests, req[r].pc # "answered",
           \A q \in Requests \ {r} : req'[q] = req[q], ReaderOK(req'[r], Saved)
    PROVE  TInv'
BY AsideKeepsTraces

\* What a reader fetches is of the store; what it keeps is of what it fetched.
LEMMA FetchesKeep ==
    ASSUME TInv, Shape, NEW r \in Requests,
           GetTrace(r) \/ FetchTrace(r) \/ ListRecent(r) \/ FetchIndex(r),
           UNCHANGED <<kv, phase>>
    PROVE  TInv'
<1>1. TracesAside
  BY DEF GetTrace, FetchTrace, ListRecent, FetchIndex, TracesAside
<1>2. ReaderOK(req[r], Saved) /\ StoreOK /\ DOMAIN req = Requests /\ DOMAIN req[r] = ReqFields
  BY DEF TInv, Shape
<1>3. req[r].pc # "answered"
  BY DEF GetTrace, FetchTrace, ListRecent, FetchIndex, At
<1>4. CASE Reply(r)
  BY <1>1, <1>3, <1>4, ReplyMoves, OneReaderMoves
<1>5. CASE GetTrace(r) /\ Goto(r, "fetch")
  <2>1. /\ \A q \in Requests \ {r} : req'[q] = req[q]
        /\ req'[r].pc = "fetch" /\ req'[r].arg = req[r].arg
    BY <1>5, <1>2 DEF Goto, ReqFields
  <2>2. ReaderOK(req'[r], Saved)
    BY <2>1, <1>5, <1>2 DEF GetTrace, At, ReaderOK
  <2> QED BY <1>1, <1>3, <2>1, <2>2, OneReaderMoves
<1>6. CASE ListRecent(r) /\ Goto(r, "index")
  <2>1. /\ \A q \in Requests \ {r} : req'[q] = req[q]
        /\ req'[r].pc = "index"
    BY <1>6, <1>2 DEF Goto, ReqFields
  <2>2. ReaderOK(req'[r], Saved)
    BY <2>1 DEF ReaderOK
  <2> QED BY <1>1, <1>3, <2>1, <2>2, OneReaderMoves
<1>7. CASE FetchTrace(r) /\ ~Reply(r)
  <2>1. req[r].pc = "fetch" /\ req[r].arg \in Ids
    BY <1>7, <1>2 DEF FetchTrace, At, ReaderOK
  <2>2. /\ kv[req[r].arg] # NoValue
        /\ req' = [req EXCEPT ![r].pc = "keep", ![r].seen = kv[req[r].arg]]
    BY <1>7 DEF FetchTrace
  <2>3. /\ \A q \in Requests \ {r} : req'[q] = req[q]
        /\ req'[r].pc = "keep" /\ req'[r].arg = req[r].arg /\ req'[r].seen = kv[req[r].arg]
    BY <2>2, <1>2 DEF ReqFields
  <2>4. kv[req[r].arg] \in Recorded
    BY <2>1, <2>2, <1>2 DEF StoreOK
  <2>5. ReaderOK(req'[r], Saved)
    BY <2>1, <2>3, <2>4 DEF ReaderOK
  <2> QED BY <1>1, <1>3, <2>3, <2>5, OneReaderMoves
<1>8. CASE FetchIndex(r) /\ ~Reply(r)
  <2>1. /\ kv[RecentIndex] # NoValue
        /\ req' = [req EXCEPT ![r].pc = "adopt", ![r].seen = kv[RecentIndex]]
    BY <1>8 DEF FetchIndex
  <2>2. /\ \A q \in Requests \ {r} : req'[q] = req[q]
        /\ req'[r].pc = "adopt" /\ req'[r].seen = kv[RecentIndex]
    BY <2>1, <1>2 DEF ReqFields
  <2>3. ReaderOK(req'[r], Saved)
    BY <2>1, <2>2, <1>2 DEF ReaderOK, StoreOK
  <2> QED BY <1>1, <1>3, <2>2, <2>3, OneReaderMoves
<1> QED BY <1>4, <1>5, <1>6, <1>7, <1>8 DEF GetTrace, ListRecent

\* A request at work has a process that serves.
LEMMA AtWork ==
    ASSUME CInv, NEW r \in Requests, InFlight(r)
    PROVE  phase[Main] = "serving"
BY DEF CInv, Dependent

LEMMA KeepTraceKeeps ==
    ASSUME TInv, Shape, CInv, NEW r \in Requests, KeepTrace(r), UNCHANGED <<kv, phase>>
    PROVE  TInv'
<1>1. /\ req[r].pc = "keep" /\ InFlight(r) /\ Reply(r)
      /\ UNCHANGED <<recent, task, indexed, unsaved>>
      /\ traces' = [traces EXCEPT ![req[r].arg] = req[r].seen]
  BY DEF KeepTrace, At, InFlight
<1>2. req[r].arg \in Ids /\ req[r].seen \in Recorded /\ req[r].seen # NoValue
  BY <1>1, KnownIsSaved DEF TInv, ReaderOK
<1>3. Saved' = Saved
  BY <1>1 DEF Saved
<1>4. StoreOK' /\ MemoryOK'
  BY <1>1, <1>2, <1>3 DEF TInv, StoreOK, MemoryOK, Listed
<1>5. \A q \in Requests : ReaderOK(req[q], Saved)' /\ TaskOK(task[q], req[q], Saved)'
  BY <1>1, <1>3, ReplyMoves, RequestsHold
<1>6. phase'[Main] = "serving"
  BY <1>1, AtWork
<1> QED BY <1>4, <1>5, <1>6 DEF TInv

LEMMA AdoptIndexKeeps ==
    ASSUME TInv, Shape, CInv, NEW r \in Requests, AdoptIndex(r), UNCHANGED <<kv, phase>>
    PROVE  TInv'
<1>1. /\ req[r].pc = "adopt" /\ InFlight(r) /\ Reply(r)
      /\ UNCHANGED <<traces, task, unsaved>> /\ recent' = req[r].seen
      /\ indexed' = {recent'[n] : n \in DOMAIN recent'} \ {i \in Ids : traces[i] # NoValue}
  BY DEF AdoptIndex, At, InFlight
<1>2. Backed(req[r].seen, Saved)
  BY <1>1 DEF TInv, ReaderOK
<1>3. Saved' = Saved
  BY <1>1 DEF Saved
<1>4. StoreOK'
  BY <1>1, <1>3 DEF TInv, StoreOK
<1>5. MemoryOK'
  BY <1>1, <1>2, <1>3 DEF TInv, MemoryOK, Listed
<1>6. \A q \in Requests : ReaderOK(req[q], Saved)' /\ TaskOK(task[q], req[q], Saved)'
  BY <1>1, <1>3, ReplyMoves, RequestsHold
<1>7. phase'[Main] = "serving"
  BY <1>1, AtWork
<1> QED BY <1>4, <1>5, <1>6, <1>7 DEF TInv

-----------------------------------------------------------------------------
(* Answering *)

\* An answer for which a trace will be recorded, under a command id.
LEMMA AnswerKeepsTraces ==
    ASSUME TInv, Shape, CInv, NEW r \in Requests, InFlight(r),
           NEW id, traffic = "traces" => id \in Ids,
           NEW logged, Answer(r, id, logged), UNCHANGED <<kv, phase>>
    PROVE  TInv'
<1>1. /\ \A q \in Requests \ {r} : req'[q] = req[q]
      /\ req'[r].pc = "answered" /\ req'[r].arg = id
      /\ UNCHANGED <<recent, traces, indexed, unsaved>>
  BY DEF Answer, Answered, NoRequest, Shape
<1>2. ReaderOK(req'[r], Saved) /\ req[r].pc # "answered"
  BY <1>1 DEF ReaderOK, InFlight, At
<1>3. CASE traffic # "traces"
  <2>1. TracesAside
    BY <1>1, <1>3 DEF Answer, TracesAside, memory
  <2> QED BY <2>1, <1>1, <1>2, OneReaderMoves
<1>4. CASE traffic = "traces"
  <2>1. Spawn(r) /\ id \in Ids
    BY <1>4 DEF Answer
  <2>2. /\ \A q \in Requests \ {r} : task'[q] = task[q]
        /\ task'[r].pc = "save" /\ task'[r].copy = task[r].copy
    BY <2>1 DEF Spawn, Shape
  <2>3. Saved' = Saved
    BY <1>1 DEF Saved
  <2>4. StoreOK' /\ MemoryOK'
    BY <1>1, <2>3 DEF TInv, StoreOK, MemoryOK, Listed
  <2>5. \A q \in Requests : ReaderOK(req[q], Saved) /\ TaskOK(task[q], req[q], Saved)
    BY DEF TInv
  <2>6. ReaderOK(req[r], Saved)' /\ TaskOK(task[r], req[r], Saved)'
    BY <1>1, <1>2, <2>1, <2>2, <2>3, <2>5 DEF TaskOK
  <2>7. \A q \in Requests \ {r} : ReaderOK(req[q], Saved)' /\ TaskOK(task[q], req[q], Saved)'
    BY <1>1, <2>2, <2>3, <2>5
  <2>8. phase'[Main] = "serving"
    BY AtWork
  <2> QED BY <2>4, <2>6, <2>7, <2>8 DEF TInv
<1> QED BY <1>3, <1>4

LEMMA LookupKeepsTraces ==
    ASSUME TInv, RInv, CInv, NEW r \in Requests, Lookup(r), UNCHANGED <<kv, phase>>
    PROVE  TInv'
<1>1. /\ req[r].pc = "body" /\ InFlight(r) /\ Shape
      /\ traffic = "traces" => req[r].kind = "cell"
  BY DEF Lookup, At, InFlight, RInv, Placed
<1>2. CASE Reply(r) /\ UNCHANGED memory
  <2>1. TracesAside
    BY <1>2 DEF TracesAside
  <2> QED BY <2>1, <1>1, <1>2, ReplyMoves, OneReaderMoves
<1>3. ASSUME NEW body \in Bodies(req[r].kind), UNCHANGED memory,
             req' = [req EXCEPT ![r].pc = "invoke", ![r].arg = body[1], ![r].who = body[2]]
      PROVE  TInv'
  <2>1. TracesAside
    BY <1>3 DEF TracesAside
  <2>2. req'[r].pc = "invoke" /\ \A q \in Requests \ {r} : req'[q] = req[q]
    BY <1>3, <1>1 DEF Shape, ReqFields
  <2>3. ReaderOK(req'[r], Saved)
    BY <2>2 DEF ReaderOK
  <2> QED BY <1>1, <2>1, <2>2, <2>3, OneReaderMoves
<1>4. ASSUME NEW body \in Bodies(req[r].kind), NEW logged \in BOOLEAN,
             Answer(r, Traced(body[1]), logged)
      PROVE  TInv'
  <2>1. traffic = "traces" => Traced(body[1]) \in Ids
    BY <1>1 DEF Traced, Bodies
  <2> QED BY <1>1, <1>4, <2>1, AnswerKeepsTraces
<1> QED BY <1>2, <1>3, <1>4 DEF Lookup

LEMMA DispatchKeepsTraces ==
    ASSUME TInv, RInv, SInv, CInv, NEW r \in Requests, Dispatch(r)
    PROVE  TInv'
<1>1. UNCHANGED phase
  BY DEF Dispatch, chassis
<1>2. CASE Lookup(r) /\ UNCHANGED kv
  BY <1>1, <1>2, LookupKeepsTraces
<1>3. CASE Invoke(r) /\ UNCHANGED kv
  <2>1. InFlight(r) /\ Shape /\ Traced(req[r].arg) = IF traffic = "traces" THEN req[r].arg ELSE NoValue
    BY <1>3 DEF Invoke, At, InFlight, RInv, Traced
  <2>2. req[r].arg \in Ids /\ Answer(r, Traced(req[r].arg), TRUE)
    BY <1>3 DEF Invoke, At, RInv, Placed
  <2> QED BY <1>1, <1>3, <2>1, <2>2, AnswerKeepsTraces
<1>4. CASE Finish(r) /\ UNCHANGED kv
  <2>1. InFlight(r) /\ Shape /\ traffic = "links" /\ Answer(r, NoValue, TRUE)
    BY <1>4 DEF Finish, At, InFlight, RInv, Placed
  <2> QED BY <1>1, <1>4, <2>1, AnswerKeepsTraces
<1>5. CASE Redeem(r) /\ UNCHANGED memory
  <2>0. PICK k : k = req[r].arg
    OBVIOUS
  <2>1. /\ \A q \in Requests \ {r} : req'[q] = req[q]
        /\ req[r].kind = "verify" /\ req[r].pc = "invoke" /\ req'[r].pc = "finish"
    BY <1>5, RedeemPlaced DEF Dispatch, memory, chassis
  <2>2. k = Guess \/ k \in LinkKeys
    BY <2>0, <2>1 DEF SInv, KeyTypes, RequestsHonest, Honest
  <2>3. k \notin Ids \cup {RecentIndex} /\ Ids \cup {RecentIndex} \subseteq StoreKeys
    BY <2>2, FrontDoorAssumption
  <2>4. RedeemOk(r, k) \/ RedeemMiss(r, k) \/ RedeemError(r, k)
    BY <1>5, <2>0, RedeemCases
  <2>5. UNCHANGED kv \/ kv' = [kv EXCEPT ![k] = NoValue]
    BY <2>4 DEF RedeemOk, RedeemMiss, RedeemError
  <2>6. \A j \in Ids \cup {RecentIndex} : kv'[j] = kv[j]
    BY <2>3, <2>5 DEF SInv, KeyTypes
  <2>7. TracesAside
    BY <1>1, <1>5, <2>6 DEF TracesAside
  <2>8. ReaderOK(req'[r], Saved)
    BY <2>1 DEF ReaderOK
  <2> QED BY <2>1, <2>7, <2>8, OneReaderMoves
<1> QED BY <1>2, <1>3, <1>4, <1>5 DEF Dispatch

-----------------------------------------------------------------------------
(* The other steps and the traces *)

LEMMA AdminKeepsTraces ==
    ASSUME TInv, RInv, NEW r \in Requests, ServeAdmin(r)
    PROVE  TInv'
<1>1. /\ \A q \in Requests \ {r} : req'[q] = req[q]
      /\ req[r].pc # "answered"
      /\ req'[r].pc \in {"answered", "load", "write", "writing", "store"}
  BY AdminMoves
<1>2. TracesAside
  BY DEF ServeAdmin, TracesAside, chassis
<1>3. ReaderOK(req'[r], Saved)
  BY <1>1 DEF ReaderOK
<1> QED BY <1>1, <1>2, <1>3, OneReaderMoves

LEMMA ArriveKeepsTraces ==
    ASSUME TInv, RInv, NEW r \in Requests, NEW kind \in KindsOf(traffic), Arrive(r, kind)
    PROVE  TInv'
<1>1. PICK arg \in Arguments(kind) : \E option : Receive(r, kind, arg, option)
  BY DEF Arrive
<1>2. /\ \A q \in Requests \ {r} : req'[q] = req[q] /\ req[r].pc = "none"
      /\ req'[r].pc = Entry(kind) /\ req'[r].arg = arg
  BY <1>1 DEF Receive, At, RInv, Shape, NoRequest
<1>3. /\ Entry(kind) \in {"authorize", "recent", "cached", "body"}
      /\ Entry(kind) = "cached" => kind = "trace"
  BY DEF Entry
<1>4. kind = "trace" => arg \in Ids
  BY DEF Arguments
<1>5. TracesAside
  BY DEF Arrive, TracesAside, chassis
<1>6. ReaderOK(req'[r], Saved)
  BY <1>2, <1>3, <1>4 DEF ReaderOK
<1>7. req[r].pc = "none" /\ \A q \in Requests \ {r} : req'[q] = req[q]
  BY <1>1 DEF Receive, At, RInv, Shape
<1> QED BY <1>5, <1>6, <1>7, OneReaderMoves

\* A key of a mail is neither a command id nor the index.
LEMMA EventKeepsTraces ==
    ASSUME TInv, SInv, HandleEvent
    PROVE  TInv'
<1>1. UNCHANGED <<memory, req, phase>>
  BY DEF HandleEvent, chassis
<1>2. ASSUME NEW k \in LinkKeys, StoreKey(k)
      PROVE  \A j \in Ids \cup {RecentIndex} : kv'[j] = kv[j]
  <2>1. /\ k \in StoreKeys /\ k \notin Ids \cup {RecentIndex}
        /\ Ids \cup {RecentIndex} \subseteq StoreKeys /\ DOMAIN kv = StoreKeys
    BY FrontDoorAssumption DEF SInv, KeyTypes
  <2>2. Set(k, mint.user) \/ SetFails(k, mint.user)
    BY <1>2 DEF StoreKey
  <2> QED BY <2>1, <2>2, SetCases
<1>3. \A j \in Ids \cup {RecentIndex} : kv'[j] = kv[j]
  <2>1. mint.pc # "idle" => mint.token \in LinkKeys /\ mint.code \in LinkKeys
    BY DEF SInv, KeyTypes, LinkKeys
  <2>2. CASE StoreToken
    BY <2>1, <2>2, <1>2 DEF StoreToken
  <2>3. CASE StoreCode
    BY <2>1, <2>3, <1>2 DEF StoreCode
  <2>4. CASE \E tenant \in Tenants \cup {Unset} : SendMail(MailerConfig(tenant), environment)
    BY <2>4 DEF SendMail
  <2> QED BY <2>2, <2>3, <2>4 DEF HandleEvent
<1>4. TracesAside
  BY <1>1, <1>3 DEF TracesAside
<1> QED BY <1>1, <1>4, AsideKeepsTraces

\* A trace, or the index, that expires.
LEMMA ExpireKeepsTraces ==
    ASSUME TInv, SInv, NEW k \in StoreKeys, Expire(k)
    PROVE  TInv'
<1>1. /\ UNCHANGED <<req, recent, traces, task, indexed, phase>>
      /\ kv' = [kv EXCEPT ![k] = NoValue] /\ DOMAIN kv = StoreKeys
      /\ unsaved' = IF k \in Ids THEN unsaved \cup {k} ELSE unsaved
  BY DEF Expire, ExpireKey, SInv, KeyTypes
<1>2. \A j \in StoreKeys : kv'[j] \in {kv[j], NoValue} /\ (j # k => kv'[j] = kv[j])
  BY <1>1
<1>3. RecentIndex \in StoreKeys /\ Ids \subseteq StoreKeys
  BY FrontDoorAssumption
<1>4. Saved \subseteq Saved'
  BY <1>1, <1>2, <1>3 DEF Saved
<1>5. StoreOK'
  <2>1. \A i \in Ids : kv'[i] \in Recorded \cup {NoValue}
    BY <1>2, <1>3 DEF TInv, StoreOK
  <2>2. kv'[RecentIndex] = NoValue \/ Backed(kv'[RecentIndex], Saved')
    BY <1>2, <1>3, <1>4, BackedMore DEF TInv, StoreOK
  <2> QED BY <2>1, <2>2 DEF StoreOK
<1>6. MemoryOK'
  BY <1>1, <1>4, BackedMore DEF TInv, MemoryOK, Listed
<1>7. \A r \in Requests : ReaderOK(req[r], Saved)' /\ TaskOK(task[r], req[r], Saved)'
  BY <1>1, <1>4, RequestsHold
<1>8. phase'[Main] # "serving" => Forgotten'
  BY <1>1 DEF TInv, Forgotten
<1> QED BY <1>5, <1>6, <1>7, <1>8 DEF TInv

\* Nothing that a crash leaves in the store depends on what it takes.
LEMMA CrashKeepsTraces ==
    ASSUME TInv, CInv, NEW c \in Replicas, Crash(c)
    PROVE  TInv'
<1>1. CASE c = Main
  <2>1. /\ recent' = <<>> /\ traces' = [i \in Ids |-> NoValue] /\ indexed' = {}
        /\ task' = [r \in Requests |-> NoTask] /\ UNCHANGED <<kv, unsaved>>
        /\ req' = [r \in Requests |-> IF InFlight(r) THEN Answered(r) ELSE req[r]]
    BY <1>1 DEF Crash, ForgetTraces, CutOff
  <2>2. Saved' = Saved
    BY <2>1 DEF Saved
  <2>3. Backed(<<>>, Saved)
    BY EmptyBacked
  <2>4. StoreOK' /\ MemoryOK'
    BY <2>1, <2>2, <2>3 DEF TInv, StoreOK, MemoryOK, Listed
  <2>5. ASSUME NEW r \in Requests
        PROVE  ReaderOK(req[r], Saved)' /\ TaskOK(task[r], req[r], Saved)' /\ task'[r] = NoTask
    <3>1. req'[r].pc \in {"none", "answered"}
      BY <2>1 DEF InFlight, At, Answered, NoRequest
    <3>2. task'[r] = NoTask
      BY <2>1
    <3> QED BY <3>1, <3>2, <2>2, <2>3 DEF ReaderOK, TaskOK, NoTask
  <2> QED BY <2>1, <2>4, <2>5 DEF TInv, Forgotten
<1>2. CASE c # Main
  <2>1. UNCHANGED <<kv, req, memory>> /\ phase'[Main] = phase[Main]
    BY <1>2, FrontDoorAssumption DEF Crash, Enter, CInv, CTypes
  <2>2. TracesAside
    BY <2>1 DEF TracesAside
  <2> QED BY <2>1, <2>2, AsideKeepsTraces
<1> QED BY <1>1, <1>2

\* A store in memory opens empty, and with it goes the index that listed what was
\* in it; nothing else lists anything yet.
LEMMA OpenKeepsTraces ==
    ASSUME TInv, CInv, SInv, NEW c \in Replicas, OpenStorage(c)
    PROVE  TInv'
<1>1. UNCHANGED <<req, memory>> /\ phase[c] = "storage"
  BY DEF OpenStorage
<1>2. phase'[Main] # "serving" => phase[Main] # "serving"
  BY <1>1, FrontDoorAssumption DEF OpenStorage, Enter, CInv, CTypes
<1>3. CASE UNCHANGED kv
  <2>1. TracesAside
    BY <1>1, <1>2, <1>3 DEF TracesAside
  <2> QED BY <1>1, <2>1, AsideKeepsTraces
<1>4. CASE ~UNCHANGED kv
  <2>1. c = Main /\ kv' = [k \in StoreKeys |-> NoValue]
    BY <1>4 DEF OpenStorage, Reopen
  <2>2. phase[Main] = "storage" /\ Forgotten
    BY <1>1, <2>1 DEF TInv
  <2>3. \A r \in Requests : req[r].pc \in {"none", "answered"} /\ task[r] = NoTask
    BY <2>2 DEF CInv, Dependent, InFlight, At, Forgotten
  <2>4. RecentIndex \in StoreKeys /\ Ids \subseteq StoreKeys
    BY FrontDoorAssumption
  <2>5. StoreOK'
    BY <2>1, <2>4 DEF StoreOK
  <2>6. Backed(<<>>, Saved') /\ recent' = <<>>
    BY <1>1, <2>2, EmptyBacked DEF Forgotten, memory
  <2>7. MemoryOK'
    BY <1>1, <2>6 DEF TInv, MemoryOK, Listed, memory
  <2>8. ASSUME NEW r \in Requests
        PROVE  ReaderOK(req[r], Saved)' /\ TaskOK(task[r], req[r], Saved)'
    <3>1. req'[r].pc \in {"none", "answered"} /\ task'[r] = NoTask
      BY <1>1, <2>3 DEF memory
    <3> QED BY <3>1, <2>6 DEF ReaderOK, TaskOK, NoTask
  <2>9. Forgotten'
    BY <1>1, <2>2 DEF Forgotten, memory
  <2> QED BY <2>5, <2>7, <2>8, <2>9 DEF TInv
<1> QED BY <1>3, <1>4

LEMMA OtherStartsKeepTraces ==
    ASSUME TInv, CInv, NEW c \in Replicas,
           \/ Boot(c) \/ OpenDatabase(c) \/ RunMigrations(c) \/ LoseMigrations(c)
           \/ Migrated(c) \/ LoadCells(c)
    PROVE  TInv'
<1>1. UNCHANGED <<kv, req, memory>>
  BY DEF Boot, OpenDatabase, RunMigrations, LoseMigrations, Migrated, LoadCells
<1>2. phase'[Main] = phase[Main] \/ phase[Main] # "serving"
  BY FrontDoorAssumption
  DEF Boot, OpenDatabase, RunMigrations, LoseMigrations, Migrated, LoadCells, Enter,
      chassis, CInv, CTypes
<1>3. TracesAside
  BY <1>1, <1>2 DEF TracesAside
<1> QED BY <1>1, <1>3, AsideKeepsTraces

LEMMA RecordKeepsTraces ==
    ASSUME TInv, RInv, SInv, NEW r \in Requests, Record(r)
    PROVE  TInv'
<1>1. Shape /\ DOMAIN kv = StoreKeys /\ UNCHANGED <<req, phase>>
  BY DEF RInv, SInv, KeyTypes, Record, chassis
<1> QED BY <1>1, SaveTraceKeeps, RememberKeeps, CopyRecentKeeps, SaveIndexKeeps
        DEF Record, RecordTrace

LEMMA ReadKeepsTraces ==
    ASSUME TInv, RInv, CInv, NEW r \in Requests, ServeTraces(r)
    PROVE  TInv'
<1>1. Shape /\ UNCHANGED <<kv, phase>>
  BY DEF RInv, ServeTraces, chassis
<1> QED BY <1>1, FetchesKeep, KeepTraceKeeps, AdoptIndexKeeps DEF ServeTraces, ReadTraces

LEMMA TracesInductive == TInv /\ ControlInv /\ [Next]_vars => TInv'
<1> SUFFICES ASSUME TInv, ControlInv, [Next]_vars PROVE TInv'
  OBVIOUS
<1>1. RInv /\ SInv /\ CInv
  BY DEF ControlInv, SignedInv
<1>2. CASE UNCHANGED vars
  <2>1. TracesAside /\ UNCHANGED req
    BY <1>2 DEF vars, TracesAside, chassis
  <2> QED BY <2>1, AsideKeepsTraces
<1>3. ASSUME NEW c \in Replicas, Boot(c) \/ Start(c) \/ LoseMigrations(c) \/ Crash(c)
      PROVE  TInv'
  BY <1>1, <1>3, OpenKeepsTraces, OtherStartsKeepTraces, CrashKeepsTraces DEF Start
<1>4. ASSUME NEW r \in Requests, NEW kind \in KindsOf(traffic), Arrive(r, kind)
      PROVE  TInv'
  BY <1>1, <1>4, ArriveKeepsTraces
<1>5. ASSUME NEW r \in Requests, Handle(r) \/ Record(r)
      PROVE  TInv'
  BY <1>1, <1>5, DispatchKeepsTraces, AdminKeepsTraces, ReadKeepsTraces, RecordKeepsTraces
  DEF Handle
<1>6. CASE \/ \E user \in Users : Ask(user)
           \/ \E text \in Texts \cup {Malformed} : Edit(text)
  <2>1. UNCHANGED <<kv, req, memory, phase>>
    BY <1>6 DEF Ask, Edit, chassis
  <2>2. TracesAside
    BY <2>1 DEF TracesAside
  <2> QED BY <2>1, <2>2, AsideKeepsTraces
<1>7. CASE HandleEvent
  BY <1>1, <1>7, EventKeepsTraces
<1>8. ASSUME NEW k \in StoreKeys, Expire(k)
      PROVE  TInv'
  BY <1>1, <1>8, ExpireKeepsTraces
<1> QED
  BY <1>2, <1>3, <1>4, <1>5, <1>6, <1>7, <1>8 DEF Next

LEMMA AlwaysTraced == Spec => [](ControlInv /\ TInv)
<1>1. Init => TInv
  BY InitTraces
<1> QED
  BY <1>1, TracesInductive, AlwaysControlled, PTL DEF Spec

\* A command id is listed once, and a trace that is listed can be opened, whatever
\* two tasks, two readers of the index, expired keys and crashes do in between.
THEOREM ListedOpens == Spec => []ListedIsOpenable
<1>1. ASSUME TInv PROVE ListedIsOpenable
  <2>1. Backed(recent, Saved)
    BY <1>1 DEF TInv, MemoryOK
  <2>2. Cardinality(Listed) = Len(recent)
    BY <2>1, ListedOnce DEF Listed
  <2>3. \A i \in Listed : i \in Saved
    BY <2>1 DEF Backed, Listed
  <2>4. \A i \in Listed : traces[i] # NoValue \/ i \in indexed
    BY <1>1 DEF TInv, MemoryOK
  <2> QED BY <2>2, <2>3, <2>4 DEF ListedIsOpenable, Saved, Holds
<1> QED BY <1>1, AlwaysTraced, PTL

-----------------------------------------------------------------------------
(* Types *)

Buffer == IF LogCapacity = 0 THEN 1 ELSE LogCapacity
FileTexts == Texts \cup {Empty, Malformed, NoValue}

\* What the invariants above do not say of the types.
Typed ==
    /\ medium \in {"memory", "redis"}
    /\ \A r \in Requests : RequestOK(req[r])
    /\ logs \in 0..Buffer
    /\ spent \subseteq LinkKeys
    /\ files \in [Paths -> FileTexts] /\ dynamic.text \in Texts \cup {Empty}
    /\ mishaps \in 0..MaxMishaps

LEMMA BootedTyped ==
    ASSUME files \in [Paths -> FileTexts]
    PROVE  Booted.text \in Texts \cup {Empty}
BY DEF Booted, Loaded, Exists, Parses

LEMMA InitTyped == Init => Typed
<1> SUFFICES ASSUME Init PROVE Typed
  OBVIOUS
<1>1. /\ req = [r \in Requests |-> NoRequest] /\ logs = 0 /\ spent = {} /\ mishaps = 0
      /\ medium \in {"memory", "redis"} /\ dynamic = Booted
  BY DEF Init, KeyValueInit, HttpInit, SignInInit, ControlInit
<1>2. files \in [Paths -> FileTexts]
  BY DEF Init, ControlInit, FileTexts
<1>3. dynamic.text \in Texts \cup {Empty}
  BY <1>1, <1>2, BootedTyped
<1>4. logs \in 0..Buffer /\ mishaps \in 0..MaxMishaps
  BY <1>1, FrontDoorAssumption DEF Buffer
<1>5. \A r \in Requests : RequestOK(req[r])
  BY <1>1 DEF NoRequest, RequestOK
<1> QED BY <1>1, <1>2, <1>3, <1>4, <1>5 DEF Typed

\* The buffer does not grow over its capacity; of 0 it makes 1.
LEMMA LogTyped == ASSUME NEW n \in 0..Buffer PROVE RecordLog(n) \in 0..Buffer
BY FrontDoorAssumption DEF Buffer, RecordLog

LEMMA OneRequestTyped ==
    ASSUME Typed, NEW r \in Requests, \A q \in Requests \ {r} : req'[q] = req[q],
           RequestOK(req'[r])
    PROVE  \A q \in Requests : RequestOK(req[q])'
BY DEF Typed, RequestOK

LEMMA AnsweredTyped ==
    ASSUME NEW r, RequestOK(req[r])
    PROVE  RequestOK(Answered(r))
BY DEF Answered, NoRequest, RequestOK

LEMMA ReplyTyped ==
    ASSUME Shape, NEW r \in Requests, Typed, Reply(r)
    PROVE  \A q \in Requests : RequestOK(req[q])'
<1>1. req'[r] = Answered(r) /\ \A q \in Requests \ {r} : req'[q] = req[q]
  BY DEF Shape, Reply
<1>2. RequestOK(req'[r])
  BY <1>1, AnsweredTyped DEF Typed
<1> QED BY <1>1, <1>2, OneRequestTyped

LEMMA GotoTyped ==
    ASSUME Shape, NEW r \in Requests, Typed, NEW pc, Goto(r, pc)
    PROVE  \A q \in Requests : RequestOK(req[q])'
<1>1. /\ req'[r].kind = req[r].kind /\ req'[r].option = req[r].option
      /\ req'[r].base = req[r].base /\ req'[r].status = req[r].status
      /\ \A q \in Requests \ {r} : req'[q] = req[q]
  BY DEF Shape, Goto, ReqFields
<1>2. RequestOK(req'[r])
  BY <1>1 DEF Typed, RequestOK
<1> QED BY <1>1, <1>2, OneRequestTyped

-----------------------------------------------------------------------------
(* The steps and the types *)

LEMMA StartTyped ==
    ASSUME Typed, CInv, NEW c \in Replicas, Boot(c) \/ Start(c) \/ LoseMigrations(c) \/ Crash(c)
    PROVE  Typed'
<1>1. UNCHANGED <<medium, files>>
  BY DEF Boot, Start, OpenStorage, OpenDatabase, RunMigrations, LoseMigrations, Migrated,
         LoadCells, Crash, control
<1>2. mishaps' \in 0..MaxMishaps
  <2>1. UNCHANGED mishaps \/ Mishap
    BY DEF Boot, Start, OpenStorage, OpenDatabase, RunMigrations, LoseMigrations, Migrated,
           LoadCells, Crash, chassis
  <2> QED BY <2>1, FrontDoorAssumption DEF Mishap, Typed
<1>3. spent' \subseteq LinkKeys
  BY DEF Boot, Start, OpenStorage, OpenDatabase, RunMigrations, LoseMigrations, Migrated,
         LoadCells, Crash, signIn, Typed
<1>4. dynamic'.text \in Texts \cup {Empty}
  <2>1. dynamic' = dynamic \/ dynamic' = Booted
    BY DEF Boot, Start, OpenStorage, OpenDatabase, RunMigrations, LoseMigrations, Migrated,
           LoadCells, Crash, control
  <2> QED BY <2>1, BootedTyped DEF Typed
<1>5. logs' \in 0..Buffer
  <2>1. logs' \in {logs, 0, RecordLog(0), RecordLog(logs)}
    BY DEF Boot, Start, OpenStorage, OpenDatabase, RunMigrations, LoseMigrations, Migrated,
           LoadCells, Crash
  <2>2. 0 \in 0..Buffer /\ logs \in 0..Buffer
    BY FrontDoorAssumption DEF Buffer, Typed
  <2> QED BY <2>1, <2>2, LogTyped
<1>6. \A r \in Requests : RequestOK(req[r])'
  <2>1. \A r \in Requests : req'[r] \in {req[r], Answered(r)}
    BY DEF Boot, Start, OpenStorage, OpenDatabase, RunMigrations, LoseMigrations, Migrated,
           LoadCells, Crash, CutOff
  <2>2. \A r \in Requests : RequestOK(req[r]) /\ RequestOK(Answered(r))
    BY AnsweredTyped DEF Typed
  <2> QED BY <2>1, <2>2
<1> QED BY <1>1, <1>2, <1>3, <1>4, <1>5, <1>6 DEF Typed

LEMMA ArriveTyped ==
    ASSUME Typed, Shape, NEW r \in Requests, NEW kind \in KindsOf(traffic), Arrive(r, kind),
           traffic \in {"links", "traces", "control", "boot"}
    PROVE  Typed'
<1>1. PICK option \in {TRUE, kind \notin {"update", "traces"}} :
             \E arg \in Arguments(kind) : Receive(r, kind, arg, option)
  BY DEF Arrive
<1>2. PICK arg \in Arguments(kind) : Receive(r, kind, arg, option)
  BY <1>1
<1>3. kind \in {"none", "cell", "verify", "trace", "traces", "update", "reload"}
  BY DEF KindsOf
<1>4. option \in BOOLEAN
  BY <1>1
<1>5. /\ req'[r].kind = kind /\ req'[r].option = option /\ req'[r].base = 0
      /\ req'[r].status = 0
      /\ \A q \in Requests \ {r} : req'[q] = req[q]
  BY <1>2 DEF Receive, NoRequest, Shape
<1>6. RequestOK(req'[r])
  BY <1>3, <1>4, <1>5 DEF RequestOK
<1>7. \A q \in Requests : RequestOK(req[q])'
  BY <1>5, <1>6, OneRequestTyped
<1>8. UNCHANGED <<medium, logs, spent, files, dynamic, mishaps>>
  BY DEF Arrive, signIn, control, chassis
<1> QED BY <1>7, <1>8 DEF Typed

LEMMA AnswerTyped ==
    ASSUME Typed, Shape, NEW r \in Requests, NEW id, NEW logged, Answer(r, id, logged)
    PROVE  (\A q \in Requests : RequestOK(req[q])') /\ logs' \in 0..Buffer
<1>1. /\ req'[r].kind = req[r].kind /\ req'[r].option \in BOOLEAN /\ req'[r].base = 0
      /\ req'[r].status = 0
      /\ \A q \in Requests \ {r} : req'[q] = req[q]
  BY DEF Answer, Answered, NoRequest, Shape
<1>2. RequestOK(req'[r])
  <2>1. RequestOK(req[r])
    BY DEF Typed
  <2> QED BY <2>1, <1>1 DEF RequestOK
<1>3. logs' \in {logs, RecordLog(logs)}
  BY DEF Answer
<1> QED BY <1>1, <1>2, <1>3, OneRequestTyped, LogTyped DEF Typed

LEMMA DispatchTyped ==
    ASSUME Typed, RInv, SInv, NEW r \in Requests, Dispatch(r)
    PROVE  Typed'
<1>1. Shape /\ UNCHANGED <<medium, files, dynamic, mishaps>>
  BY DEF RInv, Dispatch, control, chassis
<1>2. CASE Reply(r) /\ UNCHANGED <<logs, signIn>>
  BY <1>1, <1>2, ReplyTyped DEF Typed, signIn
<1>3. ASSUME NEW body \in Bodies(req[r].kind), UNCHANGED <<logs, signIn>>,
             req' = [req EXCEPT ![r].pc = "invoke", ![r].arg = body[1], ![r].who = body[2]]
      PROVE  Typed'
  <2>1. /\ req'[r].kind = req[r].kind /\ req'[r].option = req[r].option
        /\ req'[r].base = req[r].base /\ req'[r].status = req[r].status
        /\ \A q \in Requests \ {r} : req'[q] = req[q]
    BY <1>1, <1>3 DEF Shape, ReqFields
  <2>2. RequestOK(req'[r])
    BY <2>1 DEF Typed, RequestOK
  <2>3. \A q \in Requests : RequestOK(req[q])'
    BY <2>1, <2>2, OneRequestTyped
  <2> QED BY <1>1, <1>3, <2>3 DEF Typed, signIn
<1>4. ASSUME NEW id, NEW logged, Answer(r, id, logged), UNCHANGED signIn
      PROVE  Typed'
  <2>1. (\A q \in Requests : RequestOK(req[q])') /\ logs' \in 0..Buffer
    BY <1>1, <1>4, AnswerTyped
  <2> QED BY <1>1, <1>4, <2>1 DEF Typed, signIn
<1>5. CASE Redeem(r) /\ UNCHANGED <<logs, memory>>
  <2>0. PICK k : k = req[r].arg
    OBVIOUS
  <2>1. RedeemOk(r, k) \/ RedeemMiss(r, k) \/ RedeemError(r, k)
    BY <1>5, <2>0, RedeemCases
  <2>2. req[r].kind = "verify" /\ req[r].pc = "invoke"
    BY <1>5 DEF Redeem, At
  <2>3. k = Guess \/ k \in LinkKeys
    BY <2>0, <2>2 DEF SInv, KeyTypes, RequestsHonest, Honest
  <2>4. k \in StoreKeys => k \in LinkKeys
    BY <2>3, FrontDoorAssumption
  <2>5. spent' \subseteq LinkKeys
    BY <2>1, <2>4 DEF RedeemOk, RedeemMiss, RedeemError, Typed
  <2>6. \/ req' = [req EXCEPT ![r].pc = "finish", ![r].seen = kv[k], ![r].status = 200]
        \/ req' = [req EXCEPT ![r].pc = "finish", ![r].status = 401]
    BY <2>1 DEF RedeemOk, RedeemMiss, RedeemError
  <2>7. /\ req'[r].kind = req[r].kind /\ req'[r].option = req[r].option
        /\ req'[r].base = req[r].base /\ req'[r].status \in {200, 401}
        /\ \A q \in Requests \ {r} : req'[q] = req[q]
    <3>1. CASE req' = [req EXCEPT ![r].pc = "finish", ![r].seen = kv[k], ![r].status = 200]
      BY <3>1, <1>1 DEF Shape, ReqFields
    <3>2. CASE req' = [req EXCEPT ![r].pc = "finish", ![r].status = 401]
      BY <3>2, <1>1 DEF Shape, ReqFields
    <3> QED BY <2>6, <3>1, <3>2
  <2>8. RequestOK(req'[r])
    BY <2>7 DEF Typed, RequestOK
  <2>9. \A q \in Requests : RequestOK(req[q])'
    BY <2>7, <2>8, OneRequestTyped
  <2> QED BY <1>1, <1>5, <2>5, <2>9 DEF Typed
<1>6. CASE Lookup(r) /\ UNCHANGED <<kv, signIn>>
  BY <1>6, <1>2, <1>3, <1>4 DEF Lookup
<1>7. CASE (Invoke(r) \/ Finish(r)) /\ UNCHANGED <<kv, signIn>>
  BY <1>7, <1>4 DEF Invoke, Finish
<1> QED BY <1>5, <1>6, <1>7 DEF Dispatch

LEMMA AdminTyped ==
    ASSUME Typed, RInv, CInv, NEW r \in Requests, ServeAdmin(r)
    PROVE  Typed'
<1>1. /\ Shape /\ UNCHANGED <<medium, spent, mishaps>>
      /\ dynamic.version \in Nat /\ RequestOK(req[r]) /\ AdminPlaced(req[r])
      /\ logs' \in {logs, RecordLog(logs)}
  BY DEF RInv, CInv, CTypes, ServeAdmin, signIn, chassis, Typed
<1>2. logs' \in 0..Buffer
  BY <1>1, LogTyped DEF Typed
<1>3. ASSUME NEW pc, NEW base \in Nat, NEW seen, NEW arg,
             \/ req' = [req EXCEPT ![r].pc = pc, ![r].base = base, ![r].seen = seen]
             \/ req' = [req EXCEPT ![r].pc = pc, ![r].base = base, ![r].seen = seen,
                                   ![r].arg = arg]
      PROVE  \A q \in Requests : RequestOK(req[q])'
  <2>1. /\ req'[r].kind = req[r].kind /\ req'[r].option = req[r].option
        /\ req'[r].base = base /\ req'[r].status = req[r].status
        /\ \A q \in Requests \ {r} : req'[q] = req[q]
    <3>1. CASE req' = [req EXCEPT ![r].pc = pc, ![r].base = base, ![r].seen = seen]
      BY <3>1, <1>1 DEF Shape, ReqFields
    <3>2. CASE req' = [req EXCEPT ![r].pc = pc, ![r].base = base, ![r].seen = seen,
                                   ![r].arg = arg]
      BY <3>2, <1>1 DEF Shape, ReqFields
    <3> QED BY <1>3, <3>1, <3>2
  <2>2. RequestOK(req'[r])
    BY <2>1, <1>1 DEF RequestOK
  <2> QED BY <2>1, <2>2, OneRequestTyped
<1>4. \A q \in Requests : RequestOK(req[q])'
  <2>1. CASE Reply(r)
    BY <2>1, <1>1, ReplyTyped
  <2>2. CASE \E pc : Goto(r, pc)
    BY <2>2, <1>1, GotoTyped
  <2>3. CASE OpenFile(r) /\ ~Reply(r)
    <3>1. req' = [req EXCEPT ![r].pc = "writing", ![r].base = dynamic.version,
                             ![r].seen = TargetPath]
      BY <2>3 DEF OpenFile
    <3> QED BY <3>1, <1>1, <1>3
  <2>4. CASE ReloadFile(r) /\ ~Reply(r)
    <3>1. req' = [req EXCEPT ![r].pc = "store", ![r].base = dynamic.version,
                             ![r].seen = TargetPath, ![r].arg = RawText(TargetPath)]
      BY <2>4 DEF ReloadFile
    <3> QED BY <3>1, <1>1, <1>3
  <2>5. CASE Authorize(r) \/ WriteFile(r) \/ StoreState(r)
    BY <2>1, <2>2, <2>5 DEF Authorize, WriteFile, StoreState
  <2> QED BY <2>1, <2>3, <2>4, <2>5 DEF ServeAdmin, Administer
<1>5. files' \in [Paths -> FileTexts]
  <2>1. CASE OpenFile(r)
    <3>1. UNCHANGED files \/ files' = [files EXCEPT ![TargetPath] = Empty]
      BY <2>1 DEF OpenFile
    <3> QED BY <3>1 DEF Typed, FileTexts
  <2>2. CASE WriteFile(r)
    <3>1. req[r].arg \in FileTexts
      BY <2>2, <1>1 DEF WriteFile, At, AdminPlaced, Parses, FileTexts
    <3>2. \/ UNCHANGED files
          \/ \E result \in {req[r].arg, Malformed} :
                files' = [files EXCEPT ![req[r].seen] = result]
      BY <2>2 DEF WriteFile
    <3> QED BY <3>1, <3>2 DEF Typed, FileTexts
  <2>3. CASE Authorize(r) \/ StoreState(r) \/ ReloadFile(r)
    BY <2>3 DEF Authorize, StoreState, ReloadFile, control, Typed
  <2> QED BY <2>1, <2>2, <2>3 DEF ServeAdmin, Administer
<1>6. dynamic'.text \in Texts \cup {Empty}
  <2>1. CASE StoreState(r)
    BY <2>1, <1>1 DEF StoreState, Reloaded, At, AdminPlaced, Parses
  <2>2. CASE ~StoreState(r)
    BY <2>2 DEF ServeAdmin, Administer, Authorize, OpenFile, WriteFile, ReloadFile, control,
                Typed
  <2> QED BY <2>1, <2>2
<1> QED BY <1>1, <1>2, <1>4, <1>5, <1>6 DEF Typed

LEMMA ReadersTyped ==
    ASSUME Typed, Shape, NEW r \in Requests, ServeTraces(r)
    PROVE  Typed'
<1>1. UNCHANGED <<medium, logs, spent, files, dynamic, mishaps>>
  BY DEF ServeTraces, signIn, control, chassis
<1>2. CASE Reply(r)
  BY <1>1, <1>2, ReplyTyped DEF Typed
<1>3. CASE \E pc : Goto(r, pc)
  BY <1>1, <1>3, GotoTyped DEF Typed
<1>4. CASE \E pc, seen : req' = [req EXCEPT ![r].pc = pc, ![r].seen = seen]
  <2>1. /\ req'[r].kind = req[r].kind /\ req'[r].option = req[r].option
        /\ req'[r].base = req[r].base /\ req'[r].status = req[r].status
        /\ \A q \in Requests \ {r} : req'[q] = req[q]
    BY <1>4 DEF Shape, ReqFields
  <2>2. RequestOK(req'[r])
    BY <2>1 DEF Typed, RequestOK
  <2>3. \A q \in Requests : RequestOK(req[q])'
    BY <2>1, <2>2, OneRequestTyped
  <2> QED BY <1>1, <2>3 DEF Typed
<1>5. CASE GetTrace(r) \/ KeepTrace(r) \/ ListRecent(r) \/ AdoptIndex(r)
  BY <1>2, <1>3, <1>5 DEF GetTrace, KeepTrace, ListRecent, AdoptIndex
<1>6. CASE FetchTrace(r)
  BY <1>2, <1>4, <1>6 DEF FetchTrace
<1>7. CASE FetchIndex(r)
  BY <1>2, <1>4, <1>7 DEF FetchIndex
<1> QED BY <1>5, <1>6, <1>7 DEF ServeTraces, ReadTraces

LEMMA OthersTyped ==
    ASSUME Typed, SInv,
           \/ \E r \in Requests : Record(r)
           \/ \E user \in Users : Ask(user)
           \/ HandleEvent
           \/ \E k \in StoreKeys : Expire(k)
           \/ \E text \in Texts \cup {Malformed} : Edit(text)
    PROVE  Typed'
<1>1. UNCHANGED <<medium, req, dynamic>>
  BY DEF Record, Ask, HandleEvent, Expire, Edit, EditFile, control
<1>2. mishaps' \in 0..MaxMishaps
  <2>1. UNCHANGED mishaps \/ Mishap
    BY DEF Record, Ask, HandleEvent, Expire, Edit, chassis
  <2> QED BY <2>1, FrontDoorAssumption DEF Mishap, Typed
<1>3. logs' \in 0..Buffer
  <2>1. logs' \in {logs, RecordLog(logs)}
    BY DEF Record, Ask, HandleEvent, Expire, Edit
  <2> QED BY <2>1, LogTyped DEF Typed
<1>4. spent' \subseteq LinkKeys
  <2>1. mint.pc # "idle" => mint.token \in LinkKeys /\ mint.code \in LinkKeys
    BY DEF SInv, KeyTypes, LinkKeys
  <2>2. CASE HandleEvent
    BY <2>1, <2>2 DEF HandleEvent, StoreToken, StoreCode, StoreKey, SendMail, Typed
  <2>3. CASE ~HandleEvent
    BY <2>3 DEF Record, Ask, Mint, Expire, Edit, signIn, Typed
  <2> QED BY <2>2, <2>3
<1>5. files' \in [Paths -> FileTexts]
  <2>1. \/ UNCHANGED files
        \/ \E text \in Texts \cup {Malformed} : files' = [files EXCEPT ![configured] = text]
    BY DEF Record, Ask, HandleEvent, Expire, Edit, EditFile, control
  <2> QED BY <2>1 DEF Typed, FileTexts
<1> QED BY <1>1, <1>2, <1>3, <1>4, <1>5 DEF Typed

LEMMA TypedInductive == Typed /\ ControlInv /\ [Next]_vars => Typed'
<1> SUFFICES ASSUME Typed, ControlInv, [Next]_vars PROVE Typed'
  OBVIOUS
<1>1. /\ RInv /\ SInv /\ CInv /\ Shape
      /\ traffic \in {"links", "traces", "control", "boot"}
  BY DEF ControlInv, SignedInv, RInv
<1>2. CASE UNCHANGED vars
  BY <1>2 DEF vars, Typed, signIn, control, chassis
<1>3. ASSUME NEW c \in Replicas, Boot(c) \/ Start(c) \/ LoseMigrations(c) \/ Crash(c)
      PROVE  Typed'
  BY <1>1, <1>3, StartTyped
<1>4. ASSUME NEW r \in Requests, NEW kind \in KindsOf(traffic), Arrive(r, kind)
      PROVE  Typed'
  BY <1>1, <1>4, ArriveTyped
<1>5. ASSUME NEW r \in Requests, Handle(r)
      PROVE  Typed'
  BY <1>1, <1>5, DispatchTyped, AdminTyped, ReadersTyped DEF Handle
<1>6. CASE \/ \E r \in Requests : Record(r)
           \/ \E user \in Users : Ask(user)
           \/ HandleEvent
           \/ \E k \in StoreKeys : Expire(k)
           \/ \E text \in Texts \cup {Malformed} : Edit(text)
  BY <1>1, <1>6, OthersTyped
<1> QED BY <1>2, <1>3, <1>4, <1>5, <1>6 DEF Next

\* Every variable of the chassis has its type; the log buffer and the list of traces,
\* in memory and in the store, keep to their capacities.
THEOREM FrontDoorTyped == Spec => []TypeOK
<1>1. Spec => [](Typed /\ ControlInv)
  BY InitTyped, TypedInductive, AlwaysControlled, PTL DEF Spec
<1>2. ASSUME Typed, ControlInv, TInv, MInv PROVE TypeOK
  <2>1. /\ DOMAIN kv = StoreKeys /\ mails \subseteq LinkKeys \X Users
        /\ unused \in [LinkKeys -> Int] /\ fresh \subseteq Tokens
    BY <1>2 DEF ControlInv, SignedInv, SInv, KeyTypes
  <2>2. /\ dynamic.version \in Nat /\ dynamic.path \in Paths \cup {BuiltIn}
        /\ phase \in [Replicas -> Phases]
    BY <1>2 DEF ControlInv, CInv, CTypes
  <2>3. /\ recent \in Seq(Ids) /\ Len(recent) <= MaxRecent
        /\ traces \in [Ids -> Requests \cup {0, NoValue}]
        /\ kv[RecentIndex] = NoValue \/ Len(kv[RecentIndex]) <= MaxRecent
    BY <1>2 DEF TInv, StoreOK, MemoryOK, Backed, Recorded
  <2>4. recorded \subseteq Versions
    BY <1>2 DEF MInv, MTypeOK
  <2> QED BY <1>2, <2>1, <2>2, <2>3, <2>4 DEF Typed, TypeOK, Buffer, FileTexts
<1> QED BY <1>1, <1>2, AlwaysTraced, AlwaysMigrated, PTL
=============================================================================
