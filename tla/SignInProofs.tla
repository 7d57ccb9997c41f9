---------------------------- MODULE SignInProofs ----------------------------
(***************************************************************************)
(* Magic links, for any users, tokens, codes and requests, beside all else *)
(* that a chassis does.                                                    *)
(*                                                                         *)
(* The invariant follows a key from its mint over the store and the mail to*)
(* the request that redeems it.  A token has one owner all along; a code   *)
(* may be minted for two.  That nothing else writes the keys rests on what *)
(* requests are where (Placed), since the task that records a trace writes *)
(* under whatever its request is about.                                    *)
(***************************************************************************)
EXTENDS FrontDoor, TLAPS

ReqFields == {"kind", "pc", "arg", "who", "option", "seen", "base", "status"}

Shape ==
    /\ DOMAIN req = Requests /\ \A r \in Requests : DOMAIN req[r] = ReqFields
    /\ DOMAIN task = Requests /\ \A r \in Requests : DOMAIN task[r] = {"pc", "copy"}

\* Where a request of which kind can be.
Placed(x) ==
    /\ x.pc = "none" => x.kind = "none"
    /\ x.kind = "verify" => /\ traffic = "links"
                            /\ x.pc \in {"body", "invoke", "finish", "answered"}
                            /\ x.pc # "finish" => x.status = 0
    /\ x.kind = "cell" => traffic = "traces"
    /\ x.pc \in {"body", "invoke"} => x.kind \in {"cell", "verify"}
    /\ x.pc = "finish" => x.kind = "verify"
    /\ x.kind = "cell" /\ x.pc = "invoke" => x.arg \in Ids

\* A trace is saved under a command id.
SavedApart(r) ==
    task[r].pc = "save" => req[r].pc = "answered" /\ req[r].arg \notin LinkKeys

RInv ==
    /\ Shape
    /\ traffic \in {"links", "traces", "control", "boot"}
    /\ \A r \in Requests : Placed(req[r]) /\ SavedApart(r)

-----------------------------------------------------------------------------
(* Requests and tasks *)

LEMMA InitRequests == Init => RInv
BY DEF Init, HttpInit, TraceInit, RInv, Shape, ReqFields, Placed, SavedApart,
       NoRequest, NoTask

\* A request that was not answered goes on; its task has not begun.
LEMMA OneRequestGoes ==
    ASSUME RInv, NEW r \in Requests, UNCHANGED traffic,
           DOMAIN req' = Requests, DOMAIN req'[r] = ReqFields,
           \A q \in Requests \ {r} : req'[q] = req[q],
           req[r].pc # "answered",
           Placed(req'[r]),
           \/ UNCHANGED task
           \/ /\ Spawn(r)
              /\ req'[r].pc = "answered" /\ req'[r].arg \notin LinkKeys
    PROVE  RInv'
<1>1. Shape'
  BY DEF RInv, Shape, Spawn
<1>2. \A q \in Requests \ {r} : Placed(req[q])' /\ SavedApart(q)'
  BY DEF RInv, Shape, Placed, SavedApart, Spawn
<1>3. Placed(req[r])'
  BY DEF Placed
<1>4. SavedApart(r)'
  BY DEF RInv, Shape, SavedApart, Spawn
<1> QED
  BY <1>1, <1>2, <1>3, <1>4 DEF RInv

\* An answer that no trace is recorded for.
LEMMA ReplyKeeps ==
    ASSUME RInv, NEW r \in Requests, InFlight(r), Reply(r), UNCHANGED <<task, traffic>>
    PROVE  RInv' /\ req'[r].pc = "answered"
<1>1. /\ DOMAIN req' = Requests /\ DOMAIN req'[r] = ReqFields
      /\ \A q \in Requests \ {r} : req'[q] = req[q]
      /\ req'[r].pc = "answered" /\ req'[r].kind = req[r].kind /\ req'[r].status = 0
  BY DEF RInv, Shape, Reply, Answered, NoRequest, ReqFields
<1>2. Placed(req'[r])
  BY <1>1 DEF RInv, Placed
<1> QED
  BY <1>1, <1>2, OneRequestGoes DEF InFlight, At

LEMMA ArriveKeeps ==
    ASSUME RInv, NEW r \in Requests, NEW kind \in KindsOf(traffic), Arrive(r, kind)
    PROVE  /\ RInv' /\ req'[r].pc \notin {"invoke", "finish"}
           /\ \A q \in Requests \ {r} : req'[q] = req[q]
<1>1. PICK arg, option :
        /\ At(r, "none")
        /\ req' = [req EXCEPT ![r] =
             [NoRequest EXCEPT !.kind = kind, !.pc = Entry(kind), !.arg = arg,
                               !.option = option]]
  BY DEF Arrive, Receive
<1>2. /\ \/ kind \in {"cell", "trace", "traces"} /\ traffic = "traces"
         \/ kind = "verify" /\ traffic = "links"
         \/ kind \in {"update", "reload"} /\ traffic = "control"
      /\ Entry(kind) \in {"authorize", "recent", "cached", "body"}
      /\ kind \in {"cell", "verify"} <=> Entry(kind) = "body"
  <2>1. CASE traffic = "links"
    BY <2>1 DEF KindsOf, Entry
  <2>2. CASE traffic = "traces"
    BY <2>2 DEF KindsOf, Entry
  <2>3. CASE traffic = "control"
    BY <2>3 DEF KindsOf, Entry
  <2>4. CASE traffic = "boot"
    BY <2>4 DEF KindsOf, Entry
  <2> QED
    BY <2>1, <2>2, <2>3, <2>4 DEF RInv
<1>3. /\ DOMAIN req' = Requests /\ DOMAIN req'[r] = ReqFields
      /\ \A q \in Requests \ {r} : req'[q] = req[q]
      /\ req'[r].kind = kind /\ req'[r].pc = Entry(kind) /\ req'[r].status = 0
  BY <1>1 DEF RInv, Shape, NoRequest, ReqFields
<1>4. Placed(req'[r])
  BY <1>2, <1>3 DEF Placed
<1> QED
  BY <1>1, <1>2, <1>3, <1>4, OneRequestGoes DEF Arrive, memory, chassis, At

\* The answer of a dispatched request; its trace goes under a command id.
LEMMA AnswerKeeps ==
    ASSUME RInv, NEW r \in Requests, InFlight(r), UNCHANGED traffic,
           NEW id, traffic = "traces" => id \notin LinkKeys,
           NEW logged, Answer(r, id, logged)
    PROVE  /\ RInv' /\ req'[r].pc = "answered"
           /\ \A q \in Requests \ {r} : req'[q] = req[q]
<1>1. /\ DOMAIN req' = Requests /\ DOMAIN req'[r] = ReqFields
      /\ \A q \in Requests \ {r} : req'[q] = req[q]
      /\ req'[r].pc = "answered" /\ req'[r].kind = req[r].kind /\ req'[r].status = 0
      /\ req'[r].arg = id
  BY DEF RInv, Shape, Answer, Answered, NoRequest, ReqFields
<1>2. Placed(req'[r])
  BY <1>1 DEF RInv, Placed
<1>3. UNCHANGED task \/ (Spawn(r) /\ traffic = "traces")
  BY DEF Answer
<1> QED
  BY <1>1, <1>2, <1>3, OneRequestGoes DEF InFlight, At

LEMMA LookupKeeps ==
    ASSUME RInv, NEW r \in Requests, Lookup(r), UNCHANGED traffic,
           mails \subseteq LinkKeys \X Users
    PROVE  /\ RInv' /\ \A q \in Requests \ {r} : req'[q] = req[q]
           /\ req'[r].pc \in {"answered", "invoke"} /\ req'[r].kind = req[r].kind
           /\ req[r].kind = "verify" /\ req'[r].pc = "invoke" =>
                req'[r].arg = Guess \/ <<req'[r].arg, req'[r].who>> \in mails
<1>0. /\ req[r].pc = "body" /\ InFlight(r)
      /\ \/ req[r].kind = "cell" /\ traffic = "traces"
         \/ req[r].kind = "verify" /\ traffic = "links"
  BY DEF Lookup, At, InFlight, RInv, Placed
<1>1. CASE Reply(r) /\ UNCHANGED <<logs, memory>>
  <2>1. /\ \A q \in Requests \ {r} : req'[q] = req[q]
        /\ req'[r].pc = "answered" /\ req'[r].kind = req[r].kind
    BY <1>1 DEF RInv, Shape, Reply, Answered, NoRequest, ReqFields
  <2> QED
    BY <1>0, <1>1, <2>1, ReplyKeeps DEF memory
<1>2. ASSUME NEW body \in Bodies(req[r].kind),
             req' = [req EXCEPT ![r].pc = "invoke", ![r].arg = body[1], ![r].who = body[2]],
             UNCHANGED memory
      PROVE  /\ RInv' /\ \A q \in Requests \ {r} : req'[q] = req[q]
             /\ req'[r].pc = "invoke" /\ req'[r].kind = req[r].kind
             /\ req[r].kind = "verify" =>
                  req'[r].arg = Guess \/ <<req'[r].arg, req'[r].who>> \in mails
  <2>1. /\ DOMAIN req' = Requests /\ DOMAIN req'[r] = ReqFields
        /\ \A q \in Requests \ {r} : req'[q] = req[q]
        /\ req'[r].kind = req[r].kind /\ req'[r].pc = "invoke"
        /\ req'[r].status = req[r].status
        /\ req'[r].arg = body[1] /\ req'[r].who = body[2]
    BY <1>2 DEF RInv, Shape, ReqFields
  <2>2. req[r].kind = "cell" => body[1] \in Ids
    BY DEF Bodies
  <2>3. req[r].kind = "verify" => body[1] = Guess \/ <<body[1], body[2]>> \in mails
    BY DEF Bodies
  <2>4. Placed(req'[r])
    BY <1>0, <2>1, <2>2 DEF RInv, Placed
  <2> QED
    BY <1>0, <1>2, <2>1, <2>3, <2>4, OneRequestGoes DEF memory
<1>3. ASSUME NEW body \in Bodies(req[r].kind), NEW logged \in BOOLEAN,
             Answer(r, Traced(body[1]), logged)
      PROVE  /\ RInv' /\ \A q \in Requests \ {r} : req'[q] = req[q]
             /\ req'[r].pc = "answered" /\ req'[r].kind = req[r].kind
  <2>1. traffic = "traces" => Traced(body[1]) \notin LinkKeys
    BY <1>0, FrontDoorAssumption DEF Traced, Bodies
  <2>2. req'[r].kind = req[r].kind
    BY <1>3 DEF RInv, Shape, Answer, Answered, NoRequest, ReqFields
  <2> QED
    BY <1>0, <1>3, <2>1, <2>2, AnswerKeeps
<1> QED
  BY <1>1, <1>2, <1>3 DEF Lookup

\* No request comes to be one that redeems a key, or has.
Silent ==
    \A r \in Requests :
        \/ req'[r] = req[r]
        \/ ~(req'[r].kind = "verify" /\ req'[r].pc \in {"invoke", "finish"})

\* Admin requests and readers of traces are never among them.
LEMMA ElsewhereKeeps ==
    ASSUME RInv, NEW r \in Requests, UNCHANGED <<task, traffic>>,
           req[r].pc \notin {"none", "body", "invoke", "finish", "answered"},
           DOMAIN req' = Requests, DOMAIN req'[r] = ReqFields,
           \A q \in Requests \ {r} : req'[q] = req[q],
           req'[r].kind = req[r].kind,
           req'[r].pc \notin {"none", "body", "invoke", "finish"}
    PROVE  RInv' /\ Silent
<1>1. Placed(req'[r])
  BY DEF RInv, Placed
<1> QED
  BY <1>1, OneRequestGoes DEF Silent

\* An admin request goes on among its own steps, or is answered.
LEMMA AdminMoves ==
    ASSUME RInv, NEW r \in Requests, ServeAdmin(r)
    PROVE  /\ DOMAIN req' = Requests /\ DOMAIN req'[r] = ReqFields
           /\ \A q \in Requests \ {r} : req'[q] = req[q]
           /\ req'[r].kind = req[r].kind
           /\ req[r].pc \in {"authorize", "write", "writing", "store", "load"}
           /\ req'[r].pc \in {"answered", "load", "write", "writing", "store"}
<1>1. /\ DOMAIN req = Requests /\ DOMAIN req[r] = ReqFields
  BY DEF RInv, Shape
<1>2. req[r].pc \in {"authorize", "write", "writing", "store", "load"}
  BY DEF ServeAdmin, Administer, Authorize, OpenFile, WriteFile, StoreState, ReloadFile, At
<1>3. \/ Reply(r)
      \/ \E pc \in {"load", "write", "store"} : Goto(r, pc)
      \/ \E base, seen : req' = [req EXCEPT ![r].pc = "writing", ![r].base = base,
                                            ![r].seen = seen]
      \/ \E base, seen, arg : req' = [req EXCEPT ![r].pc = "store", ![r].base = base,
                                                 ![r].seen = seen, ![r].arg = arg]
  <2>1. CASE Authorize(r)
    BY <2>1 DEF Authorize
  <2>2. CASE OpenFile(r)
    BY <2>2 DEF OpenFile
  <2>3. CASE WriteFile(r)
    BY <2>3 DEF WriteFile
  <2>4. CASE StoreState(r)
    BY <2>4 DEF StoreState
  <2>5. CASE ReloadFile(r)
    BY <2>5 DEF ReloadFile
  <2> QED
    BY <2>1, <2>2, <2>3, <2>4, <2>5 DEF ServeAdmin, Administer
<1>4. /\ DOMAIN req' = Requests /\ DOMAIN req'[r] = ReqFields
      /\ \A q \in Requests \ {r} : req'[q] = req[q]
      /\ req'[r].kind = req[r].kind
      /\ req'[r].pc \in {"answered", "load", "write", "writing", "store"}
  <2>1. CASE Reply(r) \/ \E pc \in {"load", "write", "store"} : Goto(r, pc)
    BY <2>1, <1>1 DEF Reply, Answered, Goto, NoRequest, ReqFields
  <2>2. CASE \E base, seen : req' = [req EXCEPT ![r].pc = "writing", ![r].base = base,
                                                ![r].seen = seen]
    BY <2>2, <1>1 DEF ReqFields
  <2>3. CASE \E base, seen, arg : req' = [req EXCEPT ![r].pc = "store", ![r].base = base,
                                                     ![r].seen = seen, ![r].arg = arg]
    BY <2>3, <1>1 DEF ReqFields
  <2> QED
    BY <2>1, <2>2, <2>3, <1>3
<1> QED
  BY <1>2, <1>4

LEMMA ServeAdminKeeps ==
    ASSUME RInv, NEW r \in Requests, ServeAdmin(r)
    PROVE  RInv' /\ Silent
<1>1. UNCHANGED <<task, traffic>>
  BY DEF ServeAdmin, memory, chassis
<1> QED
  BY <1>1, AdminMoves, ElsewhereKeeps

LEMMA ServeTracesKeeps ==
    ASSUME RInv, NEW r \in Requests, ServeTraces(r)
    PROVE  RInv' /\ Silent
<1>1. UNCHANGED <<task, traffic>>
  BY DEF ServeTraces, ReadTraces, GetTrace, FetchTrace, KeepTrace, ListRecent, FetchIndex,
         AdoptIndex, memory, chassis
<1>2. /\ DOMAIN req = Requests /\ DOMAIN req[r] = ReqFields
  BY DEF RInv, Shape
<1>3. req[r].pc \in {"cached", "fetch", "keep", "recent", "index", "adopt"}
  BY DEF ServeTraces, ReadTraces, GetTrace, FetchTrace, KeepTrace, ListRecent, FetchIndex,
         AdoptIndex, At
<1>4. \/ Reply(r)
      \/ \E pc \in {"fetch", "index"} : Goto(r, pc)
      \/ \E pc \in {"keep", "adopt"} : \E seen :
            req' = [req EXCEPT ![r].pc = pc, ![r].seen = seen]
  <2>1. CASE GetTrace(r) \/ KeepTrace(r) \/ ListRecent(r) \/ AdoptIndex(r)
    BY <2>1 DEF GetTrace, KeepTrace, ListRecent, AdoptIndex
  <2>2. CASE FetchTrace(r)
    BY <2>2 DEF FetchTrace
  <2>3. CASE FetchIndex(r)
    BY <2>3 DEF FetchIndex
  <2> QED
    BY <2>1, <2>2, <2>3 DEF ServeTraces, ReadTraces
<1>5. /\ DOMAIN req' = Requests /\ DOMAIN req'[r] = ReqFields
      /\ \A q \in Requests \ {r} : req'[q] = req[q]
      /\ req'[r].kind = req[r].kind
      /\ req'[r].pc \in {"answered", "fetch", "index", "keep", "adopt"}
  BY <1>2, <1>4 DEF Reply, Answered, Goto, NoRequest, ReqFields
<1> QED
  BY <1>1, <1>3, <1>5, ElsewhereKeeps

\* A task writes under its command id, and then the index: no key of a mail.
KeysKept == DOMAIN kv' = DOMAIN kv /\ \A k \in LinkKeys : kv'[k] = kv[k]

LEMMA RecordKeeps ==
    ASSUME RInv, NEW r \in Requests, Record(r), DOMAIN kv = StoreKeys
    PROVE  RInv' /\ Silent /\ KeysKept
<1>1. UNCHANGED <<req, traffic>>
  BY DEF Record, chassis
<1>2. task[r].pc \in {"save", "remember", "copy", "index"}
  BY DEF Record, RecordTrace, SaveTrace, Remember, CopyRecent, SaveIndex, Doing
<1>3. /\ DOMAIN task' = Requests /\ DOMAIN task'[r] = {"pc", "copy"}
      /\ \A q \in Requests \ {r} : task'[q] = task[q]
      /\ task'[r].pc # "save"
  BY DEF Record, RecordTrace, SaveTrace, Remember, CopyRecent, SaveIndex, Step, NoTask,
         RInv, Shape
<1>4. RInv'
  BY <1>1, <1>3 DEF RInv, Shape, Placed, SavedApart
<1>5. KeysKept
  <2>1. CASE SaveTrace(r)
    BY <2>1, FrontDoorAssumption DEF SaveTrace, Set, SetFails, KeysKept, Doing, RInv, SavedApart
  <2>2. CASE SaveIndex(r)
    BY <2>2, FrontDoorAssumption DEF SaveIndex, Set, SetFails, KeysKept
  <2>3. CASE Remember(r) \/ CopyRecent(r)
    BY <2>3 DEF Remember, CopyRecent, KeysKept
  <2> QED
    BY <2>1, <2>2, <2>3 DEF Record, RecordTrace
<1> QED
  BY <1>1, <1>4, <1>5 DEF Silent

\* What redeeming does; dashes go, so the key is the one that was typed.
RedeemOk(r, k) ==
    /\ k \in StoreKeys /\ kv[k] # NoValue
    /\ kv' = [kv EXCEPT ![k] = NoValue]
    /\ req' = [req EXCEPT ![r].pc = "finish", ![r].seen = kv[k], ![r].status = 200]
    /\ unused' = [unused EXCEPT ![k] = @ - 1]
    /\ spent' = spent \cup {k}
RedeemMiss(r, k) ==
    /\ k \in StoreKeys => kv[k] = NoValue
    /\ req' = [req EXCEPT ![r].pc = "finish", ![r].status = 401]
    /\ UNCHANGED <<kv, unused, spent>>
RedeemError(r, k) ==
    /\ k \in StoreKeys
    /\ UNCHANGED kv \/ kv' = [kv EXCEPT ![k] = NoValue]
    /\ req' = [req EXCEPT ![r].pc = "finish", ![r].status = 401]
    /\ spent' = spent \cup {k}
    /\ UNCHANGED unused

LEMMA RedeemCases ==
    ASSUME NEW r \in Requests, Redeem(r)
    PROVE  \/ RedeemOk(r, req[r].arg) \/ RedeemMiss(r, req[r].arg)
           \/ RedeemError(r, req[r].arg)
<1> DEFINE k == req[r].arg
           email == IF k \in StoreKeys THEN kv[k] ELSE NoValue
<1>1. \/ /\ email # NoValue /\ GetDel(k)
         /\ req' = [req EXCEPT ![r].pc = "finish", ![r].seen = email, ![r].status = 200]
         /\ unused' = [unused EXCEPT ![k] = @ - 1]
         /\ spent' = spent \cup {k}
      \/ /\ email = NoValue
         /\ req' = [req EXCEPT ![r].pc = "finish", ![r].status = 401]
         /\ UNCHANGED <<kv, unused, spent>>
      \/ /\ k \in StoreKeys /\ GetDelFails(k)
         /\ req' = [req EXCEPT ![r].pc = "finish", ![r].status = 401]
         /\ spent' = spent \cup {k} /\ UNCHANGED unused
  BY Zenon DEF Redeem, CleanToken
<1>2. GetDelFails(k) => UNCHANGED kv \/ kv' = [kv EXCEPT ![k] = NoValue]
  BY DEF GetDelFails, GetDel
<1>3. email # NoValue => k \in StoreKeys /\ email = kv[k]
  OBVIOUS
<1>4. email = NoValue => (k \in StoreKeys => kv[k] = NoValue)
  OBVIOUS
<1> HIDE DEF email
<1> QED
  BY <1>1, <1>2, <1>3, <1>4 DEF RedeemOk, RedeemMiss, RedeemError, GetDel

LEMMA RedeemPlaced ==
    ASSUME RInv, NEW r \in Requests, Redeem(r), UNCHANGED <<task, traffic>>
    PROVE  /\ RInv' /\ \A q \in Requests \ {r} : req'[q] = req[q]
           /\ req[r].kind = "verify" /\ req[r].pc = "invoke"
           /\ req'[r].kind = "verify" /\ req'[r].pc = "finish"
           /\ req'[r].arg = req[r].arg /\ req'[r].who = req[r].who
<1>1. req[r].kind = "verify" /\ req[r].pc = "invoke" /\ traffic = "links"
  BY DEF Redeem, At, RInv, Placed
<1>2. /\ DOMAIN req = Requests /\ DOMAIN req[r] = ReqFields
  BY DEF RInv, Shape
<1>3. \/ req' = [req EXCEPT ![r].pc = "finish", ![r].seen = kv[req[r].arg], ![r].status = 200]
      \/ req' = [req EXCEPT ![r].pc = "finish", ![r].status = 401]
  <2>1. CASE RedeemOk(r, req[r].arg)
    BY <2>1 DEF RedeemOk
  <2>2. CASE RedeemMiss(r, req[r].arg)
    BY <2>2 DEF RedeemMiss
  <2>3. CASE RedeemError(r, req[r].arg)
    BY <2>3 DEF RedeemError
  <2> QED
    BY <2>1, <2>2, <2>3, RedeemCases
<1>4. /\ DOMAIN req' = Requests /\ DOMAIN req'[r] = ReqFields
      /\ \A q \in Requests \ {r} : req'[q] = req[q]
      /\ req'[r].kind = req[r].kind /\ req'[r].pc = "finish"
      /\ req'[r].arg = req[r].arg /\ req'[r].who = req[r].who
  <2>1. CASE req' = [req EXCEPT ![r].pc = "finish", ![r].seen = kv[req[r].arg],
                                ![r].status = 200]
    BY <2>1, <1>2 DEF ReqFields
  <2>2. CASE req' = [req EXCEPT ![r].pc = "finish", ![r].status = 401]
    BY <2>2, <1>2 DEF ReqFields
  <2> QED
    BY <2>1, <2>2, <1>3
<1>5. Placed(req'[r])
  BY <1>1, <1>4 DEF Placed
<1> QED
  BY <1>1, <1>4, <1>5, OneRequestGoes

LEMMA CrashPlaced ==
    ASSUME RInv, NEW c \in Replicas, Crash(c)
    PROVE  RInv' /\ Silent
<1>1. CASE c = Main
  <2>1. /\ req' = [r \in Requests |-> IF InFlight(r) THEN Answered(r) ELSE req[r]]
        /\ task' = [r \in Requests |-> NoTask] /\ UNCHANGED traffic
    BY <1>1 DEF Crash, CutOff, ForgetTraces
  <2>2. \A r \in Requests :
          \/ req'[r] = req[r]
          \/ /\ DOMAIN req'[r] = ReqFields /\ req'[r].kind = req[r].kind
             /\ req'[r].pc = "answered" /\ req'[r].status = 0
    BY <2>1 DEF Answered, NoRequest, ReqFields
  <2>3. Shape'
    BY <2>1, <2>2 DEF RInv, Shape, NoTask
  <2>4. \A r \in Requests : Placed(req[r])'
    BY <2>1, <2>2 DEF RInv, Placed
  <2> QED
    BY <2>1, <2>2, <2>3, <2>4 DEF RInv, Silent, SavedApart, NoTask
<1>2. CASE c # Main
  BY <1>2 DEF Crash, RInv, Shape, Placed, SavedApart, Silent, memory
<1> QED
  BY <1>1, <1>2

\* A step that touches neither requests nor tasks.
LEMMA StillPlaced ==
    ASSUME RInv, UNCHANGED <<req, task, traffic>>
    PROVE  RInv' /\ Silent
BY DEF RInv, Shape, Placed, SavedApart, Silent

-----------------------------------------------------------------------------
(* Keys *)

Mints == [pc : {"idle", "token", "code", "mail"}, user : Users \cup {NoValue},
          token : Tokens \cup {NoValue}, code : Codes \cup {NoValue}]

KeyTypes ==
    /\ DOMAIN kv = StoreKeys /\ \A k \in LinkKeys : kv[k] \in Users \cup {NoValue}
    /\ unused \in [LinkKeys -> Int]
    /\ mails \subseteq LinkKeys \X Users /\ fresh \subseteq Tokens
    /\ mint \in Mints
    /\ mint.pc # "idle" =>
         mint.user \in Users /\ mint.token \in Tokens /\ mint.code \in Codes

\* A key is in the store, or about to be, no more often than it was minted and
\* has not signed in.
Pending(k) == \/ mint.pc = "token" /\ k \in {mint.token, mint.code}
              \/ mint.pc = "code" /\ k = mint.code
Copies(k) == (IF kv[k] # NoValue THEN 1 ELSE 0) + (IF Pending(k) THEN 1 ELSE 0)
Counted == \A k \in LinkKeys : unused[k] >= Copies(k)

\* The one user whose mail, store entry and mint a token is in.
Owns(t, u) == \/ <<t, u>> \in mails
              \/ kv[t] = u
              \/ mint.pc # "idle" /\ mint.token = t /\ mint.user = u
OneOwner ==
    \A t \in Tokens :
        /\ \A u, v \in Users : Owns(t, u) /\ Owns(t, v) => u = v
        /\ t \in fresh => \A u \in Users : ~Owns(t, u)

\* A mailed key is in the store until it is spent; so is one that is stored and
\* about to be mailed.
Kept(k) == kv[k] # NoValue \/ k \in spent
MailedKept ==
    /\ \A p \in mails : Kept(p[1])
    /\ mint.pc \in {"code", "mail"} => Kept(mint.token)
    /\ mint.pc = "mail" => Kept(mint.code)
    /\ traffic # "links" => mails = {} /\ mint.pc = "idle"

\* Whoever redeems typed a guess, or a key from their mail.
Honest(x) ==
    x.kind = "verify" =>
        /\ x.pc = "invoke" => x.arg = Guess \/ <<x.arg, x.who>> \in mails
        /\ x.pc = "finish" /\ x.status = 200 /\ x.arg \in Tokens => x.seen = x.who
        /\ x.pc = "finish" /\ x.status = 401 /\ x.arg # Guess => x.arg \in spent
RequestsHonest == \A r \in Requests : Honest(req[r])

SInv == KeyTypes /\ Counted /\ OneOwner /\ MailedKept /\ RequestsHonest

LEMMA InitKeys == Init => SInv
<1> SUFFICES ASSUME Init PROVE SInv
  OBVIOUS
<1>1. DOMAIN kv = StoreKeys /\ \A k \in LinkKeys : kv[k] = NoValue
  BY FrontDoorAssumption, TraceAssumption DEF Init, KeyValueInit, LeftByEarlier
<1>2. /\ unused = [k \in LinkKeys |-> 0] /\ mails = {} /\ fresh = Tokens
      /\ mint = NoMint
  BY DEF Init, SignInInit
<1>3. mint \in Mints /\ mint.pc = "idle"
  BY <1>2 DEF NoMint, Mints
<1>4. KeyTypes
  BY <1>1, <1>2, <1>3 DEF KeyTypes
<1>5. Counted
  BY <1>1, <1>2, <1>3 DEF Counted, Copies, Pending
<1>6. OneOwner
  BY <1>1, <1>2, <1>3, FrontDoorAssumption DEF OneOwner, Owns, LinkKeys
<1>7. MailedKept
  BY <1>2, <1>3 DEF MailedKept
<1>8. RequestsHonest
  BY DEF Init, HttpInit, NoRequest, RequestsHonest, Honest
<1> QED
  BY <1>4, <1>5, <1>6, <1>7, <1>8 DEF SInv

\* A step that only answers, receives or moves other requests.
LEMMA SilentKeeps ==
    ASSUME SInv, RInv, Silent, KeysKept, UNCHANGED <<signIn, traffic>>
    PROVE  SInv'
<1>1. KeyTypes'
  BY DEF SInv, KeyTypes, KeysKept, signIn
<1>2. Counted'
  BY DEF SInv, Counted, Copies, Pending, KeysKept, signIn
<1>3. OneOwner'
  BY DEF SInv, OneOwner, Owns, KeysKept, signIn, LinkKeys
<1>4. MailedKept'
  BY DEF SInv, KeyTypes, MailedKept, Kept, KeysKept, signIn, LinkKeys
<1>5. RequestsHonest'
  BY DEF SInv, RequestsHonest, Honest, Silent, signIn
<1> QED
  BY <1>1, <1>2, <1>3, <1>4, <1>5 DEF SInv

\* Requests stay as they are.
LEMMA HonestStays ==
    ASSUME RequestsHonest, UNCHANGED req, mails \subseteq mails', spent \subseteq spent'
    PROVE  RequestsHonest'
BY DEF RequestsHonest, Honest

LEMMA MintKeeps ==
    ASSUME SInv, NEW user \in Users, Mint(user), traffic = "links",
           UNCHANGED <<kv, req, traffic>>
    PROVE  SInv'
<1>1. PICK token \in MintToken, code \in MintCode :
        /\ mint' = [pc |-> "token", user |-> user, token |-> token, code |-> code]
        /\ fresh' = fresh \ {token}
        /\ unused' = [unused EXCEPT ![token] = @ + 1, ![code] = @ + 1]
  BY DEF Mint
<1>2. token \in fresh /\ token \in Tokens /\ code \in Codes /\ token # code
  <2>1. fresh # {} /\ fresh \subseteq Tokens
    BY DEF Mint, SInv, KeyTypes
  <2>2. (CHOOSE t \in Tokens : t \in fresh) \in fresh
    BY <2>1
  <2> QED
    BY <2>1, <2>2, FrontDoorAssumption DEF MintToken, MintCode
<1>3. mint.pc = "idle" /\ UNCHANGED <<mails, spent>>
  BY DEF Mint
<1>4. KeyTypes'
  BY <1>1, <1>2, <1>3 DEF SInv, KeyTypes, Mints, LinkKeys
<1>5. Counted'
  <2>1. \A k \in LinkKeys :
          unused'[k] = IF k \in {token, code} THEN unused[k] + 1 ELSE unused[k]
    BY <1>1, <1>2 DEF SInv, KeyTypes, LinkKeys
  <2>2. \A k \in LinkKeys : ~Pending(k) /\ (Pending(k)' <=> k \in {token, code})
    BY <1>1, <1>3 DEF Pending
  <2>3. \A k \in LinkKeys :
          Copies(k)' = IF k \in {token, code} THEN Copies(k) + 1 ELSE Copies(k)
    BY <2>2 DEF Copies
  <2> QED
    BY <2>1, <2>3 DEF SInv, KeyTypes, Counted, Copies
<1>6. OneOwner'
  BY <1>1, <1>2, <1>3 DEF SInv, OneOwner, Owns
<1>7. MailedKept'
  BY <1>1, <1>3 DEF SInv, MailedKept, Kept
<1>8. RequestsHonest'
  BY <1>3, HonestStays DEF SInv
<1> QED
  BY <1>4, <1>5, <1>6, <1>7, <1>8 DEF SInv

\* Storing a key: it is there, or it is lost.
LEMMA StoreKeyCases ==
    ASSUME SInv, NEW k \in LinkKeys, StoreKey(k)
    PROVE  /\ DOMAIN kv' = StoreKeys
           /\ \A j \in LinkKeys \ {k} : kv'[j] = kv[j]
           /\ \/ kv'[k] = mint.user /\ UNCHANGED spent
              \/ kv'[k] \in {kv[k], mint.user} /\ spent' = spent \cup {k}
<1>1. k \in StoreKeys /\ LinkKeys \subseteq StoreKeys
  BY FrontDoorAssumption
<1> QED
  BY <1>1 DEF StoreKey, Set, SetFails, SInv, KeyTypes

LEMMA StoreKeeps ==
    ASSUME SInv, NEW k \in LinkKeys, StoreKey(k), NEW pc,
           \/ mint.pc = "token" /\ k = mint.token /\ pc = "code"
           \/ mint.pc = "code" /\ k = mint.code /\ pc = "mail",
           mint' = [mint EXCEPT !.pc = pc],
           UNCHANGED <<mails, unused, fresh, req, traffic>>
    PROVE  SInv'
<1>1. /\ mint \in Mints /\ mint.user \in Users /\ mint.user # NoValue
      /\ mint.token \in Tokens /\ mint.code \in Codes /\ mint.token # mint.code
  BY FrontDoorAssumption DEF SInv, KeyTypes
<1>2. /\ mint' \in Mints /\ mint'.pc = pc /\ mint'.user = mint.user
      /\ mint'.token = mint.token /\ mint'.code = mint.code
  BY <1>1 DEF Mints
<1>3. /\ DOMAIN kv' = StoreKeys
      /\ \A j \in LinkKeys \ {k} : kv'[j] = kv[j]
      /\ kv'[k] \in {kv[k], mint.user}
      /\ spent \subseteq spent' /\ (kv'[k] # NoValue \/ k \in spent')
      /\ \A j \in LinkKeys : kv[j] # NoValue => kv'[j] # NoValue
  BY <1>1, StoreKeyCases
<1>4. KeyTypes'
  BY <1>1, <1>2, <1>3 DEF SInv, KeyTypes
<1>5. Counted'
  <2>1. \A j \in LinkKeys \ {k} : Copies(j)' = Copies(j)
    BY <1>1, <1>2, <1>3 DEF Copies, Pending
  <2>2. Pending(k) /\ ~Pending(k)'
    BY <1>1, <1>2 DEF Pending
  <2>3. Copies(k)' <= Copies(k)
    BY <2>2 DEF Copies
  <2> QED
    BY <2>1, <2>3 DEF SInv, KeyTypes, Counted, Copies
<1>6. OneOwner'
  <2>1. \A t \in Tokens : t = k => mint.pc = "token" /\ mint.token = t
    BY <1>1, FrontDoorAssumption
  <2>2. \A t \in Tokens, u \in Users : Owns(t, u)' => Owns(t, u)
    BY <1>2, <1>3, <2>1 DEF Owns, LinkKeys
  <2> QED
    BY <2>2 DEF SInv, OneOwner
<1>7. MailedKept'
  <2>1. \A j \in LinkKeys : Kept(j) => Kept(j)'
    BY <1>3 DEF Kept
  <2>2. Kept(k)'
    BY <1>3 DEF Kept
  <2>3. \A p \in mails' : Kept(p[1])'
    BY <2>1 DEF SInv, KeyTypes, MailedKept
  <2>4. mint.token \in LinkKeys /\ mint.code \in LinkKeys
    BY <1>1 DEF LinkKeys
  <2>5. /\ mint'.pc \in {"code", "mail"} => Kept(mint.token)'
        /\ mint'.pc = "mail" => Kept(mint.code)'
    BY <1>2, <2>1, <2>2, <2>4 DEF SInv, MailedKept
  <2> QED
    BY <1>2, <2>3, <2>5 DEF SInv, MailedKept
<1>8. RequestsHonest'
  BY <1>3, HonestStays DEF SInv
<1> QED
  BY <1>4, <1>5, <1>6, <1>7, <1>8 DEF SInv

LEMMA SendKeeps ==
    ASSUME SInv, mint.pc = "mail",
           mails' = mails \cup Rendered \/ UNCHANGED mails,
           mint' = NoMint,
           UNCHANGED <<kv, unused, fresh, spent, req, traffic>>
    PROVE  SInv'
<1>1. /\ mint' \in Mints /\ mint'.pc = "idle"
      /\ mint.user \in Users /\ mint.token \in Tokens /\ mint.code \in Codes
      /\ mint.token \in LinkKeys /\ mint.code \in LinkKeys
  BY DEF SInv, KeyTypes, Mints, NoMint, LinkKeys
<1>2. Rendered = {<<mint.token, mint.user>>, <<mint.code, mint.user>>}
  BY DEF Rendered
<1>3. KeyTypes'
  BY <1>1, <1>2 DEF SInv, KeyTypes
<1>4. Counted'
  BY <1>1 DEF SInv, KeyTypes, Counted, Copies, Pending
<1>5. OneOwner'
  <2>1. \A t \in Tokens : t # mint.code
    BY <1>1, FrontDoorAssumption
  <2>2. \A t \in Tokens, u \in Users : Owns(t, u)' => Owns(t, u)
    BY <1>1, <1>2, <2>1 DEF Owns
  <2> QED
    BY <2>2 DEF SInv, OneOwner
<1>6. MailedKept'
  <2>1. \A p \in Rendered : Kept(p[1])
    BY <1>2 DEF SInv, MailedKept
  <2>2. \A p \in mails' : Kept(p[1])
    BY <2>1 DEF SInv, MailedKept
  <2>3. traffic = "links"
    BY DEF SInv, MailedKept
  <2> QED
    BY <1>1, <2>2, <2>3 DEF SInv, MailedKept, Kept
<1>7. RequestsHonest'
  BY HonestStays DEF SInv
<1> QED
  BY <1>3, <1>4, <1>5, <1>6, <1>7 DEF SInv

\* A crash ends the mint; a key that is stored then stays unmailed.
LEMMA CrashKeeps ==
    ASSUME SInv, RInv, Silent, mint' = NoMint,
           UNCHANGED <<kv, mails, unused, fresh, spent, traffic>>
    PROVE  SInv'
<1>1. mint' \in Mints /\ mint'.pc = "idle"
  BY DEF NoMint, Mints
<1>2. KeyTypes'
  BY <1>1 DEF SInv, KeyTypes
<1>3. Counted'
  BY <1>1 DEF SInv, KeyTypes, Counted, Copies, Pending
<1>4. OneOwner'
  BY <1>1 DEF SInv, OneOwner, Owns
<1>5. MailedKept'
  BY <1>1 DEF SInv, MailedKept, Kept
<1>6. RequestsHonest'
  BY DEF SInv, RequestsHonest, Honest, Silent
<1> QED
  BY <1>2, <1>3, <1>4, <1>5, <1>6 DEF SInv

\* Keys go; those of mails only when they are spent.
LEMMA KeysGo ==
    ASSUME SInv, DOMAIN kv' = DOMAIN kv,
           \A k \in LinkKeys : kv'[k] \in {kv[k], NoValue},
           \A k \in LinkKeys : kv'[k] = kv[k] \/ k \in spent',
           spent \subseteq spent',
           UNCHANGED <<mint, mails, unused, fresh, req, traffic>>
    PROVE  SInv'
<1>1. KeyTypes'
  BY DEF SInv, KeyTypes
<1>2. Counted'
  <2>1. \A k \in LinkKeys : Copies(k)' <= Copies(k)
    BY DEF Copies, Pending
  <2> QED
    BY <2>1 DEF SInv, KeyTypes, Counted, Copies
<1>3. OneOwner'
  BY FrontDoorAssumption DEF SInv, OneOwner, Owns, LinkKeys
<1>4. MailedKept'
  <2>1. \A k \in LinkKeys : Kept(k) => Kept(k)'
    BY DEF Kept
  <2>2. mint.pc # "idle" => mint.token \in LinkKeys /\ mint.code \in LinkKeys
    BY DEF SInv, KeyTypes, LinkKeys
  <2>3. \A p \in mails : p[1] \in LinkKeys
    BY DEF SInv, KeyTypes
  <2> QED
    BY <2>1, <2>2, <2>3 DEF SInv, MailedKept, Kept
<1>5. RequestsHonest'
  BY HonestStays DEF SInv
<1> QED
  BY <1>1, <1>2, <1>3, <1>4, <1>5 DEF SInv

\* The request that redeems a key: in the store it is gone, and counted.
LEMMA RedeemKeeps ==
    ASSUME SInv, RInv, NEW r \in Requests, Redeem(r),
           UNCHANGED <<task, traffic>>
    PROVE  SInv' /\ RInv'
<1>0. PICK k : k = req[r].arg
  OBVIOUS
<1>a. LinkKeys \subseteq StoreKeys
  BY FrontDoorAssumption
<1>b. RedeemOk(r, k) \/ RedeemMiss(r, k) \/ RedeemError(r, k)
  BY <1>0, RedeemCases
<1>1. /\ RInv' /\ \A q \in Requests \ {r} : req'[q] = req[q]
      /\ req[r].kind = "verify" /\ req[r].pc = "invoke"
      /\ req'[r].kind = "verify" /\ req'[r].pc = "finish"
      /\ req'[r].arg = k /\ req'[r].who = req[r].who
  BY <1>0, RedeemPlaced
<1>2. UNCHANGED <<mint, mails, fresh>>
  BY DEF Redeem
<1>3. k = Guess \/ <<k, req[r].who>> \in mails
  BY <1>0, <1>1 DEF SInv, RequestsHonest, Honest
<1>4. k \in LinkKeys \/ (k = Guess /\ k \notin LinkKeys)
  BY <1>3, FrontDoorAssumption DEF SInv, KeyTypes
<1>5. /\ DOMAIN kv' = StoreKeys
      /\ \A j \in LinkKeys \ {k} : kv'[j] = kv[j]
      /\ k \in LinkKeys => kv'[k] \in {kv[k], NoValue}
      /\ k \in LinkKeys => kv'[k] = kv[k] \/ k \in spent'
      /\ spent \subseteq spent'
  <2>1. CASE RedeemOk(r, k)
    BY <2>1, <1>a DEF RedeemOk, SInv, KeyTypes
  <2>2. CASE RedeemMiss(r, k)
    BY <2>2 DEF RedeemMiss, SInv, KeyTypes
  <2>3. CASE RedeemError(r, k)
    BY <2>3, <1>a DEF RedeemError, SInv, KeyTypes
  <2> QED
    BY <2>1, <2>2, <2>3, <1>b
<1>6. /\ unused' \in [LinkKeys -> Int]
      /\ \A j \in LinkKeys \ {k} : unused'[j] = unused[j]
      /\ k \in LinkKeys =>
           \/ unused'[k] = unused[k] /\ kv'[k] \in {kv[k], NoValue}
           \/ unused'[k] = unused[k] - 1 /\ kv[k] # NoValue /\ kv'[k] = NoValue
  <2>1. CASE RedeemOk(r, k)
    <3>1. /\ unused \in [LinkKeys -> Int] /\ unused' = [unused EXCEPT ![k] = @ - 1]
          /\ DOMAIN kv = StoreKeys /\ kv[k] # NoValue
          /\ kv' = [kv EXCEPT ![k] = NoValue]
      BY <2>1 DEF RedeemOk, SInv, KeyTypes
    <3>2. CASE k \in LinkKeys
      BY <3>1, <3>2, <1>a
    <3>3. CASE k \notin LinkKeys
      BY <3>1, <3>3
    <3> QED
      BY <3>2, <3>3
  <2>2. CASE RedeemMiss(r, k)
    BY <2>2 DEF RedeemMiss, SInv, KeyTypes
  <2>3. CASE RedeemError(r, k)
    BY <2>3, <1>a DEF RedeemError, SInv, KeyTypes
  <2> QED
    BY <2>1, <2>2, <2>3, <1>b
<1>7. KeyTypes'
  BY <1>2, <1>5, <1>6 DEF SInv, KeyTypes
<1>8. Counted'
  <2>1. \A j \in LinkKeys : Pending(j)' <=> Pending(j)
    BY <1>2 DEF Pending
  <2>2. \A j \in LinkKeys \ {k} : Copies(j)' = Copies(j)
    BY <2>1, <1>5 DEF Copies
  <2>3. \A j \in LinkKeys : Copies(j) \in Int /\ Copies(j)' \in Int
    BY DEF Copies
  <2>4. k \in LinkKeys => unused'[k] >= Copies(k)'
    BY <2>1, <1>6 DEF Copies, SInv, KeyTypes, Counted
  <2> QED
    BY <2>2, <2>4, <1>6 DEF SInv, KeyTypes, Counted
<1>9. OneOwner'
  <2>1. \A t \in Tokens, u \in Users : Owns(t, u)' => Owns(t, u)
    BY <1>2, <1>5, FrontDoorAssumption DEF Owns, LinkKeys
  <2> QED
    BY <2>1, <1>2 DEF SInv, OneOwner
<1>10. MailedKept'
  <2>1. \A j \in LinkKeys : Kept(j) => Kept(j)'
    BY <1>5 DEF Kept
  <2>2. mint.pc # "idle" => mint.token \in LinkKeys /\ mint.code \in LinkKeys
    BY DEF SInv, KeyTypes, LinkKeys
  <2>3. \A p \in mails : p[1] \in LinkKeys
    BY DEF SInv, KeyTypes
  <2> QED
    BY <1>2, <2>1, <2>2, <2>3 DEF SInv, MailedKept, Kept
<1>11. Honest(req[r])'
  <2>1. req'[r].status = 200 /\ k \in Tokens => req'[r].seen = req[r].who
    <3>1. CASE RedeemOk(r, k)
      <4>1. req'[r].seen = kv[k] /\ kv[k] # NoValue
        BY <3>1 DEF RedeemOk, RInv, Shape, ReqFields
      <4>2. k \in Tokens => Owns(k, kv[k]) /\ Owns(k, req[r].who)
        BY <1>3, FrontDoorAssumption DEF Owns, LinkKeys
      <4>3. k \in Tokens => kv[k] \in Users /\ req[r].who \in Users
        BY <4>1, <1>3, FrontDoorAssumption DEF SInv, KeyTypes, LinkKeys
      <4> QED
        BY <4>1, <4>2, <4>3 DEF SInv, OneOwner
    <3>2. CASE RedeemMiss(r, k)
      BY <3>2 DEF RedeemMiss, RInv, Shape, ReqFields
    <3>3. CASE RedeemError(r, k)
      BY <3>3 DEF RedeemError, RInv, Shape, ReqFields
    <3> QED
      BY <3>1, <3>2, <3>3, <1>b
  <2>2. req'[r].status = 401 /\ k # Guess => k \in spent'
    <3>1. CASE RedeemOk(r, k)
      BY <3>1 DEF RedeemOk
    <3>2. CASE RedeemMiss(r, k)
      <4>1. k # Guess => Kept(k) /\ kv[k] = NoValue
        BY <3>2, <1>3, <1>4, FrontDoorAssumption DEF RedeemMiss, SInv, MailedKept
      <4> QED
        BY <3>2, <4>1 DEF Kept, RedeemMiss
    <3>3. CASE RedeemError(r, k)
      BY <3>3 DEF RedeemError
    <3> QED
      BY <3>1, <3>2, <3>3, <1>b
  <2> QED
    BY <1>1, <2>1, <2>2 DEF Honest
<1>12. RequestsHonest'
  <2>1. \A q \in Requests \ {r} : Honest(req[q])'
    BY <1>1, <1>2, <1>5 DEF SInv, RequestsHonest, Honest
  <2> QED
    BY <2>1, <1>11 DEF RequestsHonest
<1> QED
  BY <1>1, <1>7, <1>8, <1>9, <1>10, <1>12 DEF SInv

LEMMA LookupHonest ==
    ASSUME SInv, RInv, NEW r \in Requests, Lookup(r),
           UNCHANGED <<kv, signIn, traffic>>
    PROVE  SInv' /\ RInv'
<1>1. /\ RInv' /\ \A q \in Requests \ {r} : req'[q] = req[q]
      /\ req'[r].pc \in {"answered", "invoke"} /\ req'[r].kind = req[r].kind
      /\ req[r].kind = "verify" /\ req'[r].pc = "invoke" =>
           req'[r].arg = Guess \/ <<req'[r].arg, req'[r].who>> \in mails
  BY LookupKeeps DEF SInv, KeyTypes
<1>2. KeyTypes' /\ Counted' /\ OneOwner' /\ MailedKept'
  BY DEF SInv, KeyTypes, Counted, Copies, Pending, OneOwner, Owns, MailedKept, Kept, signIn
<1>3. RequestsHonest'
  <2>1. Honest(req[r])'
    BY <1>1 DEF Honest, signIn
  <2>2. \A q \in Requests \ {r} : Honest(req[q])'
    BY <1>1 DEF SInv, RequestsHonest, Honest, signIn
  <2> QED
    BY <2>1, <2>2 DEF RequestsHonest
<1> QED
  BY <1>1, <1>2, <1>3 DEF SInv

-----------------------------------------------------------------------------
(* All steps *)

SignedInv == RInv /\ SInv

LEMMA ReplicaSteps ==
    ASSUME SignedInv, NEW c \in Replicas,
           Boot(c) \/ Start(c) \/ LoseMigrations(c) \/ Crash(c)
    PROVE  SignedInv'
<1>1. CASE Crash(c)
  <2>1. RInv' /\ Silent
    BY <1>1, CrashPlaced DEF SignedInv
  <2>2. mint' = NoMint \/ UNCHANGED mint
    BY <1>1 DEF Crash
  <2>3. UNCHANGED <<kv, mails, unused, fresh, spent, traffic>>
    BY <1>1 DEF Crash
  <2> QED
    BY <2>1, <2>2, <2>3, CrashKeeps, SilentKeeps DEF SignedInv, KeysKept, signIn
<1>2. CASE OpenStorage(c)
  <2>1. UNCHANGED <<req, task, mint, mails, unused, fresh, traffic>>
    BY <1>2 DEF OpenStorage, memory
  <2>2. Reopen \/ UNCHANGED kv
    BY <1>2 DEF OpenStorage
  <2>3. /\ DOMAIN kv' = DOMAIN kv
        /\ \A k \in LinkKeys : kv'[k] \in {kv[k], NoValue}
    BY <2>2, FrontDoorAssumption DEF Reopen, SignedInv, SInv, KeyTypes
  <2>4. /\ \A k \in LinkKeys : kv'[k] = kv[k] \/ k \in spent'
        /\ spent \subseteq spent'
    BY <1>2, <2>3 DEF OpenStorage, Holds
  <2> QED
    BY <2>1, <2>3, <2>4, StillPlaced, KeysGo DEF SignedInv
<1>3. CASE ~Crash(c) /\ ~OpenStorage(c)
  <2>1. UNCHANGED <<kv, req, task, signIn, traffic>>
    BY <1>3 DEF Boot, Start, OpenStorage, OpenDatabase, RunMigrations, LoseMigrations,
                Migrated, LoadCells, memory, chassis
  <2> QED
    BY <2>1, StillPlaced, SilentKeeps DEF SignedInv, KeysKept
<1> QED
  BY <1>1, <1>2, <1>3

LEMMA RequestSteps ==
    ASSUME SignedInv, NEW r \in Requests, Handle(r) \/ Record(r)
    PROVE  SignedInv'
<1>1. CASE Record(r)
  BY <1>1, RecordKeeps, SilentKeeps DEF Record, SignedInv, SInv, KeyTypes, chassis
<1>2. CASE ServeAdmin(r)
  BY <1>2, ServeAdminKeeps, SilentKeeps DEF ServeAdmin, SignedInv, KeysKept, chassis
<1>3. CASE ServeTraces(r)
  BY <1>3, ServeTracesKeeps, SilentKeeps DEF ServeTraces, ReadTraces, SignedInv, KeysKept, chassis
<1>4. CASE Redeem(r) /\ UNCHANGED <<logs, memory>> /\ Dispatch(r)
  BY <1>4, RedeemKeeps DEF Dispatch, SignedInv, memory, chassis
<1>5. CASE Lookup(r) /\ UNCHANGED <<kv, signIn>> /\ Dispatch(r)
  BY <1>5, LookupHonest DEF Dispatch, SignedInv, chassis
<1>6. CASE (Invoke(r) \/ Finish(r)) /\ UNCHANGED <<kv, signIn>> /\ Dispatch(r)
  <2>1. UNCHANGED <<kv, signIn, traffic>>
    BY <1>6 DEF Dispatch, chassis
  <2>2. /\ InFlight(r)
        /\ \E id : /\ traffic = "traces" => id \notin LinkKeys
                   /\ Answer(r, id, TRUE)
    <3>1. CASE Invoke(r)
      BY <3>1, FrontDoorAssumption DEF Invoke, At, InFlight, Traced, SignedInv, RInv, Placed
    <3>2. CASE Finish(r)
      BY <3>2 DEF Finish, At, InFlight, SignedInv, RInv, Placed
    <3> QED
      BY <3>1, <3>2, <1>6
  <2>3. RInv' /\ Silent
    BY <2>1, <2>2, AnswerKeeps DEF SignedInv, Silent
  <2> QED
    BY <2>1, <2>3, SilentKeeps DEF SignedInv, KeysKept
<1> QED
  BY <1>1, <1>2, <1>3, <1>4, <1>5, <1>6 DEF Handle, Dispatch

LEMMA OtherSteps ==
    ASSUME SignedInv,
           \/ \E r \in Requests : \E kind \in KindsOf(traffic) : Arrive(r, kind)
           \/ \E user \in Users : Ask(user)
           \/ HandleEvent
           \/ \E k \in StoreKeys : Expire(k)
           \/ \E text \in Texts \cup {Malformed} : Edit(text)
    PROVE  SignedInv'
<1>1. ASSUME NEW r \in Requests, NEW kind \in KindsOf(traffic), Arrive(r, kind)
      PROVE  SignedInv'
  <2>1. RInv' /\ Silent
    BY <1>1, ArriveKeeps DEF SignedInv, Silent
  <2> QED
    BY <1>1, <2>1, SilentKeeps DEF Arrive, SignedInv, KeysKept, chassis
<1>2. ASSUME NEW user \in Users, Ask(user)
      PROVE  SignedInv'
  BY <1>2, StillPlaced, MintKeeps DEF Ask, SignedInv, memory, chassis
<1>3. CASE HandleEvent
  <2>1. UNCHANGED <<req, task, traffic>>
    BY <1>3 DEF HandleEvent, memory, chassis
  <2>2. mint.pc # "idle" => mint.token \in LinkKeys /\ mint.code \in LinkKeys
    BY DEF SignedInv, SInv, KeyTypes, LinkKeys
  <2>3. CASE StoreToken
    BY <2>1, <2>2, <2>3, StillPlaced, StoreKeeps DEF StoreToken, SignedInv
  <2>4. CASE StoreCode
    BY <2>1, <2>2, <2>4, StillPlaced, StoreKeeps DEF StoreCode, SignedInv
  <2>5. ASSUME NEW config, SendMail(config, environment)
        PROVE  SignedInv'
    BY <2>1, <2>5, StillPlaced, SendKeeps DEF SendMail, SignedInv
  <2> QED
    BY <1>3, <2>3, <2>4, <2>5 DEF HandleEvent
<1>4. ASSUME NEW k \in StoreKeys, Expire(k)
      PROVE  SignedInv'
  <2>1. UNCHANGED <<req, task, mint, mails, unused, fresh, traffic>>
    BY <1>4 DEF Expire, control, chassis
  <2>2. /\ DOMAIN kv' = DOMAIN kv
        /\ \A j \in LinkKeys : kv'[j] \in {kv[j], NoValue}
        /\ \A j \in LinkKeys : kv'[j] = kv[j] \/ j \in spent'
        /\ spent \subseteq spent'
    BY <1>4, FrontDoorAssumption DEF Expire, ExpireKey, SignedInv, SInv, KeyTypes
  <2> QED
    BY <2>1, <2>2, StillPlaced, KeysGo DEF SignedInv
<1>5. ASSUME NEW text \in Texts \cup {Malformed}, Edit(text)
      PROVE  SignedInv'
  BY <1>5, StillPlaced, SilentKeeps DEF Edit, SignedInv, KeysKept, memory, chassis
<1> QED
  BY <1>1, <1>2, <1>3, <1>4, <1>5

LEMMA SignedInductive == SignedInv /\ [Next]_vars => SignedInv'
<1> SUFFICES ASSUME SignedInv, [Next]_vars PROVE SignedInv'
  OBVIOUS
<1>1. CASE UNCHANGED vars
  BY <1>1, StillPlaced, SilentKeeps DEF vars, SignedInv, KeysKept, memory, chassis
<1>2. CASE Next
  BY <1>2, ReplicaSteps, RequestSteps, OtherSteps DEF Next
<1> QED
  BY <1>1, <1>2

LEMMA AlwaysSigned == Spec => []SignedInv
<1>1. Init => SignedInv
  BY InitRequests, InitKeys DEF SignedInv
<1> QED
  BY <1>1, SignedInductive, PTL DEF Spec

\* A key signs in at most as many times as it was minted, for any number of
\* concurrent requests, events, failures of the store, crashes and restarts.
THEOREM KeysRedeemedOnce == Spec => []RedeemedOnce
<1>1. SignedInv => RedeemedOnce
  BY DEF SignedInv, SInv, KeyTypes, Counted, Copies, RedeemedOnce
<1> QED
  BY <1>1, AlwaysSigned, PTL

\* Nobody is signed in as somebody else with the token of their own mail.
THEOREM SignedInAsOneself == Spec => []SignedInAsAddressed
<1>1. ASSUME SignedInv, NEW r \in Requests,
             req[r].kind = "verify", req[r].status = 200
      PROVE  req[r].pc = "finish" /\ Honest(req[r])
  BY <1>1 DEF SignedInv, SInv, RInv, Placed, RequestsHonest
<1>2. SignedInv => SignedInAsAddressed
  BY <1>1 DEF Honest, SignedInAsAddressed
<1> QED
  BY <1>2, AlwaysSigned, PTL

\* A mailed key stays in the store until it is spent (MailedKept): redeemed, gone
\* with its time or with the store, or lost to a failed call.
THEOREM RefusalsJustified == Spec => []RefusedForAReason
<1>1. ASSUME SignedInv, NEW r \in Requests,
             req[r].kind = "verify", req[r].status = 401
      PROVE  req[r].pc = "finish" /\ Honest(req[r])
  BY <1>1 DEF SignedInv, SInv, RInv, Placed, RequestsHonest
<1>2. SignedInv => RefusedForAReason
  BY <1>1 DEF Honest, RefusedForAReason
<1> QED
  BY <1>2, AlwaysSigned, PTL
=============================================================================
