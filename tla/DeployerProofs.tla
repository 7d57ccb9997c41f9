--------------------------- MODULE DeployerProofs ---------------------------
(***************************************************************************)
(* Proofs about Deployer, for any workers, names, paths, builds and        *)
(* bounds: type correctness, that the router's listing agrees with         *)
(* dispatch, that only approved builds run; and, while operations take     *)
(* turns, that the manifest on disk always opens to the records and that   *)
(* what is Active is loaded and mounted.                                   *)
(*                                                                         *)
(* None is inductive alone.  A worker writes a record at the end of its    *)
(* plan from a copy it took earlier, so the invariant says of every job    *)
(* which of its remaining steps its copy is good for (JobOK), and follows  *)
(* the approval of an Active record through every copy that is made of it: *)
(* the jobs' records, the manifests they are about to write, and the disk. *)
(* In turns it also says what is left of the one plan under way (PlanOK),  *)
(* how far its save has come (InStep), and which cells it may have         *)
(* disturbed (TurnOK).                                                     *)
(***************************************************************************)
EXTENDS Deployer, SequenceTheorems, TLAPS

-----------------------------------------------------------------------------
(* The router.  What FluxRouter's operations preserve, for any router value: *)
(* its type, and the agreement of the listing (fluxcell_routes) with         *)
(* dispatch (registered_paths and the trees).                                *)

\* A router starts out empty, so listing and dispatch agree.
LEMMA NewRouterAgrees == NewRouter \in Routers /\ Agrees(NewRouter)
BY DEF NewRouter, Routers, Agrees

\* Every path a registration claims was claimed by nobody.
LEMMA ClaimsFreePaths ==
    ASSUME NEW r \in Routers, NEW list \in Seq(Paths),
           NEW i \in DOMAIN list, i \notin Blocked(r, list)
    PROVE  r.owner[list[i]] = Nobody
BY DEF Blocked

\* Registering keeps agreement, whether the call succeeds, collides at its
\* first path, or collides halfway and leaves paths claimed behind it.
LEMMA RegisterKeepsAgreement ==
    ASSUME NEW r \in Routers, Agrees(r), NEW n \in Names, NEW list \in Seq(Paths)
    PROVE  Register(r, n, list) \in Routers /\ Agrees(Register(r, n, list))
<1> DEFINE blocked == Blocked(r, list)
           claimed == {list[i] : i \in {k \in DOMAIN list : \A j \in blocked : k < j}}
           s == Register(r, n, list)
<1>1. \A p \in claimed : r.owner[p] = Nobody
  <2>1. \A i \in DOMAIN list : i \in Nat
    OBVIOUS
  <2>2. SUFFICES ASSUME NEW i \in DOMAIN list, \A j \in blocked : i < j
                 PROVE  r.owner[list[i]] = Nobody
    OBVIOUS
  <2>3. i \notin blocked
    BY <2>1, <2>2 DEF Blocked
  <2> QED BY <2>3, ClaimsFreePaths
<1>2. s.owner = [p \in Paths |-> IF p \in claimed THEN n ELSE r.owner[p]]
  BY DEF Register
<1>3. s.mounted = (IF blocked = {} THEN r.mounted \cup {n} ELSE r.mounted)
  BY DEF Register
<1>4. s.routes = (IF blocked = {} THEN [r.routes EXCEPT ![n] = list] ELSE r.routes)
  BY DEF Register
<1>5. s \in Routers
  <2>1. s.owner \in [Paths -> Names \cup {Nobody}]
    BY <1>2 DEF Routers
  <2>2. s.mounted \in SUBSET Names
    BY <1>3 DEF Routers
  <2>3. s.routes \in [Names -> Seq(Paths)]
    BY <1>4 DEF Routers
  <2> QED BY <2>1, <2>2, <2>3 DEF Register, Routers
<1>6. ASSUME NEW m \in s.mounted, NEW p \in RoutesIn(s.routes[m])
      PROVE  s.owner[p] = m
  <2>1. m \in Names /\ p \in Paths
    BY <1>5 DEF Routers, RoutesIn
  <2>2. CASE m = n /\ blocked = {}
    <3>1. s.routes[m] = list
      BY <2>2, <1>4, <2>1 DEF Routers
    <3>2. p \in claimed
      BY <3>1, <2>2 DEF RoutesIn
    <3> QED BY <3>2, <2>2, <2>1, <1>2
  <2>3. CASE ~(m = n /\ blocked = {})
    <3>1. m \in r.mounted /\ s.routes[m] = r.routes[m]
      BY <2>3, <1>3, <1>4, <2>1 DEF Routers
    <3>2. r.owner[p] = m
      BY <3>1 DEF Agrees
    <3>3. p \notin claimed
      BY <3>2, <1>1, <2>1, NobodyAssumption
    <3> QED BY <3>2, <3>3, <2>1, <1>2
  <2> QED BY <2>2, <2>3
<1> QED BY <1>5, <1>6 DEF Agrees

\* A router that agrees has no path listed for two cells, so rebuilding it
\* gives every listed path back to its cell.
LEMMA RebuildKeepsAgreement ==
    ASSUME NEW r \in Routers, Agrees(r)
    PROVE  Rebuild(r) \in Routers /\ Agrees(Rebuild(r))
<1> DEFINE claimants(p) == {n \in r.mounted : p \in RoutesIn(r.routes[n])}
           s == Rebuild(r)
<1>1. /\ s.owner = [p \in Paths |-> IF claimants(p) = {} THEN Nobody
                                    ELSE CHOOSE n \in claimants(p) : TRUE]
      /\ s.mounted = r.mounted /\ s.routes = r.routes
  BY DEF Rebuild, Routers
<1>2. \A p \in Paths : claimants(p) # {} =>
          (CHOOSE n \in claimants(p) : TRUE) \in claimants(p)
  OBVIOUS
<1>3. \A p \in Paths : claimants(p) \subseteq Names
  BY DEF Routers
<1>4. s \in Routers
  <2>1. s.owner \in [Paths -> Names \cup {Nobody}]
    BY <1>1, <1>2, <1>3
  <2> QED BY <2>1, <1>1 DEF Rebuild, Routers
<1>5. ASSUME NEW m \in s.mounted, NEW p \in RoutesIn(s.routes[m])
      PROVE  s.owner[p] = m
  <2>1. m \in claimants(p) /\ p \in Paths
    BY <1>1 DEF RoutesIn, Routers
  <2>2. \A n \in claimants(p) : n = m
    BY <2>1 DEF Agrees
  <2> QED BY <2>1, <2>2, <1>1, <1>2
<1> QED BY <1>4, <1>5 DEF Agrees

\* Unregistering keeps agreement, listed or not.
LEMMA UnregisterKeepsAgreement ==
    ASSUME NEW r \in Routers, Agrees(r), NEW n \in Names
    PROVE  Unregister(r, n) \in Routers /\ Agrees(Unregister(r, n))
<1> DEFINE s == [r EXCEPT !.mounted = @ \ {n}, !.routes = [@ EXCEPT ![n] = <<>>]]
<1>1. CASE n \in r.mounted
  <2>1. s \in Routers
    <3>1. <<>> \in Seq(Paths)
      OBVIOUS
    <3>2. r.routes \in [Names -> Seq(Paths)] /\ r.mounted \ {n} \in SUBSET Names
      BY DEF Routers
    <3>3. [r.routes EXCEPT ![n] = <<>>] \in [Names -> Seq(Paths)]
      BY <3>1, <3>2
    <3> QED BY <3>2, <3>3 DEF Routers
  <2>2. s.mounted = r.mounted \ {n} /\ s.owner = r.owner
    BY DEF Routers
  <2>3. \A m \in s.mounted : s.routes[m] = r.routes[m]
    BY <2>2 DEF Routers
  <2>4. Agrees(s)
    BY <2>2, <2>3 DEF Agrees
  <2> QED BY <1>1, <2>1, <2>4, RebuildKeepsAgreement DEF Unregister
<1>2. CASE n \notin r.mounted
  BY <1>2 DEF Unregister
<1> QED BY <1>1, <1>2

-----------------------------------------------------------------------------
(* The deployer's invariant *)

Saves == {"snapshot", "truncate", "flush"}
Needy == {"write", "load", "mount", "insert"}

Has(j, steps) == \E i \in DOMAIN j.plan : j.plan[i] \in steps

\* A step that uses the record has one, or looks it up first.
Prepared(j) ==
    \A i \in DOMAIN j.plan : j.plan[i] \in Needy =>
        j.rec \in Records \/ \E k \in DOMAIN j.plan : k < i /\ j.plan[k] = "lookup"

JobOK(j) ==
    /\ j # NoJob => j.name \in Names /\ j.plan # <<>>
    /\ Prepared(j)
    /\ ~(Has(j, {"load", "mount"}) /\ Has(j, {"forget"}))

ApprovedRecord(n, r) == r.status = "Active" => <<n, r.sha>> \in approved

ApprovedJob(j) ==
    /\ Has(j, {"load", "mount"}) => <<j.name, j.rec.sha>> \in approved
    /\ ApprovedRecord(j.name, j.rec)

ApprovedManifest(m) == \A n \in Names : ApprovedRecord(n, m[n])

JobsInv ==
    \A w \in Workers : JobOK(job[w]) /\ ApprovedJob(job[w]) /\ ApprovedManifest(job[w].copy)

IInv ==
    /\ TypeOK
    /\ RoutesAgree
    /\ JobsInv
    /\ ApprovedManifest(records)
    /\ ApprovedManifest(disk.holds)
    /\ OnlyApprovedRuns

-----------------------------------------------------------------------------
(* Plans *)

LEMMA SavePlanSteps == SavePlan \in Seq(Saves) /\ SavePlan # <<>>
BY DEF SavePlan, Saves

LEMMA HotActivatePlanSteps == HotActivatePlan \in Seq({"load", "mount"})
BY DEF HotActivatePlan

\* An element of a sequence over S is in S, by position.
LEMMA StepIn ==
    ASSUME NEW S, NEW s \in Seq(S), NEW i \in DOMAIN s
    PROVE  s[i] \in S
OBVIOUS

\* A plan put together from two has the steps of both, and starts as the first.
LEMMA Joined ==
    ASSUME NEW S, NEW s \in Seq(S), NEW t \in Seq(S)
    PROVE  /\ s \o t \in Seq(S)
           /\ s # <<>> => s \o t # <<>> /\ (s \o t)[1] = s[1]
           /\ \A T : s \in Seq(T) /\ t \in Seq(T) => s \o t \in Seq(T)
<1>1. s \o t \in Seq(S)
  BY ConcatProperties
<1>2. \A T : s \in Seq(T) /\ t \in Seq(T) => s \o t \in Seq(T)
  BY ConcatProperties
<1>3. ASSUME s # <<>> PROVE s \o t # <<>> /\ (s \o t)[1] = s[1]
  <2>1. Len(s) \in Nat \ {0} /\ Len(t) \in Nat
    BY <1>3, EmptySeq, LenProperties
  <2>2. Len(s \o t) = Len(s) + Len(t)
    BY ConcatProperties
  <2>3. s \o t # <<>>
    BY <2>1, <2>2, EmptySeq
  <2>4. 1 \in 1 .. Len(s) + Len(t) /\ 1 <= Len(s)
    BY <2>1
  <2>5. (s \o t)[1] = s[1]
    BY <2>4, ConcatProperties
  <2> QED BY <2>3, <2>5
<1> QED BY <1>1, <1>2, <1>3

\* Staging loads and mounts only with auto_activate, and looks nothing up.
LEMMA StagePlanSteps ==
    /\ StagePlan \in Seq({"check", "write", "load", "mount", "insert"} \cup Saves)
    /\ ~autoActivate => StagePlan \in Seq({"check", "write", "insert"} \cup Saves)
    /\ StagePlan # <<>>
<1> DEFINE S == {"check", "write", "load", "mount", "insert"} \cup Saves
           T == {"check", "write", "insert"} \cup Saves
           a == <<"check", "write">>
           middle == IF autoActivate THEN HotActivatePlan ELSE <<>>
           b == <<"insert">>
<1>1. a \in Seq(S) /\ a \in Seq(T) /\ a # <<>> /\ b \in Seq(S) /\ b \in Seq(T)
  OBVIOUS
<1>2. SavePlan \in Seq(S) /\ SavePlan \in Seq(T)
  BY SavePlanSteps, SeqMonotonic, Saves \subseteq S, Saves \subseteq T
<1>3. middle \in Seq(S) /\ (~autoActivate => middle \in Seq(T))
  BY HotActivatePlanSteps, SeqMonotonic, EmptySeq, {"load", "mount"} \subseteq S
<1>4. StagePlan = a \o middle \o SavePlan \o b \o SavePlan
  BY DEF StagePlan
<1> HIDE DEF S, T, a, b, middle
<1>5. /\ a \o middle \in Seq(S) /\ a \o middle # <<>>
      /\ ~autoActivate => a \o middle \in Seq(T)
  BY <1>1, <1>3, Joined
<1>6. /\ a \o middle \o SavePlan \in Seq(S) /\ a \o middle \o SavePlan # <<>>
      /\ ~autoActivate => a \o middle \o SavePlan \in Seq(T)
  BY <1>2, <1>5, Joined
<1>7. /\ a \o middle \o SavePlan \o b \in Seq(S) /\ a \o middle \o SavePlan \o b # <<>>
      /\ ~autoActivate => a \o middle \o SavePlan \o b \in Seq(T)
  BY <1>1, <1>6, Joined
<1>8. /\ StagePlan \in Seq(S) /\ StagePlan # <<>>
      /\ ~autoActivate => StagePlan \in Seq(T)
  BY <1>2, <1>4, <1>7, Joined
<1> QED BY <1>8 DEF S, T

\* Activation looks its record up before anything else.
LEMMA ActivatePlanSteps ==
    /\ ActivatePlan \in Seq({"lookup", "load", "mount", "insert"} \cup Saves)
    /\ ActivatePlan # <<>> /\ ActivatePlan[1] = "lookup"
<1> DEFINE S == {"lookup", "load", "mount", "insert"} \cup Saves
           a == <<"lookup">>
           b == <<"insert">>
<1>1. a \in Seq(S) /\ a # <<>> /\ a[1] = "lookup" /\ b \in Seq(S)
  OBVIOUS
<1>2. HotActivatePlan \in Seq(S) /\ SavePlan \in Seq(S)
  BY SavePlanSteps, HotActivatePlanSteps, SeqMonotonic, Saves \subseteq S,
     {"load", "mount"} \subseteq S
<1>3. ActivatePlan = a \o HotActivatePlan \o b \o SavePlan \o SavePlan
  BY DEF ActivatePlan
<1> DEFINE Good(s) == s \in Seq(S) /\ s # <<>> /\ s[1] = "lookup"
<1> HIDE DEF S, a, b
<1>4. Good(a \o HotActivatePlan)
  BY <1>1, <1>2, Joined
<1>5. Good(a \o HotActivatePlan \o b)
  BY <1>1, <1>4, Joined
<1>6. Good(a \o HotActivatePlan \o b \o SavePlan)
  BY <1>2, <1>5, Joined
<1>7. Good(ActivatePlan)
  BY <1>2, <1>3, <1>6, Joined
<1> QED BY <1>7 DEF S

LEMMA RemovePlanSteps ==
    /\ RemovePlan \in Seq({"unmount", "unload", "forget", "erase"} \cup Saves)
    /\ RemovePlan # <<>>
<1> DEFINE S == {"unmount", "unload", "forget", "erase"} \cup Saves
           a == <<"unmount", "unload", "forget">>
           b == <<"erase">>
<1>1. a \in Seq(S) /\ a # <<>> /\ b \in Seq(S)
  OBVIOUS
<1>2. SavePlan \in Seq(S)
  BY SavePlanSteps, SeqMonotonic, Saves \subseteq S
<1>3. RemovePlan = a \o SavePlan \o b \o SavePlan
  BY DEF RemovePlan
<1> HIDE DEF S, a, b
<1>4. a \o SavePlan \in Seq(S) /\ a \o SavePlan # <<>>
  BY <1>1, <1>2, Joined
<1>5. a \o SavePlan \o b \in Seq(S) /\ a \o SavePlan \o b # <<>>
  BY <1>1, <1>4, Joined
<1>6. RemovePlan \in Seq(S) /\ RemovePlan # <<>>
  BY <1>2, <1>3, <1>5, Joined
<1> QED BY <1>6 DEF S

-----------------------------------------------------------------------------
(* A job and its next step *)

\* A worker whose next step uses the record has one.
LEMMA RecordAtHand ==
    ASSUME NEW j \in Jobs, j.plan # <<>>, JobOK(j), Head(j.plan) \in Needy
    PROVE  j.rec \in Records
<1>1. j.plan \in Seq(Steps)
  BY DEF Jobs
<1>2. 1 \in DOMAIN j.plan /\ j.plan[1] = Head(j.plan) /\ \A k \in DOMAIN j.plan : ~(k < 1)
  BY <1>1
<1> QED BY <1>2 DEF JobOK, Prepared

\* A plan that is neither empty nor one step long has a step after the first.
LEMMA LongPlan ==
    ASSUME NEW s \in Seq(Steps), s # <<>>, Len(s) # 1
    PROVE  Len(s) \in Nat /\ Len(s) > 1
<1> DEFINE n == Len(s)
<1>1. n \in Nat \ {0} /\ n # 1
  BY EmptySeq
<1> HIDE DEF n
<1>2. n \in Nat /\ n > 1
  BY <1>1
<1> QED BY <1>2 DEF n

\* Taking a step off the plan keeps the job good, if a lookup leaves a record
\* and no step loses one; what is left of the plan was in it before.
LEMMA AdvanceKeepsJob ==
    ASSUME NEW j \in Jobs, j.plan # <<>>, j.name \in Names, JobOK(j),
           NEW l \in Jobs, l.plan = j.plan, l.name = j.name,
           j.rec \in Records \/ Head(j.plan) = "lookup" => l.rec \in Records
    PROVE  /\ Advance(l) \in Jobs /\ JobOK(Advance(l))
           /\ \A S : Has(Advance(l), S) => Has(j, S)
           /\ \/ Advance(l) = NoJob
              \/ /\ Advance(l).rec = l.rec /\ Advance(l).name = l.name
                 /\ Advance(l).copy = l.copy
<1>1. NoJob \in Jobs /\ JobOK(NoJob) /\ \A S : ~Has(NoJob, S)
  <2>1. EmptyManifest \in Manifests
    BY DEF EmptyManifest, Manifests
  <2>2. NoJob \in Jobs
    BY <2>1 DEF NoJob, Jobs, NoRecord, Drafts
  <2> QED BY <2>2 DEF NoJob, JobOK, Prepared, Has
<1>2. CASE Len(l.plan) = 1
  BY <1>1, <1>2 DEF Advance
<1>3. CASE Len(l.plan) # 1
  <2> DEFINE k == Advance(l)
  <2>1. l.plan \in Seq(Steps) /\ l.plan # <<>>
    BY DEF Jobs
  <2>2. /\ Tail(l.plan) \in Seq(Steps) /\ Len(Tail(l.plan)) = Len(l.plan) - 1
        /\ \A i \in 1 .. Len(l.plan) - 1 : Tail(l.plan)[i] = l.plan[i + 1]
        /\ Len(l.plan) \in Nat /\ Len(l.plan) > 1
    <3>1. Len(l.plan) \in Nat /\ Len(l.plan) > 1
      BY <2>1, <1>3, LongPlan
    <3>2. /\ Tail(l.plan) \in Seq(Steps) /\ Len(Tail(l.plan)) = Len(l.plan) - 1
          /\ \A i \in 1 .. Len(Tail(l.plan)) : Tail(l.plan)[i] = l.plan[i + 1]
      BY <2>1, HeadTailProperties
    <3> QED BY <3>1, <3>2
  <2>3. /\ k.plan = Tail(l.plan) /\ k.name = l.name /\ k.rec = l.rec /\ k.copy = l.copy
        /\ k \in Jobs
    BY <2>2, <1>3 DEF Advance, Jobs
  <2> HIDE DEF k
  <2>4. /\ DOMAIN k.plan = 1 .. Len(l.plan) - 1
        /\ DOMAIN l.plan = 1 .. Len(l.plan)
        /\ \A i \in DOMAIN k.plan : i + 1 \in DOMAIN l.plan /\ k.plan[i] = l.plan[i + 1]
    BY <2>1, <2>2, <2>3
  <2>5. \A S : Has(k, S) => Has(j, S)
    BY <2>4 DEF Has
  <2>6. Prepared(k)
    <3>1. SUFFICES ASSUME NEW i \in DOMAIN k.plan, k.plan[i] \in Needy, k.rec \notin Records
                   PROVE  \E m \in DOMAIN k.plan : m < i /\ k.plan[m] = "lookup"
      BY DEF Prepared
    <3>2. j.rec \notin Records /\ Head(j.plan) # "lookup"
      BY <3>1, <2>3
    <3>3. PICK m \in DOMAIN j.plan : m < i + 1 /\ j.plan[m] = "lookup"
      BY <3>1, <3>2, <2>4 DEF JobOK, Prepared
    <3>4. m # 1
      BY <3>2, <3>3, <2>1
    <3>5. m - 1 \in DOMAIN k.plan /\ m - 1 < i /\ k.plan[m - 1] = "lookup"
      <4>1. /\ m \in Int /\ 1 <= m /\ m <= Len(l.plan)
            /\ i \in Int /\ 1 <= i /\ i <= Len(l.plan) - 1 /\ Len(l.plan) \in Int
        BY <3>1, <3>3, <2>2, <2>4
      <4>2. m - 1 \in DOMAIN k.plan /\ m - 1 < i /\ (m - 1) + 1 = m
        BY <4>1, <3>3, <3>4, <2>4
      <4> QED BY <4>2, <3>3, <2>4
    <3> QED BY <3>5
  <2>7. k.plan # <<>>
    <3> DEFINE n == Len(l.plan)
    <3> HIDE DEF n
    <3>1. n - 1 # 0
      <4>1. n \in Nat /\ n > 1
        BY <2>2 DEF n
      <4> QED BY <4>1
    <3>2. Len(<<>>) = 0
      BY EmptySeq
    <3> QED BY <3>1, <3>2, <2>2, <2>3 DEF n
  <2>8. JobOK(k)
    BY <2>3, <2>5, <2>6, <2>7 DEF JobOK
  <2> QED BY <2>3, <2>5, <2>8 DEF k
<1> QED BY <1>2, <1>3

-----------------------------------------------------------------------------
(* What an action does to the jobs *)

\* Approval only grows, so what was approved stays approved.
LEMMA ApprovalGrows ==
    ASSUME approved \subseteq approved'
    PROVE  /\ \A n, r : ApprovedRecord(n, r) => ApprovedRecord(n, r)'
           /\ \A m : ApprovedManifest(m) => ApprovedManifest(m)'
           /\ \A j : ApprovedJob(j) => ApprovedJob(j)'
<1>1. \A n, r : ApprovedRecord(n, r) => ApprovedRecord(n, r)'
  BY DEF ApprovedRecord
<1>2. \A m : ApprovedManifest(m) => ApprovedManifest(m)'
  BY <1>1 DEF ApprovedManifest
<1>3. \A j : ApprovedJob(j) => ApprovedJob(j)'
  BY <1>1 DEF ApprovedJob
<1> QED BY <1>1, <1>2, <1>3

\* A worker that gets a good job leaves the jobs good.
LEMMA OneJobChanges ==
    ASSUME TypeOK, JobsInv, approved \subseteq approved',
           NEW w \in Workers, NEW k \in Jobs, job' = [job EXCEPT ![w] = k],
           JobOK(k), ApprovedJob(k)', ApprovedManifest(k.copy)'
    PROVE  job' \in [Workers -> Jobs] /\ JobsInv'
<1>1. job' \in [Workers -> Jobs]
  BY DEF TypeOK
<1>2. ASSUME NEW v \in Workers
      PROVE  (JobOK(job[v]) /\ ApprovedJob(job[v]) /\ ApprovedManifest(job[v].copy))'
  <2>1. CASE v = w
    <3>1. job'[v] = k
      BY <2>1 DEF TypeOK
    <3> QED BY <3>1 DEF JobOK, Prepared, Has, ApprovedJob, ApprovedRecord, ApprovedManifest
  <2>2. CASE v # w
    <3>1. job'[v] = job[v]
      BY <2>2 DEF TypeOK
    <3> QED BY <3>1 DEF JobsInv, JobOK, Prepared, Has, ApprovedJob, ApprovedRecord,
                        ApprovedManifest
  <2> QED BY <2>1, <2>2
<1> QED BY <1>1, <1>2 DEF JobsInv

\* A worker without a job has a good one.
LEMMA NoJobGood ==
    NoJob \in Jobs /\ JobOK(NoJob) /\ ApprovedJob(NoJob) /\ ApprovedManifest(NoJob.copy)
<1>1. EmptyManifest \in Manifests
  BY DEF EmptyManifest, Manifests
<1>2. NoJob \in Jobs
  BY <1>1 DEF NoJob, Jobs, NoRecord, Drafts
<1>3. ApprovedManifest(EmptyManifest)
  BY DEF ApprovedManifest, ApprovedRecord, EmptyManifest, NoRecord
<1> QED BY <1>2, <1>3 DEF NoJob, NoRecord, JobOK, Prepared, Has, ApprovedJob, ApprovedRecord

\* Proceeding keeps the jobs good, if the locals are.
LEMMA ProceedSafe ==
    ASSUME TypeOK, JobsInv, UNCHANGED approved, NEW w \in Workers, ~Idle(w),
           NEW l \in Jobs, Proceed(w, l), l.plan = job[w].plan, l.name = job[w].name,
           job[w].rec \in Records \/ Head(job[w].plan) = "lookup" => l.rec \in Records,
           Has(l, {"forget"}) \/ l.rec.sha = job[w].rec.sha,
           ApprovedRecord(l.name, l.rec), ApprovedManifest(l.copy)
    PROVE  job' \in [Workers -> Jobs] /\ JobsInv'
<1> DEFINE j == job[w]
           k == Advance(l)
<1>1. j \in Jobs /\ JobOK(j) /\ ApprovedJob(j) /\ j.name \in Names /\ j.plan # <<>>
  BY DEF TypeOK, JobsInv, JobOK, Idle
<1>2. /\ k \in Jobs /\ JobOK(k) /\ \A S : Has(k, S) => Has(j, S)
      /\ k = NoJob \/ (k.rec = l.rec /\ k.name = l.name /\ k.copy = l.copy)
  BY <1>1, AdvanceKeepsJob
<1>3. ApprovedJob(k) /\ ApprovedManifest(k.copy)
  <2>1. CASE k = NoJob
    BY <2>1, NoJobGood
  <2>2. CASE k.rec = l.rec /\ k.name = l.name /\ k.copy = l.copy
    <3>1. ASSUME Has(k, {"load", "mount"}) PROVE <<k.name, k.rec.sha>> \in approved
      <4>1. Has(j, {"load", "mount"}) /\ ~Has(j, {"forget"})
        BY <3>1, <1>1, <1>2 DEF JobOK
      <4>2. ~Has(l, {"forget"})
        BY <4>1 DEF Has
      <4> QED BY <4>1, <4>2, <2>2, <1>1 DEF ApprovedJob
    <3> QED BY <3>1, <2>2 DEF ApprovedJob
  <2> QED BY <2>1, <2>2, <1>2
<1> HIDE DEF k
<1>4. ApprovedJob(k)' /\ ApprovedManifest(k.copy)'
  BY <1>3 DEF k, ApprovedJob, ApprovedManifest, ApprovedRecord, Has, Advance
<1>5. job' = [job EXCEPT ![w] = k]
  BY DEF Proceed, k
<1> QED BY <1>2, <1>4, <1>5, OneJobChanges

\* So does an early return, and an audit entry about a refusal.
LEMMA ReturnSafe ==
    ASSUME TypeOK, JobsInv, UNCHANGED approved, NEW w \in Workers, Return(w)
    PROVE  job' \in [Workers -> Jobs] /\ JobsInv'
<1>1. ApprovedJob(NoJob)' /\ ApprovedManifest(NoJob.copy)'
  BY NoJobGood DEF ApprovedJob, ApprovedManifest, ApprovedRecord
<1> QED BY <1>1, NoJobGood, OneJobChanges DEF Return

LEMMA RejectSafe ==
    ASSUME TypeOK, JobsInv, UNCHANGED approved, NEW w \in Workers, ~Idle(w), Reject(w)
    PROVE  job' \in [Workers -> Jobs] /\ JobsInv'
<1>1. /\ job[w] \in Jobs /\ job[w].name \in Names
      /\ ApprovedRecord(job[w].name, job[w].rec) /\ ApprovedManifest(job[w].copy)
  BY DEF TypeOK, JobsInv, JobOK, ApprovedJob, Idle
<1>2. SavePlan \in Seq(Steps)
  BY SavePlanSteps, SeqMonotonic, Saves \subseteq Steps DEF Saves, Steps
<1> PICK k : k = [job[w] EXCEPT !.plan = SavePlan]
  OBVIOUS
<1>3. /\ k \in Jobs /\ k.plan = SavePlan /\ k.name = job[w].name
      /\ k.rec = job[w].rec /\ k.copy = job[w].copy
  BY <1>1, <1>2 DEF Jobs
<1>4. \A i \in DOMAIN SavePlan : SavePlan[i] \in Saves
  BY SavePlanSteps, StepIn
<1>5. JobOK(k)
  BY <1>1, <1>3, <1>4, SavePlanSteps DEF JobOK, Prepared, Has, Needy, Saves
<1>6. ApprovedJob(k)' /\ ApprovedManifest(k.copy)'
  BY <1>1, <1>3, <1>4 DEF ApprovedJob, ApprovedManifest, ApprovedRecord, Has, Saves
<1>7. job' = [job EXCEPT ![w] = k]
  BY DEF Reject
<1> QED BY <1>3, <1>5, <1>6, <1>7, OneJobChanges

\* A step leaves an invariant alone whose variable it leaves alone.
LEMMA Kept ==
    ASSUME IInv, approved \subseteq approved'
    PROVE  /\ router' = router => RoutesAgree'
           /\ records' = records => ApprovedManifest(records)'
           /\ disk' = disk => ApprovedManifest(disk.holds)'
           /\ modules' = modules => OnlyApprovedRuns'
<1>1. router' = router => RoutesAgree'
  BY DEF IInv, RoutesAgree, Agrees, RoutesIn
<1>2. records' = records => ApprovedManifest(records)'
  BY DEF IInv, ApprovedManifest, ApprovedRecord
<1>3. disk' = disk => ApprovedManifest(disk.holds)'
  BY DEF IInv, ApprovedManifest, ApprovedRecord
<1>4. modules' = modules => OnlyApprovedRuns'
  BY DEF IInv, OnlyApprovedRuns
<1> QED BY <1>1, <1>2, <1>3, <1>4

\* A new operation, with a plan whose steps have what they need.
LEMMA BeginSafe ==
    ASSUME IInv, NEW w \in Workers, NEW n \in Names, NEW r \in Drafts,
           NEW plan \in Seq(Steps), plan # <<>>, Begin(w, n, r, plan),
           approved \subseteq approved', approved' \subseteq Names \X Shas,
           r.status # "Active",
           r \in Records \/ plan[1] = "lookup" \/ \A i \in DOMAIN plan : plan[i] \notin Needy,
           \/ \A i \in DOMAIN plan : plan[i] \notin {"load", "mount"}
           \/ <<n, r.sha>> \in approved' /\ \A i \in DOMAIN plan : plan[i] # "forget"
    PROVE  IInv'
<1> DEFINE k == [plan |-> plan, name |-> n, rec |-> r, copy |-> EmptyManifest]
<1>1. /\ EmptyManifest \in Manifests /\ ApprovedManifest(EmptyManifest)'
  BY DEF EmptyManifest, Manifests, ApprovedManifest, ApprovedRecord, NoRecord
<1>2. /\ k \in Jobs /\ k.plan = plan /\ k.name = n /\ k.rec = r /\ k.copy = EmptyManifest
  BY <1>1 DEF Jobs
<1>3. job' = [job EXCEPT ![w] = k]
  BY DEF Begin
<1> HIDE DEF k
<1>4. JobOK(k)
  <2>1. Prepared(k)
    <3>1. CASE plan[1] = "lookup"
      <4>1. \A i \in DOMAIN plan : plan[i] \in Needy => 1 \in DOMAIN plan /\ 1 < i
        BY <3>1 DEF Needy
      <4> QED BY <4>1, <3>1, <1>2 DEF Prepared
    <3>2. CASE r \in Records \/ \A i \in DOMAIN plan : plan[i] \notin Needy
      BY <3>2, <1>2 DEF Prepared
    <3> QED BY <3>1, <3>2
  <2> QED BY <2>1, <1>2 DEF JobOK, Has
<1>5. ApprovedJob(k)' /\ ApprovedManifest(k.copy)'
  BY <1>1, <1>2 DEF ApprovedJob, ApprovedRecord, Has
<1>6. job' \in [Workers -> Jobs] /\ JobsInv'
  BY <1>2, <1>3, <1>4, <1>5, OneJobChanges DEF IInv
<1>7. UNCHANGED <<autoActivate, overlap, boot, guard, records, modules, router, disk, files,
                  handle, torn>>
  BY DEF Begin, settings
<1>8. events' \in Nat
  BY DEF Begin, CountEvent, IInv, TypeOK
<1>9. TypeOK'
  BY <1>6, <1>7, <1>8 DEF IInv, TypeOK
<1> QED BY <1>6, <1>7, <1>9, Kept DEF IInv

\* What a worker at a step has in its hands.
LEMMA Working ==
    ASSUME TypeOK, JobsInv, NEW w \in Workers, NEW s, At(w, s)
    PROVE  /\ ~Idle(w) /\ job[w] \in Jobs /\ JobOK(job[w]) /\ ApprovedJob(job[w])
           /\ ApprovedManifest(job[w].copy) /\ job[w].name \in Names
           /\ job[w].plan # <<>> /\ Head(job[w].plan) = s /\ Has(job[w], {s})
           /\ s \in Needy => job[w].rec \in Records
<1>1. /\ ~Idle(w) /\ job[w] \in Jobs /\ JobOK(job[w]) /\ ApprovedJob(job[w])
      /\ ApprovedManifest(job[w].copy) /\ job[w].name \in Names
      /\ job[w].plan # <<>> /\ Head(job[w].plan) = s
  BY DEF At, Idle, TypeOK, JobsInv, JobOK
<1>2. job[w].plan \in Seq(Steps)
  BY <1>1 DEF Jobs
<1>3. 1 \in DOMAIN job[w].plan /\ job[w].plan[1] = s
  BY <1>1, <1>2
<1>4. Has(job[w], {s})
  BY <1>3 DEF Has
<1> QED BY <1>1, <1>4, RecordAtHand

\* A worker that takes its step with its locals as they were.
LEMMA StepSafe ==
    ASSUME TypeOK, JobsInv, UNCHANGED approved, NEW w \in Workers, NEW s, At(w, s),
           s # "lookup", Proceed(w, job[w])
    PROVE  job' \in [Workers -> Jobs] /\ JobsInv'
<1>1. /\ ~Idle(w) /\ job[w] \in Jobs /\ ApprovedRecord(job[w].name, job[w].rec)
      /\ ApprovedManifest(job[w].copy) /\ Head(job[w].plan) = s
  BY Working DEF ApprovedJob
<1> QED BY <1>1, ProceedSafe

-----------------------------------------------------------------------------
(* The actions *)

LEMMA InitInv == Init => IInv
<1> SUFFICES ASSUME Init PROVE IInv
  OBVIOUS
<1>1. EmptyManifest \in Manifests /\ ApprovedManifest(EmptyManifest)
  BY DEF EmptyManifest, Manifests, ApprovedManifest, ApprovedRecord, NoRecord
<1>2. TypeOK
  <2>1. handle \in [Workers -> {"closed", "open", "unlinked"}] /\ torn \in BOOLEAN
    BY DEF Init
  <2> QED BY <1>1, <2>1, NoJobGood, NewRouterAgrees DEF Init, TypeOK
<1>3. RoutesAgree
  BY NewRouterAgrees DEF Init, RoutesAgree
<1>4. JobsInv
  BY NoJobGood DEF Init, JobsInv
<1>5. OnlyApprovedRuns
  BY DEF Init, OnlyApprovedRuns
<1> QED BY <1>1, <1>2, <1>3, <1>4, <1>5 DEF Init, IInv

LEMMA FetchSafe == ASSUME IInv, NEW w \in Workers, Fetch(w) PROVE IInv'
<1>1. job' \in [Workers -> Jobs] /\ JobsInv'
  BY Working, StepSafe, ReturnSafe, RejectSafe DEF IInv, Fetch
<1> QED BY <1>1, Kept DEF IInv, TypeOK, Fetch, settings

LEMMA CheckSafe == ASSUME IInv, NEW w \in Workers, Check(w) PROVE IInv'
<1>1. job' \in [Workers -> Jobs] /\ JobsInv'
  BY Working, StepSafe, ReturnSafe, RejectSafe DEF IInv, Check
<1> QED BY <1>1, Kept DEF IInv, TypeOK, Check, settings

LEMMA OpenFileSafe == ASSUME IInv, NEW w \in Workers, OpenFile(w) PROVE IInv'
<1>1. files' \subseteq Names \X Shas /\ handle' \in [Workers -> {"closed", "open", "unlinked"}]
  BY DEF IInv, TypeOK, OpenFile
<1>2. JobsInv'
  BY DEF IInv, JobsInv, JobOK, Prepared, Has, ApprovedJob, ApprovedRecord, ApprovedManifest,
         OpenFile
<1> QED BY <1>1, <1>2, Kept DEF IInv, TypeOK, OpenFile, settings

LEMMA WriteFileSafe == ASSUME IInv, NEW w \in Workers, WriteFile(w) PROVE IInv'
<1>1. job' \in [Workers -> Jobs] /\ JobsInv'
  BY StepSafe DEF IInv, WriteFile
<1>2. Path(w) \in Names \X Shas
  BY Working DEF IInv, WriteFile, Needy, Records, Path
<1>3. files' \subseteq Names \X Shas /\ handle' \in [Workers -> {"closed", "open", "unlinked"}]
  BY <1>2 DEF IInv, TypeOK, WriteFile
<1> QED BY <1>1, <1>3, Kept DEF IInv, TypeOK, WriteFile, settings

LEMMA FailToWriteSafe == ASSUME IInv, NEW w \in Workers, FailToWrite(w) PROVE IInv'
<1>1. job' \in [Workers -> Jobs] /\ JobsInv'
  BY ReturnSafe DEF IInv, FailToWrite
<1>2. torn' \in BOOLEAN /\ handle' \in [Workers -> {"closed", "open", "unlinked"}]
  BY DEF IInv, TypeOK, FailToWrite, CutsShort
<1> QED BY <1>1, <1>2, Kept DEF IInv, TypeOK, FailToWrite, settings

\* The record that is looked up is approved if it is Active, and it has the
\* sha that was asked for.
LEMMA LookupSafe == ASSUME IInv, NEW w \in Workers, Lookup(w) PROVE IInv'
<1> DEFINE r == records[job[w].name]
           l == [job[w] EXCEPT !.rec = r]
<1>1. At(w, "lookup") /\ UNCHANGED approved
  BY DEF Lookup
<1>2. /\ job[w] \in Jobs /\ job[w].name \in Names /\ ~Idle(w)
      /\ ApprovedManifest(job[w].copy)
  BY <1>1, Working DEF IInv
<1>3. job' \in [Workers -> Jobs] /\ JobsInv'
  <2>1. CASE Return(w)
    BY <1>1, <2>1, ReturnSafe DEF IInv
  <2>2. CASE r.sha = job[w].rec.sha /\ <<job[w].name, r.sha>> \in files /\ Proceed(w, l)
    <3>1. r \in Records \cup {NoRecord}
      BY <1>2 DEF IInv, TypeOK, Manifests
    <3>2. r.sha \in Shas
      BY <2>2, <1>2 DEF IInv, TypeOK
    <3>3. r \in Records
      BY <3>1, <3>2, DeployerAssumption DEF NoRecord
    <3>4. ApprovedRecord(job[w].name, r)
      BY <1>2 DEF IInv, ApprovedManifest
    <3>5. r \in Drafts
      BY <3>3 DEF Records, Drafts
    <3> HIDE DEF r
    <3>6. /\ l \in Jobs /\ l.plan = job[w].plan /\ l.name = job[w].name
          /\ l.rec = r /\ l.copy = job[w].copy
      BY <3>5, <1>2 DEF Jobs
    <3> HIDE DEF l
    <3> QED BY <1>1, <1>2, <2>2, <3>3, <3>4, <3>6, ProceedSafe DEF IInv
  <2> QED BY <2>1, <2>2 DEF Lookup
<1> QED BY <1>3, Kept DEF IInv, TypeOK, Lookup, settings

\* What is loaded was approved: the plan still has this step.
LEMMA LoadSafe == ASSUME IInv, NEW w \in Workers, Load(w) PROVE IInv'
<1>1. job' \in [Workers -> Jobs] /\ JobsInv'
  BY StepSafe DEF IInv, Load
<1>2. /\ job[w].name \in Names /\ job[w].rec \in Records
      /\ <<job[w].name, job[w].rec.sha>> \in approved
  BY Working DEF IInv, Load, Needy, ApprovedJob, Has
<1>3. modules' \in [Names -> Shas \cup {NoSha}]
  BY <1>2 DEF IInv, TypeOK, Load, Records
<1>4. OnlyApprovedRuns'
  BY <1>2 DEF IInv, TypeOK, OnlyApprovedRuns, Load
<1> QED BY <1>1, <1>3, <1>4, Kept DEF IInv, TypeOK, Load, settings

\* The record that turns Active here is of the sha that was just loaded.
LEMMA MountSafe == ASSUME IInv, NEW w \in Workers, Mount(w) PROVE IInv'
<1> DEFINE r == [job[w].rec EXCEPT !.status = "Active"]
           l == [job[w] EXCEPT !.rec = r]
           cleared == Unregister(router, job[w].name)
<1>1. At(w, "mount") /\ UNCHANGED approved
  BY DEF Mount
<1>2. /\ job[w] \in Jobs /\ job[w].name \in Names /\ ~Idle(w)
      /\ ApprovedManifest(job[w].copy) /\ job[w].rec \in Records
      /\ <<job[w].name, job[w].rec.sha>> \in approved
  BY <1>1, Working DEF IInv, Needy, ApprovedJob, Has
<1>3. job' \in [Workers -> Jobs] /\ JobsInv'
  <2>1. CASE Return(w)
    BY <1>1, <2>1, ReturnSafe DEF IInv
  <2>2. CASE Proceed(w, l)
    <3>1. r \in Records /\ r \in Drafts /\ r.sha = job[w].rec.sha
      BY <1>2 DEF Records, Drafts
    <3>2. ApprovedRecord(job[w].name, r)
      BY <3>1, <1>2 DEF ApprovedRecord
    <3> HIDE DEF r
    <3>3. /\ l \in Jobs /\ l.plan = job[w].plan /\ l.name = job[w].name
          /\ l.rec = r /\ l.copy = job[w].copy
      BY <3>1, <1>2 DEF Jobs
    <3> HIDE DEF l
    <3> QED BY <1>1, <1>2, <2>2, <3>1, <3>2, <3>3, ProceedSafe DEF IInv
  <2>3. [job[w] EXCEPT !.rec = [@ EXCEPT !.status = "Active"]] = l
    OBVIOUS
  <2> HIDE DEF l, r
  <2>4. Return(w) \/ Proceed(w, l)
    BY <2>3 DEF Mount
  <2> QED BY <2>1, <2>2, <2>4
<1>4. router' \in Routers /\ RoutesAgree'
  <2>1. cleared \in Routers /\ Agrees(cleared)
    BY <1>2, UnregisterKeepsAgreement DEF IInv, TypeOK, RoutesAgree
  <2>2. job[w].rec.routes \in Seq(Paths)
    BY <1>2 DEF Records
  <2>3. router' = Register(cleared, job[w].name, job[w].rec.routes)
    BY DEF Mount
  <2> HIDE DEF cleared
  <2>4. router' \in Routers /\ Agrees(router')
    BY <1>2, <2>1, <2>2, <2>3, RegisterKeepsAgreement
  <2> QED BY <2>4 DEF RoutesAgree, Agrees, RoutesIn
<1> QED BY <1>3, <1>4, Kept DEF IInv, TypeOK, Mount, settings

LEMMA InsertSafe == ASSUME IInv, NEW w \in Workers, Insert(w) PROVE IInv'
<1>1. job' \in [Workers -> Jobs] /\ JobsInv'
  BY StepSafe DEF IInv, Insert
<1>2. /\ job[w].name \in Names /\ job[w].rec \in Records
      /\ ApprovedRecord(job[w].name, job[w].rec)
  BY Working DEF IInv, Insert, Needy, ApprovedJob
<1>3. records' \in Manifests
  BY <1>2 DEF IInv, TypeOK, Insert, Manifests
<1>4. ApprovedManifest(records)'
  <2>1. SUFFICES ASSUME NEW n \in Names PROVE ApprovedRecord(n, records[n])'
    BY DEF ApprovedManifest
  <2>2. records'[n] = records[n] \/ (n = job[w].name /\ records'[n] = job[w].rec)
    BY <1>2 DEF IInv, TypeOK, Insert, Manifests
  <2> QED BY <1>2, <2>2 DEF IInv, ApprovedManifest, ApprovedRecord, Insert
<1> QED BY <1>1, <1>3, <1>4, Kept DEF IInv, TypeOK, Insert, settings

LEMMA UnmountSafe == ASSUME IInv, NEW w \in Workers, Unmount(w) PROVE IInv'
<1>1. job' \in [Workers -> Jobs] /\ JobsInv'
  BY StepSafe DEF IInv, Unmount
<1>2. job[w].name \in Names
  BY Working DEF IInv, Unmount
<1>3. router' \in Routers /\ Agrees(router')
  BY <1>2, UnregisterKeepsAgreement DEF IInv, TypeOK, RoutesAgree, Unmount
<1>4. RoutesAgree'
  BY <1>3 DEF RoutesAgree, Agrees, RoutesIn
<1> QED BY <1>1, <1>3, <1>4, Kept DEF IInv, TypeOK, Unmount, settings

LEMMA UnloadSafe == ASSUME IInv, NEW w \in Workers, Unload(w) PROVE IInv'
<1>1. job' \in [Workers -> Jobs] /\ JobsInv'
  BY StepSafe DEF IInv, Unload
<1>2. modules' \in [Names -> Shas \cup {NoSha}]
  BY DEF IInv, TypeOK, Unload
<1>3. OnlyApprovedRuns'
  BY DEF IInv, TypeOK, OnlyApprovedRuns, Unload
<1> QED BY <1>1, <1>2, <1>3, Kept DEF IInv, TypeOK, Unload, settings

\* What is forgotten becomes the worker's record, of another sha perhaps than
\* its own; a plan that forgets loads nothing.
LEMMA ForgetSafe == ASSUME IInv, NEW w \in Workers, Forget(w) PROVE IInv'
<1> DEFINE r == records[job[w].name]
           l == [job[w] EXCEPT !.rec = r]
<1>1. At(w, "forget") /\ UNCHANGED approved
  BY DEF Forget
<1>2. /\ job[w] \in Jobs /\ job[w].name \in Names /\ ~Idle(w)
      /\ ApprovedManifest(job[w].copy) /\ Has(job[w], {"forget"})
  BY <1>1, Working DEF IInv
<1>3. job' \in [Workers -> Jobs] /\ JobsInv'
  <2>1. CASE Return(w)
    BY <1>1, <2>1, ReturnSafe DEF IInv
  <2>2. CASE r # NoRecord /\ Proceed(w, l)
    <3>1. r \in Records
      BY <1>2, <2>2 DEF IInv, TypeOK, Manifests
    <3>2. ApprovedRecord(job[w].name, r)
      BY <1>2 DEF IInv, ApprovedManifest
    <3>3. r \in Drafts
      BY <3>1 DEF Records, Drafts
    <3> HIDE DEF r
    <3>4. /\ l \in Jobs /\ l.plan = job[w].plan /\ l.name = job[w].name
          /\ l.rec = r /\ l.copy = job[w].copy
      BY <3>3, <1>2 DEF Jobs
    <3> HIDE DEF l
    <3>5. Has(l, {"forget"})
      BY <1>2, <3>4 DEF Has
    <3> QED BY <1>1, <1>2, <2>2, <3>1, <3>2, <3>4, <3>5, ProceedSafe DEF IInv
  <2> QED BY <2>1, <2>2 DEF Forget
<1>4. records' \in Manifests
  BY DEF IInv, TypeOK, Forget, Manifests
<1>5. ApprovedManifest(records)'
  BY DEF IInv, TypeOK, Forget, Manifests, ApprovedManifest, ApprovedRecord, NoRecord
<1> QED BY <1>3, <1>4, <1>5, Kept DEF IInv, TypeOK, Forget, settings

LEMMA EraseSafe == ASSUME IInv, NEW w \in Workers, Erase(w) PROVE IInv'
<1>1. job' \in [Workers -> Jobs] /\ JobsInv'
  BY StepSafe DEF IInv, Erase
<1> QED BY <1>1, Kept DEF IInv, TypeOK, Erase, settings

LEMMA SnapshotSafe == ASSUME IInv, NEW w \in Workers, Snapshot(w) PROVE IInv'
<1> DEFINE l == [job[w] EXCEPT !.copy = records]
<1>1. At(w, "snapshot") /\ UNCHANGED approved /\ Proceed(w, l)
  BY DEF Snapshot
<1>2. /\ job[w] \in Jobs /\ job[w].name \in Names /\ ~Idle(w)
      /\ ApprovedRecord(job[w].name, job[w].rec) /\ Head(job[w].plan) = "snapshot"
  BY <1>1, Working DEF IInv, ApprovedJob
<1>3. /\ l \in Jobs /\ l.plan = job[w].plan /\ l.name = job[w].name
      /\ l.rec = job[w].rec /\ l.copy = records
  BY <1>2 DEF Jobs, IInv, TypeOK
<1> HIDE DEF l
<1>4. job' \in [Workers -> Jobs] /\ JobsInv'
  BY <1>1, <1>2, <1>3, ProceedSafe DEF IInv
<1> QED BY <1>4, Kept DEF IInv, TypeOK, Snapshot, settings

LEMMA TruncateSafe == ASSUME IInv, NEW w \in Workers, Truncate(w) PROVE IInv'
<1>1. job' \in [Workers -> Jobs] /\ JobsInv'
  BY StepSafe DEF IInv, Truncate
<1>2. /\ disk' \in [state : {"absent", "empty", "whole", "torn"}, holds : Manifests]
      /\ ApprovedManifest(disk.holds)'
  BY DEF Truncate, EmptyManifest, Manifests, ApprovedManifest, ApprovedRecord, NoRecord
<1> QED BY <1>1, <1>2, Kept DEF IInv, TypeOK, Truncate, settings

\* What is written was copied from the records when it was approved.
LEMMA FlushSafe == ASSUME IInv, NEW w \in Workers, Flush(w) PROVE IInv'
<1> DEFINE l == [job[w] EXCEPT !.copy = EmptyManifest]
<1>1. At(w, "flush") /\ UNCHANGED approved /\ Proceed(w, l)
  BY DEF Flush
<1>2. /\ job[w] \in Jobs /\ job[w].name \in Names /\ ~Idle(w)
      /\ ApprovedRecord(job[w].name, job[w].rec) /\ Head(job[w].plan) = "flush"
      /\ ApprovedManifest(job[w].copy)
  BY <1>1, Working DEF IInv, ApprovedJob
<1>3. EmptyManifest \in Manifests /\ ApprovedManifest(EmptyManifest)
  BY DEF EmptyManifest, Manifests, ApprovedManifest, ApprovedRecord, NoRecord
<1>4. /\ l \in Jobs /\ l.plan = job[w].plan /\ l.name = job[w].name
      /\ l.rec = job[w].rec /\ l.copy = EmptyManifest
  BY <1>2, <1>3 DEF Jobs
<1> HIDE DEF l
<1>5. job' \in [Workers -> Jobs] /\ JobsInv'
  BY <1>1, <1>2, <1>3, <1>4, ProceedSafe DEF IInv
<1>6. disk' \in [state : {"absent", "empty", "whole", "torn"}, holds : Manifests]
  BY <1>2, <1>3 DEF Flush, Jobs
<1>7. ApprovedManifest(disk.holds)'
  <2>1. disk'.holds = job[w].copy \/ disk'.holds = EmptyManifest
    BY DEF Flush
  <2> QED BY <1>1, <1>2, <1>3, <2>1 DEF ApprovedManifest, ApprovedRecord
<1> QED BY <1>5, <1>6, <1>7, Kept DEF IInv, TypeOK, Flush, settings

LEMMA LockdownSafe == ASSUME IInv, Lockdown PROVE IInv'
<1>1. JobsInv'
  BY DEF IInv, Lockdown, JobsInv, JobOK, Prepared, Has, ApprovedJob, ApprovedRecord,
         ApprovedManifest
<1>2. events' \in Nat
  BY DEF IInv, TypeOK, Lockdown, CountEvent
<1> QED BY <1>1, <1>2, Kept DEF IInv, TypeOK, Lockdown, settings

\* What the manifest holds was approved, so a reboot cannot forget to ask.
LEMMA CrashSafe == ASSUME IInv, Crash PROVE IInv'
<1>1. JobsInv' /\ job' \in [Workers -> Jobs]
  <2>1. \A w \in Workers : job'[w] = NoJob
    BY DEF Crash
  <2>2. JobOK(NoJob) /\ ApprovedJob(NoJob)' /\ ApprovedManifest(NoJob.copy)'
    BY NoJobGood DEF Crash, ApprovedJob, ApprovedManifest, ApprovedRecord
  <2> QED BY <2>1, <2>2, NoJobGood DEF Crash, JobsInv, JobOK, Prepared, Has, ApprovedJob,
             ApprovedManifest, ApprovedRecord
<1>2. records' \in Manifests /\ ApprovedManifest(records)'
  <2>1. EmptyManifest \in Manifests /\ ApprovedManifest(EmptyManifest)
    BY DEF EmptyManifest, Manifests, ApprovedManifest, ApprovedRecord, NoRecord
  <2>2. Reopened \in Manifests /\ ApprovedManifest(Reopened)
    BY <2>1 DEF Reopened, IInv, TypeOK
  <2> QED BY <2>2 DEF Crash, ApprovedManifest, ApprovedRecord
<1>3. router' \in Routers /\ RoutesAgree'
  BY NewRouterAgrees DEF Crash, RoutesAgree, Agrees, RoutesIn
<1>4. modules' \in [Names -> Shas \cup {NoSha}] /\ OnlyApprovedRuns'
  BY DEF Crash, OnlyApprovedRuns
<1>5. events' \in Nat /\ boot' \in Seq(Names)
  BY DeployerAssumption DEF IInv, TypeOK, Crash, CountEvent
<1> QED BY <1>1, <1>2, <1>3, <1>4, <1>5, Kept DEF IInv, TypeOK, Crash, settings

\* The boot loads Active records, and those were approved.
LEMMA RestoreSafe == ASSUME IInv, Restore PROVE IInv'
<1> DEFINE n == Head(boot)
<1>1. JobsInv'
  BY DEF IInv, Restore, JobsInv, JobOK, Prepared, Has, ApprovedJob, ApprovedRecord,
         ApprovedManifest
<1>2. n \in Names /\ boot' \in Seq(Names)
  BY HeadTailProperties DEF Restore, IInv, TypeOK
<1>3. records[n] \in Records \cup {NoRecord}
  BY <1>2 DEF IInv, TypeOK, Manifests
<1>4. CASE Restores(n)
  <2>1. records[n] \in Records /\ <<n, records[n].sha>> \in approved
    BY <1>2, <1>3, <1>4 DEF Restores, NoRecord, IInv, ApprovedManifest, ApprovedRecord
  <2>2. /\ modules' = [modules EXCEPT ![n] = records[n].sha]
        /\ router' = Register(router, n, records[n].routes)
    BY <1>4 DEF Restore
  <2> HIDE DEF n
  <2>3. router' \in Routers /\ Agrees(router')
    BY <1>2, <2>1, <2>2, RegisterKeepsAgreement DEF IInv, TypeOK, RoutesAgree, Records
  <2>4. RoutesAgree'
    BY <2>3 DEF RoutesAgree, Agrees, RoutesIn
  <2>5. modules' \in [Names -> Shas \cup {NoSha}] /\ OnlyApprovedRuns'
    BY <1>2, <2>1, <2>2 DEF IInv, TypeOK, OnlyApprovedRuns, Restore, Records
  <2> QED BY <1>1, <1>2, <2>3, <2>4, <2>5, Kept DEF IInv, TypeOK, Restore, settings
<1>5. CASE ~Restores(n)
  <2>1. UNCHANGED <<modules, router>>
    BY <1>5 DEF Restore
  <2> QED BY <1>1, <1>2, <2>1, Kept DEF IInv, TypeOK, Restore, settings
<1> QED BY <1>4, <1>5

\* The plans of the requests: which steps they have, and what they never have.
LEMMA RequestPlans ==
    /\ SavePlan \in Seq(Steps) /\ SavePlan # <<>>
    /\ \A i \in DOMAIN SavePlan : SavePlan[i] \notin Needy \cup {"forget"}
    /\ StagePlan \in Seq(Steps) /\ StagePlan # <<>>
    /\ \A i \in DOMAIN StagePlan : StagePlan[i] # "forget"
    /\ ~autoActivate => \A i \in DOMAIN StagePlan : StagePlan[i] \notin {"load", "mount"}
    /\ ActivatePlan \in Seq(Steps) /\ ActivatePlan # <<>> /\ ActivatePlan[1] = "lookup"
    /\ \A i \in DOMAIN ActivatePlan : ActivatePlan[i] # "forget"
    /\ RemovePlan \in Seq(Steps) /\ RemovePlan # <<>>
    /\ \A i \in DOMAIN RemovePlan : RemovePlan[i] \notin Needy
<1>1. /\ SavePlan \in Seq(Steps) /\ SavePlan # <<>>
      /\ \A i \in DOMAIN SavePlan : SavePlan[i] \notin Needy \cup {"forget"}
  <2>1. \A i \in DOMAIN SavePlan : SavePlan[i] \in Saves
    BY SavePlanSteps, StepIn
  <2> QED BY <2>1, SavePlanSteps, SeqMonotonic, Saves \subseteq Steps DEF Saves, Steps, Needy
<1>2. /\ StagePlan \in Seq(Steps) /\ StagePlan # <<>>
      /\ \A i \in DOMAIN StagePlan : StagePlan[i] # "forget"
      /\ ~autoActivate => \A i \in DOMAIN StagePlan : StagePlan[i] \notin {"load", "mount"}
  <2> DEFINE S == {"check", "write", "load", "mount", "insert"} \cup Saves
             T == {"check", "write", "insert"} \cup Saves
  <2>1. /\ "forget" \notin S /\ S \subseteq Steps /\ "load" \notin T /\ "mount" \notin T
    BY DEF Saves, Steps
  <2>2. StagePlan \in Seq(S) /\ StagePlan # <<>> /\ (~autoActivate => StagePlan \in Seq(T))
    BY StagePlanSteps
  <2> HIDE DEF S, T
  <2>3. \A i \in DOMAIN StagePlan : StagePlan[i] \in S
    BY <2>2, StepIn
  <2>4. ~autoActivate => \A i \in DOMAIN StagePlan : StagePlan[i] \in T
    BY <2>2, StepIn
  <2>5. StagePlan \in Seq(Steps)
    BY <2>1, <2>2, SeqMonotonic
  <2> QED BY <2>1, <2>2, <2>3, <2>4, <2>5
<1>3. /\ ActivatePlan \in Seq(Steps) /\ ActivatePlan # <<>> /\ ActivatePlan[1] = "lookup"
      /\ \A i \in DOMAIN ActivatePlan : ActivatePlan[i] # "forget"
  <2> DEFINE S == {"lookup", "load", "mount", "insert"} \cup Saves
  <2>1. "forget" \notin S /\ S \subseteq Steps
    BY DEF Saves, Steps
  <2>2. ActivatePlan \in Seq(S) /\ ActivatePlan # <<>> /\ ActivatePlan[1] = "lookup"
    BY ActivatePlanSteps
  <2> HIDE DEF S
  <2>3. \A i \in DOMAIN ActivatePlan : ActivatePlan[i] \in S
    BY <2>2, StepIn
  <2> QED BY <2>1, <2>2, <2>3, SeqMonotonic
<1>4. /\ RemovePlan \in Seq(Steps) /\ RemovePlan # <<>>
      /\ \A i \in DOMAIN RemovePlan : RemovePlan[i] \notin Needy
  <2> DEFINE S == {"unmount", "unload", "forget", "erase"} \cup Saves
  <2>1. S \cap Needy = {} /\ S \subseteq Steps
    BY DEF Saves, Steps, Needy
  <2>2. RemovePlan \in Seq(S) /\ RemovePlan # <<>>
    BY RemovePlanSteps
  <2> HIDE DEF S
  <2>3. \A i \in DOMAIN RemovePlan : RemovePlan[i] \in S
    BY <2>2, StepIn
  <2> QED BY <2>1, <2>2, <2>3, SeqMonotonic
<1> QED BY <1>1, <1>2, <1>3, <1>4

\* The steps of two plans, one after the other.
LEMMA StepsOfJoined ==
    ASSUME NEW s \in Seq(Steps), NEW t \in Seq(Steps), NEW T,
           \A i \in DOMAIN s : s[i] \notin T, \A i \in DOMAIN t : t[i] \notin T
    PROVE  \A i \in DOMAIN (s \o t) : (s \o t)[i] \notin T
<1>1. \A u \in Seq(Steps) : (\A i \in DOMAIN u : u[i] \notin T) => u \in Seq(Steps \ T)
  OBVIOUS
<1>2. s \o t \in Seq(Steps \ T)
  BY <1>1, ConcatProperties
<1> QED BY <1>2, StepIn

\* An offer that is staged is a record, and names a build.
LEMMA StagingRecord ==
    ASSUME NEW offer \in Offers
    PROVE  /\ Staging(offer) \in Records /\ Staging(offer) \in Drafts
           /\ Staging(offer).sha = offer.sha /\ offer.sha \in Shas
           /\ Staging(offer).status # "Active"
BY DeployerAssumption DEF Staging, Records, Drafts

LEMMA ApproveGrows ==
    ASSUME TypeOK, NEW n \in Names, NEW sha \in Shas, NEW granted, Approve(n, sha, granted)
    PROVE  /\ approved \subseteq approved' /\ approved' \subseteq Names \X Shas
           /\ granted => <<n, sha>> \in approved'
BY DEF TypeOK, Approve

LEMMA UploadSafe ==
    ASSUME IInv, NEW w \in Workers, NEW n \in Names, NEW offer \in Offers,
           NEW activate \in BOOLEAN, Upload(w, n, offer, activate)
    PROVE  IInv'
<1> DEFINE r == Staging(offer)
<1>1. PICK plan : plan = IF ~guard THEN SavePlan
                         ELSE IF activate THEN StagePlan \o ActivatePlan ELSE StagePlan
  OBVIOUS
<1>2. Begin(w, n, r, plan) /\ Approve(n, offer.sha, autoActivate \/ activate)
  BY <1>1 DEF Upload
<1>3. /\ approved \subseteq approved' /\ approved' \subseteq Names \X Shas
      /\ autoActivate \/ activate => <<n, offer.sha>> \in approved'
  BY <1>2, StagingRecord, ApproveGrows DEF IInv
<1>4. r \in Records /\ r \in Drafts /\ r.sha = offer.sha /\ r.status # "Active"
  BY StagingRecord
<1>5. /\ plan \in Seq(Steps) /\ plan # <<>>
      /\ \A i \in DOMAIN plan : plan[i] # "forget"
      /\ ~(autoActivate \/ activate) => \A i \in DOMAIN plan : plan[i] \notin {"load", "mount"}
  <2>1. CASE ~guard
    BY <1>1, <2>1, RequestPlans DEF Needy
  <2>2. CASE guard /\ activate
    <3>1. \A i \in DOMAIN plan : plan[i] \notin {"forget"}
      BY <1>1, <2>2, RequestPlans, StepsOfJoined
    <3> QED BY <1>1, <2>2, <3>1, RequestPlans, Joined
  <2>3. CASE guard /\ ~activate
    BY <1>1, <2>3, RequestPlans
  <2> QED BY <2>1, <2>2, <2>3
<1> HIDE DEF r
<1> QED BY <1>2, <1>3, <1>4, <1>5, BeginSafe

LEMMA StageRemoteSafe ==
    ASSUME IInv, NEW w \in Workers, NEW n \in Names, NEW offer \in Offers,
           StageRemote(w, n, offer)
    PROVE  IInv'
<1> DEFINE r == Staging(offer)
           fetch == <<"fetch">>
<1>1. PICK plan : plan = IF ~guard THEN SavePlan ELSE fetch \o StagePlan
  OBVIOUS
<1>2. Begin(w, n, r, plan) /\ Approve(n, offer.sha, autoActivate)
  BY <1>1 DEF StageRemote
<1>3. /\ approved \subseteq approved' /\ approved' \subseteq Names \X Shas
      /\ autoActivate => <<n, offer.sha>> \in approved'
  BY <1>2, StagingRecord, ApproveGrows DEF IInv
<1>4. r \in Records /\ r \in Drafts /\ r.sha = offer.sha /\ r.status # "Active"
  BY StagingRecord
<1>5. fetch \in Seq(Steps) /\ fetch # <<>> /\ \A i \in DOMAIN fetch : fetch[i] = "fetch"
  BY DEF Steps
<1> HIDE DEF r, fetch
<1>6. /\ plan \in Seq(Steps) /\ plan # <<>>
      /\ \A i \in DOMAIN plan : plan[i] # "forget"
      /\ ~autoActivate => \A i \in DOMAIN plan : plan[i] \notin {"load", "mount"}
  <2>1. CASE ~guard
    BY <1>1, <2>1, RequestPlans DEF Needy
  <2>2. CASE guard
    <3>1. \A i \in DOMAIN plan : plan[i] \notin {"forget"}
      BY <1>1, <1>5, <2>2, RequestPlans, StepsOfJoined
    <3>2. ~autoActivate => \A i \in DOMAIN plan : plan[i] \notin {"load", "mount"}
      BY <1>1, <1>5, <2>2, RequestPlans, StepsOfJoined
    <3> QED BY <1>1, <1>5, <2>2, <3>1, <3>2, RequestPlans, Joined
  <2> QED BY <2>1, <2>2
<1> QED BY <1>2, <1>3, <1>4, <1>6, BeginSafe

LEMMA BeginActivateSafe ==
    ASSUME IInv, NEW w \in Workers, NEW n \in Names, NEW sha \in Shas,
           BeginActivate(w, n, sha)
    PROVE  IInv'
<1> DEFINE r == [sha |-> sha, routes |-> <<>>, status |-> "Absent"]
<1>1. Begin(w, n, r, ActivatePlan) /\ Approve(n, sha, TRUE)
  BY DEF BeginActivate
<1>2. /\ approved \subseteq approved' /\ approved' \subseteq Names \X Shas
      /\ <<n, sha>> \in approved'
  BY <1>1, ApproveGrows DEF IInv
<1>3. r \in Drafts /\ r.sha = sha /\ r.status # "Active"
  BY DEF Drafts
<1> HIDE DEF r
<1> QED BY <1>1, <1>2, <1>3, RequestPlans, BeginSafe

LEMMA BeginRemoveSafe ==
    ASSUME IInv, NEW w \in Workers, NEW n \in Names, BeginRemove(w, n)
    PROVE  IInv'
<1>1. NoRecord \in Drafts /\ NoRecord.status # "Active"
  BY DEF NoRecord, Drafts
<1>2. /\ approved \subseteq approved' /\ approved' \subseteq Names \X Shas
  BY DEF BeginRemove, IInv, TypeOK
<1>3. \A i \in DOMAIN RemovePlan : RemovePlan[i] \notin {"load", "mount"}
  BY RequestPlans DEF Needy
<1> QED BY <1>1, <1>2, <1>3, RequestPlans, BeginSafe DEF BeginRemove

-----------------------------------------------------------------------------
(* The theorems *)

\* Init and every step of Next, or a stutter, keep the invariant.
THEOREM Invariance == Spec => []IInv
<1>1. Init => IInv
  BY InitInv
<1>2. IInv /\ [Next]_vars => IInv'
  <2> SUFFICES ASSUME IInv, [Next]_vars PROVE IInv'
    OBVIOUS
  <2>1. ASSUME NEW w \in Workers, Request(w) PROVE IInv'
    <3>1. PICK n \in Names :
              \/ \E offer \in Offers : \/ \E a \in BOOLEAN : Upload(w, n, offer, a)
                                       \/ StageRemote(w, n, offer)
              \/ \E sha \in Shas : BeginActivate(w, n, sha)
              \/ BeginRemove(w, n)
      BY <2>1 DEF Request
    <3> QED BY <3>1, UploadSafe, StageRemoteSafe, BeginActivateSafe, BeginRemoveSafe
  <2>2. ASSUME NEW w \in Workers, Step(w) PROVE IInv'
    BY <2>2, FetchSafe, CheckSafe, OpenFileSafe, WriteFileSafe, FailToWriteSafe,
       LookupSafe, LoadSafe, MountSafe,
       InsertSafe, UnmountSafe, UnloadSafe, ForgetSafe, EraseSafe, SnapshotSafe,
       TruncateSafe, FlushSafe DEF Step
  <2>3. CASE UNCHANGED vars
    <3>1. JobsInv'
      BY <2>3 DEF vars, IInv, JobsInv, JobOK, Prepared, Has, ApprovedJob, ApprovedRecord,
                  ApprovedManifest
    <3> QED BY <2>3, <3>1, Kept DEF vars, IInv, TypeOK, settings
  <2> QED BY <2>1, <2>2, <2>3, LockdownSafe, CrashSafe, RestoreSafe DEF Next
<1> QED BY <1>1, <1>2, PTL DEF Spec

\* Records, manifests, routers and jobs keep their types: no operation stores
\* the absence of a record, or writes a file of a build it does not have.
THEOREM TypeCorrect == Spec => []TypeOK
<1>1. IInv => TypeOK
  BY DEF IInv
<1> QED BY <1>1, Invariance, PTL

\* Whatever operations overlap, collide halfway, or are cut off by a crash, a
\* cell that the router lists gets every request for its routes.
THEOREM ListingMatchesDispatch == Spec => []RoutesAgree
<1>1. IInv => RoutesAgree
  BY DEF IInv
<1> QED BY <1>1, Invariance, PTL

\* Two-phase activation: only a build that somebody asked to activate under a
\* name is ever loaded there, also after a crash, and with any overlap.
THEOREM OnlyApprovedBuildsRun == Spec => []OnlyApprovedRuns
<1>1. IInv => OnlyApprovedRuns
  BY DEF IInv
<1> QED BY <1>1, Invariance, PTL

-----------------------------------------------------------------------------
(* Plans.  An operation's remaining steps, as properties of a sequence that   *)
(* hold of every plan and of what is left of it after each step.             *)

\* Which step may follow which in a plan: what mod.rs runs after each call.
Follows ==
    {<<"fetch", "check">>, <<"check", "write">>, <<"write", "load">>,
     <<"write", "snapshot">>, <<"lookup", "load">>, <<"load", "mount">>,
     <<"mount", "snapshot">>, <<"mount", "insert">>, <<"insert", "snapshot">>,
     <<"unmount", "unload">>, <<"unload", "forget">>, <<"forget", "snapshot">>,
     <<"erase", "snapshot">>, <<"snapshot", "truncate">>, <<"truncate", "flush">>,
     <<"flush", "snapshot">>, <<"flush", "insert">>, <<"flush", "erase">>,
     <<"flush", "lookup">>}

\* The step is still to be taken.
OnPlan(s, pl) == \E i \in 1 .. Len(pl) : pl[i] = s

\* A plan is a path through Follows that ends where its last save ends.
Linked(pl) ==
    \A i \in 1 .. Len(pl) : IF i = Len(pl) THEN pl[i] = "flush"
                                           ELSE <<pl[i], pl[i + 1]>> \in Follows

\* Nothing but saves is left before the record goes into the map.
Inserting(pl) ==
    \E k \in 1 .. Len(pl) : pl[k] = "insert" /\ \A i \in 1 .. (k - 1) : pl[i] \in Saves

\* A cell is mounted only for the record that is inserted after it.
Mounting(pl) ==
    \A i \in 1 .. Len(pl) : pl[i] = "mount" =>
        \E k \in 1 .. Len(pl) :
            i < k /\ pl[k] = "insert" /\ \A m \in (i + 1) .. (k - 1) : pl[m] \in Saves

\* No plan both inserts a record and erases or forgets one.
OneKind(pl) == ~(OnPlan("insert", pl) /\ (OnPlan("erase", pl) \/ OnPlan("forget", pl)))

PlanOK(pl) == Linked(pl) /\ Mounting(pl) /\ OneKind(pl)

\* The steps of one plan put before another, by position.
LEMMA PlanElements ==
    ASSUME NEW s \in Seq(Steps), NEW t \in Seq(Steps)
    PROVE  /\ s \o t \in Seq(Steps) /\ Len(s \o t) = Len(s) + Len(t)
           /\ \A i \in 1 .. Len(s) : (s \o t)[i] = s[i]
           /\ \A i \in 1 .. Len(t) : (s \o t)[Len(s) + i] = t[i]
<1>1. /\ s \o t \in Seq(Steps) /\ Len(s \o t) = Len(s) + Len(t)
      /\ \A i \in 1 .. Len(s) + Len(t) : (s \o t)[i] =
                     IF i <= Len(s) THEN s[i] ELSE t[i - Len(s)]
  BY ConcatProperties
<1>2. Len(s) \in Nat /\ Len(t) \in Nat
  BY LenProperties
<1> DEFINE m == Len(s) n == Len(t) c == s \o t
<1>3. /\ m \in Nat /\ n \in Nat /\ \A i \in 1 .. m + n : c[i] = IF i <= m THEN s[i] ELSE t[i - m]
  BY <1>1, <1>2
<1> HIDE DEF m, n, c
<1>4. \A i \in 1..m : c[i] = s[i]
  BY <1>3
<1>5. \A i \in 1..n : c[m + i] = t[i]
  <2> SUFFICES ASSUME NEW i \in 1..n PROVE c[m + i] = t[i]
    OBVIOUS
  <2>1. m + i \in 1 .. m + n /\ ~(m + i <= m) /\ (m + i) - m = i
    BY <1>3
  <2> QED BY <2>1, <1>3
<1> QED BY <1>1, <1>4, <1>5 DEF m, n, c

\* What save_to_disk does.
LEMMA SavePlanOK == PlanOK(SavePlan) /\ Head(SavePlan) = "snapshot"
BY DEF SavePlan, PlanOK, Linked, Mounting, OneKind, OnPlan, Follows, Saves

\* One good plan after another.
LEMMA JoinedOK ==
    ASSUME NEW s \in Seq(Steps), NEW t \in Seq(Steps), s # <<>>, t # <<>>,
           PlanOK(s), PlanOK(t), <<"flush", Head(t)>> \in Follows, OneKind(s \o t)
    PROVE  PlanOK(s \o t)
<1> DEFINE m == Len(s) n == Len(t) c == s \o t
<1>1. /\ m \in Nat \ {0} /\ n \in Nat \ {0} /\ c \in Seq(Steps) /\ Len(c) = m + n
      /\ \A i \in 1 .. m : c[i] = s[i]
      /\ \A i \in 1 .. n : c[m + i] = t[i]
      /\ Head(t) = t[1]
  BY PlanElements, EmptySeq, LenProperties
<1>2. Linked(s) /\ Linked(t) /\ Mounting(s) /\ Mounting(t) /\ OneKind(c)
  BY DEF PlanOK
<1>3. /\ \A i \in 1 .. m : IF i = m THEN s[i] = "flush" ELSE <<s[i], s[i + 1]>> \in Follows
      /\ \A i \in 1 .. n : IF i = n THEN t[i] = "flush" ELSE <<t[i], t[i + 1]>> \in Follows
  BY <1>2 DEF Linked
<1>4. /\ \A i \in 1 .. m : s[i] = "mount" =>
           \E k \in 1 .. m : /\ i < k
                             /\ s[k] = "insert"
                             /\ \A x \in (i + 1) .. (k - 1) : s[x] \in Saves
      /\ \A i \in 1 .. n : t[i] = "mount" =>
           \E k \in 1 .. n : /\ i < k
                             /\ t[k] = "insert"
                             /\ \A x \in (i + 1) .. (k - 1) : t[x] \in Saves
  BY <1>2 DEF Mounting
<1> HIDE DEF m, n, c
<1>5. \A i \in 1 .. m + n : i \in 1 .. m \/ \E x \in 1 .. n : i = m + x
  <2> SUFFICES ASSUME NEW i \in 1 .. m + n, i \notin 1 .. m PROVE \E x \in 1 .. n : i = m + x
    OBVIOUS
  <2>1. i - m \in 1 .. n /\ i = m + (i - m)
    BY <1>1
  <2> QED BY <2>1
<1>6. Linked(c)
  <2> SUFFICES ASSUME NEW i \in 1 .. m + n
               PROVE IF i = m + n THEN c[i] = "flush" ELSE <<c[i], c[i + 1]>> \in Follows
    BY <1>1 DEF Linked
  <2>1. CASE i \in 1 .. m /\ i # m
    <3>1. i + 1 \in 1 .. m /\ i # m + n
      BY <2>1, <1>1
    <3>2. c[i] = s[i] /\ c[i + 1] = s[i + 1] /\ <<s[i], s[i + 1]>> \in Follows
      BY <2>1, <3>1, <1>1, <1>3
    <3> QED BY <3>1, <3>2
  <2>2. CASE i = m
    <3>1. m \in 1 .. m /\ 1 \in 1 .. n /\ i # m + n
      BY <2>2, <1>1
    <3>2. c[i] = "flush" /\ c[i + 1] = Head(t)
      BY <3>1, <2>2, <1>1, <1>3
    <3> QED BY <3>1, <3>2
  <2>3. CASE \E x \in 1 .. n : i = m + x
    <3>1. PICK x \in 1 .. n : i = m + x
      BY <2>3
    <3>2. CASE x = n
      BY <3>1, <3>2, <1>1, <1>3
    <3>3. CASE x # n
      <4>1. x + 1 \in 1 .. n /\ i + 1 = m + (x + 1) /\ i # m + n
        BY <3>1, <3>3, <1>1
      <4> QED BY <4>1, <3>1, <3>3, <1>1, <1>3
    <3> QED BY <3>2, <3>3
  <2> QED BY <2>1, <2>2, <2>3, <1>5
<1>7. Mounting(c)
  <2> SUFFICES ASSUME NEW i \in 1 .. m + n, c[i] = "mount"
               PROVE \E k \in 1 .. m + n :
                 i < k /\ c[k] = "insert" /\ \A x \in (i + 1) .. (k - 1) : c[x] \in Saves
    BY <1>1 DEF Mounting
  <2>1. CASE i \in 1 .. m
    <3>1. PICK k \in 1 .. m : /\ i < k
                              /\ s[k] = "insert"
                              /\ \A x \in (i + 1) .. (k - 1) : s[x] \in Saves
      BY <2>1, <1>1, <1>4
    <3>2. \A x \in (i + 1) .. (k - 1) : x \in 1 .. m
      BY <2>1, <1>1
    <3>3. k \in 1 .. m + n /\ c[k] = "insert"
      BY <3>1, <1>1
    <3>4. \A x \in (i + 1) .. (k - 1) : c[x] \in Saves
      BY <3>1, <3>2, <1>1
    <3> QED BY <3>1, <3>3, <3>4
  <2>2. CASE \E x \in 1 .. n : i = m + x
    <3>1. PICK y \in 1 .. n : i = m + y
      BY <2>2
    <3>2. PICK k \in 1 .. n : /\ y < k
                              /\ t[k] = "insert"
                              /\ \A x \in (y + 1) .. (k - 1) : t[x] \in Saves
      BY <3>1, <1>1, <1>4
    <3>3. ASSUME NEW x \in (i + 1) .. ((m + k) - 1) PROVE c[x] \in Saves
      <4>1. x - m \in (y + 1) .. (k - 1) /\ x - m \in 1 .. n /\ x = m + (x - m)
        BY <3>1, <1>1
      <4> QED BY <4>1, <3>2, <1>1
    <3>4. m + k \in 1 .. m + n /\ i < m + k /\ c[m + k] = "insert"
      BY <3>1, <3>2, <1>1
    <3> QED BY <3>3, <3>4
  <2> QED BY <2>1, <2>2, <1>5
<1> QED BY <1>2, <1>6, <1>7 DEF PlanOK, c

\* A plan with one step put before it.
LEMMA PrefixedOK ==
    ASSUME NEW h \in Steps, NEW t \in Seq(Steps), t # <<>>, PlanOK(t), h # "mount",
           <<h, Head(t)>> \in Follows, OneKind(<<h>> \o t)
    PROVE  PlanOK(<<h>> \o t)
<1> DEFINE n == Len(t) c == <<h>> \o t
<1>1. /\ n \in Nat \ {0} /\ c \in Seq(Steps) /\ Len(c) = 1 + n
      /\ c[1] = h /\ \A i \in 1 .. n : c[1 + i] = t[i]
      /\ Head(t) = t[1]
  <2>1. <<h>> \in Seq(Steps) /\ Len(<<h>>) = 1 /\ <<h>>[1] = h /\ 1 \in 1 .. 1
    OBVIOUS
  <2>2. /\ <<h>> \o t \in Seq(Steps) /\ Len(<<h>> \o t) = Len(<<h>>) + Len(t)
        /\ \A i \in 1 .. Len(<<h>>) : (<<h>> \o t)[i] = <<h>>[i]
        /\ \A i \in 1 .. Len(t) : (<<h>> \o t)[Len(<<h>>) + i] = t[i]
    BY <2>1, PlanElements
  <2>3. n \in Nat \ {0} /\ Head(t) = t[1]
    BY EmptySeq, LenProperties
  <2> QED BY <2>1, <2>2, <2>3
<1>2. Linked(t) /\ Mounting(t) /\ OneKind(c)
  BY DEF PlanOK
<1>3. \A i \in 1 .. n : IF i = n THEN t[i] = "flush" ELSE <<t[i], t[i + 1]>> \in Follows
  BY <1>2 DEF Linked
<1>4. \A i \in 1 .. n : t[i] = "mount" =>
           \E k \in 1 .. n : /\ i < k
                             /\ t[k] = "insert"
                             /\ \A x \in (i + 1) .. (k - 1) : t[x] \in Saves
  BY <1>2 DEF Mounting
<1> HIDE DEF n, c
<1>5. \A i \in 1 .. 1 + n : i = 1 \/ (i - 1 \in 1 .. n /\ i = 1 + (i - 1))
  BY <1>1
<1>6. Linked(c)
  <2> SUFFICES ASSUME NEW i \in 1 .. 1 + n
               PROVE IF i = 1 + n THEN c[i] = "flush" ELSE <<c[i], c[i + 1]>> \in Follows
    BY <1>1 DEF Linked
  <2>1. CASE i = 1
    <3>1. 1 \in 1 .. n /\ i # 1 + n /\ c[1 + 1] = t[1]
      BY <2>1, <1>1
    <3> QED BY <3>1, <2>1, <1>1
  <2>2. CASE i # 1
    <3> DEFINE x == i - 1
    <3>1. x \in 1 .. n /\ i = 1 + x
      BY <2>2, <1>5
    <3> HIDE DEF x
    <3>2. CASE x = n
      BY <3>1, <3>2, <1>1, <1>3
    <3>3. CASE x # n
      <4>1. x + 1 \in 1 .. n /\ i + 1 = 1 + (x + 1) /\ i # 1 + n
        BY <3>1, <3>3, <1>1
      <4> QED BY <4>1, <3>1, <3>3, <1>1, <1>3
    <3> QED BY <3>2, <3>3
  <2> QED BY <2>1, <2>2
<1>7. Mounting(c)
  <2> SUFFICES ASSUME NEW i \in 1 .. 1 + n, c[i] = "mount"
               PROVE \E k \in 1 .. 1 + n :
                 i < k /\ c[k] = "insert" /\ \A x \in (i + 1) .. (k - 1) : c[x] \in Saves
    BY <1>1 DEF Mounting
  <2> DEFINE y == i - 1
  <2>1. y \in 1 .. n /\ i = 1 + y
    BY <1>1, <1>5
  <2> HIDE DEF y
  <2>2. PICK k \in 1 .. n : /\ y < k
                            /\ t[k] = "insert"
                            /\ \A x \in (y + 1) .. (k - 1) : t[x] \in Saves
    BY <2>1, <1>1, <1>4
  <2>3. ASSUME NEW x \in (i + 1) .. ((1 + k) - 1) PROVE c[x] \in Saves
    <3>1. x - 1 \in (y + 1) .. (k - 1) /\ x - 1 \in 1 .. n /\ x = 1 + (x - 1)
      BY <2>1, <1>1
    <3> QED BY <3>1, <2>2, <1>1
  <2>4. 1 + k \in 1 .. 1 + n /\ i < 1 + k /\ c[1 + k] = "insert"
    BY <2>1, <2>2, <1>1
  <2> QED BY <2>3, <2>4
<1> QED BY <1>2, <1>6, <1>7 DEF PlanOK, c

\* The same, by position.
LEMMA PlanPositions ==
    ASSUME NEW s \in Seq(Steps), NEW t \in Seq(Steps)
    PROVE  /\ s \o t \in Seq(Steps) /\ Len(s \o t) = Len(s) + Len(t)
           /\ \A i \in 1 .. Len(s) + Len(t) :
                  (s \o t)[i] = IF i <= Len(s) THEN s[i] ELSE t[i - Len(s)]
BY ConcatProperties

LEMMA RemovePlanOK ==
    PlanOK(RemovePlan) /\ Head(RemovePlan) = "unmount" /\ OnPlan("forget", RemovePlan)
<1> DEFINE a == <<"unmount", "unload", "forget">>
           b == <<"snapshot", "truncate", "flush">>
           d == <<"erase">>
           ab == a \o b
           abd == ab \o d
           abdb == abd \o b
<1>1. /\ a \in Seq(Steps) /\ Len(a) = 3 /\ a[1] = "unmount" /\ a[2] = "unload" /\ a[3] = "forget"
      /\ b \in Seq(Steps) /\ Len(b) = 3 /\ b[1] = "snapshot" /\ b[2] = "truncate" /\ b[3] = "flush"
      /\ d \in Seq(Steps) /\ Len(d) = 1 /\ d[1] = "erase"
  BY DEF Steps
<1>2. RemovePlan = abdb
  BY DEF RemovePlan, SavePlan
<1> HIDE DEF a, b, d
<1>3. /\ ab \in Seq(Steps) /\ Len(ab) = 3 + 3
      /\ \A i \in 1 .. 3 + 3 : ab[i] = IF i <= 3 THEN a[i] ELSE b[i - 3]
  <2>1. /\ ab \in Seq(Steps) /\ Len(ab) = Len(a) + Len(b)
        /\ \A i \in 1 .. Len(a) + Len(b) :
               ab[i] = IF i <= Len(a) THEN a[i] ELSE b[i - Len(a)]
    BY <1>1, PlanPositions
  <2>2. Len(a) = 3 /\ Len(b) = 3
    BY <1>1
  <2> HIDE DEF ab
  <2> QED BY <2>1, <2>2
<1> HIDE DEF ab
<1>4. /\ abd \in Seq(Steps) /\ Len(abd) = 6 + 1
      /\ \A i \in 1 .. 6 + 1 : abd[i] = IF i <= 6 THEN ab[i] ELSE d[i - 6]
  <2>1. /\ abd \in Seq(Steps) /\ Len(abd) = Len(ab) + Len(d)
        /\ \A i \in 1 .. Len(ab) + Len(d) :
               abd[i] = IF i <= Len(ab) THEN ab[i] ELSE d[i - Len(ab)]
    BY <1>1, <1>3, PlanPositions
  <2>2. Len(ab) = 6 /\ Len(d) = 1
    BY <1>1, <1>3
  <2> HIDE DEF abd
  <2> QED BY <2>1, <2>2
<1> HIDE DEF abd
<1>5. /\ abdb \in Seq(Steps) /\ Len(abdb) = 7 + 3
      /\ \A i \in 1 .. 7 + 3 : abdb[i] = IF i <= 7 THEN abd[i] ELSE b[i - 7]
  <2>1. /\ abdb \in Seq(Steps) /\ Len(abdb) = Len(abd) + Len(b)
        /\ \A i \in 1 .. Len(abd) + Len(b) :
               abdb[i] = IF i <= Len(abd) THEN abd[i] ELSE b[i - Len(abd)]
    BY <1>1, <1>3, <1>4, PlanPositions
  <2>2. Len(abd) = 7 /\ Len(b) = 3
    BY <1>1, <1>4
  <2> HIDE DEF abdb
  <2> QED BY <2>1, <2>2
<1> HIDE DEF abdb
<1>6. /\ abdb[1] = "unmount" /\ abdb[2] = "unload" /\ abdb[3] = "forget"
  BY <1>1, <1>3, <1>4, <1>5
<1>7. /\ abdb[4] = "snapshot" /\ abdb[5] = "truncate" /\ abdb[6] = "flush"
  BY <1>1, <1>3, <1>4, <1>5
<1>8. /\ abdb[7] = "erase" /\ abdb[8] = "snapshot" /\ abdb[9] = "truncate" /\ abdb[10] = "flush"
  BY <1>1, <1>3, <1>4, <1>5
<1>9. PlanOK(abdb)
  <2>1. Linked(abdb)
    BY <1>5, <1>6, <1>7, <1>8 DEF Linked, Follows
  <2>2. \A i \in 1 .. 10 : abdb[i] \notin {"mount", "insert"}
    BY <1>6, <1>7, <1>8
  <2> QED BY <2>1, <2>2, <1>5 DEF PlanOK, Mounting, OneKind, OnPlan
<1>10. OnPlan("forget", abdb)
  BY <1>5, <1>6 DEF OnPlan
<1> QED BY <1>2, <1>5, <1>6, <1>9, <1>10

LEMMA ActivatePlanOK == PlanOK(ActivatePlan) /\ Head(ActivatePlan) = "lookup"
<1> DEFINE a == <<"lookup">>
           b == <<"load", "mount">>
           c == <<"insert">>
           d == <<"snapshot", "truncate", "flush">>
           ab == a \o b
           abc == ab \o c
           abcd == abc \o d
           abcdd == abcd \o d
<1>1. /\ a \in Seq(Steps) /\ Len(a) = 1 /\ a[1] = "lookup"
      /\ b \in Seq(Steps) /\ Len(b) = 2 /\ b[1] = "load" /\ b[2] = "mount"
      /\ c \in Seq(Steps) /\ Len(c) = 1 /\ c[1] = "insert"
      /\ d \in Seq(Steps) /\ Len(d) = 3 /\ d[1] = "snapshot" /\ d[2] = "truncate" /\ d[3] = "flush"
  BY DEF Steps
<1>2. ActivatePlan = abcdd
  BY DEF ActivatePlan, HotActivatePlan, SavePlan
<1> HIDE DEF a, b, c, d
<1>3. /\ ab \in Seq(Steps) /\ Len(ab) = 1 + 2
      /\ \A i \in 1 .. 1 + 2 : ab[i] = IF i <= 1 THEN a[i] ELSE b[i - 1]
  <2>1. /\ ab \in Seq(Steps) /\ Len(ab) = Len(a) + Len(b)
        /\ \A i \in 1 .. Len(a) + Len(b) :
               ab[i] = IF i <= Len(a) THEN a[i] ELSE b[i - Len(a)]
    BY <1>1, PlanPositions
  <2>2. Len(a) = 1 /\ Len(b) = 2
    BY <1>1
  <2> HIDE DEF ab
  <2> QED BY <2>1, <2>2
<1> HIDE DEF ab
<1>4. /\ abc \in Seq(Steps) /\ Len(abc) = 3 + 1
      /\ \A i \in 1 .. 3 + 1 : abc[i] = IF i <= 3 THEN ab[i] ELSE c[i - 3]
  <2>1. /\ abc \in Seq(Steps) /\ Len(abc) = Len(ab) + Len(c)
        /\ \A i \in 1 .. Len(ab) + Len(c) :
               abc[i] = IF i <= Len(ab) THEN ab[i] ELSE c[i - Len(ab)]
    BY <1>1, <1>3, PlanPositions
  <2>2. Len(ab) = 3 /\ Len(c) = 1
    BY <1>1, <1>3
  <2> HIDE DEF abc
  <2> QED BY <2>1, <2>2
<1> HIDE DEF abc
<1>5. /\ abcd \in Seq(Steps) /\ Len(abcd) = 4 + 3
      /\ \A i \in 1 .. 4 + 3 : abcd[i] = IF i <= 4 THEN abc[i] ELSE d[i - 4]
  <2>1. /\ abcd \in Seq(Steps) /\ Len(abcd) = Len(abc) + Len(d)
        /\ \A i \in 1 .. Len(abc) + Len(d) :
               abcd[i] = IF i <= Len(abc) THEN abc[i] ELSE d[i - Len(abc)]
    BY <1>1, <1>4, PlanPositions
  <2>2. Len(abc) = 4 /\ Len(d) = 3
    BY <1>1, <1>4
  <2> HIDE DEF abcd
  <2> QED BY <2>1, <2>2
<1> HIDE DEF abcd
<1>6. /\ abcdd \in Seq(Steps) /\ Len(abcdd) = 7 + 3
      /\ \A i \in 1 .. 7 + 3 : abcdd[i] = IF i <= 7 THEN abcd[i] ELSE d[i - 7]
  <2>1. /\ abcdd \in Seq(Steps) /\ Len(abcdd) = Len(abcd) + Len(d)
        /\ \A i \in 1 .. Len(abcd) + Len(d) :
               abcdd[i] = IF i <= Len(abcd) THEN abcd[i] ELSE d[i - Len(abcd)]
    BY <1>1, <1>5, PlanPositions
  <2>2. Len(abcd) = 7 /\ Len(d) = 3
    BY <1>1, <1>5
  <2> HIDE DEF abcdd
  <2> QED BY <2>1, <2>2
<1> HIDE DEF abcdd
<1>7. abcdd[1] = "lookup" /\ abcdd[2] = "load" /\ abcdd[3] = "mount" /\ abcdd[4] = "insert"
  BY <1>1, <1>3, <1>4, <1>5, <1>6
<1>8. abcdd[5] = "snapshot" /\ abcdd[6] = "truncate" /\ abcdd[7] = "flush" /\ abcdd[8] = "snapshot"
  BY <1>1, <1>3, <1>4, <1>5, <1>6
<1>9. abcdd[9] = "truncate" /\ abcdd[10] = "flush"
  BY <1>1, <1>3, <1>4, <1>5, <1>6
<1>10. Linked(abcdd)
  BY <1>6, <1>7, <1>8, <1>9 DEF Linked, Follows
<1>11. OneKind(abcdd)
  <2>1. \A i \in 1 .. 10 : abcdd[i] \notin {"erase", "forget"}
    BY <1>7, <1>8, <1>9
  <2> QED BY <2>1, <1>6 DEF OneKind, OnPlan
<1>12. Mounting(abcdd)
  <2>1. \A i \in 1 .. 10 : abcdd[i] = "mount" => i = 3
    BY <1>7, <1>8, <1>9
  <2>2. 4 \in 1 .. 10 /\ 3 < 4 /\ \A i \in 4 .. 4 - 1 : abcdd[i] \in Saves
    BY <1>7, <1>8, <1>9 DEF Saves
  <2> QED BY <2>1, <2>2, <1>6, <1>7, <1>8, <1>9 DEF Mounting
<1> QED BY <1>2, <1>6, <1>7, <1>8, <1>9, <1>10, <1>11, <1>12 DEF PlanOK

LEMMA StagePlanHotOK ==
    ASSUME autoActivate
    PROVE  PlanOK(StagePlan) /\ Head(StagePlan) = "check"
<1> DEFINE a == <<"check", "write">>
           b == <<"load", "mount">>
           d == <<"snapshot", "truncate", "flush">>
           c == <<"insert">>
           ab == a \o b
           abd == ab \o d
           abdc == abd \o c
           abdcd == abdc \o d
<1>1. /\ a \in Seq(Steps) /\ Len(a) = 2 /\ a[1] = "check" /\ a[2] = "write"
      /\ b \in Seq(Steps) /\ Len(b) = 2 /\ b[1] = "load" /\ b[2] = "mount"
      /\ d \in Seq(Steps) /\ Len(d) = 3 /\ d[1] = "snapshot" /\ d[2] = "truncate" /\ d[3] = "flush"
      /\ c \in Seq(Steps) /\ Len(c) = 1 /\ c[1] = "insert"
  BY DEF Steps
<1>2. StagePlan = abdcd
  BY DEF StagePlan, HotActivatePlan, SavePlan
<1> HIDE DEF a, b, d, c
<1>3. /\ ab \in Seq(Steps) /\ Len(ab) = 2 + 2
      /\ \A i \in 1 .. 2 + 2 : ab[i] = IF i <= 2 THEN a[i] ELSE b[i - 2]
  <2>1. /\ ab \in Seq(Steps) /\ Len(ab) = Len(a) + Len(b)
        /\ \A i \in 1 .. Len(a) + Len(b) :
               ab[i] = IF i <= Len(a) THEN a[i] ELSE b[i - Len(a)]
    BY <1>1, PlanPositions
  <2>2. Len(a) = 2 /\ Len(b) = 2
    BY <1>1
  <2> HIDE DEF ab
  <2> QED BY <2>1, <2>2
<1> HIDE DEF ab
<1>4. /\ abd \in Seq(Steps) /\ Len(abd) = 4 + 3
      /\ \A i \in 1 .. 4 + 3 : abd[i] = IF i <= 4 THEN ab[i] ELSE d[i - 4]
  <2>1. /\ abd \in Seq(Steps) /\ Len(abd) = Len(ab) + Len(d)
        /\ \A i \in 1 .. Len(ab) + Len(d) :
               abd[i] = IF i <= Len(ab) THEN ab[i] ELSE d[i - Len(ab)]
    BY <1>1, <1>3, PlanPositions
  <2>2. Len(ab) = 4 /\ Len(d) = 3
    BY <1>1, <1>3
  <2> HIDE DEF abd
  <2> QED BY <2>1, <2>2
<1> HIDE DEF abd
<1>5. /\ abdc \in Seq(Steps) /\ Len(abdc) = 7 + 1
      /\ \A i \in 1 .. 7 + 1 : abdc[i] = IF i <= 7 THEN abd[i] ELSE c[i - 7]
  <2>1. /\ abdc \in Seq(Steps) /\ Len(abdc) = Len(abd) + Len(c)
        /\ \A i \in 1 .. Len(abd) + Len(c) :
               abdc[i] = IF i <= Len(abd) THEN abd[i] ELSE c[i - Len(abd)]
    BY <1>1, <1>4, PlanPositions
  <2>2. Len(abd) = 7 /\ Len(c) = 1
    BY <1>1, <1>4
  <2> HIDE DEF abdc
  <2> QED BY <2>1, <2>2
<1> HIDE DEF abdc
<1>6. /\ abdcd \in Seq(Steps) /\ Len(abdcd) = 8 + 3
      /\ \A i \in 1 .. 8 + 3 : abdcd[i] = IF i <= 8 THEN abdc[i] ELSE d[i - 8]
  <2>1. /\ abdcd \in Seq(Steps) /\ Len(abdcd) = Len(abdc) + Len(d)
        /\ \A i \in 1 .. Len(abdc) + Len(d) :
               abdcd[i] = IF i <= Len(abdc) THEN abdc[i] ELSE d[i - Len(abdc)]
    BY <1>1, <1>5, PlanPositions
  <2>2. Len(abdc) = 8 /\ Len(d) = 3
    BY <1>1, <1>5
  <2> HIDE DEF abdcd
  <2> QED BY <2>1, <2>2
<1> HIDE DEF abdcd
<1>7. abdcd[1] = "check" /\ abdcd[2] = "write" /\ abdcd[3] = "load" /\ abdcd[4] = "mount"
  BY <1>1, <1>3, <1>4, <1>5, <1>6
<1>8. abdcd[5] = "snapshot" /\ abdcd[6] = "truncate" /\ abdcd[7] = "flush" /\ abdcd[8] = "insert"
  BY <1>1, <1>3, <1>4, <1>5, <1>6
<1>9. abdcd[9] = "snapshot" /\ abdcd[10] = "truncate" /\ abdcd[11] = "flush"
  BY <1>1, <1>3, <1>4, <1>5, <1>6
<1>10. Linked(abdcd)
  BY <1>6, <1>7, <1>8, <1>9 DEF Linked, Follows
<1>11. OneKind(abdcd)
  <2>1. \A i \in 1 .. 11 : abdcd[i] \notin {"erase", "forget"}
    BY <1>7, <1>8, <1>9
  <2> QED BY <2>1, <1>6 DEF OneKind, OnPlan
<1>12. Mounting(abdcd)
  <2>1. \A i \in 1 .. 11 : abdcd[i] = "mount" => i = 4
    BY <1>7, <1>8, <1>9
  <2>2. 8 \in 1 .. 11 /\ 4 < 8 /\ \A i \in 5 .. 8 - 1 : abdcd[i] \in Saves
    BY <1>7, <1>8, <1>9 DEF Saves
  <2> QED BY <2>1, <2>2, <1>6, <1>7, <1>8, <1>9 DEF Mounting
<1> QED BY <1>2, <1>6, <1>7, <1>8, <1>9, <1>10, <1>11, <1>12 DEF PlanOK

LEMMA StagePlanColdOK ==
    ASSUME ~autoActivate
    PROVE  PlanOK(StagePlan) /\ Head(StagePlan) = "check"
<1> DEFINE a == <<"check", "write">>
           b == <<>>
           d == <<"snapshot", "truncate", "flush">>
           c == <<"insert">>
           ab == a \o b
           abd == ab \o d
           abdc == abd \o c
           abdcd == abdc \o d
<1>1. /\ a \in Seq(Steps) /\ Len(a) = 2 /\ a[1] = "check" /\ a[2] = "write"
      /\ b \in Seq(Steps) /\ Len(b) = 0
      /\ d \in Seq(Steps) /\ Len(d) = 3 /\ d[1] = "snapshot" /\ d[2] = "truncate" /\ d[3] = "flush"
      /\ c \in Seq(Steps) /\ Len(c) = 1 /\ c[1] = "insert"
  BY DEF Steps
<1>2. StagePlan = abdcd
  BY DEF StagePlan, SavePlan
<1> HIDE DEF a, b, d, c
<1>3. /\ ab \in Seq(Steps) /\ Len(ab) = 2 + 0
      /\ \A i \in 1 .. 2 + 0 : ab[i] = IF i <= 2 THEN a[i] ELSE b[i - 2]
  <2>1. /\ ab \in Seq(Steps) /\ Len(ab) = Len(a) + Len(b)
        /\ \A i \in 1 .. Len(a) + Len(b) :
               ab[i] = IF i <= Len(a) THEN a[i] ELSE b[i - Len(a)]
    BY <1>1, PlanPositions
  <2>2. Len(a) = 2 /\ Len(b) = 0
    BY <1>1
  <2> HIDE DEF ab
  <2> QED BY <2>1, <2>2
<1> HIDE DEF ab
<1>4. /\ abd \in Seq(Steps) /\ Len(abd) = 2 + 3
      /\ \A i \in 1 .. 2 + 3 : abd[i] = IF i <= 2 THEN ab[i] ELSE d[i - 2]
  <2>1. /\ abd \in Seq(Steps) /\ Len(abd) = Len(ab) + Len(d)
        /\ \A i \in 1 .. Len(ab) + Len(d) :
               abd[i] = IF i <= Len(ab) THEN ab[i] ELSE d[i - Len(ab)]
    BY <1>1, <1>3, PlanPositions
  <2>2. Len(ab) = 2 /\ Len(d) = 3
    BY <1>1, <1>3
  <2> HIDE DEF abd
  <2> QED BY <2>1, <2>2
<1> HIDE DEF abd
<1>5. /\ abdc \in Seq(Steps) /\ Len(abdc) = 5 + 1
      /\ \A i \in 1 .. 5 + 1 : abdc[i] = IF i <= 5 THEN abd[i] ELSE c[i - 5]
  <2>1. /\ abdc \in Seq(Steps) /\ Len(abdc) = Len(abd) + Len(c)
        /\ \A i \in 1 .. Len(abd) + Len(c) :
               abdc[i] = IF i <= Len(abd) THEN abd[i] ELSE c[i - Len(abd)]
    BY <1>1, <1>4, PlanPositions
  <2>2. Len(abd) = 5 /\ Len(c) = 1
    BY <1>1, <1>4
  <2> HIDE DEF abdc
  <2> QED BY <2>1, <2>2
<1> HIDE DEF abdc
<1>6. /\ abdcd \in Seq(Steps) /\ Len(abdcd) = 6 + 3
      /\ \A i \in 1 .. 6 + 3 : abdcd[i] = IF i <= 6 THEN abdc[i] ELSE d[i - 6]
  <2>1. /\ abdcd \in Seq(Steps) /\ Len(abdcd) = Len(abdc) + Len(d)
        /\ \A i \in 1 .. Len(abdc) + Len(d) :
               abdcd[i] = IF i <= Len(abdc) THEN abdc[i] ELSE d[i - Len(abdc)]
    BY <1>1, <1>5, PlanPositions
  <2>2. Len(abdc) = 6 /\ Len(d) = 3
    BY <1>1, <1>5
  <2> HIDE DEF abdcd
  <2> QED BY <2>1, <2>2
<1> HIDE DEF abdcd
<1>7. abdcd[1] = "check" /\ abdcd[2] = "write" /\ abdcd[3] = "snapshot" /\ abdcd[4] = "truncate"
  BY <1>1, <1>3, <1>4, <1>5, <1>6
<1>8. abdcd[5] = "flush" /\ abdcd[6] = "insert" /\ abdcd[7] = "snapshot" /\ abdcd[8] = "truncate"
  BY <1>1, <1>3, <1>4, <1>5, <1>6
<1>9. abdcd[9] = "flush"
  BY <1>1, <1>3, <1>4, <1>5, <1>6
<1>10. Linked(abdcd)
  BY <1>6, <1>7, <1>8, <1>9 DEF Linked, Follows
<1>11. OneKind(abdcd)
  <2>1. \A i \in 1 .. 9 : abdcd[i] \notin {"erase", "forget"}
    BY <1>7, <1>8, <1>9
  <2> QED BY <2>1, <1>6 DEF OneKind, OnPlan
<1>12. Mounting(abdcd)
  <2>1. \A i \in 1 .. 9 : abdcd[i] # "mount"
    BY <1>7, <1>8, <1>9
  <2> QED BY <2>1, <1>6 DEF Mounting
<1> QED BY <1>2, <1>6, <1>7, <1>8, <1>9, <1>10, <1>11, <1>12 DEF PlanOK

\* Staging, with or without activation after it, and activating insert; only
\* removing erases and forgets.
LEMMA RequestPlansOK ==
    /\ PlanOK(SavePlan) /\ Head(SavePlan) = "snapshot" /\ ~OnPlan("insert", SavePlan)
    /\ ~OnPlan("erase", SavePlan)
    /\ PlanOK(StagePlan) /\ Head(StagePlan) = "check" /\ ~OnPlan("erase", StagePlan)
    /\ PlanOK(ActivatePlan) /\ Head(ActivatePlan) = "lookup" /\ ~OnPlan("erase", ActivatePlan)
    /\ PlanOK(RemovePlan) /\ Head(RemovePlan) = "unmount" /\ OnPlan("forget", RemovePlan)
    /\ LET both == StagePlan \o ActivatePlan IN
       PlanOK(both) /\ Head(both) = "check" /\ ~OnPlan("erase", both)
    /\ LET remote == <<"fetch">> \o StagePlan IN
       PlanOK(remote) /\ Head(remote) = "fetch" /\ ~OnPlan("erase", remote)
<1> DEFINE S == Steps \ {"erase", "forget"}
<1>1. \A pl \in Seq(S) : OneKind(pl) /\ ~OnPlan("erase", pl)
  BY DEF OneKind, OnPlan
<1>2. /\ StagePlan \in Seq(S) /\ StagePlan \in Seq(Steps) /\ StagePlan # <<>>
      /\ ActivatePlan \in Seq(S) /\ ActivatePlan \in Seq(Steps) /\ ActivatePlan # <<>>
  <2>1. /\ {"check", "write", "load", "mount", "insert"} \cup Saves \subseteq S
        /\ {"lookup", "load", "mount", "insert"} \cup Saves \subseteq S
        /\ S \subseteq Steps
    BY DEF Saves, Steps
  <2> HIDE DEF S
  <2> QED BY <2>1, StagePlanSteps, ActivatePlanSteps, SeqMonotonic
<1> HIDE DEF S
<1>3. PlanOK(StagePlan) /\ Head(StagePlan) = "check" /\ ~OnPlan("erase", StagePlan)
  BY <1>1, <1>2, StagePlanHotOK, StagePlanColdOK
<1>4. PlanOK(ActivatePlan) /\ Head(ActivatePlan) = "lookup" /\ ~OnPlan("erase", ActivatePlan)
  BY <1>1, <1>2, ActivatePlanOK
<1>5. /\ PlanOK(StagePlan \o ActivatePlan) /\ Head(StagePlan \o ActivatePlan) = "check"
      /\ ~OnPlan("erase", StagePlan \o ActivatePlan)
  <2>1. /\ StagePlan \o ActivatePlan \in Seq(S) /\ StagePlan \o ActivatePlan # <<>>
        /\ StagePlan \o ActivatePlan \in Seq(Steps)
        /\ (StagePlan \o ActivatePlan)[1] = StagePlan[1]
    BY <1>2, Joined
  <2>2. Head(StagePlan \o ActivatePlan) = "check"
    BY <2>1, <1>2, <1>3
  <2>3. <<"flush", Head(ActivatePlan)>> \in Follows
    BY <1>4 DEF Follows
  <2> QED BY <2>1, <2>2, <2>3, <1>1, <1>2, <1>3, <1>4, JoinedOK
<1>6. /\ PlanOK(<<"fetch">> \o StagePlan) /\ Head(<<"fetch">> \o StagePlan) = "fetch"
      /\ ~OnPlan("erase", <<"fetch">> \o StagePlan)
  <2> DEFINE f == <<"fetch">>
  <2>1. f \in Seq(S) /\ f \in Seq(Steps) /\ f # <<>> /\ f[1] = "fetch" /\ "fetch" \in Steps
    BY DEF S, Steps
  <2> HIDE DEF f
  <2>2. /\ f \o StagePlan \in Seq(S) /\ f \o StagePlan # <<>>
        /\ f \o StagePlan \in Seq(Steps) /\ (f \o StagePlan)[1] = "fetch"
    BY <1>2, <2>1, Joined
  <2>3. Head(f \o StagePlan) = "fetch"
    BY <2>2
  <2>4. <<"fetch", Head(StagePlan)>> \in Follows
    BY <1>3 DEF Follows
  <2>5. PlanOK(f \o StagePlan)
    BY <2>1, <2>2, <2>4, <1>1, <1>2, <1>3, PrefixedOK DEF f
  <2> QED BY <2>2, <2>3, <2>5, <1>1 DEF f
<1>7. /\ ~OnPlan("insert", SavePlan) /\ ~OnPlan("erase", SavePlan)
  BY DEF SavePlan, OnPlan
<1> QED BY <1>3, <1>4, <1>5, <1>6, <1>7, SavePlanOK, RemovePlanOK

\* What a plan becomes when its first step is taken off.
LEMMA PlanTail ==
    ASSUME NEW pl \in Seq(Steps), pl # <<>>, PlanOK(pl), NEW t, t = Tail(pl)
    PROVE  /\ Len(pl) = 1 => Head(pl) = "flush" /\ ~Inserting(pl)
           /\ Len(pl) # 1 =>
                /\ t \in Seq(Steps) /\ t # <<>> /\ PlanOK(t)
                /\ <<Head(pl), Head(t)>> \in Follows
                /\ \A s : OnPlan(s, pl) <=> s = Head(pl) \/ OnPlan(s, t)
                /\ Head(pl) = "mount" => Inserting(t)
                /\ Inserting(pl) =>
                      Head(pl) = "insert" \/ (Head(pl) \in Saves /\ Inserting(t))
                /\ Head(pl) \in Saves /\ Inserting(t) => Inserting(pl)
                /\ Inserting(t) => OnPlan("insert", pl)
<1> DEFINE n == Len(pl)
<1>1. n \in Nat \ {0} /\ Head(pl) = pl[1]
  BY EmptySeq, LenProperties
<1>2. /\ \A i \in 1 .. n : IF i = n THEN pl[i] = "flush" ELSE <<pl[i], pl[i + 1]>> \in Follows
      /\ \A i \in 1 .. n : pl[i] = "mount" =>
            \E k \in 1 .. n :
               i < k /\ pl[k] = "insert" /\ \A m \in (i + 1) .. (k - 1) : pl[m] \in Saves
      /\ OneKind(pl)
  BY DEF PlanOK, Linked, Mounting
<1>3. ASSUME n # 1
      PROVE  /\ t \in Seq(Steps) /\ Len(t) = n - 1 /\ t # <<>> /\ Head(t) = t[1]
             /\ \A i \in 1 .. n - 1 : t[i] = pl[i + 1]
             /\ n > 1
  <2>1. n > 1
    BY <1>3, LongPlan
  <2>2. /\ t \in Seq(Steps) /\ Len(t) = n - 1
        /\ \A i \in 1 .. Len(t) : t[i] = pl[i + 1]
    BY HeadTailProperties
  <2>3. t # <<>>
    <3> HIDE DEF n
    <3>1. n - 1 # 0 /\ Len(<<>>) = 0
      BY <2>1, <1>1, EmptySeq
    <3> QED BY <3>1, <2>2
  <2> QED BY <2>1, <2>2, <2>3
<1>a. Len(pl) = n
  OBVIOUS
<1> HIDE DEF n
<1>4. Len(pl) = 1 => Head(pl) = "flush" /\ ~Inserting(pl)
  <2>1. n = 1 => 1 \in 1 .. n /\ \A k \in 1 .. n : k = 1
    BY <1>1
  <2>2. n = 1 => pl[1] = "flush"
    BY <2>1, <1>2
  <2> QED BY <2>1, <2>2, <1>1, <1>a DEF Inserting
<1>5. SUFFICES ASSUME n # 1
      PROVE     /\ t \in Seq(Steps) /\ t # <<>> /\ PlanOK(t)
                /\ <<Head(pl), Head(t)>> \in Follows
                /\ \A s : OnPlan(s, pl) <=> s = Head(pl) \/ OnPlan(s, t)
                /\ Head(pl) = "mount" => Inserting(t)
                /\ Inserting(pl) =>
                      Head(pl) = "insert" \/ (Head(pl) \in Saves /\ Inserting(t))
                /\ Head(pl) \in Saves /\ Inserting(t) => Inserting(pl)
                /\ Inserting(t) => OnPlan("insert", pl)
  BY <1>4, <1>a
<1>6. PICK l \in Nat \ {0} : n = l + 1
  <2>1. n - 1 \in Nat \ {0} /\ n = (n - 1) + 1
    BY <1>1, <1>3, <1>5
  <2> QED BY <2>1
<1>7. /\ t \in Seq(Steps) /\ Len(t) = l /\ t # <<>> /\ Head(t) = t[1]
      /\ \A i \in 1 .. l : t[i] = pl[i + 1] /\ i + 1 \in 1 .. n
      /\ \A i \in 1 .. n : i # 1 => i - 1 \in 1 .. l /\ t[i - 1] = pl[i]
      /\ 1 \in 1 .. n /\ 1 \in 1 .. l
  <2>1. n - 1 = l
    BY <1>6
  <2>2. /\ t \in Seq(Steps) /\ Len(t) = l /\ t # <<>> /\ Head(t) = t[1]
        /\ \A i \in 1 .. l : t[i] = pl[i + 1] /\ i + 1 \in 1 .. n
        /\ 1 \in 1 .. n /\ 1 \in 1 .. l
    BY <2>1, <1>3, <1>5, <1>6
  <2>3. ASSUME NEW i \in 1 .. n, i # 1 PROVE i - 1 \in 1 .. l /\ t[i - 1] = pl[i]
    <3>1. i - 1 \in 1 .. l /\ (i - 1) + 1 = i
      BY <2>3, <1>6
    <3> QED BY <3>1, <2>2
  <2> QED BY <2>2, <2>3
<1>8. \A s : OnPlan(s, pl) <=> s = Head(pl) \/ OnPlan(s, t)
  <2> TAKE s
  <2>1. ASSUME OnPlan(s, pl) PROVE s = Head(pl) \/ OnPlan(s, t)
    <3>1. PICK i \in 1 .. n : pl[i] = s
      BY <2>1, <1>a DEF OnPlan
    <3>2. i # 1 => i - 1 \in 1 .. l /\ t[i - 1] = s
      BY <3>1, <1>7
    <3>3. i = 1 => s = Head(pl)
      BY <3>1, <1>1
    <3> QED BY <3>2, <3>3, <1>7 DEF OnPlan
  <2>2. ASSUME s = Head(pl) PROVE OnPlan(s, pl)
    BY <2>2, <1>1, <1>7, <1>a DEF OnPlan
  <2>3. ASSUME OnPlan(s, t) PROVE OnPlan(s, pl)
    <3>1. PICK i \in 1 .. l : t[i] = s
      BY <2>3, <1>7 DEF OnPlan
    <3>2. i + 1 \in 1 .. n /\ pl[i + 1] = s
      BY <3>1, <1>7
    <3> QED BY <3>2, <1>a DEF OnPlan
  <2> QED BY <2>1, <2>2, <2>3
<1>9. PlanOK(t)
  <2>1. Linked(t)
    <3> SUFFICES ASSUME NEW i \in 1 .. l
                 PROVE  IF i = l THEN t[i] = "flush" ELSE <<t[i], t[i + 1]>> \in Follows
      BY <1>7 DEF Linked
    <3>1. t[i] = pl[i + 1] /\ i + 1 \in 1 .. n
      BY <1>7
    <3>2. CASE i = l
      BY <3>1, <3>2, <1>2, <1>6
    <3>3. CASE i # l
      <4>1. i + 1 \in 1 .. l /\ i + 1 # n
        BY <3>3, <1>6
      <4>2. t[i + 1] = pl[(i + 1) + 1]
        BY <4>1, <1>7
      <4> QED BY <4>1, <4>2, <3>1, <3>3, <1>2
    <3> QED BY <3>2, <3>3
  <2>2. Mounting(t)
    <3> SUFFICES ASSUME NEW i \in 1 .. l, t[i] = "mount"
                 PROVE  \E k \in 1 .. l :
                   i < k /\ t[k] = "insert" /\ \A m \in (i + 1) .. (k - 1) : t[m] \in Saves
      BY <1>7 DEF Mounting
    <3>1. pl[i + 1] = "mount" /\ i + 1 \in 1 .. n
      BY <1>7
    <3>2. PICK k \in 1 .. n :
             i + 1 < k /\ pl[k] = "insert" /\ \A m \in ((i + 1) + 1) .. (k - 1) : pl[m] \in Saves
      BY <3>1, <1>2
    <3>3. PICK x \in 1 .. l : k = x + 1
      <4>1. k - 1 \in 1 .. l /\ k = (k - 1) + 1
        BY <3>2, <1>6
      <4> QED BY <4>1
    <3>4. i < x /\ t[x] = "insert"
      BY <3>2, <3>3, <1>7
    <3>5. ASSUME NEW m \in (i + 1) .. (x - 1) PROVE t[m] \in Saves
      <4>1. m \in 1 .. l /\ m + 1 \in ((i + 1) + 1) .. (k - 1)
        BY <3>3
      <4> QED BY <4>1, <3>2, <1>7
    <3> QED BY <3>4, <3>5
  <2>3. OneKind(t)
    BY <1>2, <1>8 DEF OneKind
  <2> QED BY <2>1, <2>2, <2>3 DEF PlanOK
<1>10. <<Head(pl), Head(t)>> \in Follows
  <2>1. 1 # n /\ 1 + 1 \in 1 .. n /\ t[1] = pl[1 + 1]
    BY <1>5, <1>7
  <2> QED BY <2>1, <1>1, <1>2, <1>7
<1>11. ASSUME Head(pl) = "mount" PROVE Inserting(t)
  <2>1. PICK k \in 1 .. n : /\ 1 < k
                            /\ pl[k] = "insert"
                            /\ \A m \in (1 + 1) .. (k - 1) : pl[m] \in Saves
    BY <1>1, <1>2, <1>7, <1>11
  <2>2. PICK x \in 1 .. l : k = x + 1
    <3>1. k - 1 \in 1 .. l /\ k = (k - 1) + 1
      BY <2>1, <1>6
    <3> QED BY <3>1
  <2>3. t[x] = "insert"
    BY <2>1, <2>2, <1>7
  <2>4. ASSUME NEW m \in 1 .. (x - 1) PROVE t[m] \in Saves
    <3>1. m \in 1 .. l /\ m + 1 \in (1 + 1) .. (k - 1)
      BY <2>2
    <3> QED BY <3>1, <2>1, <1>7
  <2> QED BY <2>3, <2>4, <1>7 DEF Inserting
<1>12. ASSUME Inserting(pl) PROVE Head(pl) = "insert" \/ (Head(pl) \in Saves /\ Inserting(t))
  <2>1. PICK k \in 1 .. n : pl[k] = "insert" /\ \A i \in 1 .. (k - 1) : pl[i] \in Saves
    BY <1>12, <1>a DEF Inserting
  <2>2. CASE k = 1
    <3>1. pl[1] = "insert"
      BY <2>1, <2>2
    <3> QED BY <3>1, <1>1
  <2>3. CASE k # 1
    <3>1. PICK x \in 1 .. l : k = x + 1
      <4>1. k - 1 \in 1 .. l /\ k = (k - 1) + 1
        BY <2>1, <2>3, <1>6
      <4> QED BY <4>1
    <3>2. t[x] = "insert"
      BY <2>1, <3>1, <1>7
    <3>3. ASSUME NEW m \in 1 .. (x - 1) PROVE t[m] \in Saves
      <4>1. m \in 1 .. l /\ m + 1 \in 1 .. (k - 1)
        BY <3>1
      <4> QED BY <4>1, <2>1, <1>7
    <3>4. 1 \in 1 .. (k - 1)
      BY <3>1
    <3> QED BY <3>2, <3>3, <3>4, <2>1, <1>1, <1>7 DEF Inserting
  <2> QED BY <2>2, <2>3
<1>13. ASSUME Head(pl) \in Saves, Inserting(t) PROVE Inserting(pl)
  <2>1. PICK k \in 1 .. l : t[k] = "insert" /\ \A i \in 1 .. (k - 1) : t[i] \in Saves
    BY <1>13, <1>7 DEF Inserting
  <2>2. k + 1 \in 1 .. n /\ pl[k + 1] = "insert"
    BY <2>1, <1>7
  <2>3. ASSUME NEW i \in 1 .. ((k + 1) - 1) PROVE pl[i] \in Saves
    <3>1. CASE i = 1
      BY <3>1, <1>1, <1>13
    <3>2. CASE i # 1
      <4>1. i \in 1 .. n /\ i - 1 \in 1 .. (k - 1)
        BY <3>2, <1>6
      <4> QED BY <4>1, <3>2, <2>1, <1>7
    <3> QED BY <3>1, <3>2
  <2> QED BY <2>2, <2>3, <1>a DEF Inserting
<1>14. Inserting(t) => OnPlan("insert", pl)
  <2>1. Inserting(t) => OnPlan("insert", t)
    BY DEF Inserting, OnPlan
  <2> QED BY <2>1, <1>8
<1> QED BY <1>7, <1>8, <1>9, <1>10, <1>11, <1>12, <1>13, <1>14

\* What a worker is left with when it has taken a step of a good plan.
LEMMA AdvanceKeepsPlan ==
    ASSUME NEW j \in Jobs, j.plan # <<>>, PlanOK(j.plan), NEW l \in Jobs, l.plan = j.plan,
           NEW k, k = Advance(l)
    PROVE  \/ k = NoJob /\ Head(j.plan) = "flush" /\ ~Inserting(j.plan)
           \/ /\ k # NoJob /\ k \in Jobs /\ k.plan # <<>> /\ PlanOK(k.plan)
              /\ k.name = l.name /\ k.rec = l.rec /\ k.copy = l.copy
              /\ <<Head(j.plan), Head(k.plan)>> \in Follows
              /\ \A s : OnPlan(s, j.plan) <=> s = Head(j.plan) \/ OnPlan(s, k.plan)
              /\ Head(j.plan) = "mount" => Inserting(k.plan)
              /\ Inserting(j.plan) =>
                    Head(j.plan) = "insert" \/ (Head(j.plan) \in Saves /\ Inserting(k.plan))
              /\ Head(j.plan) \in Saves /\ Inserting(k.plan) => Inserting(j.plan)
              /\ Inserting(k.plan) => OnPlan("insert", j.plan)
<1> DEFINE pl == j.plan
           t == Tail(pl)
<1>1. pl \in Seq(Steps) /\ pl # <<>> /\ PlanOK(pl)
  BY DEF Jobs
<1>2. CASE Len(pl) = 1
  BY <1>1, <1>2, PlanTail DEF Advance
<1>3. CASE Len(pl) # 1
  <2> HIDE DEF t
  <2>1. /\ t \in Seq(Steps) /\ t # <<>> /\ PlanOK(t)
        /\ <<Head(pl), Head(t)>> \in Follows
        /\ \A s : OnPlan(s, pl) <=> s = Head(pl) \/ OnPlan(s, t)
        /\ Head(pl) = "mount" => Inserting(t)
        /\ Inserting(pl) => Head(pl) = "insert" \/ (Head(pl) \in Saves /\ Inserting(t))
        /\ Head(pl) \in Saves /\ Inserting(t) => Inserting(pl)
        /\ Inserting(t) => OnPlan("insert", pl)
    BY <1>1, <1>3, PlanTail DEF t
  <2>2. k = [l EXCEPT !.plan = t]
    BY <1>3 DEF Advance, t
  <2>3. /\ k.plan = t /\ k.name = l.name /\ k.rec = l.rec /\ k.copy = l.copy /\ k \in Jobs
    BY <2>1, <2>2 DEF Jobs
  <2>4. NoJob.plan = <<>>
    BY DEF NoJob
  <2> QED BY <2>1, <2>3, <2>4
<1> QED BY <1>2, <1>3

\* The second of two consecutive steps, by the first.
LEMMA Next2 ==
    ASSUME NEW h, NEW g, <<h, g>> \in Follows
    PROVE  /\ h \in {"insert", "forget", "erase"} => g = "snapshot"
           /\ h = "fetch" => g = "check"
           /\ h = "check" => g = "write"
           /\ h = "write" => g \in {"load", "snapshot"}
           /\ h = "lookup" => g = "load"
           /\ h = "load" => g = "mount"
           /\ h = "mount" => g \in {"snapshot", "insert"}
           /\ h = "unmount" => g = "unload"
           /\ h = "unload" => g = "forget"
           /\ h = "snapshot" => g = "truncate"
           /\ h = "truncate" => g = "flush"
           /\ h = "flush" => g \in {"snapshot", "insert", "erase", "lookup"}
           /\ g \in Steps
BY DEF Follows, Steps

-----------------------------------------------------------------------------
(* The manifest on disk, when operations take turns.  Outside a save it opens *)
(* to the records; inside, the save still has to write them.                 *)

\* How far the busy worker's save has come.
InStep(j) ==
    CASE Head(j.plan) = "snapshot" -> TRUE
      [] Head(j.plan) = "truncate" -> j.copy = records
      [] Head(j.plan) = "flush" -> j.copy = records /\ disk.state = "empty"
      [] OTHER -> Reopened = records

\* With operations in turns one worker is busy at most, and only between its
\* truncation and its flush does the manifest not open to the records.
SyncInv ==
    ~overlap => /\ \A v, w \in Workers : ~Idle(v) /\ ~Idle(w) => v = w
                /\ \A w \in Workers : ~Idle(w) => PlanOK(job[w].plan) /\ InStep(job[w])
                /\ AllIdle => Reopened = records

\* A step of the one worker that is busy.
LEMMA SyncStep ==
    ASSUME IInv, SyncInv, UNCHANGED overlap, NEW w \in Workers, ~Idle(w),
           NEW k, job' = [job EXCEPT ![w] = k],
           ~overlap => \/ k = NoJob /\ Reopened' = records'
                       \/ k # NoJob /\ PlanOK(k.plan) /\ InStep(k)'
    PROVE  SyncInv'
<1> SUFFICES ASSUME ~overlap PROVE SyncInv'
  BY DEF SyncInv
<1>1. \A v \in Workers : v # w => Idle(v)
  BY DEF SyncInv
<1>2. job'[w] = k /\ \A v \in Workers : v # w => job'[v] = NoJob
  BY <1>1 DEF IInv, TypeOK, Idle
<1>3. CASE k = NoJob /\ Reopened' = records'
  BY <1>2, <1>3 DEF SyncInv, Idle, AllIdle
<1>4. CASE k # NoJob /\ PlanOK(k.plan) /\ InStep(k)'
  <2>1. \A v \in Workers : ~Idle(v)' => v = w
    BY <1>2 DEF Idle
  <2>2. ~AllIdle'
    BY <1>2, <1>4 DEF AllIdle, Idle
  <2>3. (PlanOK(job[w].plan) /\ InStep(job[w]))'
    BY <1>2, <1>4 DEF PlanOK, Linked, Mounting, OneKind, OnPlan, InStep, Reopened
  <2> QED BY <2>1, <2>2, <2>3 DEF SyncInv
<1> QED BY <1>3, <1>4

\* What the busy worker has in its hands.
LEMMA InTurn ==
    ASSUME IInv, SyncInv, ~overlap, NEW w \in Workers, NEW s, At(w, s)
    PROVE  /\ ~Idle(w) /\ job[w] \in Jobs /\ job[w].plan # <<>> /\ job[w].name \in Names
           /\ PlanOK(job[w].plan) /\ Head(job[w].plan) = s /\ InStep(job[w])
BY Working DEF IInv, SyncInv

\* Taking a step of a plan, given what holds of the disk after it.
LEMMA SyncAdvance ==
    ASSUME IInv, SyncInv, UNCHANGED overlap, NEW w \in Workers, NEW s, At(w, s),
           NEW l \in Jobs, l.plan = job[w].plan, Proceed(w, l),
           ~overlap =>
              /\ s = "snapshot" => l.copy = records'
              /\ s = "truncate" => l.copy = records' /\ disk'.state = "empty"
              /\ s \notin {"snapshot", "truncate", "insert", "forget"} => Reopened' = records'
    PROVE  SyncInv'
<1>1. ~Idle(w)
  BY DEF At
<1> PICK k : k = Advance(l)
  OBVIOUS
<1>2. job' = [job EXCEPT ![w] = k]
  BY DEF Proceed
<1>3. ASSUME ~overlap
      PROVE  \/ k = NoJob /\ Reopened' = records'
             \/ k # NoJob /\ PlanOK(k.plan) /\ InStep(k)'
  <2>1. /\ job[w] \in Jobs /\ job[w].plan # <<>> /\ PlanOK(job[w].plan)
        /\ Head(job[w].plan) = s
    BY <1>3, InTurn
  <2>2. CASE k = NoJob /\ s = "flush"
    BY <2>2, <1>3
  <2>3. CASE k # NoJob /\ PlanOK(k.plan) /\ k.copy = l.copy /\ <<s, Head(k.plan)>> \in Follows
    <3> PICK g : g = Head(k.plan)
      OBVIOUS
    <3>1. InStep(k)' = CASE g = "snapshot" -> TRUE
      [] g = "truncate" -> k.copy = records'
      [] g = "flush" -> k.copy = records' /\ disk'.state = "empty"
      [] OTHER -> Reopened' = records'
      BY DEF InStep, Reopened
    <3>2. <<s, g>> \in Follows
      BY <2>3
    <3>4. CASE s = "snapshot"
      <4>1. g = "truncate"
        BY <3>2, <3>4, Next2
      <4> QED BY <4>1, <3>1, <3>4, <2>3, <1>3
    <3>5. CASE s = "truncate"
      <4>1. g = "flush"
        BY <3>2, <3>5, Next2
      <4> QED BY <4>1, <3>1, <3>5, <2>3, <1>3
    <3>6. CASE s \in {"insert", "forget"}
      <4>1. g = "snapshot"
        BY <3>2, <3>6, Next2
      <4> QED BY <4>1, <3>1, <3>6, <2>3, <1>3
    <3>7. CASE s \notin {"snapshot", "truncate", "insert", "forget"}
      <4>1. g \notin {"truncate", "flush"}
        BY <3>2, <3>7 DEF Follows
      <4> QED BY <4>1, <3>1, <3>7, <2>3, <1>3
    <3> QED BY <3>4, <3>5, <3>6, <3>7
  <2> QED BY <2>1, <2>2, <2>3, AdvanceKeepsPlan
<1> QED BY <1>1, <1>2, <1>3, SyncStep

\* An operation that ends.
LEMMA SyncReturn ==
    ASSUME IInv, SyncInv, UNCHANGED overlap, NEW w \in Workers, ~Idle(w), Return(w),
           ~overlap => Reopened' = records'
    PROVE  SyncInv'
BY SyncStep DEF Return

\* An operation that is refused has saved nothing yet.
LEMMA SyncReject ==
    ASSUME IInv, SyncInv, UNCHANGED overlap, NEW w \in Workers, ~Idle(w), Reject(w)
    PROVE  SyncInv'
<1> PICK k : k = [job[w] EXCEPT !.plan = SavePlan]
  OBVIOUS
<1>1. job' = [job EXCEPT ![w] = k]
  BY DEF Reject
<1>2. k.plan = SavePlan
  BY DEF IInv, TypeOK, Jobs
<1>3. k # NoJob
  BY <1>2, SavePlanSteps DEF NoJob
<1>4. PlanOK(k.plan) /\ InStep(k)'
  BY <1>2, SavePlanOK DEF InStep
<1> QED BY <1>1, <1>3, <1>4, SyncStep

\* An operation that begins finds the manifest whole.
LEMMA SyncBegin ==
    ASSUME IInv, SyncInv, NEW w \in Workers, NEW n \in Names, NEW r \in Drafts,
           NEW plan \in Seq(Steps), plan # <<>>, Begin(w, n, r, plan), PlanOK(plan),
           Head(plan) \in {"snapshot", "check", "fetch", "lookup", "unmount"}
    PROVE  SyncInv'
<1> SUFFICES ASSUME ~overlap PROVE SyncInv'
  BY DEF SyncInv, Begin, settings
<1> PICK k : k = [plan |-> plan, name |-> n, rec |-> r, copy |-> EmptyManifest]
  OBVIOUS
<1>1. k.plan = plan /\ k # NoJob
  BY DEF NoJob
<1>2. AllIdle /\ Reopened = records /\ UNCHANGED <<overlap, records, disk>>
  BY DEF Begin, settings, SyncInv
<1>3. job' = [job EXCEPT ![w] = k]
  BY DEF Begin
<1>4. job'[w] = k /\ \A v \in Workers : v # w => job'[v] = NoJob
  BY <1>2, <1>3 DEF IInv, TypeOK, AllIdle, Idle
<1>5. Reopened' = records'
  BY <1>2 DEF Reopened
<1>6. (PlanOK(job[w].plan) /\ InStep(job[w]))'
  <2>1. InStep(k)'
    BY <1>1, <1>5 DEF InStep
  <2> QED BY <2>1, <1>1, <1>4 DEF PlanOK, Linked, Mounting, OneKind, OnPlan, InStep, Reopened
<1>7. ~AllIdle'
  BY <1>1, <1>4 DEF AllIdle, Idle
<1> QED BY <1>1, <1>4, <1>6, <1>7 DEF SyncInv, Idle

\* What the records hold, or their absence, may be the draft of a job.
LEMMA RecordIsDraft ==
    ASSUME TypeOK, NEW n \in Names
    PROVE  records[n] \in Records \cup {NoRecord} /\ records[n] \in Drafts
<1>1. records[n] \in Records \cup {NoRecord}
  BY DEF TypeOK, Manifests
<1>2. NoRecord \in Drafts
  BY DEF NoRecord, Drafts
<1>3. \A r \in Records : r \in Drafts
  BY DEF Records, Drafts
<1> QED BY <1>1, <1>2, <1>3

\* An action that leaves jobs, records and disk alone.
LEMMA SyncUntouched ==
    ASSUME SyncInv, UNCHANGED <<overlap, job, records, disk>>
    PROVE  SyncInv'
BY DEF SyncInv, InStep, Idle, AllIdle, Reopened, PlanOK, Linked, Mounting, OneKind, OnPlan

\* A step, of those that neither save nor change the records, with its locals.
LEMMA SyncPlain ==
    ASSUME IInv, SyncInv, UNCHANGED <<overlap, records, disk>>, NEW w \in Workers,
           NEW s, At(w, s), s \notin {"snapshot", "truncate", "flush", "insert", "forget"},
           NEW l \in Jobs, l.plan = job[w].plan,
           Proceed(w, l) \/ Return(w) \/ Reject(w)
    PROVE  SyncInv'
<1>1. ~Idle(w)
  BY DEF At
<1>2. ~overlap => Reopened' = records'
  <2> SUFFICES ASSUME ~overlap PROVE Reopened' = records'
    OBVIOUS
  <2>1. InStep(job[w]) /\ Head(job[w].plan) = s
    BY InTurn
  <2> QED BY <2>1 DEF InStep, Reopened
<1>3. CASE Proceed(w, l)
  BY <1>2, <1>3, SyncAdvance
<1> QED BY <1>1, <1>2, <1>3, SyncReturn, SyncReject

\* The same, with the locals as they were.
LEMMA SyncAsIs ==
    ASSUME IInv, SyncInv, UNCHANGED <<overlap, records, disk>>, NEW w \in Workers,
           NEW s, At(w, s), s \notin {"snapshot", "truncate", "flush", "insert", "forget"},
           Proceed(w, job[w]) \/ Return(w) \/ Reject(w)
    PROVE  SyncInv'
<1>1. job[w] \in Jobs
  BY DEF IInv, TypeOK
<1> QED BY <1>1, SyncPlain

LEMMA SyncFetch == ASSUME IInv, SyncInv, NEW w \in Workers, Fetch(w) PROVE SyncInv'
BY SyncAsIs DEF Fetch, settings

LEMMA SyncCheck == ASSUME IInv, SyncInv, NEW w \in Workers, Check(w) PROVE SyncInv'
BY SyncAsIs DEF Check, settings

LEMMA SyncOpenFile == ASSUME IInv, SyncInv, NEW w \in Workers, OpenFile(w) PROVE SyncInv'
BY SyncUntouched DEF OpenFile, settings

LEMMA SyncFailToWrite ==
    ASSUME IInv, SyncInv, NEW w \in Workers, FailToWrite(w) PROVE SyncInv'
BY SyncAsIs DEF FailToWrite, settings

LEMMA SyncWriteFile == ASSUME IInv, SyncInv, NEW w \in Workers, WriteFile(w) PROVE SyncInv'
BY SyncAsIs DEF WriteFile, settings

LEMMA SyncLoad == ASSUME IInv, SyncInv, NEW w \in Workers, Load(w) PROVE SyncInv'
BY SyncAsIs DEF Load, settings

LEMMA SyncUnmount == ASSUME IInv, SyncInv, NEW w \in Workers, Unmount(w) PROVE SyncInv'
BY SyncAsIs DEF Unmount, settings

LEMMA SyncUnload == ASSUME IInv, SyncInv, NEW w \in Workers, Unload(w) PROVE SyncInv'
BY SyncAsIs DEF Unload, settings

LEMMA SyncErase == ASSUME IInv, SyncInv, NEW w \in Workers, Erase(w) PROVE SyncInv'
BY SyncAsIs DEF Erase, settings

LEMMA SyncLookup == ASSUME IInv, SyncInv, NEW w \in Workers, Lookup(w) PROVE SyncInv'
<1> PICK l : l = [job[w] EXCEPT !.rec = records[job[w].name]]
  OBVIOUS
<1>1. At(w, "lookup") /\ UNCHANGED <<overlap, records, disk>>
  BY DEF Lookup, settings
<1>2. job[w] \in Jobs /\ job[w].name \in Names
  BY <1>1, Working DEF IInv
<1>3. records[job[w].name] \in Drafts
  BY <1>2, RecordIsDraft DEF IInv
<1>4. l \in Jobs /\ l.plan = job[w].plan
  BY <1>2, <1>3 DEF Jobs
<1>5. Proceed(w, l) \/ Return(w)
  BY DEF Lookup
<1> QED BY <1>1, <1>4, <1>5, SyncPlain

LEMMA SyncMount == ASSUME IInv, SyncInv, NEW w \in Workers, Mount(w) PROVE SyncInv'
<1> PICK l : l = [job[w] EXCEPT !.rec = [@ EXCEPT !.status = "Active"]]
  OBVIOUS
<1>1. At(w, "mount") /\ UNCHANGED <<overlap, records, disk>>
  BY DEF Mount, settings
<1>2. job[w] \in Jobs /\ job[w].rec \in Drafts
  BY <1>1, Working DEF IInv, Jobs
<1>3. [job[w].rec EXCEPT !.status = "Active"] \in Drafts
  BY <1>2 DEF Drafts
<1>4. l \in Jobs /\ l.plan = job[w].plan
  BY <1>2, <1>3 DEF Jobs
<1>5. Proceed(w, l) \/ Return(w)
  BY DEF Mount
<1> QED BY <1>1, <1>4, <1>5, SyncPlain

LEMMA SyncInsert == ASSUME IInv, SyncInv, NEW w \in Workers, Insert(w) PROVE SyncInv'
<1>1. /\ At(w, "insert") /\ UNCHANGED overlap /\ Proceed(w, job[w]) /\ job[w] \in Jobs
  BY DEF Insert, settings, IInv, TypeOK
<1> QED BY <1>1, SyncAdvance

\* A name without a record leaves the records as they were.
LEMMA SyncForget == ASSUME IInv, SyncInv, NEW w \in Workers, Forget(w) PROVE SyncInv'
<1> PICK r : r = records[job[w].name]
  OBVIOUS
<1> PICK l : l = [job[w] EXCEPT !.rec = r]
  OBVIOUS
<1>1. /\ At(w, "forget") /\ UNCHANGED <<overlap, disk>>
      /\ records' = [records EXCEPT ![job[w].name] = NoRecord]
  BY DEF Forget, settings
<1>2. job[w] \in Jobs /\ job[w].name \in Names /\ ~Idle(w)
  BY <1>1, Working DEF IInv
<1>3. r \in Drafts
  BY <1>2, RecordIsDraft DEF IInv
<1>4. l \in Jobs /\ l.plan = job[w].plan
  BY <1>2, <1>3 DEF Jobs
<1>5. CASE r = NoRecord /\ Return(w)
  <2>1. records' = records
    BY <1>1, <1>5, <1>2 DEF IInv, TypeOK, Manifests
  <2>2. ~overlap => Reopened' = records'
    <3> SUFFICES ASSUME ~overlap PROVE Reopened' = records'
      OBVIOUS
    <3>1. InStep(job[w]) /\ Head(job[w].plan) = "forget"
      BY <1>1, InTurn
    <3> QED BY <3>1, <2>1, <1>1 DEF InStep, Reopened
  <2> QED BY <2>2, <1>1, <1>2, <1>5, SyncReturn
<1>6. CASE Proceed(w, l)
  BY <1>1, <1>4, <1>6, SyncAdvance
<1> QED BY <1>5, <1>6 DEF Forget

LEMMA SyncSnapshot == ASSUME IInv, SyncInv, NEW w \in Workers, Snapshot(w) PROVE SyncInv'
<1> PICK l : l = [job[w] EXCEPT !.copy = records]
  OBVIOUS
<1>1. At(w, "snapshot") /\ UNCHANGED <<overlap, records>> /\ Proceed(w, l)
  BY DEF Snapshot, settings
<1>2. l \in Jobs /\ l.plan = job[w].plan /\ l.copy = records
  BY DEF IInv, TypeOK, Jobs
<1> QED BY <1>1, <1>2, SyncAdvance

LEMMA SyncTruncate == ASSUME IInv, SyncInv, NEW w \in Workers, Truncate(w) PROVE SyncInv'
<1>1. /\ At(w, "truncate") /\ UNCHANGED <<overlap, records>> /\ Proceed(w, job[w])
      /\ job[w] \in Jobs /\ disk'.state = "empty"
  BY DEF Truncate, settings, IInv, TypeOK
<1>2. ~overlap => job[w].copy = records'
  <2> SUFFICES ASSUME ~overlap PROVE job[w].copy = records'
    OBVIOUS
  <2>1. InStep(job[w]) /\ Head(job[w].plan) = "truncate"
    BY <1>1, InTurn
  <2> QED BY <2>1, <1>1 DEF InStep
<1> QED BY <1>1, <1>2, SyncAdvance

\* Nobody wrote since the truncation, so what is written is all there is.
LEMMA SyncFlush == ASSUME IInv, SyncInv, NEW w \in Workers, Flush(w) PROVE SyncInv'
<1> PICK l : l = [job[w] EXCEPT !.copy = EmptyManifest]
  OBVIOUS
<1>1. /\ At(w, "flush") /\ UNCHANGED <<overlap, records>> /\ Proceed(w, l)
  BY DEF Flush, settings
<1>2. EmptyManifest \in Manifests
  BY DEF EmptyManifest, Manifests
<1>3. l \in Jobs /\ l.plan = job[w].plan
  BY <1>2 DEF IInv, TypeOK, Jobs
<1>4. ~overlap => Reopened' = records'
  <2> SUFFICES ASSUME ~overlap PROVE Reopened' = records'
    OBVIOUS
  <2>1. InStep(job[w]) /\ Head(job[w].plan) = "flush"
    BY <1>1, InTurn
  <2>2. job[w].copy = records /\ disk.state = "empty"
    BY <2>1 DEF InStep
  <2>3. disk' = [state |-> "whole", holds |-> job[w].copy]
    BY <2>2 DEF Flush
  <2> QED BY <2>2, <2>3, <1>1 DEF Reopened
<1>5. ~overlap =>
          /\ "flush" = "snapshot" => l.copy = records'
          /\ "flush" = "truncate" => l.copy = records' /\ disk'.state = "empty"
          /\ "flush" \notin {"snapshot", "truncate", "insert", "forget"} => Reopened' = records'
  BY <1>4
<1> QED BY <1>1, <1>3, <1>5, SyncAdvance

\* A crash leaves the records that the manifest opens to.
LEMMA SyncCrash == ASSUME Crash PROVE SyncInv'
BY DEF Crash, SyncInv, Idle, AllIdle, Reopened

LEMMA SyncRequest ==
    ASSUME IInv, SyncInv, NEW w \in Workers, Request(w) PROVE SyncInv'
<1> PICK n \in Names : \/ \E offer \in Offers : \/ \E a \in BOOLEAN : Upload(w, n, offer, a)
                                                \/ StageRemote(w, n, offer)
                       \/ \E sha \in Shas : BeginActivate(w, n, sha)
                       \/ BeginRemove(w, n)
  BY DEF Request
<1>1. PICK r, plan : Begin(w, n, r, plan) /\ r \in Drafts
            /\ plan \in {SavePlan, StagePlan, StagePlan \o ActivatePlan,
                         <<"fetch">> \o StagePlan, ActivatePlan, RemovePlan}
  <2>1. ASSUME NEW offer \in Offers, NEW a \in BOOLEAN, Upload(w, n, offer, a)
        PROVE  \E plan \in {SavePlan, StagePlan, StagePlan \o ActivatePlan} :
                   Begin(w, n, Staging(offer), plan) /\ Staging(offer) \in Drafts
    BY <2>1, StagingRecord DEF Upload
  <2>2. ASSUME NEW offer \in Offers, StageRemote(w, n, offer)
        PROVE  \E plan \in {SavePlan, <<"fetch">> \o StagePlan} :
                   Begin(w, n, Staging(offer), plan) /\ Staging(offer) \in Drafts
    BY <2>2, StagingRecord DEF StageRemote
  <2>3. ASSUME NEW sha \in Shas, BeginActivate(w, n, sha)
        PROVE  \E r \in Drafts : Begin(w, n, r, ActivatePlan)
    <3>1. [sha |-> sha, routes |-> <<>>, status |-> "Absent"] \in Drafts
      BY DEF Drafts
    <3> QED BY <2>3, <3>1 DEF BeginActivate
  <2>4. ASSUME BeginRemove(w, n)
        PROVE  Begin(w, n, NoRecord, RemovePlan) /\ NoRecord \in Drafts
    BY <2>4 DEF BeginRemove, Drafts, NoRecord
  <2> QED BY <2>1, <2>2, <2>3, <2>4
<1>2. plan \in Seq(Steps) /\ plan # <<>>
  <2>1. <<"fetch">> \in Seq(Steps) /\ <<"fetch">> # <<>>
    BY DEF Steps
  <2>2. StagePlan \o ActivatePlan \in Seq(Steps) /\ StagePlan \o ActivatePlan # <<>>
    BY RequestPlans, Joined
  <2>3. <<"fetch">> \o StagePlan \in Seq(Steps) /\ <<"fetch">> \o StagePlan # <<>>
    BY <2>1, RequestPlans, Joined
  <2> QED BY <1>1, <2>2, <2>3, RequestPlans
<1>3. PlanOK(plan) /\ Head(plan) \in {"snapshot", "check", "fetch", "lookup", "unmount"}
  BY <1>1, RequestPlansOK
<1> QED BY <1>1, <1>2, <1>3, SyncBegin

LEMMA SyncNext == ASSUME IInv, SyncInv, [Next]_vars PROVE SyncInv'
<1>1. ASSUME NEW w \in Workers, Step(w) PROVE SyncInv'
  BY <1>1, SyncFetch, SyncCheck, SyncOpenFile, SyncWriteFile, SyncFailToWrite, SyncLookup,
     SyncLoad, SyncMount, SyncInsert,
     SyncUnmount, SyncUnload, SyncForget, SyncErase, SyncSnapshot, SyncTruncate, SyncFlush
     DEF Step
<1>2. CASE Lockdown
  BY <1>2, SyncUntouched DEF Lockdown, settings
<1>3. CASE Restore
  BY <1>3, SyncUntouched DEF Restore, settings
<1>4. CASE UNCHANGED vars
  BY <1>4, SyncUntouched DEF vars, settings
<1> QED BY <1>1, <1>2, <1>3, <1>4, SyncRequest, SyncCrash DEF Next

LEMMA SyncInit == ASSUME Init PROVE SyncInv
BY DEF Init, SyncInv, Idle, AllIdle, Reopened

\* Deployer!RecordsPersistInTurns: while operations take turns, a crash between
\* any two of them loses no record: the manifest opens to what the map holds.
THEOREM RecordsSurviveInTurns == Spec => []RecordsPersistInTurns
<1>1. Init => SyncInv
  BY SyncInit
<1>2. IInv /\ SyncInv /\ [Next]_vars => SyncInv'
  BY SyncNext
<1>3. SyncInv => RecordsPersistInTurns
  BY DEF SyncInv, RecordsPersistInTurns, RecordsPersist
<1> QED BY <1>1, <1>2, <1>3, Invariance, PTL DEF Spec

-----------------------------------------------------------------------------
(* What is Active is served, when operations take turns.                     *)

\* A list that names nothing twice.
Tidy(s) == \A i, j \in DOMAIN s : s[i] = s[j] => i = j

\* No build lists a route twice, and the boot goes once over every record
\* (list_records sorts the values of a map by name, registry.rs:143).
RoutesDistinct == \A offer \in Offers : Tidy(offer.routes)
BootListsAll == Tidy(BootOrder) /\ Names \subseteq RoutesIn(BootOrder)

\* The record of a cell in this manifest says that it is live.
Active(manifest, n) == manifest[n].status = "Active"

\* A manifest the boot can restore: every active build is on disk, and no two
\* active cells claim a route.
Sound(manifest, stored) ==
    /\ \A n \in Names : Tidy(manifest[n].routes)
    /\ \A n \in Names : Active(manifest, n) => <<n, manifest[n].sha>> \in stored
    /\ \A k, n \in Names : Active(manifest, k) /\ Active(manifest, n) /\ k # n =>
          RoutesIn(manifest[k].routes) \cap RoutesIn(manifest[n].routes) = {}

\* An active cell runs the build of its record, mounted on its record's routes.
Served(n) ==
    Active(records, n) => /\ modules[n] = records[n].sha
                          /\ n \in router.mounted
                          /\ router.routes[n] = records[n].routes

\* No other cell has a route of this list.
Free(n, list) ==
    \A m \in router.mounted \ {n} : RoutesIn(list) \cap RoutesIn(router.routes[m]) = {}

\* What the job has loaded and mounted is what its record says.
Ready(j) ==
    /\ modules[j.name] = j.rec.sha
    /\ j.name \in router.mounted
    /\ router.routes[j.name] = j.rec.routes

\* The job is about to insert the record of a cell it has already mounted.
Registering(j) == Inserting(j.plan) /\ j.rec.status = "Active"
\* The job is between touching the module or the routes and its record.
Disturbed(j) == Head(j.plan) \in {"mount", "unload", "forget"} \/ Registering(j)

\* What the one busy worker may rely on.
TurnOK(j) ==
    /\ \A m \in Names \ {j.name} : Served(m)
    /\ Disturbed(j) \/ Served(j.name)
    /\ Tidy(j.rec.routes)
    /\ Head(j.plan) \in {"fetch", "check", "write"} => j.rec.status # "Active"
    /\ Registering(j) => Ready(j)
    /\ Head(j.plan) = "mount" => modules[j.name] = j.rec.sha
    /\ Head(j.plan) \in {"write", "load", "mount"} /\ Active(records, j.name) =>
          j.name \in router.mounted /\ Free(j.name, j.rec.routes)
    /\ Head(j.plan) \in {"load", "mount"} \/ Inserting(j.plan) => <<j.name, j.rec.sha>> \in files
    /\ OnPlan("erase", j.plan) /\ ~OnPlan("forget", j.plan) => records[j.name] = NoRecord

\* During the boot: cells still to come are not mounted, the others are served.
BootOK ==
    /\ AllIdle
    /\ Tidy(boot)
    /\ \A n \in Names : n \notin RoutesIn(boot) => Served(n)
    /\ \A n \in router.mounted : /\ n \notin RoutesIn(boot) /\ Active(records, n)
                                 /\ router.routes[n] = records[n].routes
    /\ \A p \in Paths : router.owner[p] # Nobody =>
          /\ router.owner[p] \in router.mounted
          /\ p \in RoutesIn(router.routes[router.owner[p]])

\* The files there will be when the open ones are written, and not before.
Stored == files \cup {Path(w) : w \in {v \in Workers : handle[v] = "open"}}
HandlesClosed == \A w \in Workers : handle[w] = "closed"

\* The inductive invariant: between operations everything active is served.
ServedInv ==
    ~overlap /\ ~torn =>
        /\ Sound(records, Stored) /\ Sound(disk.holds, Stored)
        /\ \A w \in Workers : handle[w] # "closed" => handle[w] = "open" /\ At(w, "write")
        /\ disk.state # "whole" => disk.holds = EmptyManifest
        /\ \A w \in Workers : ~Idle(w) => TurnOK(job[w])
        /\ boot = <<>> /\ AllIdle => \A n \in Names : Served(n)
        /\ boot # <<>> => BootOK

-----------------------------------------------------------------------------
(* Registering and unregistering a cell leave the others where they are.     *)

\* Registering a list of free routes, each once, mounts the cell on all of them.
LEMMA RegisterFree ==
    ASSUME NEW r \in Routers, NEW n \in Names, NEW list \in Seq(Paths), Blocked(r, list) = {},
           NEW s, s = Register(r, n, list)
    PROVE  /\ s.mounted = r.mounted \cup {n}
           /\ s.routes[n] = list
           /\ \A m \in Names \ {n} : s.routes[m] = r.routes[m]
           /\ \A p \in Paths : s.owner[p] = IF p \in RoutesIn(list) THEN n ELSE r.owner[p]
<1>1. /\ s.mounted = r.mounted \cup {n} /\ s.routes = [r.routes EXCEPT ![n] = list]
      /\ s.owner = [p \in Paths |-> IF p \in RoutesIn(list) THEN n ELSE r.owner[p]]
  BY DEF Register, RoutesIn
<1>2. r.routes \in [Names -> Seq(Paths)]
  BY DEF Routers
<1> QED BY <1>1, <1>2

\* Unregistering takes only the cell's own routes.
LEMMA UnregisterOthers ==
    ASSUME NEW r \in Routers, NEW n \in Names, NEW s, s = Unregister(r, n)
    PROVE  /\ s.mounted = r.mounted \ {n}
           /\ \A m \in Names \ {n} : s.routes[m] = r.routes[m]
           /\ n \in r.mounted =>
                \A p \in Paths :
                   (\A m \in r.mounted \ {n} : p \notin RoutesIn(r.routes[m])) =>
                       s.owner[p] = Nobody
<1>1. CASE n \notin r.mounted
  BY <1>1 DEF Unregister
<1>2. CASE n \in r.mounted
  <2> DEFINE c == [r EXCEPT !.mounted = @ \ {n}, !.routes = [@ EXCEPT ![n] = <<>>]]
             claimants(p) == {m \in c.mounted : p \in RoutesIn(c.routes[m])}
  <2>1. c.mounted = r.mounted \ {n} /\ c.routes = [r.routes EXCEPT ![n] = <<>>]
    BY DEF Routers
  <2>2. /\ s.mounted = c.mounted /\ s.routes = c.routes
        /\ s.owner = [p \in Paths |-> IF claimants(p) = {} THEN Nobody
                                      ELSE CHOOSE m \in claimants(p) : TRUE]
    BY <1>2 DEF Unregister, Rebuild, Routers
  <2>3. \A m \in Names \ {n} : c.routes[m] = r.routes[m]
    BY <2>1 DEF Routers
  <2>4. r.mounted \subseteq Names
    BY DEF Routers
  <2> HIDE DEF c
  <2>5. ASSUME NEW p \in Paths, \A m \in r.mounted \ {n} : p \notin RoutesIn(r.routes[m])
        PROVE  s.owner[p] = Nobody
    <3>1. claimants(p) = {}
      BY <2>1, <2>3, <2>4, <2>5
    <3> QED BY <3>1, <2>2
  <2> QED BY <2>1, <2>2, <2>3, <2>5
<1> QED BY <1>1, <1>2

\* Remounting a listed cell on routes that no other cell has is never refused.
LEMMA RemountsIfFree ==
    ASSUME NEW r \in Routers, NEW n \in r.mounted, NEW list \in Seq(Paths), Tidy(list),
           \A m \in r.mounted \ {n} : RoutesIn(list) \cap RoutesIn(r.routes[m]) = {}
    PROVE  Blocked(Unregister(r, n), list) = {}
<1> PICK s : s = Unregister(r, n)
  OBVIOUS
<1>1. n \in Names
  BY DEF Routers
<1>2. SUFFICES ASSUME NEW i \in DOMAIN list,
                      \/ s.owner[list[i]] # Nobody
                      \/ \E j \in DOMAIN list : j < i /\ list[j] = list[i]
               PROVE  FALSE
  BY DEF Blocked
<1>3. list[i] \in RoutesIn(list) /\ list[i] \in Paths
  BY DEF RoutesIn
<1>4. s.owner[list[i]] = Nobody
  BY <1>1, <1>3, UnregisterOthers
<1>5. PICK j \in DOMAIN list : j < i /\ list[j] = list[i]
  BY <1>2, <1>4
<1>6. i = j /\ i \in Nat
  BY <1>5 DEF Tidy
<1> QED BY <1>5, <1>6

-----------------------------------------------------------------------------
(* What the steps leave alone.                                               *)

\* What is said of a job alone does not change with the system.
LEMMA RigidJob ==
    ASSUME NEW j
    PROVE  /\ Registering(j)' <=> Registering(j)
           /\ Disturbed(j)' <=> Disturbed(j)
BY DEF Registering, Disturbed, Inserting

\* What is served, while nothing of it changes.
LEMMA Untouched ==
    ASSUME UNCHANGED <<records, modules, router>>
    PROVE  /\ \A m : Served(m)' <=> Served(m)
           /\ \A m, list : Free(m, list)' <=> Free(m, list)
           /\ \A j : Ready(j)' <=> Ready(j)
           /\ \A m : Active(records, m)' <=> Active(records, m)
<1>1. \A m : Active(records, m)' <=> Active(records, m)
  BY DEF Active
<1>2. \A m : Served(m)' <=> Served(m)
  BY DEF Served, Active
<1>3. \A m, list : Free(m, list)' <=> Free(m, list)
  BY DEF Free, RoutesIn
<1>4. \A j : Ready(j)' <=> Ready(j)
  BY DEF Ready
<1> QED BY <1>1, <1>2, <1>3, <1>4

\* A manifest stays sound while no file goes.
LEMMA StaysSound ==
    ASSUME NEW old, NEW new, old \subseteq new, NEW mf, Sound(mf, old)
    PROVE  Sound(mf, new)
BY DEF Sound

\* A manifest without records.
LEMMA EmptySound == \A stored : Sound(EmptyManifest, stored)
BY DEF Sound, EmptyManifest, NoRecord, Active, Tidy, RoutesIn

\* A step of the one worker that is busy.
LEMMA ServedStep ==
    ASSUME TypeOK, SyncInv, ServedInv, ~overlap, ~torn, UNCHANGED <<overlap, boot>>,
           NEW w \in Workers, ~Idle(w), NEW k, job' = [job EXCEPT ![w] = k],
           HandlesClosed' \/ (HandlesClosed /\ UNCHANGED handle),
           Sound(records', files'), Sound(disk'.holds, files'),
           disk'.state # "whole" => disk'.holds = EmptyManifest,
           \/ k = NoJob /\ \A m \in Names : Served(m)'
           \/ k # NoJob /\ TurnOK(k)'
    PROVE  ServedInv'
<1>1. \A v \in Workers : v # w => Idle(v)
  BY DEF SyncInv
<1>2. job'[w] = k /\ \A v \in Workers : v # w => job'[v] = NoJob
  BY <1>1 DEF TypeOK, Idle
<1>3. boot' = <<>>
  BY DEF ServedInv, BootOK, AllIdle
<1>6. HandlesClosed' /\ Sound(records', Stored') /\ Sound(disk'.holds, Stored')
  <2>1. HandlesClosed'
    BY DEF HandlesClosed
  <2>2. Stored' = files'
    BY <2>1 DEF HandlesClosed, Stored
  <2> QED BY <2>1, <2>2
<1>4. CASE k = NoJob /\ \A m \in Names : Served(m)'
  <2>1. \A v \in Workers : Idle(v)'
    BY <1>2, <1>4 DEF Idle
  <2> QED BY <1>3, <1>4, <1>6, <2>1 DEF ServedInv, HandlesClosed
<1>5. CASE k # NoJob /\ TurnOK(k)'
  <2>1. \A v \in Workers : ~Idle(v)' => v = w
    BY <1>2 DEF Idle
  <2>2. ~AllIdle'
    BY <1>2, <1>5 DEF AllIdle, Idle
  <2>3. TurnOK(job[w])'
    BY <1>2, <1>5 DEF TurnOK, Disturbed, Registering, Inserting, Ready, OnPlan
  <2> QED BY <1>3, <1>6, <2>1, <2>2, <2>3 DEF ServedInv, HandlesClosed
<1> QED BY <1>4, <1>5

-----------------------------------------------------------------------------
(* The steps that touch none of records, modules and routes.                 *)

\* The first step of a plan that only saves before inserting.
LEMMA InsertingHead ==
    ASSUME NEW pl \in Seq(Steps), pl # <<>>, Inserting(pl)
    PROVE  Head(pl) = "insert" \/ Head(pl) \in Saves
<1>1. PICK k \in 1 .. Len(pl) : pl[k] = "insert" /\ \A i \in 1 .. (k - 1) : pl[i] \in Saves
  BY DEF Inserting
<1>2. k = 1 \/ 1 \in 1 .. (k - 1)
  BY LenProperties
<1> QED BY <1>1, <1>2

\* What the busy worker knows at its step.
LEMMA Turn ==
    ASSUME IInv, SyncInv, ServedInv, ~overlap, ~torn, NEW w \in Workers, NEW s, At(w, s)
    PROVE  /\ ~Idle(w) /\ job[w] \in Jobs /\ job[w].plan # <<>> /\ job[w].name \in Names
           /\ PlanOK(job[w].plan) /\ Head(job[w].plan) = s /\ InStep(job[w])
           /\ TurnOK(job[w]) /\ Sound(records, Stored) /\ Sound(disk.holds, Stored)
           /\ s # "write" =>
                 HandlesClosed /\ Sound(records, files) /\ Sound(disk.holds, files)
           /\ disk.state # "whole" => disk.holds = EmptyManifest
           /\ Inserting(job[w].plan) => s = "insert" \/ s \in Saves
           /\ s \in Needy => job[w].rec \in Records
<1>1. /\ ~Idle(w) /\ job[w] \in Jobs /\ job[w].plan # <<>> /\ job[w].name \in Names
      /\ PlanOK(job[w].plan) /\ Head(job[w].plan) = s /\ InStep(job[w])
  BY InTurn
<1>2. job[w].plan \in Seq(Steps)
  BY <1>1 DEF Jobs
<1>3. Inserting(job[w].plan) => s = "insert" \/ s \in Saves
  BY <1>1, <1>2, InsertingHead
<1>4. s \in Needy => job[w].rec \in Records
  BY Working DEF IInv
<1>5. ASSUME s # "write"
      PROVE  HandlesClosed /\ Sound(records, files) /\ Sound(disk.holds, files)
  <2>1. \A v \in Workers : ~At(v, "write")
    BY <1>1, <1>5 DEF SyncInv, At
  <2>2. HandlesClosed
    BY <2>1 DEF ServedInv, HandlesClosed
  <2>3. Stored = files
    BY <2>2 DEF HandlesClosed, Stored
  <2> QED BY <2>2, <2>3 DEF ServedInv
<1> QED BY <1>1, <1>3, <1>4, <1>5 DEF ServedInv

\* The steps that touch neither records, modules nor routes.
Calm == {"fetch", "check", "write", "snapshot", "truncate", "flush"}

\* A step that touches neither records, modules nor the router.
LEMMA CalmTurn ==
    ASSUME IInv, SyncInv, ServedInv, ~overlap, ~torn, UNCHANGED <<records, modules, router>>,
           files \subseteq files', NEW w \in Workers, NEW s \in Calm, At(w, s),
           NEW j, j = job[w],
           NEW l \in Jobs, l.plan = j.plan, l.name = j.name, l.rec = j.rec,
           NEW k, k = Advance(l),
           s = "check" => \A p \in RoutesIn(j.rec.routes) : router.owner[p] \in {Nobody, j.name},
           s = "write" => <<j.name, j.rec.sha>> \in files'
    PROVE  \/ k = NoJob /\ \A m \in Names : Served(m)'
           \/ k # NoJob /\ TurnOK(k)'
<1>1. /\ j \in Jobs /\ j.plan # <<>> /\ j.name \in Names
      /\ PlanOK(j.plan) /\ Head(j.plan) = s /\ TurnOK(j)
      /\ Inserting(j.plan) => s \in Saves
  BY Turn DEF Calm
<1>2. /\ \A m : Served(m)' <=> Served(m)
      /\ \A m, list : Free(m, list)' <=> Free(m, list)
      /\ \A x : Ready(x)' <=> Ready(x)
      /\ \A m : Active(records, m)' <=> Active(records, m)
  BY Untouched
<1>3. CASE k = NoJob /\ s = "flush" /\ ~Inserting(j.plan)
  <2>1. Served(j.name)
    BY <1>1, <1>3 DEF TurnOK, Disturbed, Registering
  <2> QED BY <2>1, <1>1, <1>2, <1>3 DEF TurnOK
<1>4. CASE /\ k # NoJob /\ k \in Jobs /\ k.plan # <<>> /\ PlanOK(k.plan)
           /\ k.name = l.name /\ k.rec = l.rec /\ k.copy = l.copy
           /\ <<s, Head(k.plan)>> \in Follows
           /\ \A x : OnPlan(x, j.plan) <=> x = s \/ OnPlan(x, k.plan)
           /\ Inserting(j.plan) => Inserting(k.plan)
           /\ s \in Saves /\ Inserting(k.plan) => Inserting(j.plan)
  <2> DEFINE n == j.name
             g == Head(k.plan)
  <2>1. k.name = n /\ k.rec = j.rec
    BY <1>4
  <2>2. /\ s = "fetch" => g = "check"
        /\ s = "check" => g = "write"
        /\ s = "write" => g \in {"load", "snapshot"}
        /\ s \in Saves => g \in {"truncate", "flush", "snapshot", "insert", "erase", "lookup"}
    BY <1>4, Next2 DEF Saves
  <2>3. s \in {"fetch", "check", "write"} \/ s \in Saves
    BY DEF Calm, Saves
  <2> HIDE DEF g
  <2>4. \A m \in Names \ {n} : Served(m)'
    BY <1>1, <1>2 DEF TurnOK
  <2>5. (Disturbed(k) \/ Served(n))'
    <3>1. CASE Served(n)
      BY <3>1, <1>2
    <3>2. CASE ~Served(n)
      <4>1. Registering(j)
        BY <1>1, <3>2 DEF TurnOK, Disturbed, Calm
      <4>2. Registering(k)
        BY <4>1, <1>4 DEF Registering
      <4> QED BY <4>2 DEF Disturbed, Registering, Inserting
    <3> QED BY <3>1, <3>2
  <2>6. Tidy(j.rec.routes)
    BY <1>1 DEF TurnOK
  <2>7. g \in {"fetch", "check", "write"} => j.rec.status # "Active"
    BY <1>1, <2>2, <2>3 DEF TurnOK
  <2>8. Registering(k) => Ready(k)'
    <3> SUFFICES ASSUME Registering(k) PROVE Ready(k)'
      OBVIOUS
    <3>1. j.rec.status = "Active" /\ Inserting(k.plan)
      BY <2>1 DEF Registering
    <3>2. s \in Saves
      BY <3>1, <1>1, <2>3 DEF TurnOK
    <3>3. Registering(j)
      BY <3>1, <3>2, <1>4 DEF Registering
    <3>4. Ready(j)
      BY <3>3, <1>1 DEF TurnOK
    <3>5. Ready(k)
      BY <3>4, <2>1 DEF Ready
    <3> QED BY <3>5, <1>2
  <2>9. g # "mount"
    BY <2>2, <2>3
  <2>10. g \in {"write", "load"} /\ Active(records, n)' =>
             n \in router'.mounted /\ Free(n, j.rec.routes)'
    <3> SUFFICES ASSUME g \in {"write", "load"}, Active(records, n)
                 PROVE  n \in router.mounted /\ Free(n, j.rec.routes)
      BY <1>2
    <3>1. CASE s = "write"
      BY <3>1, <1>1 DEF TurnOK
    <3>2. CASE s = "check"
      <4>1. Served(n) /\ n \in router.mounted
        BY <1>1, <3>2 DEF TurnOK, Disturbed, Registering, Served, Saves
      <4>2. ASSUME NEW m \in router.mounted \ {n},
                   NEW p \in RoutesIn(j.rec.routes) \cap RoutesIn(router.routes[m])
            PROVE FALSE
        <5>1. router.owner[p] = m /\ m \in Names
          BY <4>2 DEF IInv, RoutesAgree, Agrees, TypeOK, Routers
        <5> QED BY <5>1, <4>2, <3>2, NobodyAssumption
      <4> QED BY <4>1, <4>2 DEF Free
    <3> QED BY <3>1, <3>2, <2>2, <2>3
  <2>11. g = "load" \/ Inserting(k.plan) => <<n, j.rec.sha>> \in files'
    <3>1. s = "write" => <<n, j.rec.sha>> \in files'
      OBVIOUS
    <3>2. g = "load" => s = "write"
      BY <2>2, <2>3
    <3>3. ASSUME Inserting(k.plan), s # "write" PROVE <<n, j.rec.sha>> \in files'
      <4>1. g \in Saves \/ g = "insert"
        BY <3>3, <1>4, InsertingHead DEF Jobs, g
      <4>2. s \in Saves
        BY <4>1, <3>3, <2>2, <2>3 DEF Saves
      <4>3. Inserting(j.plan)
        BY <4>2, <3>3, <1>4
      <4> QED BY <4>3, <1>1 DEF TurnOK
    <3> QED BY <3>1, <3>2, <3>3
  <2>12. OnPlan("erase", k.plan) /\ ~OnPlan("forget", k.plan) => records'[n] = NoRecord
    <3>1. s \notin {"erase", "forget"}
      BY DEF Calm
    <3> QED BY <3>1, <1>1, <1>4 DEF TurnOK
  <2> HIDE DEF n
  <2>13. TurnOK(k)'
    <3>1. k.name = n /\ j.rec = k.rec /\ Head(k.plan) = g
      BY <2>1 DEF g
    <3>2. Registering(k)' <=> Registering(k)
      BY RigidJob
    <3> QED BY <3>1, <3>2, <2>4, <2>5, <2>6, <2>7, <2>8, <2>9, <2>10, <2>11, <2>12
            DEF TurnOK, OnPlan, Inserting, Tidy
  <2> QED BY <2>13, <1>4
<1>5. j.plan \in Seq(Steps)
  BY <1>1 DEF Jobs
<1>6. s # "mount" /\ s # "insert"
  BY DEF Calm
<1> QED BY <1>1, <1>3, <1>4, <1>6, AdvanceKeepsPlan

\* A calm step keeps the invariant.
LEMMA ServedCalm ==
    ASSUME IInv, SyncInv, ServedInv, ~overlap, ~torn,
           UNCHANGED <<overlap, boot, records, modules, router>>,
           files \subseteq files', NEW w \in Workers, NEW s \in Calm, At(w, s),
           NEW l \in Jobs, l.plan = job[w].plan, l.name = job[w].name, l.rec = job[w].rec,
           Proceed(w, l),
           s = "check" => \A p \in RoutesIn(job[w].rec.routes) :
                              router.owner[p] \in {Nobody, job[w].name},
           s = "write" => <<job[w].name, job[w].rec.sha>> \in files',
           HandlesClosed' \/ (HandlesClosed /\ UNCHANGED handle), Sound(records, files'),
           Sound(disk'.holds, files'), disk'.state # "whole" => disk'.holds = EmptyManifest
    PROVE  ServedInv'
<1> PICK j : j = job[w]
  OBVIOUS
<1> PICK k : k = Advance(l)
  OBVIOUS
<1>1. \/ k = NoJob /\ \A m \in Names : Served(m)'
      \/ k # NoJob /\ TurnOK(k)'
  BY CalmTurn
<1>2. Sound(records', files')
  OBVIOUS
<1>3. job' = [job EXCEPT ![w] = k] /\ ~Idle(w) /\ TypeOK
  BY DEF Proceed, At, IInv
<1> QED BY <1>1, <1>2, <1>3, ServedStep

\* A refusal before anything was touched.
LEMMA ServedDropped ==
    ASSUME IInv, SyncInv, ServedInv, ~overlap, ~torn,
           UNCHANGED <<overlap, boot, records, modules, router, files, disk, handle>>,
           NEW w \in Workers, NEW s \in {"fetch", "check", "lookup"}, At(w, s),
           Return(w) \/ Reject(w)
    PROVE  ServedInv'
<1> PICK j : j = job[w]
  OBVIOUS
<1>1. /\ j \in Jobs /\ j.plan # <<>> /\ j.name \in Names /\ TurnOK(j) /\ Head(j.plan) = s
      /\ ~Inserting(j.plan) /\ Sound(records, files) /\ Sound(disk.holds, files)
      /\ HandlesClosed
      /\ disk.state # "whole" => disk.holds = EmptyManifest
  BY Turn DEF Saves
<1>2. \A m \in Names : Served(m)
  BY <1>1 DEF TurnOK, Disturbed, Registering
<1>3. \A m : Served(m)' <=> Served(m)
  BY Untouched
<1>4. Sound(records', files') /\ Sound(disk'.holds, files')
  BY <1>1, StaysSound
<1>5. TypeOK /\ ~Idle(w)
  BY DEF IInv, At
<1>6. CASE Return(w)
  BY <1>1, <1>2, <1>3, <1>4, <1>5, <1>6, ServedStep DEF Return
<1>7. CASE Reject(w)
  <2> PICK k : k = [j EXCEPT !.plan = SavePlan]
    OBVIOUS
  <2>1. /\ k.plan = SavePlan /\ k.name = j.name /\ k.rec = j.rec /\ k # NoJob
        /\ job' = [job EXCEPT ![w] = k]
    BY <1>1, <1>7, SavePlanSteps DEF Jobs, Reject, NoJob
  <2>2. /\ Head(k.plan) = "snapshot" /\ ~OnPlan("insert", k.plan) /\ ~OnPlan("erase", k.plan)
    BY <2>1, RequestPlansOK
  <2>3. ~Inserting(k.plan)
    BY <2>2 DEF Inserting, OnPlan
  <2>4. TurnOK(k)'
    BY <2>1, <2>2, <2>3, <1>1, <1>2, <1>3
       DEF TurnOK, Disturbed, Registering, Inserting, OnPlan, Tidy
  <2> QED BY <2>1, <2>4, <1>1, <1>4, <1>5, ServedStep
<1> QED BY <1>6, <1>7

LEMMA ServedFetch ==
    ASSUME IInv, SyncInv, ServedInv, ~overlap, ~torn, NEW w \in Workers, Fetch(w) PROVE ServedInv'
<1>1. /\ At(w, "fetch")
      /\ UNCHANGED <<overlap, boot, records, modules, router, files, disk, handle>>
      /\ Proceed(w, job[w]) \/ Reject(w) \/ Return(w)
  BY DEF Fetch, settings
<1>2. /\ job[w] \in Jobs /\ HandlesClosed /\ Sound(records, files) /\ Sound(disk.holds, files)
      /\ (disk.state # "whole" => disk.holds = EmptyManifest)
  BY <1>1, Turn
<1>3. Sound(records, files') /\ Sound(disk'.holds, files')
  BY <1>1, <1>2, StaysSound
<1> QED BY <1>1, <1>2, <1>3, ServedCalm, ServedDropped DEF Calm

LEMMA ServedCheck ==
    ASSUME IInv, SyncInv, ServedInv, ~overlap, ~torn, NEW w \in Workers, Check(w) PROVE ServedInv'
<1>1. /\ At(w, "check")
      /\ UNCHANGED <<overlap, boot, records, modules, router, files, disk, handle>>
      /\ \/ Reject(w) \/ Return(w)
         \/ /\ \A p \in RoutesIn(job[w].rec.routes) :
                  router.owner[p] \in {Nobody, job[w].name}
            /\ Proceed(w, job[w])
  BY DEF Check, settings
<1>2. /\ job[w] \in Jobs /\ HandlesClosed /\ Sound(records, files) /\ Sound(disk.holds, files)
      /\ (disk.state # "whole" => disk.holds = EmptyManifest)
  BY <1>1, Turn
<1>3. Sound(records, files') /\ Sound(disk'.holds, files')
  BY <1>1, <1>2, StaysSound
<1> QED BY <1>1, <1>2, <1>3, ServedCalm, ServedDropped DEF Calm

\* The one busy worker is all that can have a file open.
LEMMA OneHandle ==
    ASSUME IInv, SyncInv, ServedInv, ~overlap, ~torn, NEW w \in Workers, At(w, "write")
    PROVE  /\ \A v \in Workers : v # w => handle[v] = "closed"
           /\ handle[w] \in {"closed", "open"}
           /\ \A x \in Stored : x \in files \/ (handle[w] = "open" /\ x = Path(w))
<1>1. \A v \in Workers : v # w => ~At(v, "write")
  BY DEF SyncInv, At
<1>2. \A v \in Workers : v # w => handle[v] = "closed"
  BY <1>1 DEF ServedInv
<1>3. handle[w] \in {"closed", "open"}
  BY DEF ServedInv
<1> QED BY <1>2, <1>3 DEF Stored

\* What is emptied is being written.
LEMMA ServedOpenFile ==
    ASSUME IInv, SyncInv, ServedInv, ~overlap, ~torn, NEW w \in Workers, OpenFile(w)
    PROVE  ServedInv'
<1>1. /\ At(w, "write") /\ handle[w] = "closed"
      /\ UNCHANGED <<overlap, boot, records, modules, router, disk, job>>
      /\ files' = files \ {Path(w)}
      /\ handle' = [handle EXCEPT ![w] = "open"]
  BY DEF OpenFile, settings
<1>2. /\ ~Idle(w) /\ job[w] \in Jobs /\ job[w].plan # <<>> /\ Head(job[w].plan) = "write"
      /\ TurnOK(job[w]) /\ ~Inserting(job[w].plan)
      /\ Sound(records, Stored) /\ Sound(disk.holds, Stored)
      /\ disk.state # "whole" => disk.holds = EmptyManifest
  BY <1>1, Turn DEF Saves
<1>3. \A v \in Workers : v # w => handle[v] = "closed" /\ Idle(v)
  BY <1>1, OneHandle DEF SyncInv, At
<1>4. /\ handle'[w] = "open" /\ \A v \in Workers : v # w => handle'[v] = "closed"
      /\ At(w, "write")'
  BY <1>1, <1>3 DEF IInv, TypeOK, At, Idle
<1>5. Stored \subseteq Stored'
  <2>1. Path(w)' = Path(w) /\ Path(w) \in Stored'
    BY <1>1, <1>4 DEF Stored, Path
  <2>2. Stored \subseteq files \cup {Path(w)}
    BY <1>1, OneHandle
  <2>3. files' \subseteq Stored'
    BY DEF Stored
  <2> QED BY <1>1, <2>1, <2>2, <2>3
<1>6. Sound(records', Stored') /\ Sound(disk'.holds, Stored')
  BY <1>1, <1>2, <1>5, StaysSound
<1>7. TurnOK(job[w])'
  <2> PICK j : j = job[w]
    OBVIOUS
  <2>1. /\ \A m : Served(m)' <=> Served(m)
        /\ \A m, list : Free(m, list)' <=> Free(m, list)
        /\ \A x : Ready(x)' <=> Ready(x)
        /\ \A m : Active(records, m)' <=> Active(records, m)
    BY <1>1, Untouched
  <2>2. TurnOK(j)'
    BY <1>1, <1>2, <2>1, RigidJob DEF TurnOK, Inserting, OnPlan, Tidy
  <2> QED BY <1>1, <2>2 DEF TurnOK, Disturbed, Registering, Inserting, Ready, OnPlan
<1>8. boot' = <<>> /\ ~AllIdle' /\ \A v \in Workers : ~Idle(v)' => v = w
  BY <1>1, <1>2, <1>3 DEF ServedInv, BootOK, AllIdle, Idle
<1> QED BY <1>1, <1>2, <1>4, <1>6, <1>7, <1>8 DEF ServedInv

LEMMA ServedWriteFile ==
    ASSUME IInv, SyncInv, ServedInv, ~overlap, ~torn, NEW w \in Workers, WriteFile(w)
    PROVE  ServedInv'
<1>1. /\ At(w, "write") /\ handle[w] # "closed"
      /\ UNCHANGED <<overlap, boot, records, modules, router, disk>>
      /\ files' = IF handle[w] = "open" THEN files \cup {Path(w)} ELSE files
      /\ handle' = [handle EXCEPT ![w] = "closed"]
      /\ Proceed(w, job[w])
  BY DEF WriteFile, settings
<1>2. /\ job[w] \in Jobs /\ Sound(records, Stored) /\ Sound(disk.holds, Stored)
      /\ (disk.state # "whole" => disk.holds = EmptyManifest)
  BY <1>1, Turn
<1>3. files' = files \cup {Path(w)} /\ Stored \subseteq files'
  BY <1>1, OneHandle
<1>4. Sound(records, files') /\ Sound(disk'.holds, files')
  BY <1>1, <1>2, <1>3, StaysSound
<1>5. HandlesClosed'
  BY <1>1, OneHandle DEF HandlesClosed, IInv, TypeOK
<1>6. files \subseteq files' /\ <<job[w].name, job[w].rec.sha>> \in files'
  BY <1>3 DEF Path
<1> QED BY <1>1, <1>2, <1>4, <1>5, <1>6, ServedCalm DEF Calm

\* What is cut short is no Active cell's, or torn is set from now on.
LEMMA ServedFailToWrite ==
    ASSUME IInv, SyncInv, ServedInv, ~overlap, ~torn, NEW w \in Workers, FailToWrite(w)
    PROVE  ServedInv'
<1> SUFFICES ASSUME ~torn' PROVE ServedInv'
  BY DEF ServedInv
<1>1. /\ At(w, "write")
      /\ UNCHANGED <<overlap, boot, records, modules, router, disk, files>>
      /\ handle' = [handle EXCEPT ![w] = "closed"]
      /\ ~CutsShort(w, records) /\ job' = [job EXCEPT ![w] = NoJob]
  BY DEF FailToWrite, settings, Return
<1>2. /\ ~Idle(w) /\ job[w] \in Jobs /\ job[w].name \in Names
      /\ Head(job[w].plan) = "write" /\ TurnOK(job[w]) /\ ~Inserting(job[w].plan)
      /\ InStep(job[w]) /\ Sound(records, Stored) /\ Sound(disk.holds, Stored)
      /\ disk.state # "whole" => disk.holds = EmptyManifest
  BY <1>1, Turn DEF Saves
<1>3. HandlesClosed'
  BY <1>1, OneHandle DEF HandlesClosed, IInv, TypeOK
<1>4. ASSUME NEW mf, Sound(mf, Stored), ~CutsShort(w, mf) PROVE Sound(mf, files)
  <2>1. ASSUME NEW n \in Names, Active(mf, n) PROVE <<n, mf[n].sha>> \in files
    <3>1. <<n, mf[n].sha>> \in Stored
      BY <1>4, <2>1 DEF Sound
    <3>2. ~(handle[w] = "open" /\ <<n, mf[n].sha>> = Path(w))
      BY <1>4, <2>1 DEF CutsShort, Active, Path
    <3> QED BY <3>1, <3>2, <1>1, OneHandle
  <2> QED BY <1>4, <2>1 DEF Sound
<1>5. Sound(records, files)
  BY <1>1, <1>2, <1>4
<1>6. Sound(disk.holds, files)
  <2>1. disk.state = "whole" => disk.holds = records
    BY <1>2 DEF InStep, Reopened
  <2> QED BY <2>1, <1>2, <1>5, EmptySound
<1>7. \A m \in Names : Served(m)'
  <2>1. \A m \in Names : Served(m)
    BY <1>2 DEF TurnOK, Disturbed, Registering
  <2> QED BY <2>1, <1>1, Untouched
<1> QED BY <1>1, <1>2, <1>3, <1>5, <1>6, <1>7, ServedStep DEF IInv

LEMMA ServedSnapshot ==
    ASSUME IInv, SyncInv, ServedInv, ~overlap, ~torn, NEW w \in Workers, Snapshot(w) PROVE ServedInv'
<1> PICK l : l = [job[w] EXCEPT !.copy = records]
  OBVIOUS
<1>1. /\ At(w, "snapshot")
      /\ UNCHANGED <<overlap, boot, records, modules, router, files, disk, handle>>
      /\ Proceed(w, l)
  BY DEF Snapshot, settings
<1>2. /\ HandlesClosed /\ Sound(records, files) /\ Sound(disk.holds, files)
      /\ (disk.state # "whole" => disk.holds = EmptyManifest)
  BY <1>1, Turn
<1>3. Sound(records, files') /\ Sound(disk'.holds, files')
  BY <1>1, <1>2, StaysSound
<1>4. l \in Jobs /\ l.plan = job[w].plan /\ l.name = job[w].name /\ l.rec = job[w].rec
  BY DEF IInv, TypeOK, Jobs
<1> QED BY <1>1, <1>2, <1>3, <1>4, ServedCalm DEF Calm

LEMMA ServedTruncate ==
    ASSUME IInv, SyncInv, ServedInv, ~overlap, ~torn, NEW w \in Workers, Truncate(w) PROVE ServedInv'
<1>1. /\ At(w, "truncate")
      /\ UNCHANGED <<overlap, boot, records, modules, router, files, handle>>
      /\ disk'.holds = EmptyManifest
      /\ Proceed(w, job[w])
  BY DEF Truncate, settings
<1>2. job[w] \in Jobs /\ HandlesClosed /\ Sound(records, files)
  BY <1>1, Turn
<1>3. Sound(records, files') /\ Sound(disk'.holds, files')
  BY <1>1, <1>2, StaysSound, EmptySound
<1> QED BY <1>1, <1>2, <1>3, ServedCalm DEF Calm

LEMMA ServedFlush ==
    ASSUME IInv, SyncInv, ServedInv, ~overlap, ~torn, NEW w \in Workers, Flush(w) PROVE ServedInv'
<1> PICK l : l = [job[w] EXCEPT !.copy = EmptyManifest]
  OBVIOUS
<1>1. /\ At(w, "flush")
      /\ UNCHANGED <<overlap, boot, records, modules, router, files, handle>>
      /\ Proceed(w, l)
  BY DEF Flush, settings
<1>2. /\ InStep(job[w]) /\ Head(job[w].plan) = "flush"
      /\ HandlesClosed /\ Sound(records, files)
  BY <1>1, Turn
<1>3. job[w].copy = records /\ disk.state = "empty"
  BY <1>2 DEF InStep
<1>4. disk'.holds = records /\ disk'.state = "whole"
  BY <1>3 DEF Flush
<1>5. Sound(records, files') /\ Sound(disk'.holds, files')
  BY <1>1, <1>2, <1>4, StaysSound
<1>6. EmptyManifest \in Manifests
  BY DEF EmptyManifest, Manifests
<1>7. l \in Jobs /\ l.plan = job[w].plan /\ l.name = job[w].name /\ l.rec = job[w].rec
  BY <1>6 DEF IInv, TypeOK, Jobs
<1> QED BY <1>1, <1>2, <1>4, <1>5, <1>7, ServedCalm DEF Calm

-----------------------------------------------------------------------------
(* The steps that touch records, modules or routes.                          *)

\* A registration that collides mounts nothing.
LEMMA RegisterBlocked ==
    ASSUME NEW r, NEW n, NEW list, Blocked(r, list) # {}, NEW s, s = Register(r, n, list)
    PROVE  s.mounted = r.mounted /\ s.routes = r.routes
BY DEF Register

\* The router after a cell was mounted again: the others are where they were.
LEMMA Remounted ==
    ASSUME NEW r \in Routers, Agrees(r), NEW n \in Names, NEW list \in Seq(Paths),
           NEW c, c = Unregister(r, n), NEW s, s = Register(c, n, list)
    PROVE  /\ \A m \in Names \ {n} : /\ m \in s.mounted <=> m \in r.mounted
                                     /\ s.routes[m] = r.routes[m]
           /\ Blocked(c, list) = {} => n \in s.mounted /\ s.routes[n] = list
<1>1. c \in Routers
  BY UnregisterKeepsAgreement
<1>2. c.mounted = r.mounted \ {n} /\ \A m \in Names \ {n} : c.routes[m] = r.routes[m]
  BY UnregisterOthers
<1>3. CASE Blocked(c, list) = {}
  BY <1>1, <1>2, <1>3, RegisterFree
<1>4. CASE Blocked(c, list) # {}
  BY <1>2, <1>4, RegisterBlocked
<1> QED BY <1>3, <1>4

\* The other cells are served as before.
LEMMA OthersServed ==
    ASSUME NEW n, NEW m, m # n, Served(m), records'[m] = records[m], modules'[m] = modules[m],
           m \in router.mounted => m \in router'.mounted,
           router'.routes[m] = router.routes[m]
    PROVE  Served(m)'
BY DEF Served, Active

\* At its insert, a plan has only that left.
LEMMA InsertIsInserting ==
    ASSUME NEW pl \in Seq(Steps), pl # <<>>, Head(pl) = "insert"
    PROVE  Inserting(pl) /\ OnPlan("insert", pl)
<1>1. 1 \in 1 .. Len(pl) /\ pl[1] = "insert"
  BY LenProperties, EmptySeq
<1>2. 1 .. (1 - 1) = {}
  OBVIOUS
<1> QED BY <1>1, <1>2 DEF Inserting, OnPlan

\* Forgetting follows unmounting and unloading at the start of a plan.
LEMMA ErasesLast ==
    ASSUME NEW pl \in Seq(Steps), pl # <<>>, Linked(pl), Head(pl) = "erase"
    PROVE  OnPlan("erase", pl) /\ ~OnPlan("forget", pl)
<1> PICK n : n = Len(pl)
  OBVIOUS
<1>1. n \in Nat \ {0} /\ pl[1] = "erase"
  BY LenProperties, EmptySeq
<1>2. \A i \in 1 .. n : i # n => <<pl[i], pl[i + 1]>> \in Follows
  BY DEF Linked
<1>3. ASSUME NEW i \in 1 .. n, i # 1 PROVE i - 1 \in 1 .. n /\ <<pl[i - 1], pl[i]>> \in Follows
  <2>1. i - 1 \in 1 .. n /\ i - 1 # n /\ (i - 1) + 1 = i
    BY <1>1, <1>3
  <2> QED BY <2>1, <1>2
<1>4. \A i \in 1 .. n : pl[i] # "unmount"
  BY <1>1, <1>3 DEF Follows
<1>5. ASSUME NEW i \in 1 .. n, pl[i] = "unload" PROVE FALSE
  <2>1. i # 1
    BY <1>1, <1>5
  <2>2. i - 1 \in 1 .. n /\ pl[i - 1] = "unmount"
    BY <2>1, <1>3, <1>5 DEF Follows
  <2> QED BY <2>2, <1>4
<1>6. ASSUME NEW i \in 1 .. n, pl[i] = "forget" PROVE FALSE
  <2>1. i # 1
    BY <1>1, <1>6
  <2>2. i - 1 \in 1 .. n /\ pl[i - 1] = "unload"
    BY <2>1, <1>3, <1>6 DEF Follows
  <2> QED BY <2>2, <1>5
<1>7. 1 \in 1 .. n
  BY <1>1
<1> QED BY <1>1, <1>6, <1>7 DEF OnPlan

\* A cell that is mounted has a route no other mounted cell has.
LEMMA Disjoint ==
    ASSUME IInv, NEW m \in router.mounted, NEW n \in router.mounted, m # n
    PROVE  RoutesIn(router.routes[m]) \cap RoutesIn(router.routes[n]) = {}
BY DEF IInv, RoutesAgree, Agrees

\* What a worker has left, k, when it has taken the step h of a plan that goes on;
\* it took it with the locals l.
After(plan, h, l, k) ==
    /\ k # NoJob /\ k \in Jobs /\ k.plan # <<>> /\ PlanOK(k.plan)
    /\ k.name = l.name /\ k.rec = l.rec
    /\ <<h, Head(k.plan)>> \in Follows
    /\ \A s : OnPlan(s, plan) <=> s = h \/ OnPlan(s, k.plan)
    /\ h = "mount" => Inserting(k.plan)
    /\ Inserting(k.plan) => OnPlan("insert", plan)

\* The step is known, and it is not the last of the plan.
LEMMA AdvanceAt ==
    ASSUME NEW j \in Jobs, j.plan # <<>>, PlanOK(j.plan), NEW l \in Jobs, l.plan = j.plan,
           NEW k, k = Advance(l), NEW h, h = Head(j.plan), h # "flush"
    PROVE  After(j.plan, h, l, k)
BY AdvanceKeepsPlan DEF After

\* The parts of a worker's invariant after a step.
LEMMA TurnFrom ==
    ASSUME NEW k, NEW n, NEW r, NEW g, k.name = n, k.rec = r, Head(k.plan) = g,
           \A m \in Names \ {n} : Served(m)',
           Disturbed(k) \/ Served(n)',
           Tidy(r.routes),
           g \in {"fetch", "check", "write"} => r.status # "Active",
           Registering(k) => Ready(k)',
           g = "mount" => modules'[n] = r.sha,
           g \in {"write", "load", "mount"} /\ Active(records, n)' =>
               n \in router'.mounted /\ Free(n, r.routes)',
           g \in {"load", "mount"} \/ Inserting(k.plan) => <<n, r.sha>> \in files',
           OnPlan("erase", k.plan) /\ ~OnPlan("forget", k.plan) => records'[n] = NoRecord
    PROVE  TurnOK(k)'
<1>1. (Registering(k)' <=> Registering(k)) /\ (Disturbed(k)' <=> Disturbed(k))
  BY RigidJob
<1> QED BY <1>1 DEF TurnOK, OnPlan, Inserting, Tidy

\* What is said of the others' routes, while the router does not change.
LEMMA ListingUntouched ==
    ASSUME UNCHANGED <<records, router>>
    PROVE  /\ \A m, list : Free(m, list)' <=> Free(m, list)
           /\ \A m : Active(records, m)' <=> Active(records, m)
BY DEF Free, RoutesIn, Active

LEMMA ServedLookup ==
    ASSUME IInv, SyncInv, ServedInv, ~overlap, ~torn, NEW w \in Workers, Lookup(w) PROVE ServedInv'
<1>j. PICK j : j = job[w]
  OBVIOUS
<1>n. PICK n : n = j.name
  OBVIOUS
<1>r. PICK r : r = records[n]
  OBVIOUS
<1>l. PICK l : l = [j EXCEPT !.rec = r]
  OBVIOUS
<1>k. PICK k : k = Advance(l)
  OBVIOUS
<1>1. /\ At(w, "lookup")
      /\ UNCHANGED <<overlap, boot, records, modules, router, files, disk, handle>>
      /\ \/ <<n, r.sha>> \in files /\ Proceed(w, l)
         \/ Return(w)
  BY <1>j, <1>n, <1>r, <1>l DEF Lookup, settings
<1>2. /\ j \in Jobs /\ j.plan # <<>> /\ n \in Names /\ TurnOK(j) /\ Head(j.plan) = "lookup"
      /\ PlanOK(j.plan) /\ ~Inserting(j.plan) /\ HandlesClosed /\ Sound(records, files)
      /\ Sound(disk.holds, files)
      /\ disk.state # "whole" => disk.holds = EmptyManifest
  BY <1>j, <1>n, <1>1, Turn DEF Saves
<1>3. CASE Return(w)
  BY <1>j, <1>1, <1>3, ServedDropped
<1>4. CASE <<n, r.sha>> \in files /\ Proceed(w, l)
  <2>1. l \in Jobs /\ l.plan = j.plan /\ l.name = n /\ l.rec = r
    BY <1>n, <1>r, <1>l, <1>2, RecordIsDraft DEF IInv, Jobs
  <2>2. /\ k # NoJob /\ k \in Jobs /\ k.plan # <<>> /\ PlanOK(k.plan)
        /\ k.name = n /\ k.rec = r
        /\ <<"lookup", Head(k.plan)>> \in Follows
        /\ \A s : OnPlan(s, j.plan) <=> s = "lookup" \/ OnPlan(s, k.plan)
    <3>1. After(j.plan, "lookup", l, k)
      BY <1>2, <2>1, <1>k, <1>n, AdvanceAt
    <3> QED BY <3>1, <1>2, <2>1, <1>k, <1>n DEF After
  <2>3. Head(k.plan) = "load"
    BY <2>2, Next2
  <2>4. ~Inserting(k.plan)
    BY <2>2, <2>3, InsertingHead DEF Jobs, Saves
  <2>5. \A m \in Names : Served(m)
    BY <1>2 DEF TurnOK, Disturbed, Registering
  <2>6. Active(records, n) => n \in router.mounted /\ Free(n, r.routes)
    <3> SUFFICES ASSUME Active(records, n) PROVE n \in router.mounted /\ Free(n, r.routes)
      OBVIOUS
    <3>1. n \in router.mounted /\ router.routes[n] = r.routes
      BY <1>n, <1>r, <1>2, <2>5 DEF Served
    <3> QED BY <3>1, Disjoint DEF Free
  <2>7. Tidy(r.routes)
    BY <1>n, <1>r, <1>2 DEF Sound
  <2>8. OnPlan("erase", k.plan) /\ ~OnPlan("forget", k.plan) => records[n] = NoRecord
    BY <1>n, <1>r, <1>2, <2>2 DEF TurnOK
  <2>9. /\ \A m : Served(m)' <=> Served(m)
        /\ Free(n, r.routes)' <=> Free(n, r.routes)
        /\ Active(records, n)' <=> Active(records, n)
    BY <1>1, Untouched
  <2>10. TurnOK(k)'
    <3>1. /\ \A m \in Names : Served(m)'
          /\ Active(records, n)' => n \in router'.mounted /\ Free(n, r.routes)'
          /\ <<n, r.sha>> \in files'
          /\ OnPlan("erase", k.plan) /\ ~OnPlan("forget", k.plan) => records'[n] = NoRecord
      BY <1>1, <1>4, <2>5, <2>6, <2>8, <2>9
    <3>2. ~Registering(k)
      BY <2>4 DEF Registering
    <3> QED BY <3>1, <3>2, <1>2, <2>2, <2>3, <2>4, <2>7, TurnFrom
  <2> QED BY <1>1, <1>2, <1>4, <2>2, <2>10, <1>j, <1>k, ServedStep DEF Proceed, At, IInv
<1> QED BY <1>1, <1>3, <1>4

LEMMA ServedLoad ==
    ASSUME IInv, SyncInv, ServedInv, ~overlap, ~torn, NEW w \in Workers, Load(w) PROVE ServedInv'
<1>j. PICK j : j = job[w]
  OBVIOUS
<1>n. PICK n : n = j.name
  OBVIOUS
<1>k. PICK k : k = Advance(j)
  OBVIOUS
<1>1. /\ At(w, "load")
      /\ UNCHANGED <<overlap, boot, records, router, files, disk, handle>>
      /\ modules' = [modules EXCEPT ![n] = j.rec.sha]
      /\ Proceed(w, j)
  BY <1>j, <1>n DEF Load, settings
<1>2. /\ j \in Jobs /\ j.plan # <<>> /\ n \in Names /\ TurnOK(j) /\ Head(j.plan) = "load"
      /\ PlanOK(j.plan) /\ Sound(records, files) /\ Sound(disk.holds, files)
      /\ HandlesClosed
      /\ disk.state # "whole" => disk.holds = EmptyManifest
  BY <1>j, <1>n, <1>1, Turn
<1>3. /\ k # NoJob /\ k \in Jobs /\ k.plan # <<>> /\ PlanOK(k.plan)
      /\ k.name = n /\ k.rec = j.rec
      /\ <<"load", Head(k.plan)>> \in Follows
      /\ \A s : OnPlan(s, j.plan) <=> s = "load" \/ OnPlan(s, k.plan)
  <2>1. After(j.plan, "load", j, k)
    BY <1>2, <1>k, <1>n, AdvanceAt
  <2> QED BY <2>1, <1>2, <1>k, <1>n DEF After
<1>4. Head(k.plan) = "mount"
  BY <1>3, Next2
<1>5. ~Inserting(k.plan)
  BY <1>3, <1>4, InsertingHead DEF Jobs, Saves
<1>6. modules'[n] = j.rec.sha /\ \A m \in Names \ {n} : modules'[m] = modules[m]
  BY <1>1, <1>2 DEF IInv, TypeOK
<1>7. \A m \in Names \ {n} : Served(m)'
  BY <1>n, <1>1, <1>2, <1>6, OthersServed DEF TurnOK
<1>8. Active(records, n)' => (n \in router.mounted /\ Free(n, j.rec.routes))'
  BY <1>n, <1>1, <1>2, ListingUntouched DEF TurnOK
<1>9. OnPlan("erase", k.plan) /\ ~OnPlan("forget", k.plan) => records[n] = NoRecord
  BY <1>n, <1>2, <1>3 DEF TurnOK
<1>10. <<n, j.rec.sha>> \in files /\ Tidy(j.rec.routes)
  BY <1>n, <1>2 DEF TurnOK
<1>11. TurnOK(k)'
  BY <1>1, <1>3, <1>4, <1>5, <1>6, <1>7, <1>8, <1>9, <1>10, TurnFrom
       DEF Disturbed, Registering
<1> QED BY <1>1, <1>2, <1>3, <1>11, <1>j, <1>k, ServedStep DEF Proceed, At, IInv

LEMMA ServedMount ==
    ASSUME IInv, SyncInv, ServedInv, ~overlap, ~torn, NEW w \in Workers, Mount(w) PROVE ServedInv'
<1>j. PICK j : j = job[w]
  OBVIOUS
<1>n. PICK n : n = j.name
  OBVIOUS
<1>r. PICK r : r = [j.rec EXCEPT !.status = "Active"]
  OBVIOUS
<1>l. PICK l : l = [j EXCEPT !.rec = r]
  OBVIOUS
<1>k. PICK k : k = Advance(l)
  OBVIOUS
<1>c. PICK c : c = Unregister(router, n)
  OBVIOUS
<1>i. PICK list : list = j.rec.routes
  OBVIOUS
<1>1. /\ At(w, "mount")
      /\ UNCHANGED <<overlap, boot, records, modules, files, disk, handle>>
      /\ router' = Register(c, n, list)
      /\ IF Blocked(c, list) = {} THEN Proceed(w, l) ELSE Return(w)
  BY <1>j, <1>n, <1>r, <1>l, <1>c, <1>i DEF Mount, settings
<1>2. /\ j \in Jobs /\ j.plan # <<>> /\ n \in Names /\ TurnOK(j) /\ Head(j.plan) = "mount"
      /\ PlanOK(j.plan) /\ Sound(records, files) /\ Sound(disk.holds, files)
      /\ HandlesClosed
      /\ disk.state # "whole" => disk.holds = EmptyManifest
      /\ j.rec \in Records
  BY <1>j, <1>n, <1>1, Turn DEF Needy
<1>3. list \in Seq(Paths) /\ router \in Routers /\ Agrees(router)
  BY <1>n, <1>i, <1>2 DEF Records, IInv, TypeOK, RoutesAgree
<1>4. /\ \A m \in Names \ {n} : /\ m \in router'.mounted <=> m \in router.mounted
                                /\ router'.routes[m] = router.routes[m]
      /\ Blocked(c, list) = {} => n \in router'.mounted /\ router'.routes[n] = list
  BY <1>n, <1>r, <1>i, <1>c, <1>1, <1>2, <1>3, Remounted
<1>5. \A m \in Names \ {n} : Served(m)'
  BY <1>n, <1>i, <1>1, <1>2, <1>4, OthersServed DEF TurnOK
<1>6. CASE Blocked(c, list) # {} /\ Return(w)
  <2>1. ~Active(records, n)
    <3> SUFFICES ASSUME Active(records, n) PROVE FALSE
      OBVIOUS
    <3>1. n \in router.mounted /\ Free(n, list) /\ Tidy(list)
      BY <1>n, <1>i, <1>2 DEF TurnOK
    <3> QED BY <1>n, <1>r, <1>i, <1>c, <3>1, <1>3, <1>6, RemountsIfFree DEF Free
  <2>2. Served(n)'
    BY <2>1, <1>1 DEF Served, Active
  <2> QED BY <1>1, <1>2, <1>5, <1>6, <2>2, ServedStep DEF Return, At, IInv
<1>7. CASE Blocked(c, list) = {} /\ Proceed(w, l)
  <2>1. /\ r \in Drafts /\ r.status = "Active" /\ r.sha = j.rec.sha /\ r.routes = list
    BY <1>n, <1>r, <1>i, <1>c, <1>2 DEF Records, Drafts
  <2>2. l \in Jobs /\ l.plan = j.plan /\ l.name = n /\ l.rec = r
    BY <1>n, <1>l, <1>2, <2>1 DEF Jobs
  <2>3. /\ k # NoJob /\ k \in Jobs /\ k.plan # <<>> /\ PlanOK(k.plan)
        /\ k.name = n /\ k.rec = r /\ Inserting(k.plan)
        /\ <<"mount", Head(k.plan)>> \in Follows
        /\ \A s : OnPlan(s, j.plan) <=> s = "mount" \/ OnPlan(s, k.plan)
    <3>1. After(j.plan, "mount", l, k)
      BY <1>2, <1>k, <2>2, AdvanceAt
    <3> QED BY <3>1, <2>2 DEF After
  <2>4. Head(k.plan) \in {"snapshot", "insert"}
    BY <2>3, Next2
  <2>5. Ready(k)'
    <3>1. modules'[n] = r.sha
      BY <1>n, <1>i, <1>1, <1>2, <2>1 DEF TurnOK
    <3>2. n \in router'.mounted /\ router'.routes[n] = r.routes
      BY <1>4, <1>7, <2>1
    <3> QED BY <3>1, <3>2, <2>3 DEF Ready
  <2>6. OnPlan("erase", k.plan) /\ ~OnPlan("forget", k.plan) => records[n] = NoRecord
    BY <1>n, <1>i, <1>2, <2>3 DEF TurnOK
  <2>7. <<n, r.sha>> \in files /\ Tidy(r.routes)
    BY <1>n, <1>i, <1>2, <2>1 DEF TurnOK
  <2>8. TurnOK(k)'
    BY <1>1, <1>5, <2>1, <2>3, <2>4, <2>5, <2>6, <2>7, TurnFrom
       DEF Disturbed, Registering
  <2> QED BY <1>1, <1>2, <1>7, <2>3, <2>8, <1>j, <1>k, ServedStep DEF Proceed, At, IInv
<1> QED BY <1>1, <1>6, <1>7

\* A record that turns Active is served already, so it has routes of its own.
LEMMA ServedInsert ==
    ASSUME IInv, SyncInv, ServedInv, ~overlap, ~torn, NEW w \in Workers, Insert(w) PROVE ServedInv'
<1>j. PICK j : j = job[w]
  OBVIOUS
<1>n. PICK n : n = j.name
  OBVIOUS
<1>r. PICK r : r = j.rec
  OBVIOUS
<1>k. PICK k : k = Advance(j)
  OBVIOUS
<1>1. /\ At(w, "insert")
      /\ UNCHANGED <<overlap, boot, modules, router, files, disk, handle>>
      /\ records' = [records EXCEPT ![n] = r]
      /\ Proceed(w, j)
  BY <1>j, <1>n, <1>r DEF Insert, settings
<1>2. /\ j \in Jobs /\ j.plan # <<>> /\ n \in Names /\ TurnOK(j) /\ Head(j.plan) = "insert"
      /\ PlanOK(j.plan) /\ Sound(records, files) /\ Sound(disk.holds, files)
      /\ HandlesClosed
      /\ disk.state # "whole" => disk.holds = EmptyManifest
  BY <1>j, <1>n, <1>1, Turn
<1>3. Inserting(j.plan) /\ OnPlan("insert", j.plan)
  BY <1>2, InsertIsInserting DEF Jobs
<1>4. /\ k # NoJob /\ k \in Jobs /\ k.plan # <<>> /\ PlanOK(k.plan)
      /\ k.name = n /\ k.rec = r
      /\ <<"insert", Head(k.plan)>> \in Follows
      /\ \A s : OnPlan(s, j.plan) <=> s = "insert" \/ OnPlan(s, k.plan)
  <2>1. After(j.plan, "insert", j, k)
    BY <1>n, <1>r, <1>k, <1>2, AdvanceAt
  <2> QED BY <2>1, <1>n, <1>r, <1>k, <1>2 DEF After
<1>5. Head(k.plan) = "snapshot"
  BY <1>4, Next2
<1>6. records'[n] = r /\ \A m \in Names \ {n} : records'[m] = records[m]
  BY <1>1, <1>2 DEF IInv, TypeOK, Manifests
<1>7. /\ r.status = "Active" => /\ modules[n] = r.sha /\ n \in router.mounted
                                /\ router.routes[n] = r.routes
      /\ <<n, r.sha>> \in files /\ Tidy(r.routes)
  BY <1>n, <1>r, <1>2, <1>3 DEF TurnOK, Registering, Ready
<1>8. Served(n)'
  BY <1>1, <1>6, <1>7 DEF Served, Active
<1>9. \A m \in Names \ {n} : Served(m)'
  <2>1. \A m \in Names \ {n} : Served(m)
    BY <1>2, <1>n DEF TurnOK
  <2> QED BY <2>1, <1>1, <1>6, OthersServed
<1>10. Sound(records', files')
  <2>1. \A m \in Names : Tidy(records'[m].routes)
    BY <1>2, <1>6, <1>7 DEF Sound
  <2>2. \A m \in Names : Active(records', m) => <<m, records'[m].sha>> \in files'
    BY <1>1, <1>2, <1>6, <1>7 DEF Sound, Active
  <2>3. ASSUME NEW x \in Names, NEW y \in Names, Active(records', x), Active(records', y), x # y
        PROVE  RoutesIn(records'[x].routes) \cap RoutesIn(records'[y].routes) = {}
    <3>1. \A m \in Names : Active(records', m) =>
              m \in router.mounted /\ router.routes[m] = records'[m].routes
      BY <1>1, <1>8, <1>9 DEF Served, Active
    <3> QED BY <2>3, <3>1, Disjoint
  <2> QED BY <2>1, <2>2, <2>3 DEF Sound
<1>11. Registering(k) => Ready(k)'
  BY <1>1, <1>4, <1>7 DEF Registering, Ready
<1>12. ~OnPlan("erase", k.plan)
  BY <1>2, <1>3, <1>4 DEF PlanOK, OneKind
<1>13. TurnOK(k)'
  BY <1>1, <1>4, <1>5, <1>7, <1>8, <1>9, <1>11, <1>12, TurnFrom
<1> QED BY <1>1, <1>2, <1>4, <1>10, <1>13, <1>j, <1>k, ServedStep DEF Proceed, At, IInv

LEMMA ServedUnmount ==
    ASSUME IInv, SyncInv, ServedInv, ~overlap, ~torn, NEW w \in Workers, Unmount(w) PROVE ServedInv'
<1>j. PICK j : j = job[w]
  OBVIOUS
<1>n. PICK n : n = j.name
  OBVIOUS
<1>r. PICK r : r = j.rec
  OBVIOUS
<1>k. PICK k : k = Advance(j)
  OBVIOUS
<1>1. /\ At(w, "unmount")
      /\ UNCHANGED <<overlap, boot, records, modules, files, disk, handle>>
      /\ router' = Unregister(router, n)
      /\ Proceed(w, j)
  BY <1>j, <1>n DEF Unmount, settings
<1>2. /\ j \in Jobs /\ j.plan # <<>> /\ n \in Names /\ TurnOK(j) /\ Head(j.plan) = "unmount"
      /\ PlanOK(j.plan) /\ Sound(records, files) /\ Sound(disk.holds, files)
      /\ HandlesClosed
      /\ disk.state # "whole" => disk.holds = EmptyManifest
  BY <1>j, <1>n, <1>1, Turn
<1>3. /\ k # NoJob /\ k \in Jobs /\ k.plan # <<>> /\ PlanOK(k.plan)
      /\ k.name = n /\ k.rec = r
      /\ <<"unmount", Head(k.plan)>> \in Follows
      /\ \A s : OnPlan(s, j.plan) <=> s = "unmount" \/ OnPlan(s, k.plan)
  <2>1. After(j.plan, "unmount", j, k)
    BY <1>n, <1>r, <1>k, <1>2, AdvanceAt
  <2> QED BY <2>1, <1>n, <1>r, <1>k, <1>2 DEF After
<1>4. Head(k.plan) = "unload"
  BY <1>3, Next2
<1>5. ~Inserting(k.plan)
  BY <1>3, <1>4, InsertingHead DEF Jobs, Saves
<1>6. \A m \in Names \ {n} : Served(m)'
  <2>1. \A m \in Names \ {n} : Served(m)
    BY <1>2, <1>n DEF TurnOK
  <2>2. router \in Routers
    BY DEF IInv, TypeOK
  <2>3. /\ router'.mounted = router.mounted \ {n}
        /\ \A m \in Names \ {n} : router'.routes[m] = router.routes[m]
    BY <1>1, <1>2, <2>2, UnregisterOthers
  <2> QED BY <2>1, <2>3, <1>1, OthersServed
<1>7. OnPlan("erase", k.plan) /\ ~OnPlan("forget", k.plan) => records'[n] = NoRecord
  BY <1>n, <1>1, <1>2, <1>3 DEF TurnOK
<1>8. Tidy(r.routes)
  BY <1>r, <1>2 DEF TurnOK
<1>9. ~Registering(k) /\ Disturbed(k)
  BY <1>4, <1>5 DEF Registering, Disturbed
<1>10. TurnOK(k)'
  BY <1>3, <1>4, <1>5, <1>6, <1>7, <1>8, <1>9, TurnFrom
<1> QED BY <1>1, <1>2, <1>3, <1>10, <1>j, <1>k, ServedStep DEF Proceed, At, IInv

LEMMA ServedUnload ==
    ASSUME IInv, SyncInv, ServedInv, ~overlap, ~torn, NEW w \in Workers, Unload(w) PROVE ServedInv'
<1>j. PICK j : j = job[w]
  OBVIOUS
<1>n. PICK n : n = j.name
  OBVIOUS
<1>r. PICK r : r = j.rec
  OBVIOUS
<1>k. PICK k : k = Advance(j)
  OBVIOUS
<1>1. /\ At(w, "unload")
      /\ UNCHANGED <<overlap, boot, records, router, files, disk, handle>>
      /\ modules' = [modules EXCEPT ![n] = NoSha]
      /\ Proceed(w, j)
  BY <1>j, <1>n DEF Unload, settings
<1>2. /\ j \in Jobs /\ j.plan # <<>> /\ n \in Names /\ TurnOK(j) /\ Head(j.plan) = "unload"
      /\ PlanOK(j.plan) /\ Sound(records, files) /\ Sound(disk.holds, files)
      /\ HandlesClosed
      /\ disk.state # "whole" => disk.holds = EmptyManifest
  BY <1>j, <1>n, <1>1, Turn
<1>3. /\ k # NoJob /\ k \in Jobs /\ k.plan # <<>> /\ PlanOK(k.plan)
      /\ k.name = n /\ k.rec = r
      /\ <<"unload", Head(k.plan)>> \in Follows
      /\ \A s : OnPlan(s, j.plan) <=> s = "unload" \/ OnPlan(s, k.plan)
  <2>1. After(j.plan, "unload", j, k)
    BY <1>n, <1>r, <1>k, <1>2, AdvanceAt
  <2> QED BY <2>1, <1>n, <1>r, <1>k, <1>2 DEF After
<1>4. Head(k.plan) = "forget"
  BY <1>3, Next2
<1>5. ~Inserting(k.plan)
  BY <1>3, <1>4, InsertingHead DEF Jobs, Saves
<1>6. \A m \in Names \ {n} : Served(m)'
  <2>1. \A m \in Names \ {n} : Served(m)
    BY <1>2, <1>n DEF TurnOK
  <2>2. \A m \in Names \ {n} : modules'[m] = modules[m]
    BY <1>1 DEF IInv, TypeOK
  <2> QED BY <2>1, <2>2, <1>1, OthersServed
<1>7. OnPlan("erase", k.plan) /\ ~OnPlan("forget", k.plan) => records'[n] = NoRecord
  BY <1>n, <1>1, <1>2, <1>3 DEF TurnOK
<1>8. Tidy(r.routes)
  BY <1>r, <1>2 DEF TurnOK
<1>9. ~Registering(k) /\ Disturbed(k)
  BY <1>4, <1>5 DEF Registering, Disturbed
<1>10. TurnOK(k)'
  BY <1>3, <1>4, <1>5, <1>6, <1>7, <1>8, <1>9, TurnFrom
<1> QED BY <1>1, <1>2, <1>3, <1>10, <1>j, <1>k, ServedStep DEF Proceed, At, IInv

\* Without its record a cell need not be served.
LEMMA ServedForget ==
    ASSUME IInv, SyncInv, ServedInv, ~overlap, ~torn, NEW w \in Workers, Forget(w) PROVE ServedInv'
<1>j. PICK j : j = job[w]
  OBVIOUS
<1>n. PICK n : n = j.name
  OBVIOUS
<1>r. PICK r : r = records[n]
  OBVIOUS
<1>l. PICK l : l = [j EXCEPT !.rec = r]
  OBVIOUS
<1>k. PICK k : k = Advance(l)
  OBVIOUS
<1>1. /\ At(w, "forget")
      /\ UNCHANGED <<overlap, boot, modules, router, files, disk, handle>>
      /\ records' = [records EXCEPT ![n] = NoRecord]
      /\ Return(w) \/ Proceed(w, l)
  BY <1>j, <1>n, <1>r, <1>l DEF Forget, settings
<1>2. /\ j \in Jobs /\ j.plan # <<>> /\ n \in Names /\ TurnOK(j) /\ Head(j.plan) = "forget"
      /\ PlanOK(j.plan) /\ Sound(records, files) /\ Sound(disk.holds, files)
      /\ HandlesClosed
      /\ disk.state # "whole" => disk.holds = EmptyManifest
  BY <1>j, <1>n, <1>1, Turn
<1>3. records'[n] = NoRecord /\ \A m \in Names \ {n} : records'[m] = records[m]
  BY <1>1, <1>2 DEF IInv, TypeOK, Manifests
<1>4. \A m \in Names : Served(m)'
  <2>1. \A m \in Names \ {n} : Served(m)
    BY <1>2, <1>n DEF TurnOK
  <2>2. \A m \in Names \ {n} : Served(m)'
    BY <2>1, <1>1, <1>3, OthersServed
  <2>3. Served(n)'
    BY <1>3 DEF Served, Active, NoRecord
  <2> QED BY <2>2, <2>3
<1>5. Sound(records', files')
  <2>1. NoRecord.routes = <<>> /\ NoRecord.status # "Active"
    BY DEF NoRecord
  <2>2. \A m \in Names : Active(records', m) => m # n /\ Active(records, m)
    BY <2>1, <1>3 DEF Active
  <2>3. \A m \in Names : Tidy(records'[m].routes)
    BY <2>1, <1>2, <1>3 DEF Sound, Tidy
  <2>4. \A m \in Names : Active(records', m) => <<m, records'[m].sha>> \in files'
    BY <1>1, <1>2, <1>3, <2>2 DEF Sound
  <2>5. ASSUME NEW x \in Names, NEW y \in Names, Active(records', x), Active(records', y), x # y
        PROVE  RoutesIn(records'[x].routes) \cap RoutesIn(records'[y].routes) = {}
    <3>1. /\ x # n /\ y # n /\ Active(records, x) /\ Active(records, y)
          /\ records'[x] = records[x] /\ records'[y] = records[y]
      BY <1>3, <2>2, <2>5
    <3> QED BY <3>1, <1>2, <2>5 DEF Sound
  <2> QED BY <2>3, <2>4, <2>5 DEF Sound
<1>6. CASE Return(w)
  BY <1>1, <1>2, <1>4, <1>5, <1>6, ServedStep DEF Return, At, IInv
<1>7. CASE Proceed(w, l)
  <2>1. l \in Jobs /\ l.plan = j.plan /\ l.name = n /\ l.rec = r
    BY <1>n, <1>r, <1>l, <1>2, RecordIsDraft DEF IInv, Jobs
  <2>2. /\ k # NoJob /\ k \in Jobs /\ k.plan # <<>> /\ PlanOK(k.plan)
        /\ k.name = n /\ k.rec = r
        /\ <<"forget", Head(k.plan)>> \in Follows
        /\ \A s : OnPlan(s, j.plan) <=> s = "forget" \/ OnPlan(s, k.plan)
        /\ Inserting(k.plan) => OnPlan("insert", j.plan)
    <3>1. After(j.plan, "forget", l, k)
      BY <1>2, <1>k, <2>1, AdvanceAt
    <3> QED BY <3>1, <2>1 DEF After
  <2>3. Head(k.plan) = "snapshot"
    BY <2>2, Next2
  <2>4. ~Inserting(k.plan)
    BY <1>2, <2>2 DEF PlanOK, OneKind
  <2>5. Tidy(r.routes)
    BY <1>r, <1>2 DEF Sound
  <2>6. ~Registering(k)
    BY <2>4 DEF Registering
  <2>7. TurnOK(k)'
    BY <1>2, <1>3, <1>4, <2>2, <2>3, <2>4, <2>5, <2>6, TurnFrom
  <2> QED BY <1>1, <1>2, <1>5, <1>7, <2>2, <2>7, <1>j, <1>k, ServedStep DEF Proceed, At, IInv
<1> QED BY <1>1, <1>6, <1>7

\* The file that is erased is of a cell without a record, in memory and on disk.
LEMMA ServedErase ==
    ASSUME IInv, SyncInv, ServedInv, ~overlap, ~torn, NEW w \in Workers, Erase(w) PROVE ServedInv'
<1>j. PICK j : j = job[w]
  OBVIOUS
<1>n. PICK n : n = j.name
  OBVIOUS
<1>r. PICK r : r = j.rec
  OBVIOUS
<1>k. PICK k : k = Advance(j)
  OBVIOUS
<1>1. /\ At(w, "erase")
      /\ UNCHANGED <<overlap, boot, records, modules, router, disk>>
      /\ files' = files \ {<<n, r.sha>>}
      /\ handle' = [v \in Workers |-> IF handle[v] = "open" /\ Path(v) = Path(w)
                                       THEN "unlinked" ELSE handle[v]]
      /\ Proceed(w, j)
  BY <1>j, <1>n, <1>r DEF Erase, Path, settings
<1>2. /\ j \in Jobs /\ j.plan # <<>> /\ n \in Names /\ TurnOK(j) /\ Head(j.plan) = "erase"
      /\ PlanOK(j.plan) /\ Sound(records, files) /\ Sound(disk.holds, files)
      /\ HandlesClosed
      /\ disk.state # "whole" => disk.holds = EmptyManifest
      /\ InStep(j) /\ ~Inserting(j.plan)
  BY <1>j, <1>n, <1>1, Turn DEF Saves
<1>14. HandlesClosed'
  BY <1>1, <1>2 DEF HandlesClosed
<1>3. OnPlan("erase", j.plan) /\ ~OnPlan("forget", j.plan)
  BY <1>2, ErasesLast DEF Jobs, PlanOK
<1>4. records[n] = NoRecord
  BY <1>n, <1>2, <1>3 DEF TurnOK
<1>5. /\ k # NoJob /\ k \in Jobs /\ k.plan # <<>> /\ PlanOK(k.plan)
      /\ k.name = n /\ k.rec = r
      /\ <<"erase", Head(k.plan)>> \in Follows
      /\ \A s : OnPlan(s, j.plan) <=> s = "erase" \/ OnPlan(s, k.plan)
      /\ Inserting(k.plan) => OnPlan("insert", j.plan)
  <2>1. After(j.plan, "erase", j, k)
    BY <1>2, <1>k, AdvanceAt
  <2> QED BY <2>1, <1>n, <1>r DEF After
<1>6. Head(k.plan) = "snapshot"
  BY <1>5, Next2
<1>7. ~Inserting(k.plan)
  BY <1>2, <1>3, <1>5 DEF PlanOK, OneKind
<1>8. ASSUME NEW mf, Sound(mf, files), mf[n] = NoRecord PROVE Sound(mf, files')
  BY <1>1, <1>8 DEF Sound, Active, NoRecord
<1>9. disk.holds[n] = NoRecord
  <2>1. Reopened = records
    BY <1>2 DEF InStep
  <2> QED BY <2>1, <1>2, <1>4 DEF Reopened, EmptyManifest
<1>10. Sound(records', files') /\ Sound(disk'.holds, files')
  BY <1>1, <1>2, <1>4, <1>8, <1>9
<1>11. \A m \in Names : Served(m)'
  <2>1. \A m \in Names : Served(m)
    BY <1>2, <1>n DEF TurnOK, Disturbed, Registering
  <2> QED BY <2>1, <1>1, Untouched
<1>12. Tidy(r.routes) /\ ~Registering(k)
  BY <1>r, <1>2, <1>7 DEF TurnOK, Registering
<1>13. TurnOK(k)'
  BY <1>1, <1>2, <1>4, <1>5, <1>6, <1>7, <1>11, <1>12, TurnFrom
<1> QED BY <1>1, <1>2, <1>5, <1>10, <1>13, <1>14, <1>j, <1>k, ServedStep DEF Proceed, At, IInv

-----------------------------------------------------------------------------
(* The operations that begin, the crash and the boot.                        *)

\* Nobody has a file open while nobody is at work.
LEMMA AtRest ==
    ASSUME ServedInv, ~overlap, ~torn, AllIdle
    PROVE  /\ HandlesClosed /\ Stored = files
           /\ Sound(records, files) /\ Sound(disk.holds, files)
<1>1. HandlesClosed
  BY DEF ServedInv, HandlesClosed, At, AllIdle
<1>2. Stored = files
  BY <1>1 DEF HandlesClosed, Stored
<1> QED BY <1>1, <1>2 DEF ServedInv

\* An operation that begins finds everything served.
LEMMA ServedBegin ==
    ASSUME IInv, SyncInv, ServedInv, ~overlap, ~torn, NEW w \in Workers, NEW n \in Names,
           NEW r \in Drafts, NEW plan \in Seq(Steps), plan # <<>>, Begin(w, n, r, plan),
           Head(plan) \in {"snapshot", "check", "fetch", "lookup", "unmount"},
           Tidy(r.routes), r.status # "Active",
           Head(plan) = "snapshot" => ~OnPlan("insert", plan),
           OnPlan("erase", plan) => OnPlan("forget", plan)
    PROVE  ServedInv'
<1>k. PICK k : k = [plan |-> plan, name |-> n, rec |-> r, copy |-> EmptyManifest]
  OBVIOUS
<1>1. k.plan = plan /\ k.name = n /\ k.rec = r /\ k # NoJob
  BY <1>k DEF NoJob
<1>2. /\ UNCHANGED <<overlap, boot, records, modules, router, files, disk, handle>>
      /\ boot = <<>> /\ AllIdle
      /\ job' = [job EXCEPT ![w] = k]
  BY <1>k DEF Begin, settings
<1>3. /\ HandlesClosed /\ Sound(records, files) /\ Sound(disk.holds, files)
      /\ disk.state # "whole" => disk.holds = EmptyManifest
      /\ \A m \in Names : Served(m)
  BY <1>2, AtRest DEF ServedInv
<1>4. \A m \in Names : Served(m)'
  BY <1>2, <1>3, Untouched
<1>5. ~Inserting(plan)
  BY InsertingHead DEF Saves, Inserting, OnPlan
<1>6. ~Registering(k)
  BY <1>1, <1>5 DEF Registering
<1>7. TurnOK(k)'
  BY <1>1, <1>4, <1>5, <1>6, TurnFrom
<1>8. job'[w] = k /\ \A v \in Workers : v # w => job'[v] = NoJob
  BY <1>2 DEF IInv, TypeOK, AllIdle, Idle
<1>9. ~AllIdle' /\ \A v \in Workers : ~Idle(v)' => v = w
  BY <1>1, <1>8 DEF AllIdle, Idle
<1>10. TurnOK(job[w])'
  BY <1>7, <1>8 DEF TurnOK, Disturbed, Registering, Inserting, Ready, OnPlan
<1>11. HandlesClosed' /\ Stored' = files'
  BY <1>2, <1>3 DEF HandlesClosed, Stored
<1> QED BY <1>2, <1>3, <1>9, <1>10, <1>11 DEF ServedInv, HandlesClosed

LEMMA ServedRequest ==
    ASSUME RoutesDistinct, IInv, SyncInv, ServedInv, ~overlap, ~torn, NEW w \in Workers, Request(w)
    PROVE  ServedInv'
<1> PICK n \in Names : \/ \E offer \in Offers : \/ \E a \in BOOLEAN : Upload(w, n, offer, a)
                                                \/ StageRemote(w, n, offer)
                       \/ \E sha \in Shas : BeginActivate(w, n, sha)
                       \/ BeginRemove(w, n)
  BY DEF Request
<1>1. PICK r, plan : /\ Begin(w, n, r, plan) /\ r \in Drafts
                     /\ Tidy(r.routes) /\ r.status # "Active"
                     /\ plan \in {SavePlan, StagePlan, StagePlan \o ActivatePlan,
                                  <<"fetch">> \o StagePlan, ActivatePlan, RemovePlan}
  <2>1. ASSUME NEW offer \in Offers, NEW a \in BOOLEAN, Upload(w, n, offer, a)
        PROVE  \E plan \in {SavePlan, StagePlan, StagePlan \o ActivatePlan} :
                   Begin(w, n, Staging(offer), plan)
    BY <2>1 DEF Upload
  <2>2. ASSUME NEW offer \in Offers, StageRemote(w, n, offer)
        PROVE  \E plan \in {SavePlan, <<"fetch">> \o StagePlan} :
                   Begin(w, n, Staging(offer), plan)
    BY <2>2 DEF StageRemote
  <2>3. ASSUME NEW offer \in Offers
        PROVE  /\ Staging(offer) \in Drafts /\ Tidy(Staging(offer).routes)
               /\ Staging(offer).status # "Active"
    BY StagingRecord DEF Staging, RoutesDistinct
  <2>4. ASSUME NEW sha \in Shas, BeginActivate(w, n, sha)
        PROVE  \E r \in Drafts : /\ Begin(w, n, r, ActivatePlan)
                                 /\ Tidy(r.routes) /\ r.status # "Active"
    <3>1. [sha |-> sha, routes |-> <<>>, status |-> "Absent"] \in Drafts
      BY DEF Drafts
    <3> QED BY <2>4, <3>1 DEF BeginActivate, Tidy
  <2>5. ASSUME BeginRemove(w, n)
        PROVE  Begin(w, n, NoRecord, RemovePlan)
    BY <2>5 DEF BeginRemove
  <2>6. NoRecord \in Drafts /\ Tidy(NoRecord.routes) /\ NoRecord.status # "Active"
    BY DEF Drafts, NoRecord, Tidy
  <2> QED BY <2>1, <2>2, <2>3, <2>4, <2>5, <2>6
<1>2. plan \in Seq(Steps) /\ plan # <<>>
  <2>1. <<"fetch">> \in Seq(Steps) /\ <<"fetch">> # <<>>
    BY DEF Steps
  <2>2. StagePlan \o ActivatePlan \in Seq(Steps) /\ StagePlan \o ActivatePlan # <<>>
    BY RequestPlans, Joined
  <2>3. <<"fetch">> \o StagePlan \in Seq(Steps) /\ <<"fetch">> \o StagePlan # <<>>
    BY <2>1, RequestPlans, Joined
  <2> QED BY <1>1, <2>2, <2>3, RequestPlans
<1>3. /\ Head(plan) \in {"snapshot", "check", "fetch", "lookup", "unmount"}
      /\ Head(plan) = "snapshot" => ~OnPlan("insert", plan)
      /\ OnPlan("erase", plan) => OnPlan("forget", plan)
  BY <1>1, RequestPlansOK
<1> QED BY <1>1, <1>2, <1>3, ServedBegin

\* An action that leaves what the invariant is about alone.
LEMMA ServedUntouched ==
    ASSUME ServedInv,
           UNCHANGED <<overlap, torn, boot, job, records, modules, router, files, disk, handle>>
    PROVE  ServedInv'
<1> SUFFICES ASSUME ~overlap, ~torn PROVE ServedInv'
  BY DEF ServedInv
<1>5. Stored' = Stored /\ \A w \in Workers : At(w, "write") => At(w, "write")'
  BY DEF Stored, Path, At, Idle
<1>1. /\ \A m : Served(m)' <=> Served(m)
      /\ \A m, list : Free(m, list)' <=> Free(m, list)
      /\ \A j : Ready(j)' <=> Ready(j)
      /\ \A m : Active(records, m)' <=> Active(records, m)
  BY Untouched
<1>2. (\A w \in Workers : Idle(w)' <=> Idle(w)) /\ (AllIdle' <=> AllIdle)
  BY DEF Idle, AllIdle
<1>3. \A w \in Workers : TurnOK(job[w]) => TurnOK(job[w])'
  <2> TAKE w \in Workers
  <2> PICK j : j = job[w]
    OBVIOUS
  <2>1. TurnOK(j) => TurnOK(j)'
    BY <1>1, RigidJob DEF TurnOK, Inserting, OnPlan, Tidy
  <2> QED BY <2>1 DEF TurnOK, Disturbed, Registering, Inserting, Ready, OnPlan
<1>4. BootOK => BootOK'
  BY <1>1, <1>2 DEF BootOK, Tidy, RoutesIn
<1> QED BY <1>1, <1>2, <1>3, <1>4, <1>5 DEF ServedInv

\* A crash leaves nothing mounted and every record to the boot.
LEMMA ServedCrash ==
    ASSUME BootListsAll, IInv, ServedInv, ~overlap, ~torn, Crash PROVE ServedInv'
<1> SUFFICES ASSUME ~torn' PROVE ServedInv'
  BY DEF ServedInv
<1>1. /\ \A w \in Workers : job'[w] = NoJob /\ handle'[w] = "closed"
      /\ \A w \in Workers : ~CutsShort(w, Reopened)
      /\ records' = Reopened /\ router' = NewRouter /\ boot' = BootOrder
      /\ UNCHANGED <<overlap, disk, files>>
  BY DEF Crash, settings
<1>2. AllIdle' /\ \A w \in Workers : Idle(w)'
  BY <1>1 DEF AllIdle, Idle
<1>3. /\ Sound(disk.holds, Stored)
      /\ disk.state # "whole" => disk.holds = EmptyManifest
  BY DEF ServedInv
<1>8. disk.holds = Reopened
  BY <1>3 DEF Reopened
<1>9. Sound(disk.holds, files)
  <2>1. ASSUME NEW n \in Names, Active(disk.holds, n) PROVE <<n, disk.holds[n].sha>> \in files
    <3>1. <<n, disk.holds[n].sha>> \in Stored
      BY <1>3, <2>1 DEF Sound
    <3>2. ASSUME NEW w \in Workers, handle[w] = "open", <<n, disk.holds[n].sha>> = Path(w)
          PROVE  FALSE
      <4>1. n = job[w].name /\ disk.holds[n].sha = job[w].rec.sha
        BY <3>2 DEF Path
      <4> QED BY <4>1, <3>2, <2>1, <1>1, <1>8 DEF CutsShort, Active
    <3> QED BY <3>1, <3>2 DEF Stored
  <2> QED BY <1>3, <2>1 DEF Sound
<1>4. /\ Sound(records', Stored') /\ Sound(disk'.holds, Stored')
      /\ \A w \in Workers : handle'[w] = "closed"
  <2>1. Stored' = files'
    BY <1>1 DEF Stored
  <2> QED BY <2>1, <1>1, <1>8, <1>9
<1>5. \A n \in Names : n \in RoutesIn(boot')
  BY <1>1 DEF BootListsAll
<1>6. BootOK'
  BY <1>1, <1>2, <1>5 DEF BootOK, NewRouter, BootListsAll
<1>7. boot' = <<>> => \A n \in Names : Served(n)'
  BY <1>5 DEF RoutesIn
<1> QED BY <1>1, <1>2, <1>3, <1>4, <1>6, <1>7 DEF ServedInv

\* The names of a tidy list without its first.
LEMMA TidyTail ==
    ASSUME NEW s \in Seq(Names), s # <<>>, Tidy(s)
    PROVE  /\ Head(s) \in Names /\ Tail(s) \in Seq(Names) /\ Tidy(Tail(s))
           /\ RoutesIn(Tail(s)) = RoutesIn(s) \ {Head(s)}
<1> DEFINE n == Len(s)
           t == Tail(s)
<1>1. /\ n \in Nat \ {0} /\ Head(s) = s[1] /\ Head(s) \in Names /\ t \in Seq(Names)
      /\ Len(t) = n - 1 /\ DOMAIN t = 1 .. n - 1 /\ DOMAIN s = 1 .. n
      /\ \A i \in 1 .. n - 1 : t[i] = s[i + 1]
  BY HeadTailProperties, EmptySeq, LenProperties
<1> HIDE DEF n, t
<1>2. \A i \in 1 .. n - 1 : i + 1 \in 1 .. n /\ i + 1 # 1 /\ i \in Int
  BY <1>1
<1>3. \A i, j \in 1 .. n : s[i] = s[j] => i = j
  BY <1>1 DEF Tidy
<1>4. Tidy(t)
  <2> SUFFICES ASSUME NEW i \in 1 .. n - 1, NEW j \in 1 .. n - 1, t[i] = t[j] PROVE i = j
    BY <1>1 DEF Tidy
  <2>1. i + 1 = j + 1
    BY <1>1, <1>2, <1>3
  <2> QED BY <2>1, <1>2
<1>5. ASSUME NEW x PROVE x \in RoutesIn(t) <=> x \in RoutesIn(s) /\ x # Head(s)
  <2>1. ASSUME NEW i \in 1 .. n - 1, x = t[i] PROVE x \in RoutesIn(s) /\ x # Head(s)
    <3>1. 1 \in 1 .. n /\ i + 1 \in 1 .. n /\ i + 1 # 1 /\ x = s[i + 1]
      BY <1>1, <1>2, <2>1
    <3> QED BY <3>1, <1>1, <1>3 DEF RoutesIn
  <2>2. ASSUME NEW i \in 1 .. n, x = s[i], x # Head(s) PROVE x \in RoutesIn(t)
    <3>1. i - 1 \in 1 .. n - 1 /\ (i - 1) + 1 = i
      BY <1>1, <2>2
    <3>2. t[i - 1] = x
      BY <3>1, <1>1, <2>2
    <3> QED BY <3>1, <3>2, <1>1 DEF RoutesIn
  <2> QED BY <2>1, <2>2, <1>1 DEF RoutesIn
<1> QED BY <1>1, <1>4, <1>5 DEF t

\* The boot registers one more cell, and nothing that it mounted before has a
\* route of it.
LEMMA ServedRestore ==
    ASSUME IInv, ServedInv, ~overlap, ~torn, Restore PROVE ServedInv'
<1>n. PICK n : n = Head(boot)
  OBVIOUS
<1>i. PICK list : list = records[n].routes
  OBVIOUS
<1>1. /\ boot # <<>> /\ boot' = Tail(boot)
      /\ IF Restores(n) THEN /\ modules' = [modules EXCEPT ![n] = records[n].sha]
                             /\ router' = Register(router, n, list)
                        ELSE UNCHANGED <<modules, router>>
      /\ UNCHANGED <<overlap, job, records, disk, files, handle>>
  BY <1>n, <1>i DEF Restore, settings
<1>2. /\ HandlesClosed /\ Sound(records, files) /\ Sound(disk.holds, files)
      /\ disk.state # "whole" => disk.holds = EmptyManifest
      /\ BootOK
  BY <1>1, AtRest DEF ServedInv, BootOK
<1>3. /\ n \in Names /\ boot' \in Seq(Names) /\ Tidy(boot')
      /\ RoutesIn(boot') = RoutesIn(boot) \ {n}
      /\ n \in RoutesIn(boot)
  <2>1. boot \in Seq(Names) /\ Tidy(boot)
    BY <1>2 DEF IInv, TypeOK, BootOK
  <2>2. n \in RoutesIn(boot)
    BY <1>n, <1>1, <2>1, EmptySeq, HeadTailProperties DEF RoutesIn
  <2> QED BY <2>1, <2>2, <1>n, <1>1, TidyTail
<1>4. AllIdle' /\ \A w \in Workers : Idle(w)'
  BY <1>1, <1>2 DEF BootOK, AllIdle, Idle
<1>5. router \in Routers /\ records \in Manifests /\ modules \in [Names -> Shas \cup {NoSha}]
  BY DEF IInv, TypeOK
<1>6. BootOK' /\ \A m \in Names : m \notin RoutesIn(boot') => Served(m)'
  <2>1. CASE ~Restores(n)
    <3>1. UNCHANGED <<records, modules, router>>
      BY <1>1, <2>1
    <3>2. ~Active(records, n)
      BY <1>2, <1>3, <2>1 DEF Restores, Sound, Active
    <3>3. \A m \in Names : m \notin RoutesIn(boot') => Served(m)
      BY <1>2, <1>3, <3>2 DEF BootOK, Served
    <3>4. \A m \in Names : m \notin RoutesIn(boot') => Served(m)'
      BY <3>1, <3>3, Untouched
    <3>5. \A m \in router'.mounted : /\ m \notin RoutesIn(boot') /\ Active(records, m)'
                                     /\ router'.routes[m] = records'[m].routes
      BY <1>2, <1>3, <3>1 DEF BootOK, Active
    <3>6. \A p \in Paths : router'.owner[p] # Nobody =>
              /\ router'.owner[p] \in router'.mounted
              /\ p \in RoutesIn(router'.routes[router'.owner[p]])
      BY <1>2, <3>1 DEF BootOK
    <3> QED BY <1>3, <1>4, <3>4, <3>5, <3>6 DEF BootOK, Tidy, RoutesIn
  <2>2. CASE Restores(n)
    <3>1. /\ modules' = [modules EXCEPT ![n] = records[n].sha]
          /\ router' = Register(router, n, list)
          /\ Active(records, n)
      BY <1>1, <2>2 DEF Restores, Active
    <3>2. list \in Seq(Paths) /\ Tidy(list)
      <4>1. records[n] \in Records
        BY <1>3, <1>5, <3>1, RecordIsDraft DEF Active, NoRecord, IInv
      <4> QED BY <4>1, <1>i, <1>2, <1>3 DEF Records, Sound
    <3>3. \A m \in router.mounted : /\ m \in Names /\ m # n /\ m \notin RoutesIn(boot)
                                    /\ Active(records, m)
                                    /\ router.routes[m] = records[m].routes
                                    /\ RoutesIn(list) \cap RoutesIn(router.routes[m]) = {}
      <4>1. ASSUME NEW m \in router.mounted
            PROVE  m \in Names /\ m \notin RoutesIn(boot) /\ Active(records, m)
                   /\ router.routes[m] = records[m].routes
        BY <1>2, <1>5 DEF BootOK, Routers
      <4>2. ASSUME NEW m \in router.mounted PROVE m # n
        BY <4>1, <1>3
      <4>3. ASSUME NEW m \in router.mounted
            PROVE  RoutesIn(list) \cap RoutesIn(router.routes[m]) = {}
        <5>1. m \in Names /\ Active(records, m) /\ m # n
          BY <4>1, <4>2
        <5>2. RoutesIn(records[n].routes) \cap RoutesIn(records[m].routes) = {}
          BY <5>1, <3>1, <1>2, <1>3 DEF Sound
        <5> QED BY <5>2, <4>1, <1>i
      <4> QED BY <4>1, <4>2, <4>3
    <3>4. Blocked(router, list) = {}
      <4>1. SUFFICES ASSUME NEW i \in DOMAIN list,
                            \/ router.owner[list[i]] # Nobody
                            \/ \E j \in DOMAIN list : j < i /\ list[j] = list[i]
                     PROVE  FALSE
        BY DEF Blocked
      <4>2. list[i] \in RoutesIn(list) /\ list[i] \in Paths
        BY <3>2 DEF RoutesIn
      <4>3. router.owner[list[i]] = Nobody
        BY <1>2, <3>3, <4>2 DEF BootOK
      <4>4. PICK j \in DOMAIN list : j < i /\ list[j] = list[i]
        BY <4>1, <4>3
      <4>5. i = j /\ i \in Nat
        BY <3>2, <4>4 DEF Tidy
      <4> QED BY <4>4, <4>5
    <3>5. /\ router'.mounted = router.mounted \cup {n}
          /\ router'.routes[n] = list
          /\ \A m \in Names \ {n} : router'.routes[m] = router.routes[m]
          /\ \A p \in Paths : router'.owner[p] =
                                  IF p \in RoutesIn(list) THEN n ELSE router.owner[p]
      BY <1>3, <1>5, <3>1, <3>2, <3>4, RegisterFree
    <3>6. modules'[n] = records[n].sha /\ \A m \in Names \ {n} : modules'[m] = modules[m]
      BY <1>3, <1>5, <3>1
    <3>7. \A m \in Names : m \notin RoutesIn(boot') => Served(m)'
      <4>1. Served(n)'
        BY <1>1, <1>i, <3>5, <3>6 DEF Served, Active
      <4>2. ASSUME NEW m \in Names \ {n}, m \notin RoutesIn(boot') PROVE Served(m)'
        <5>1. Served(m)
          BY <1>2, <1>3, <4>2 DEF BootOK
        <5> QED BY <5>1, <1>1, <3>5, <3>6, OthersServed
      <4> QED BY <4>1, <4>2
    <3>8. \A m \in router'.mounted : /\ m \notin RoutesIn(boot') /\ Active(records, m)'
                                     /\ router'.routes[m] = records'[m].routes
      BY <1>1, <1>3, <1>i, <3>1, <3>3, <3>5 DEF Active
    <3>9. ASSUME NEW p \in Paths, router'.owner[p] # Nobody
          PROVE  /\ router'.owner[p] \in router'.mounted
                 /\ p \in RoutesIn(router'.routes[router'.owner[p]])
      <4>1. CASE p \in RoutesIn(list)
        BY <4>1, <3>5
      <4>2. CASE p \notin RoutesIn(list)
        <5>1. router'.owner[p] = router.owner[p]
          BY <4>2, <3>5
        <5>2. router.owner[p] \in router.mounted /\ p \in RoutesIn(router.routes[router.owner[p]])
          BY <5>1, <3>9, <1>2 DEF BootOK
        <5>3. router'.routes[router.owner[p]] = router.routes[router.owner[p]]
          BY <5>2, <3>3, <3>5
        <5> QED BY <5>1, <5>2, <5>3, <3>5
      <4> QED BY <4>1, <4>2
    <3> QED BY <1>3, <1>4, <3>7, <3>8, <3>9 DEF BootOK, Tidy, RoutesIn
  <2> QED BY <2>1, <2>2
<1>7. boot' = <<>> => RoutesIn(boot') = {}
  BY DEF RoutesIn
<1>8. HandlesClosed' /\ Stored' = files'
  BY <1>1, <1>2 DEF HandlesClosed, Stored
<1> QED BY <1>1, <1>2, <1>4, <1>6, <1>7, <1>8 DEF ServedInv, HandlesClosed

LEMMA ServedNext ==
    ASSUME RoutesDistinct, BootListsAll, IInv, SyncInv, ServedInv, [Next]_vars
    PROVE  ServedInv'
<1> SUFFICES ASSUME ~overlap, ~torn PROVE ServedInv'
  <2>1. overlap' = overlap /\ (torn => torn')
    <3>1. ASSUME NEW w \in Workers, Request(w) PROVE overlap' = overlap /\ torn' = torn
      BY <3>1 DEF Request, Upload, StageRemote, BeginActivate, BeginRemove, Begin, settings
    <3>2. ASSUME NEW w \in Workers, Step(w) PROVE overlap' = overlap /\ (torn => torn')
      <4>1. CASE FailToWrite(w)
        BY <4>1 DEF FailToWrite, settings
      <4>2. CASE ~FailToWrite(w)
        BY <3>2, <4>2 DEF Step, Fetch, Check, OpenFile, WriteFile, Lookup, Load, Mount, Insert,
                          Unmount, Unload, Forget, Erase, Snapshot, Truncate, Flush, settings
      <4> QED BY <4>1, <4>2
    <3>3. ASSUME Crash PROVE overlap' = overlap /\ (torn => torn')
      BY <3>3 DEF Crash, settings
    <3> QED BY <3>1, <3>2, <3>3 DEF Next, Lockdown, Restore, vars, settings
  <2> QED BY <2>1 DEF ServedInv
<1>1. ASSUME NEW w \in Workers, Step(w) PROVE ServedInv'
  BY <1>1, ServedFetch, ServedCheck, ServedOpenFile, ServedWriteFile, ServedFailToWrite,
     ServedLookup, ServedLoad, ServedMount,
     ServedInsert, ServedUnmount, ServedUnload, ServedForget, ServedErase, ServedSnapshot,
     ServedTruncate, ServedFlush DEF Step
<1>2. CASE Lockdown
  BY <1>2, ServedUntouched DEF Lockdown, settings
<1>3. CASE UNCHANGED vars
  BY <1>3, ServedUntouched DEF vars, settings
<1> QED BY <1>1, <1>2, <1>3, ServedRequest, ServedCrash, ServedRestore DEF Next

LEMMA ServedInit == ASSUME Init PROVE ServedInv
<1>1. \A n \in Names : Served(n)
  BY DEF Init, Served, Active, EmptyManifest, NoRecord
<1>2. \A w \in Workers : Idle(w)
  BY DEF Init, Idle
<1> QED BY <1>1, <1>2, EmptySound DEF Init, ServedInv

\* Deployer!ActiveIsServed: while operations take turns, whatever the registry
\* says is Active runs that build and is mounted on that record's routes, once
\* the boot is over and no operation is under way, unless a crash or an error
\* cut short a second upload of a build already Active.  A build that lists a
\* route twice breaks this (run deployer_repeated), hence RoutesDistinct.
THEOREM ActiveCellsAreServed ==
    ASSUME RoutesDistinct, BootListsAll
    PROVE  Spec => []ActiveIsServed
<1>1. Init => SyncInv /\ ServedInv
  BY SyncInit, ServedInit
<1>2. IInv /\ SyncInv /\ ServedInv /\ [Next]_vars => SyncInv' /\ ServedInv'
  BY SyncNext, ServedNext
<1>3. ServedInv => ActiveIsServed
  BY DEF ServedInv, ActiveIsServed, Served, Active
<1> QED BY <1>1, <1>2, <1>3, Invariance, PTL DEF Spec
=============================================================================
