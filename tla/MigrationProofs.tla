-------------------------- MODULE MigrationProofs --------------------------
(***************************************************************************)
(* Migrations are built once, for any number of replicas and migrations.   *)
(*                                                                         *)
(* MigratedOnce is not inductive: that a commit adds a version that was not*)
(* recorded rests on its transaction having been told so and on no other   *)
(* transaction being at the same version; that none is missing before it   *)
(* rests on how far the replica has come.                                  *)
(***************************************************************************)
EXTENDS FrontDoor, TLAPS

RunPcs == {"none", "ensure", "next", "ddl", "insert", "commit", "ended"}
Runs == [pc : RunPcs, seen : SUBSET Versions, at : Nat \ {0}, tx : Nat]

MTypeOK ==
    /\ migrator \in [Replicas -> Runs]
    /\ recorded \in SUBSET Versions
    /\ built \in [Versions -> Nat]

\* The version a run has a transaction for.
OpenAt(run) == IF run.pc \in {"insert", "commit"} THEN run.at ELSE 0

\* A run has seen only what is recorded, and everything before the version it
\* is at is; a transaction that is about to commit still has a free key, and a
\* run that is over has left none open.
RunsAhead ==
    \A c \in Replicas :
        LET run == migrator[c]
        IN  /\ run.seen \subseteq recorded
            /\ run.pc \notin {"none", "ended"} =>
                 1..(run.at - 1) \subseteq recorded
            /\ run.pc \in {"ddl", "insert", "commit"} => run.at \in Versions
            /\ run.pc = "commit" => run.at \notin recorded
            /\ run.tx = OpenAt(run)

\* Two open transactions are at different versions.
ApartFromEachOther ==
    \A c, d \in Replicas :
        c # d /\ migrator[c].tx # 0 => migrator[c].tx # migrator[d].tx

MInv == MTypeOK /\ MigratedOnce /\ RunsAhead /\ ApartFromEachOther

-----------------------------------------------------------------------------
LEMMA InitMigrations == MigrationsInit => MInv
BY MigrationsAssumption
DEF MigrationsInit, MInv, MTypeOK, RunPcs, Runs, MigratedOnce, RunsAhead,
    ApartFromEachOther, NoMigrator, OpenAt, Versions

\* A step that changes one run and nothing that is committed.
LEMMA OneRunChanges ==
    ASSUME MInv, NEW c \in Replicas, NEW run \in Runs,
           migrator' = [migrator EXCEPT ![c] = run],
           UNCHANGED <<recorded, built>>,
           run.seen \subseteq recorded,
           run.pc \notin {"none", "ended"} =>
             1..(run.at - 1) \subseteq recorded,
           run.pc \in {"ddl", "insert", "commit"} => run.at \in Versions,
           run.pc = "commit" => run.at \notin recorded,
           run.tx = OpenAt(run),
           run.tx # 0 => \A d \in Replicas \ {c} : migrator[d].tx # run.tx
    PROVE  MInv'
<1>1. MTypeOK'
  BY DEF MInv, MTypeOK
<1>2. \A d \in Replicas : migrator'[d] = IF d = c THEN run ELSE migrator[d]
  BY DEF MInv, MTypeOK
<1>3. MigratedOnce'
  BY DEF MInv, MigratedOnce
<1>4. RunsAhead'
  BY <1>2 DEF MInv, RunsAhead
<1>5. ApartFromEachOther'
  BY <1>2 DEF MInv, ApartFromEachOther
<1> QED
  BY <1>1, <1>3, <1>4, <1>5 DEF MInv

LEMMA BeginKeeps ==
    ASSUME MInv, NEW c \in Replicas, BeginMigrations(c)
    PROVE  MInv'
<1>1. PICK pc \in {"ensure", "ended"} :
        migrator' = [migrator EXCEPT ![c] = [NoMigrator EXCEPT !.pc = pc]]
  BY DEF BeginMigrations
<1> DEFINE run == [NoMigrator EXCEPT !.pc = pc]
<1>2. /\ run \in Runs /\ run.pc = pc /\ run.seen = {} /\ 1..(run.at - 1) = {}
      /\ run.tx = 0 /\ run.tx = OpenAt(run)
  BY DEF NoMigrator, Runs, RunPcs, OpenAt
<1> QED
  BY <1>1, <1>2, OneRunChanges DEF BeginMigrations

LEMMA ForgetKeeps ==
    ASSUME MInv, NEW c \in Replicas, ForgetMigrator(c)
    PROVE  MInv'
<1>1. /\ NoMigrator \in Runs /\ NoMigrator.pc = "none" /\ NoMigrator.seen = {}
      /\ NoMigrator.tx = 0 /\ NoMigrator.tx = OpenAt(NoMigrator)
  BY DEF NoMigrator, Runs, RunPcs, OpenAt
<1> QED
  BY <1>1, OneRunChanges DEF ForgetMigrator

\* A run that returns early.
LEMMA EndKeeps ==
    ASSUME MInv, NEW c \in Replicas, Fail(c), UNCHANGED <<recorded, built>>
    PROVE  MInv'
<1> DEFINE run == [migrator[c] EXCEPT !.pc = "ended", !.tx = 0]
<1>1. /\ run \in Runs /\ run.pc = "ended" /\ run.seen = migrator[c].seen
      /\ run.tx = 0 /\ run.tx = OpenAt(run)
  BY DEF MInv, MTypeOK, Runs, RunPcs, OpenAt
<1>2. migrator' = [migrator EXCEPT ![c] = run]
  BY DEF Fail, Ends
<1>3. run.seen \subseteq recorded
  BY <1>1 DEF MInv, RunsAhead
<1> HIDE DEF run
<1> QED
  BY <1>1, <1>2, <1>3, OneRunChanges

LEMMA ReadKeeps ==
    ASSUME MInv, NEW c \in Replicas, ReadApplied(c)
    PROVE  MInv'
<1> DEFINE run == [migrator[c] EXCEPT !.pc = "next", !.seen = recorded]
<1>1. /\ run \in Runs /\ run.pc = "next" /\ run.seen = recorded
      /\ run.at = migrator[c].at /\ run.tx = 0 /\ run.tx = OpenAt(run)
  BY DEF MInv, MTypeOK, Runs, RunPcs, RunsAhead, OpenAt, ReadApplied, Migrating
<1>2. migrator' = [migrator EXCEPT ![c] = run]
  BY DEF ReadApplied, MInv, MTypeOK
<1>3. 1..(run.at - 1) \subseteq recorded
  BY <1>1 DEF MInv, RunsAhead, ReadApplied, Migrating
<1> QED
  BY <1>1, <1>2, <1>3, OneRunChanges DEF ReadApplied

LEMMA NextKeeps ==
    ASSUME MInv, NEW c \in Replicas, NextMigration(c)
    PROVE  MInv'
<1> DEFINE at == migrator[c].at
           seen == migrator[c].seen
           pc == IF at > MaxMigration THEN "ended"
                 ELSE IF at \in seen THEN "next" ELSE "ddl"
           next == IF at \in seen THEN at + 1 ELSE at
           run == [pc |-> pc, seen |-> seen, at |-> next, tx |-> 0]
<1>1. /\ migrator[c] \in Runs /\ at \in Nat \ {0}
      /\ seen \subseteq recorded /\ 1..(at - 1) \subseteq recorded
      /\ migrator[c].tx = 0
  BY DEF MInv, MTypeOK, RunsAhead, Runs, NextMigration, Migrating, OpenAt
<1>2. run \in Runs /\ run.seen = seen /\ run.pc = pc /\ run.at = next /\ run.tx = 0
  <2>1. pc \in RunPcs /\ next \in Nat \ {0}
    BY <1>1 DEF RunPcs
  <2> HIDE DEF pc, next
  <2> QED
    BY <1>1, <2>1 DEF Runs
<1>3. migrator' = [migrator EXCEPT ![c] = run]
  <2>1. migrator' = [migrator EXCEPT ![c].pc = pc, ![c].at = next]
    BY DEF NextMigration
  <2> HIDE DEF pc, next
  <2>2. /\ migrator' \in [Replicas -> Runs]
        /\ \A d \in Replicas : migrator'[d] = IF d = c THEN run ELSE migrator[d]
    BY <1>1, <1>2, <2>1 DEF MInv, MTypeOK, Runs
  <2> HIDE DEF run
  <2> QED
    BY <2>2 DEF MInv, MTypeOK
<1>4. 1..(run.at - 1) \subseteq recorded
  BY <1>1, <1>2
<1>5. run.pc \in {"ddl", "insert", "commit"} => run.at \in Versions
  BY <1>1, <1>2, MigrationsAssumption DEF Versions
<1>6. run.tx = OpenAt(run)
  BY <1>2 DEF OpenAt
<1> HIDE DEF run
<1> QED
  BY <1>1, <1>2, <1>3, <1>4, <1>5, <1>6, OneRunChanges DEF NextMigration

LEMMA DdlKeeps ==
    ASSUME MInv, NEW c \in Replicas, ExecuteDdl(c)
    PROVE  MInv'
<1> DEFINE at == migrator[c].at
           run == [migrator[c] EXCEPT !.pc = "insert", !.tx = at]
<1>1. /\ run \in Runs /\ run.pc = "insert" /\ run.seen = migrator[c].seen
      /\ run.at = at /\ run.tx = at
  BY DEF MInv, MTypeOK, Runs, RunPcs
<1>2. migrator' = [migrator EXCEPT ![c] = run]
  BY DEF ExecuteDdl, MInv, MTypeOK
<1>3. /\ run.seen \subseteq recorded /\ 1..(at - 1) \subseteq recorded
      /\ at \in Versions
  BY <1>1 DEF MInv, RunsAhead, ExecuteDdl, Migrating
<1>4. \A d \in Replicas \ {c} : migrator[d].tx # run.tx
  BY <1>1 DEF ExecuteDdl
<1>5. run.tx = OpenAt(run)
  BY <1>1 DEF OpenAt
<1> HIDE DEF run
<1> QED
  BY <1>1, <1>2, <1>3, <1>4, <1>5, OneRunChanges DEF ExecuteDdl

LEMMA InsertKeeps ==
    ASSUME MInv, NEW c \in Replicas, InsertVersion(c)
    PROVE  MInv'
<1>1. CASE Fail(c)
  BY <1>1, EndKeeps DEF InsertVersion
<1>2. CASE PrimaryKeyFree(c) /\ migrator' = [migrator EXCEPT ![c].pc = "commit"]
  <2> DEFINE run == [migrator[c] EXCEPT !.pc = "commit"]
  <2>1. /\ run \in Runs /\ run.pc = "commit" /\ run.seen = migrator[c].seen
        /\ run.at = migrator[c].at /\ run.tx = migrator[c].tx
    BY DEF MInv, MTypeOK, Runs, RunPcs
  <2>2. migrator' = [migrator EXCEPT ![c] = run]
    BY <1>2
  <2>3. /\ run.seen \subseteq recorded /\ 1..(run.at - 1) \subseteq recorded
        /\ run.at \in Versions /\ run.tx = OpenAt(run)
    BY <2>1 DEF MInv, RunsAhead, InsertVersion, Migrating, OpenAt
  <2>4. run.tx # 0 => \A d \in Replicas \ {c} : migrator[d].tx # run.tx
    BY <2>1 DEF MInv, ApartFromEachOther
  <2>5. run.at \notin recorded
    BY <1>2, <2>1 DEF PrimaryKeyFree
  <2> HIDE DEF run
  <2> QED
    BY <2>1, <2>2, <2>3, <2>4, <2>5, OneRunChanges DEF InsertVersion
<1> QED
  BY <1>1, <1>2 DEF InsertVersion

LEMMA CommitKeeps ==
    ASSUME MInv, NEW c \in Replicas, CommitMigration(c)
    PROVE  MInv'
<1> DEFINE at == migrator[c].at
<1>1. PICK pc \in {"next", "ended"} :
        migrator' = [migrator EXCEPT ![c].pc = pc, ![c].at = @ + 1, ![c].tx = 0]
  BY DEF CommitMigration
<1> DEFINE run == [pc |-> pc, seen |-> migrator[c].seen, at |-> at + 1, tx |-> 0]
<1>2. /\ migrator[c] \in Runs /\ migrator[c].pc = "commit" /\ at \in Versions
      /\ at \notin recorded /\ migrator[c].seen \subseteq recorded
      /\ 1..(at - 1) \subseteq recorded /\ at \in Nat \ {0}
      /\ migrator[c].tx = at
  BY DEF MInv, MTypeOK, RunsAhead, Runs, CommitMigration, Migrating, OpenAt
<1>3. /\ run \in Runs /\ run.pc = pc /\ run.seen = migrator[c].seen
      /\ run.at = at + 1 /\ run.tx = 0
  <2>1. pc \in RunPcs /\ at + 1 \in Nat \ {0}
    BY <1>2 DEF RunPcs
  <2> QED
    BY <1>2, <2>1 DEF Runs
<1>4. /\ migrator' \in [Replicas -> Runs]
      /\ \A d \in Replicas : migrator'[d] = IF d = c THEN run ELSE migrator[d]
  BY <1>1, <1>2, <1>3 DEF MInv, MTypeOK, Runs
<1>5. /\ recorded' = recorded \cup {at}
      /\ built' = [built EXCEPT ![at] = @ + 1]
  BY DEF CommitMigration
<1>6. MTypeOK'
  BY <1>2, <1>4, <1>5 DEF MInv, MTypeOK
<1>7. 1..at = 1..(at - 1) \cup {at} /\ (at + 1) - 1 = at
  BY <1>2
<1>8. MigratedOnce'
  <2>1. \A v \in Versions : built'[v] = IF v \in recorded' THEN 1 ELSE 0
    BY <1>2, <1>5 DEF MInv, MTypeOK, MigratedOnce
  <2>2. \A v \in recorded' : 1..v \subseteq recorded'
    BY <1>2, <1>5, <1>7 DEF MInv, MigratedOnce
  <2> QED
    BY <2>1, <2>2 DEF MigratedOnce
<1>9. RunsAhead'
  <2> SUFFICES ASSUME NEW d \in Replicas
               PROVE  LET r == migrator'[d]
                      IN  /\ r.seen \subseteq recorded'
                          /\ r.pc \notin {"none", "ended"} =>
                               1..(r.at - 1) \subseteq recorded'
                          /\ r.pc \in {"ddl", "insert", "commit"} => r.at \in Versions
                          /\ r.pc = "commit" => r.at \notin recorded'
                          /\ r.tx = OpenAt(r)
    BY DEF RunsAhead, OpenAt
  <2>1. CASE d = c
    BY <2>1, <1>2, <1>3, <1>4, <1>5, <1>7 DEF OpenAt
  <2>2. CASE d # c
    <3>1. migrator[d].pc = "commit" => migrator[d].at # at
      BY <2>2, <1>2 DEF MInv, RunsAhead, ApartFromEachOther, OpenAt
    <3> QED
      BY <2>2, <3>1, <1>4, <1>5 DEF MInv, RunsAhead
  <2> QED
    BY <2>1, <2>2
<1>10. ApartFromEachOther'
  BY <1>3, <1>4 DEF MInv, ApartFromEachOther
<1> QED
  BY <1>6, <1>8, <1>9, <1>10 DEF MInv

-----------------------------------------------------------------------------
\* What a step of the whole does to the migrations.
MigrationStep(c) ==
    \/ BeginMigrations(c) \/ MigrationFails(c) \/ Migrate(c)
    \/ ForgetMigrator(c)

LEMMA StepsOfMigrations ==
    ASSUME [Next]_vars
    PROVE  (\E c \in Replicas : MigrationStep(c)) \/ UNCHANGED migrations
<1>1. CASE UNCHANGED vars
  BY <1>1 DEF vars
<1>2. ASSUME NEW c \in Replicas, Boot(c) \/ Start(c) \/ LoseMigrations(c) \/ Crash(c)
      PROVE  MigrationStep(c) \/ UNCHANGED migrations
  BY <1>2 DEF Boot, Start, OpenStorage, OpenDatabase, RunMigrations, Migrated,
              LoadCells, LoseMigrations, Crash, MigrationStep, migrations
<1>3. ASSUME NEW r \in Requests, Handle(r) \/ Record(r)
      PROVE  UNCHANGED migrations
  BY <1>3 DEF Handle, Dispatch, ServeAdmin, ServeTraces, Record
<1>4. ASSUME NEW r \in Requests, NEW kind \in KindsOf(traffic), Arrive(r, kind)
      PROVE  UNCHANGED migrations
  BY <1>4 DEF Arrive
<1>5. ASSUME \/ \E user \in Users : Ask(user)
             \/ HandleEvent
             \/ \E k \in StoreKeys : Expire(k)
             \/ \E text \in Texts \cup {Malformed} : Edit(text)
      PROVE  UNCHANGED migrations
  BY <1>5 DEF Ask, HandleEvent, Expire, Edit
<1> QED
  BY <1>1, <1>2, <1>3, <1>4, <1>5 DEF Next

LEMMA MigrationsInductive == MInv /\ [Next]_vars => MInv'
<1> SUFFICES ASSUME MInv, [Next]_vars PROVE MInv'
  OBVIOUS
<1>1. CASE UNCHANGED migrations
  BY <1>1 DEF migrations, MInv, MTypeOK, MigratedOnce, RunsAhead, ApartFromEachOther
<1>2. ASSUME NEW c \in Replicas, MigrationStep(c)
      PROVE  MInv'
  BY <1>2, BeginKeeps, ForgetKeeps, EndKeeps, ReadKeeps, NextKeeps, DdlKeeps,
     InsertKeeps, CommitKeeps DEF MigrationStep, Migrate, MigrationFails
<1> QED
  BY <1>1, <1>2, StepsOfMigrations

LEMMA AlwaysMigrated == Spec => []MInv
<1>1. Init => MInv
  BY InitMigrations DEF Init
<1> QED
  BY <1>1, MigrationsInductive, PTL DEF Spec

\* However many replicas start, fail and crash, and whatever else the chassis
\* does meanwhile: a migration's DDL and row are committed together, once, and
\* none before the ones it builds on.
THEOREM BuiltOnce == Spec => []MigratedOnce
<1>1. MInv => MigratedOnce
  BY DEF MInv
<1> QED
  BY <1>1, AlwaysMigrated, PTL
=============================================================================
