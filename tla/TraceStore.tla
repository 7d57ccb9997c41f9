----------------------------- MODULE TraceStore -----------------------------
(***************************************************************************)
(* DomainTraceStorage (runtime/src/telemetry/trace.rs) and the two admin   *)
(* handlers that read it.  A trace is in the store under its command id,   *)
(* and in a map in memory; a list of the most recent command ids is in     *)
(* memory and, copied, in the store.                                       *)
(*                                                                         *)
(* record_trace runs in a task of its own: the store is written before and *)
(* after the locks are held, so two tasks may take turns in between.  A    *)
(* client that repeats a command repeats its id.                           *)
(***************************************************************************)
EXTENDS HttpFront

CONSTANTS Ids,          \* command ids
          RecentIndex,  \* the key "traces:recent_index"
          MaxRecent,    \* max_recent
          Earlier       \* ids an earlier process traced, newest first

ASSUME TraceAssumption ==
    /\ MaxRecent \in Nat \ {0}
    /\ Earlier \in Seq(Ids) /\ Len(Earlier) <= MaxRecent
    /\ \A i, j \in DOMAIN Earlier : i # j => Earlier[i] # Earlier[j]

VARIABLES recent,       \* in_memory_recent: ids, newest first
          traces,       \* in_memory_traces: the request an id was traced for
                        \* (0: one of an earlier process)
          task,         \* each request's record_trace
          indexed,      \* history: ids in recent since it was read from the index
          unsaved       \* history: ids the store did not take, or dropped

memory == <<recent, traces, task, indexed, unsaved>>

NoTask == [pc |-> "none", copy |-> <<>>]

LeftByEarlier ==
    [k \in StoreKeys |->
        IF k = RecentIndex THEN (IF Earlier = <<>> THEN NoValue ELSE Earlier)
        ELSE IF \E n \in DOMAIN Earlier : Earlier[n] = k THEN 0 ELSE NoValue]

TraceInit ==
    /\ recent = <<>>
    /\ traces = [i \in Ids |-> NoValue]
    /\ task = [r \in Requests |-> NoTask]
    /\ indexed = {}
    /\ unsaved = {}

ForgetTraces ==
    /\ recent' = <<>>
    /\ traces' = [i \in Ids |-> NoValue]
    /\ task' = [r \in Requests |-> NoTask]
    /\ indexed' = {}
    /\ UNCHANGED unsaved

Spawn(r) == task' = [task EXCEPT ![r].pc = "save"]
Step(r, pc) == task' = [task EXCEPT ![r].pc = pc]
Doing(r, pc) == task[r].pc = pc
Listed == {recent[i] : i \in DOMAIN recent}

-----------------------------------------------------------------------------
(* record_trace *)

SaveTrace(r) ==
    /\ Doing(r, "save")
    /\ \/ Set(req[r].arg, r) /\ unsaved' = unsaved \ {req[r].arg}
       \/ SetFails(req[r].arg, r) /\ unsaved' = unsaved \cup {req[r].arg}
    /\ Step(r, "remember")
    /\ UNCHANGED <<recent, traces, indexed>>

WithDuplicates(list, id) == <<id>> \o list

\* Where an id is, or the end of a list that it is not in.
Place(list, id) ==
    IF \E p \in DOMAIN list : list[p] = id
    THEN CHOOSE p \in DOMAIN list : list[p] = id ELSE Len(list) + 1

\* retain, push_front: an id is listed once (ListedIsOpenable), so one entry goes.
InFront(list, id) ==
    LET p == Place(list, id)
    IN  <<id>> \o SubSeq(list, 1, p - 1) \o SubSeq(list, p + 1, Len(list))

Trimmed(list) == IF Len(list) > MaxRecent THEN SubSeq(list, 1, MaxRecent) ELSE list
Popped(list) == {list[i] : i \in (MaxRecent + 1)..Len(list)}

\* An inner guard that outlives its block would be taken a second time below.
RememberSelfLocked(r) ==
    LET id == req[r].arg
        list == InFront(recent, id)
    IN  /\ Doing(r, "remember")
        /\ Popped(list) = {}
        /\ recent' = list
        /\ traces' = [traces EXCEPT ![id] = r]
        /\ indexed' = indexed \ {id}
        /\ Step(r, "copy")
        /\ UNCHANGED <<kv, unsaved>>

\* Under the write lock of the list: what falls off its end leaves the map too.
Remember(r) ==
    LET id == req[r].arg
        list == InFront(recent, id)
    IN  /\ Doing(r, "remember")
        /\ recent' = Trimmed(list)
        /\ traces' = [i \in Ids |-> IF i = id THEN r
                                    ELSE IF i \in Popped(list) THEN NoValue
                                    ELSE traces[i]]
        /\ indexed' = indexed \ {id}
        /\ Step(r, "copy")
        /\ UNCHANGED <<kv, unsaved>>

CopyRecent(r) ==
    /\ Doing(r, "copy")
    /\ task' = [task EXCEPT ![r].pc = "index", ![r].copy = recent]
    /\ UNCHANGED <<kv, recent, traces, indexed, unsaved>>

SaveIndex(r) ==
    /\ Doing(r, "index")
    /\ Set(RecentIndex, task[r].copy) \/ SetFails(RecentIndex, task[r].copy)
    /\ task' = [task EXCEPT ![r] = [NoTask EXCEPT !.pc = "done"]]
    /\ UNCHANGED <<recent, traces, indexed, unsaved>>

RecordTrace(r) == SaveTrace(r) \/ Remember(r) \/ CopyRecent(r) \/ SaveIndex(r)

-----------------------------------------------------------------------------
(* handle_trace_by_id and get_trace *)

GetTrace(r) ==
    /\ At(r, "cached")
    /\ IF traces[req[r].arg] # NoValue THEN Reply(r) ELSE Goto(r, "fetch")
    /\ UNCHANGED memory

\* Not there, or an error: 404, 500.
FetchTrace(r) ==
    LET found == kv[req[r].arg]
    IN  /\ At(r, "fetch")
        /\ \/ /\ found # NoValue
              /\ req' = [req EXCEPT ![r].pc = "keep", ![r].seen = found]
           \/ Reply(r)
        /\ UNCHANGED memory

\* The trace that was fetched goes into the map, whatever is there by now.
KeepTrace(r) ==
    /\ At(r, "keep")
    /\ traces' = [traces EXCEPT ![req[r].arg] = req[r].seen]
    /\ Reply(r)
    /\ UNCHANGED <<recent, task, indexed, unsaved>>

(* handle_traces and list_recent_traces *)

\* option: a limit other than 0.  The first 0 of a list are as none in memory.
ListRecent(r) ==
    /\ At(r, "recent")
    /\ IF recent # <<>> /\ req[r].option THEN Reply(r) ELSE Goto(r, "index")
    /\ UNCHANGED memory

\* An error of the store is an empty answer.
FetchIndex(r) ==
    LET found == kv[RecentIndex]
    IN  /\ At(r, "index")
        /\ \/ /\ found # NoValue
              /\ req' = [req EXCEPT ![r].pc = "adopt", ![r].seen = found]
           \/ Reply(r)
        /\ UNCHANGED memory

\* The list in memory is replaced, whatever is there by now.
AdoptIndex(r) ==
    LET list == req[r].seen
    IN  /\ At(r, "adopt")
        /\ recent' = list
        /\ indexed' = {list[i] : i \in DOMAIN list} \ {i \in Ids : traces[i] # NoValue}
        /\ Reply(r)
        /\ UNCHANGED <<traces, task, unsaved>>

ReadTraces(r) ==
    \/ GetTrace(r) \/ FetchTrace(r) \/ KeepTrace(r)
    \/ ListRecent(r) \/ FetchIndex(r) \/ AdoptIndex(r)
=============================================================================
