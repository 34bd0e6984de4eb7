-------------------------- MODULE SupervisorProofs --------------------------
(***************************************************************************)
(* Safety of Supervisor for every set of devnodes and keys and every value *)
(* of the bounds.                                                          *)
(*                                                                         *)
(* The invariants of the ledger (`readers`, `retries`, the tasks and their *)
(* queued reports) are not inductive one by one: that a report retires     *)
(* nobody but its own task rests on its task having finished, on its       *)
(* carrying that task's devnode, and on the entry it matches naming a task *)
(* of the same devnode.  `Ledger` is their inductive conjunction.          *)
(*                                                                         *)
(* The last two sections rest on it: that Supervisor implements Ownership, *)
(* and that a quiet supervisor has nothing stranded.                       *)
(***************************************************************************)
EXTENDS Supervisor, SequenceTheorems, FiniteSetTheorems, TLAPS

\* Generations above the counter have not been spawned.
Unborn == \A g \in Generations : g > generations => tasks[g].state = "unborn"

\* An entry names a task spawned for its own devnode.
EntryNamesOwnTask ==
  \A d \in Devnodes : Tracked(d) =>
    /\ readers[d].generation <= generations
    /\ tasks[readers[d].generation].devnode = d

\* A queued report comes from a finished task and carries its devnode.
ReportIsFinal ==
  \A i \in DOMAIN done :
    /\ tasks[done[i].generation].state = "finished"
    /\ tasks[done[i].generation].devnode = done[i].devnode

Ledger ==
  /\ Unborn
  /\ EntryNamesOwnTask
  /\ ReportIsFinal
  /\ SingleOwner
  /\ EntryHasOwner
  /\ RetryExcludesReader

books == <<generations, readers, retries, tasks, done>>

-----------------------------------------------------------------------------
(* Type correctness *)

\* What a process starts with is well typed.
LEMMA StartTyped ==
  ASSUME ProcessStart,
         plugged \in [Devnodes -> Keys \cup {None}],
         changes \in 0..MaxChanges, faults \in 0..MaxFaults
  PROVE  TypeOK
<1>1. tasks \in [Generations -> Task]
  BY DEF ProcessStart, NoTask, Task, TaskState, End
<1>2. readers \in [Devnodes -> Reader]
  BY ConstantsAssumption DEF ProcessStart, NoReader, Reader
<1>3. /\ uevents \in Seq(Uevent)
      /\ events \in Seq(Event) /\ Len(events) <= EventCap
      /\ done \in Seq(Done) /\ Len(done) <= DoneCap
  BY ConstantsAssumption DEF ProcessStart
<1>4. /\ monitor \in {"starting", "listening", "dead"}
      /\ resume \in BOOLEAN
      /\ phase \in {"boot", "loop"}
      /\ pending \in SUBSET Node
      /\ retries \in SUBSET Retry
      /\ unheard \in SUBSET Devnodes
  BY DEF ProcessStart
<1>5. generations \in 0..MaxSpawns /\ refs \in [Keys -> Nat]
  BY ConstantsAssumption DEF ProcessStart
<1> QED
  BY <1>1, <1>2, <1>3, <1>4, <1>5 DEF TypeOK

\* A restarted process looks like a fresh one.
LEMMA RestartIsStart == Restart => ProcessStart'
  BY DEF Restart, ProcessStart

\* A spawned reader is well typed.
LEMMA SpawnTyped ==
  ASSUME TypeOK, NEW n \in Node, NEW a \in Nat, Spawn(n, a)
  PROVE  /\ generations' \in 0..MaxSpawns
         /\ tasks' \in [Generations -> Task]
         /\ readers' \in [Devnodes -> Reader]
<1>1. generations + 1 \in Generations /\ generations' = generations + 1
  BY ConstantsAssumption DEF TypeOK, Spawn, Generations
<1>2. tasks' \in [Generations -> Task]
  <2>1. [devnode |-> n.devnode, key |-> n.key, state |-> "spawned",
         attached |-> FALSE, end |-> "DeviceGone"] \in Task
    BY DEF Node, Task, TaskState, End
  <2> QED
    BY <1>1, <2>1 DEF TypeOK, Spawn
<1>3. readers' \in [Devnodes -> Reader]
  <2>1. [generation |-> generations + 1, attempt |-> a] \in Reader
    BY <1>1, ConstantsAssumption DEF Reader, Generations
  <2> QED
    BY <2>1 DEF TypeOK, Spawn
<1> QED
  BY <1>1, <1>2, <1>3, ConstantsAssumption DEF Generations

\* Adopting a node keeps the supervisor's state well typed.
LEMMA AdoptTyped ==
  ASSUME TypeOK, NEW n \in Node, Adopt(n)
  PROVE  /\ generations' \in 0..MaxSpawns
         /\ tasks' \in [Generations -> Task]
         /\ readers' \in [Devnodes -> Reader]
         /\ retries' \in SUBSET Retry
<1>1. retries' \in SUBSET Retry
  BY DEF Adopt, TypeOK
<1>2. CASE Vacant(n.devnode)
  BY <1>1, <1>2, SpawnTyped, 0 \in Nat DEF Adopt
<1>3. CASE ~Vacant(n.devnode)
  BY <1>1, <1>3 DEF Adopt, TypeOK
<1> QED
  BY <1>2, <1>3

\* A task stays well typed in a new state.
LEMMA BecomeTyped ==
  ASSUME TypeOK, NEW g \in Generations, tasks[g] # NoTask,
         NEW s \in TaskState, NEW b \in BOOLEAN, NEW e \in End
  PROVE  /\ Become(g, s, b, e) \in Task
         /\ [tasks EXCEPT ![g] = Become(g, s, b, e)]
              \in [Generations -> Task]
<1>1. tasks[g] \in Task
  BY DEF TypeOK
<1>2. Become(g, s, b, e) \in Task
  BY <1>1 DEF Become, Task
<1> QED
  BY <1>2 DEF TypeOK

\* Forgetting a devnode keeps the supervisor's state well typed.
LEMMA ForgetTyped ==
  ASSUME TypeOK, EntryNamesOwnTask, NEW d \in Devnodes, Forget(d)
  PROVE  /\ generations' \in 0..MaxSpawns
         /\ tasks' \in [Generations -> Task]
         /\ readers' \in [Devnodes -> Reader]
         /\ retries' \in SUBSET Retry
<1>1. retries' \in SUBSET Retry /\ generations' \in 0..MaxSpawns
  BY DEF Forget, TypeOK
<1>2. readers' \in [Devnodes -> Reader]
  <2>1. NoReader \in Reader
    BY ConstantsAssumption DEF NoReader, Reader
  <2> QED
    BY <2>1 DEF Forget, TypeOK
<1>3. tasks' \in [Generations -> Task]
  <2>1. CASE Tracked(d)
    <3> DEFINE g == readers[d].generation
    <3>1. g \in Generations
      BY <2>1, ConstantsAssumption
      DEF TypeOK, Reader, Tracked, Generations
    <3>2. tasks[g] # NoTask
      BY <2>1, ConstantsAssumption DEF EntryNamesOwnTask, NoTask
    <3>3. /\ tasks[g].attached \in BOOLEAN /\ tasks[g].end \in End
          /\ "aborting" \in TaskState /\ "finished" \in TaskState
      BY <3>1, <3>2 DEF TypeOK, Task, TaskState
    <3> QED
      BY <2>1, <3>1, <3>2, <3>3, BecomeTyped DEF Forget, Abort
  <2>2. CASE ~Tracked(d)
    BY <2>2 DEF Forget, TypeOK
  <2> QED
    BY <2>1, <2>2
<1> QED
  BY <1>1, <1>2, <1>3

\* Every step keeps the state well typed.
LEMMA TypeStep ==
  ASSUME TypeOK, EntryNamesOwnTask, [Next]_vars
  PROVE  TypeOK'
<1> USE ConstantsAssumption
<1>1. ASSUME NEW d \in Devnodes, NEW k \in Keys, Plug(d, k) PROVE TypeOK'
  <2>1. uevents' \in Seq(Uevent)
    <3>1. [kind |-> "add", devnode |-> d, key |-> k, current |-> TRUE]
            \in Uevent
      BY DEF Uevent
    <3> QED
      BY <1>1, <3>1 DEF Plug, Announce, TypeOK
  <2>2. unheard' \in SUBSET Devnodes
    BY <1>1 DEF Plug, Overhear, TypeOK
  <2>3. plugged' \in [Devnodes -> Keys \cup {None}]
    BY <1>1 DEF Plug, TypeOK
  <2>4. changes' \in 0..MaxChanges
    BY <1>1 DEF Plug, WorldChange, TypeOK
  <2> QED
    BY <1>1, <2>1, <2>2, <2>3, <2>4 DEF Plug, supervision, TypeOK
<1>2. ASSUME NEW d \in Devnodes, Unplug(d) PROVE TypeOK'
  <2> DEFINE stale == [i \in DOMAIN uevents |->
                        IF uevents[i].devnode = d
                        THEN [kind |-> uevents[i].kind, devnode |-> d,
                              key |-> uevents[i].key, current |-> FALSE]
                        ELSE uevents[i]]
  <2>1. stale \in Seq(Uevent)
    <3>1. /\ uevents \in Seq(Uevent) /\ Len(uevents) \in Nat
          /\ DOMAIN uevents = 1..Len(uevents)
      BY DEF TypeOK
    <3>2. \A i \in 1..Len(uevents) : uevents[i] \in Uevent
      BY <3>1
    <3>3. \A i \in 1..Len(uevents) : stale[i] \in Uevent
      BY <3>1, <3>2 DEF Uevent
    <3>4. stale \in [1..Len(uevents) -> Uevent]
      BY <3>1, <3>3
    <3> HIDE DEF stale
    <3> QED
      BY <3>1, <3>4, SeqDef
  <2>2. uevents' \in Seq(Uevent)
    <3>1. [kind |-> "remove", devnode |-> d, key |-> None,
           current |-> TRUE] \in Uevent
      BY DEF Uevent
    <3>2. uevents' = IF monitor = "listening"
                     THEN Append(stale, [kind |-> "remove", devnode |-> d,
                                         key |-> None, current |-> TRUE])
                     ELSE stale
      BY <1>2 DEF Unplug
    <3> HIDE DEF stale
    <3> QED
      BY <2>1, <3>1, <3>2
  <2>3. tasks' \in [Generations -> Task]
    <3>1. ASSUME NEW g \in Generations, tasks[g].devnode = d
          PROVE  Become(g, tasks[g].state, FALSE, tasks[g].end) \in Task
      <4>1. tasks[g] # NoTask
        BY <3>1 DEF NoTask
      <4>2. tasks[g].state \in TaskState /\ tasks[g].end \in End
        BY <4>1 DEF TypeOK, Task
      <4> QED
        BY <4>1, <4>2, BecomeTyped
    <3> QED
      BY <1>2, <3>1 DEF Unplug, TypeOK
  <2>4. unheard' \in SUBSET Devnodes
    BY <1>2 DEF Unplug, Overhear, TypeOK
  <2>5. plugged' \in [Devnodes -> Keys \cup {None}]
    BY <1>2 DEF Unplug, TypeOK
  <2>6. changes' \in 0..MaxChanges
    BY <1>2 DEF Unplug, WorldChange, TypeOK
  <2> QED
    BY <1>2, <2>2, <2>3, <2>4, <2>5, <2>6 DEF Unplug, supervision, TypeOK
<1>3. ASSUME NEW d \in Devnodes, Change(d) PROVE TypeOK'
  <2>1. uevents' \in Seq(Uevent)
    <3>1. [kind |-> "add", devnode |-> d, key |-> plugged[d],
           current |-> TRUE] \in Uevent
      BY <1>3 DEF Change, Uevent, TypeOK
    <3> QED
      BY <1>3, <3>1 DEF Change, Announce, TypeOK
  <2>2. changes' \in 0..MaxChanges
    BY <1>3 DEF Change, WorldChange, TypeOK
  <2> QED
    BY <1>3, <2>1, <2>2 DEF Change, supervision, TypeOK
<1>4. CASE NoteResume
  <2>1. changes' \in 0..MaxChanges
    BY <1>4 DEF NoteResume, WorldChange, TypeOK
  <2> QED
    BY <1>4, <2>1 DEF NoteResume, monitoring, supervision, TypeOK
<1>5. CASE MonitorListen
  BY <1>5 DEF MonitorListen, world, supervision, TypeOK
<1>6. CASE MonitorFail
  <2>1. faults' \in 0..MaxFaults
    BY <1>6 DEF MonitorFail, Fault, TypeOK
  <2>2. uevents' \in Seq(Uevent)
    BY <1>6 DEF MonitorFail
  <2> QED
    BY <1>6, <2>1, <2>2 DEF MonitorFail, world, supervision, TypeOK
<1>25. CASE LoseUevent
  <2>1. faults' \in 0..MaxFaults
    BY <1>25 DEF LoseUevent, Fault, TypeOK
  <2>2. Len(uevents) \in Nat \ {0} /\ uevents[Len(uevents)] \in Uevent
    BY <1>25 DEF LoseUevent, TypeOK
  <2>3. uevents' \in Seq(Uevent)
    BY <1>25, <2>2 DEF LoseUevent, TypeOK
  <2>4. unheard' \in SUBSET Devnodes
    BY <1>25, <2>2 DEF LoseUevent, Uevent, TypeOK
  <2> QED
    BY <1>25, <2>1, <2>3, <2>4 DEF LoseUevent, world, supervision, TypeOK
<1>7. CASE MonitorForward
  <2> DEFINE u == Head(uevents)
  <2>1. u \in Uevent /\ uevents' \in Seq(Uevent)
    BY <1>7 DEF MonitorForward, TypeOK
  <2>2. events' \in Seq(Event) /\ Len(events') <= EventCap
    <3>1. [kind |-> "Removed", devnode |-> u.devnode, key |-> None] \in Event
      BY <2>1 DEF Uevent, Event
    <3>2. CASE /\ Len(events) < EventCap
               /\ events' = Append(events, [kind |-> "Removed",
                                            devnode |-> u.devnode,
                                            key |-> None])
      BY <3>1, <3>2 DEF TypeOK
    <3>3. CASE /\ u.kind = "add"
               /\ Len(events) < EventCap
               /\ events' = Append(events, [kind |-> "Added",
                                            devnode |-> u.devnode,
                                            key |-> u.key])
      <4>1. [kind |-> "Added", devnode |-> u.devnode, key |-> u.key] \in Event
        BY <2>1, <3>3 DEF Uevent, Event
      <4> QED
        BY <3>3, <4>1 DEF TypeOK
    <3>4. CASE UNCHANGED events
      BY <3>4 DEF TypeOK
    <3> QED
      BY <1>7, <3>2, <3>3, <3>4 DEF MonitorForward
  <2> QED
    BY <1>7, <2>1, <2>2 DEF MonitorForward, world, supervision, TypeOK
<1>8. CASE InitialScan
  <2>1. PresentNodes \in SUBSET Node
    BY DEF PresentNodes
  <2> QED
    BY <1>8, <2>1 DEF InitialScan, world, monitoring, TypeOK
<1>9. CASE AdoptScanned
  <2> PICK n \in pending :
        /\ pending' = pending \ {n}
        /\ Adopt(n)
        /\ UNCHANGED <<world, monitoring, events, resume, phase, done, refs,
                       faults, unheard>>
    BY <1>9 DEF AdoptScanned
  <2>1. n \in Node
    BY DEF TypeOK
  <2>2. /\ generations' \in 0..MaxSpawns
        /\ tasks' \in [Generations -> Task]
        /\ readers' \in [Devnodes -> Reader]
        /\ retries' \in SUBSET Retry
    BY <2>1, AdoptTyped
  <2>3. pending' \in SUBSET Node
    BY DEF TypeOK
  <2> QED
    BY <2>2, <2>3 DEF world, monitoring, TypeOK
<1>10. CASE HandleEvent
  <2> DEFINE e == Head(events)
             n == [devnode |-> e.devnode, key |-> e.key]
  <2>1. /\ e \in Event
        /\ events' \in Seq(Event)
        /\ Len(events') <= EventCap
    BY <1>10 DEF HandleEvent, TypeOK
  <2>2. /\ generations' \in 0..MaxSpawns
        /\ tasks' \in [Generations -> Task]
        /\ readers' \in [Devnodes -> Reader]
        /\ retries' \in SUBSET Retry
    <3>1. CASE e.kind = "Added" /\ Adopt(n)
      <4>1. n \in Node
        BY <2>1, <3>1 DEF Event, Node
      <4> QED
        BY <3>1, <4>1, AdoptTyped
    <3>2. CASE Forget(e.devnode)
      <4>1. e.devnode \in Devnodes
        BY <2>1 DEF Event
      <4> QED
        BY <3>2, <4>1, ForgetTyped
    <3> QED
      BY <1>10, <3>1, <3>2 DEF HandleEvent
  <2> QED
    BY <1>10, <2>1, <2>2 DEF HandleEvent, world, monitoring, TypeOK
<1>11. CASE HandleDone
  <2> DEFINE report == Head(done)
  <2>1. /\ report \in Done
        /\ done' \in Seq(Done)
        /\ Len(done') <= DoneCap
    BY <1>11 DEF HandleDone, TypeOK
  <2>2. readers' \in [Devnodes -> Reader] /\ retries' \in SUBSET Retry
    <3>1. CASE Retire(report)
      <4>1. NoReader \in Reader
        BY DEF NoReader, Reader
      <4>2. readers' \in [Devnodes -> Reader]
        BY <3>1, <4>1 DEF Retire, TypeOK
      <4>3. readers[report.devnode].attempt \in Nat
        BY <2>1 DEF Done, Reader, TypeOK
      <4>4. \A failures \in {1, readers[report.devnode].attempt + 1} :
              [devnode |-> report.devnode, key |-> report.key,
               attempt |-> failures, from |-> report.generation] \in Retry
        BY <2>1, <4>3 DEF Done, Retry
      <4>5. retries' \in SUBSET Retry
        BY <3>1, <4>4 DEF Retire, TypeOK
      <4> QED
        BY <4>2, <4>5
    <3>2. CASE UNCHANGED <<readers, retries>>
      BY <3>2 DEF TypeOK
    <3> QED
      BY <1>11, <3>1, <3>2 DEF HandleDone, OnDone
  <2> QED
    BY <1>11, <2>1, <2>2 DEF HandleDone, world, monitoring, TypeOK
<1>12. CASE HandleResume
  <2>1. faults' \in 0..MaxFaults /\ pending' \in SUBSET Node
    BY <1>12 DEF HandleResume, Fault, PresentNodes, TypeOK
  <2> QED
    BY <1>12, <2>1 DEF HandleResume, world, monitoring, TypeOK
<1>13. ASSUME NEW r \in retries, FireRetry(r) PROVE TypeOK'
  <2> DEFINE n == [devnode |-> r.devnode, key |-> r.key]
  <2>1. n \in Node /\ r.attempt \in Nat
    BY DEF TypeOK, Retry, Node
  <2>2. /\ generations' \in 0..MaxSpawns
        /\ tasks' \in [Generations -> Task]
        /\ readers' \in [Devnodes -> Reader]
    <3>1. CASE Vacant(r.devnode)
      BY <1>13, <2>1, <3>1, SpawnTyped DEF FireRetry
    <3>2. CASE ~Vacant(r.devnode)
      BY <1>13, <3>2 DEF FireRetry, TypeOK
    <3> QED
      BY <3>1, <3>2
  <2>3. retries' \in SUBSET Retry
    BY <1>13 DEF FireRetry, TypeOK
  <2> QED
    BY <1>13, <2>2, <2>3 DEF FireRetry, world, monitoring, TypeOK
<1>14. ASSUME NEW g \in Generations, Open(g) PROVE TypeOK'
  <2>1. tasks[g] \in Task /\ tasks[g] # NoTask /\ tasks[g].key \in Keys
    BY <1>14 DEF Open, NoTask, Task, TypeOK
  <2>2. tasks' \in [Generations -> Task]
    <3>1. "reading" \in TaskState /\ tasks[g].end \in End
      BY <2>1 DEF Task, TaskState
    <3> QED
      BY <1>14, <2>1, <3>1, BecomeTyped DEF Open
  <2>3. refs' \in [Keys -> Nat]
    BY <1>14, <2>1 DEF Open, Acquire, TypeOK
  <2> QED
    BY <1>14, <2>2, <2>3 DEF Open, world, monitoring, supervision, TypeOK
<1>15. ASSUME NEW g \in Generations, OpenFail(g) PROVE TypeOK'
  <2>1. tasks' \in [Generations -> Task]
    <3>1. /\ "sending" \in TaskState /\ "OpenFailed" \in End
          /\ tasks[g] # NoTask
      BY <1>15 DEF OpenFail, End, TaskState, NoTask
    <3> QED
      BY <1>15, <3>1, BecomeTyped DEF OpenFail
  <2>2. faults' \in 0..MaxFaults
    BY <1>15 DEF OpenFail, Fault, TypeOK
  <2> QED
    BY <1>15, <2>1, <2>2 DEF OpenFail, world, monitoring, supervision, TypeOK
<1>16. ASSUME NEW g \in Generations, NEW e \in End, EndRead(g, e),
              faults' \in 0..MaxFaults
       PROVE TypeOK'
  <2>1. tasks' \in [Generations -> Task]
    <3>1. "sending" \in TaskState /\ tasks[g] # NoTask
      BY <1>16 DEF EndRead, TaskState, NoTask
    <3> QED
      BY <1>16, <3>1, BecomeTyped DEF EndRead
  <2>2. tasks[g].key \in Keys
    BY <1>16 DEF EndRead, Task, NoTask, TypeOK
  <2>3. refs' \in [Keys -> Nat]
    BY <1>16, <2>2 DEF EndRead, Release, TypeOK
  <2> QED
    BY <1>16, <2>1, <2>3 DEF EndRead, world, monitoring, supervision, TypeOK
<1>17. ASSUME NEW g \in Generations, ReadGone(g) PROVE TypeOK'
  BY <1>16, <1>17 DEF ReadGone, End, TypeOK
<1>18. ASSUME NEW g \in Generations, ReadFail(g) PROVE TypeOK'
  BY <1>16, <1>18 DEF ReadFail, Fault, End, TypeOK
<1>19. ASSUME NEW g \in Generations, SendDone(g) PROVE TypeOK'
  <2>1. tasks[g] \in Task /\ tasks[g] # NoTask /\ tasks[g].key \in Keys
    BY <1>19 DEF SendDone, NoTask, Task, TypeOK
  <2>2. tasks[g].devnode \in Devnodes /\ tasks[g].key \in Keys
    BY <2>1 DEF Task
  <2>3. done' \in Seq(Done) /\ Len(done') <= DoneCap
    <3>1. [generation |-> g, devnode |-> tasks[g].devnode,
           key |-> tasks[g].key, end |-> tasks[g].end] \in Done
      BY <2>1, <2>2 DEF Done, Task
    <3> QED
      BY <1>19, <3>1 DEF SendDone, TypeOK
  <2>4. tasks' \in [Generations -> Task]
    <3>1. "finished" \in TaskState /\ tasks[g].end \in End
      BY <2>1 DEF Task, TaskState
    <3> QED
      BY <1>19, <2>1, <3>1, BecomeTyped DEF SendDone
  <2> QED
    BY <1>19, <2>3, <2>4 DEF SendDone, world, monitoring, supervision, TypeOK
<1>20. ASSUME NEW g \in Generations, DropAborted(g) PROVE TypeOK'
  <2>1. tasks[g] \in Task /\ tasks[g] # NoTask /\ tasks[g].key \in Keys
    BY <1>20 DEF DropAborted, NoTask, Task, TypeOK
  <2>2. tasks' \in [Generations -> Task]
    <3>1. "finished" \in TaskState /\ tasks[g].end \in End
      BY <2>1 DEF Task, TaskState
    <3> QED
      BY <1>20, <2>1, <3>1, BecomeTyped DEF DropAborted
  <2>3. refs' \in [Keys -> Nat]
    BY <1>20, <2>1 DEF DropAborted, Release, TypeOK
  <2> QED
    BY <1>20, <2>2, <2>3
    DEF DropAborted, world, monitoring, supervision, TypeOK
<1>21. ASSUME Restart, UNCHANGED plugged, UNCHANGED changes,
              faults' \in 0..MaxFaults
       PROVE TypeOK'
  <2>1. /\ ProcessStart'
        /\ (plugged \in [Devnodes -> Keys \cup {None}])'
        /\ (changes \in 0..MaxChanges)'
        /\ (faults \in 0..MaxFaults)'
    BY <1>21, RestartIsStart DEF TypeOK
  <2> QED
    BY <2>1, StartTyped, PTL
<1>22. CASE MonitorLost
  BY <1>21, <1>22 DEF MonitorLost, world, TypeOK
<1>23. CASE ProcessFails
  BY <1>21, <1>23 DEF ProcessFails, Fault, world, TypeOK
<1>24. CASE UNCHANGED vars
  BY <1>24 DEF vars, world, monitoring, supervision, TypeOK
<1> QED
  BY <1>1, <1>2, <1>3, <1>4, <1>5, <1>6, <1>7, <1>8, <1>9, <1>10, <1>11,
     <1>12, <1>13, <1>14, <1>15, <1>17, <1>18, <1>19, <1>20, <1>22, <1>23,
     <1>24, <1>25
  DEF Next, WorldNext, MonitorNext, SupervisorNext, TaskNext

-----------------------------------------------------------------------------
(* The ledger of entries, retries, tasks and reports *)

\* Nothing outside the books matters to the ledger.
LEMMA LedgerFrame == Ledger /\ UNCHANGED books => Ledger'
  BY DEF Ledger, books, Unborn, EntryNamesOwnTask, ReportIsFinal, SingleOwner,
         EntryHasOwner, RetryExcludesReader, Live, Tracked

\* What the ledger says of queued reports uses their type.
LEMMA ReportTyped ==
  ASSUME TypeOK
  PROVE  /\ Len(done) \in Nat /\ DOMAIN done = 1..Len(done)
         /\ \A i \in DOMAIN done :
              /\ done[i] \in Done
              /\ done[i].generation \in Generations
              /\ done[i].devnode \in Devnodes
<1>1. Len(done) \in Nat /\ DOMAIN done = 1..Len(done)
  BY DEF TypeOK
<1>2. \A i \in DOMAIN done : done[i] \in Done
  BY <1>1 DEF TypeOK
<1> QED
  BY <1>1, <1>2 DEF Done

\* An entry's generation is one of the spawned tasks'.
LEMMA EntryTyped ==
  ASSUME TypeOK, NEW d \in Devnodes, Tracked(d)
  PROVE  readers[d].generation \in Generations
  BY ConstantsAssumption DEF TypeOK, Reader, Tracked, Generations

(* A live task that stays live disturbs nothing: open, failed open, end.   *)
LEMMA LiveMoves ==
  ASSUME TypeOK, Ledger, NEW g \in Generations, Live(g),
         NEW s \in {"reading", "sending"}, NEW b, NEW e,
         tasks' = [tasks EXCEPT ![g] = Become(g, s, b, e)],
         UNCHANGED <<generations, readers, retries, done>>
  PROVE  Ledger'
<1>1. /\ tasks'[g].state = s
      /\ tasks'[g].devnode = tasks[g].devnode
      /\ \A h \in Generations : h # g => tasks'[h] = tasks[h]
  BY DEF Become, TypeOK
<1>2. \A h \in Generations : Live(h)' <=> Live(h)
  BY <1>1 DEF Live
<1>3. \A h \in Generations : tasks'[h].devnode = tasks[h].devnode
  BY <1>1
<1>4. Unborn'
  BY <1>1 DEF Live, Ledger, Unborn
<1>5. EntryNamesOwnTask'
  BY <1>3, EntryTyped DEF Ledger, EntryNamesOwnTask, Tracked
<1>6. ReportIsFinal'
  BY <1>1, ReportTyped DEF Live, Ledger, ReportIsFinal
<1>7. SingleOwner'
  BY <1>2, <1>3 DEF Ledger, SingleOwner
<1>8. EntryHasOwner'
  BY <1>2, EntryTyped DEF Ledger, EntryHasOwner, Tracked
<1>9. RetryExcludesReader'
  BY DEF Ledger, RetryExcludesReader, Tracked
<1> QED
  BY <1>4, <1>5, <1>6, <1>7, <1>8, <1>9 DEF Ledger

(* The end report is queued in the step that finishes its task, so the     *)
(* entry is never without an owner or a report.                            *)
LEMMA SendDoneLedger ==
  ASSUME TypeOK, Ledger, NEW g \in Generations, SendDone(g)
  PROVE  Ledger'
<1> DEFINE report == [generation |-> g, devnode |-> tasks[g].devnode,
                      key |-> tasks[g].key, end |-> tasks[g].end]
<1>1. /\ tasks'[g].state = "finished"
      /\ tasks'[g].devnode = tasks[g].devnode
      /\ \A h \in Generations : h # g => tasks'[h] = tasks[h]
      /\ tasks[g].state = "sending"
  BY DEF SendDone, Become, TypeOK
<1>2. UNCHANGED <<generations, readers, retries>>
  BY DEF SendDone, supervision
<1>3. /\ DOMAIN done' = 1..(Len(done) + 1)
      /\ \A i \in DOMAIN done : done'[i] = done[i]
      /\ done'[Len(done) + 1] = report
  BY ReportTyped DEF SendDone, TypeOK
<1>4. \A h \in Generations : h # g => (Live(h)' <=> Live(h))
  BY <1>1 DEF Live
<1>5. ~Live(g)'
  BY <1>1 DEF Live
<1>6. Unborn'
  BY <1>1, <1>2 DEF Ledger, Unborn
<1>7. EntryNamesOwnTask'
  BY <1>1, <1>2, EntryTyped DEF Ledger, EntryNamesOwnTask, Tracked
<1>8. ReportIsFinal'
  <2> SUFFICES ASSUME NEW i \in DOMAIN done'
               PROVE  /\ tasks'[done'[i].generation].state = "finished"
                      /\ tasks'[done'[i].generation].devnode = done'[i].devnode
    BY DEF ReportIsFinal
  <2>1. CASE i \in DOMAIN done
    BY <1>1, <1>3, <2>1, ReportTyped DEF Ledger, ReportIsFinal
  <2>2. CASE i = Len(done) + 1
    BY <1>1, <1>3, <2>2
  <2> QED
    BY <1>3, <2>1, <2>2, ReportTyped
<1>9. SingleOwner'
  BY <1>1, <1>2, <1>4, <1>5 DEF Ledger, SingleOwner
<1>10. EntryHasOwner'
  <2> SUFFICES ASSUME NEW d \in Devnodes, Tracked(d)'
               PROVE  \/ Live(readers[d].generation)'
                      \/ \E i \in DOMAIN done' :
                           done'[i].generation = readers'[d].generation
    BY DEF EntryHasOwner
  <2>1. Tracked(d) /\ readers'[d].generation = readers[d].generation
    BY <1>2 DEF Tracked
  <2>2. readers[d].generation \in Generations
    BY <2>1, EntryTyped
  <2>3. CASE readers[d].generation = g
    BY <1>3, <2>1, <2>3, ReportTyped
  <2>4. CASE readers[d].generation # g
    BY <1>2, <1>3, <1>4, <2>1, <2>2, <2>4, ReportTyped
    DEF Ledger, EntryHasOwner
  <2> QED
    BY <2>3, <2>4
<1>11. RetryExcludesReader'
  BY <1>2 DEF Ledger, RetryExcludesReader, Tracked
<1> QED
  BY <1>6, <1>7, <1>8, <1>9, <1>10, <1>11 DEF Ledger

\* An aborted task is nobody's reader already when it is dropped.
LEMMA DropAbortedLedger ==
  ASSUME TypeOK, Ledger, NEW g \in Generations, DropAborted(g)
  PROVE  Ledger'
<1>1. /\ tasks'[g].state = "finished"
      /\ tasks'[g].devnode = tasks[g].devnode
      /\ \A h \in Generations : h # g => tasks'[h] = tasks[h]
      /\ tasks[g].state = "aborting"
  BY DEF DropAborted, Become, TypeOK
<1>2. UNCHANGED <<generations, readers, retries, done>>
  BY DEF DropAborted, supervision
<1>3. \A h \in Generations : Live(h)' <=> Live(h)
  BY <1>1 DEF Live
<1>4. \A h \in Generations : tasks'[h].devnode = tasks[h].devnode
  BY <1>1
<1>5. Unborn'
  BY <1>1, <1>2 DEF Ledger, Unborn
<1>6. EntryNamesOwnTask'
  BY <1>2, <1>4, EntryTyped DEF Ledger, EntryNamesOwnTask, Tracked
<1>7. ReportIsFinal'
  BY <1>1, <1>2, ReportTyped DEF Ledger, ReportIsFinal
<1>8. SingleOwner'
  BY <1>2, <1>3, <1>4 DEF Ledger, SingleOwner
<1>9. EntryHasOwner'
  BY <1>2, <1>3, EntryTyped DEF Ledger, EntryHasOwner, Tracked
<1>10. RetryExcludesReader'
  BY <1>2 DEF Ledger, RetryExcludesReader, Tracked
<1> QED
  BY <1>5, <1>6, <1>7, <1>8, <1>9, <1>10 DEF Ledger

(* A spawn on a devnode that no live task owns and for which no retry is   *)
(* left makes the new task the devnode's only owner.                       *)
LEMMA SpawnLedger ==
  ASSUME TypeOK, Ledger, NEW n \in Node, NEW a \in Nat,
         Vacant(n.devnode), Spawn(n, a),
         retries' \subseteq retries,
         \A r \in retries' : r.devnode # n.devnode,
         UNCHANGED done
  PROVE  Ledger'
<1> DEFINE d == n.devnode
<1> PICK g \in Nat : g = generations + 1
  BY DEF TypeOK
<1>1. g \in Generations /\ generations' = g /\ g > generations
      /\ generations \in Nat /\ g \in Nat \ {0}
  BY ConstantsAssumption DEF TypeOK, Spawn, Generations
<1>2. /\ tasks'[g].state = "spawned" /\ tasks'[g].devnode = d
      /\ \A h \in Generations : h # g => tasks'[h] = tasks[h]
  BY <1>1 DEF Spawn, TypeOK
<1>3. d \in Devnodes
  BY DEF Node
<1>4. /\ readers'[d].generation = g
      /\ \A c \in Devnodes : c # d => readers'[c] = readers[c]
  BY <1>3 DEF Spawn, TypeOK
<1>5. tasks[g].state = "unborn"
  BY <1>1 DEF Ledger, Unborn
<1>6. ASSUME NEW h \in Generations, Live(h) PROVE tasks[h].devnode # d
  <2> SUFFICES ASSUME tasks[h].devnode = d PROVE FALSE
    OBVIOUS
  <2>1. readers[d].generation = h
    BY <1>6 DEF Ledger, SingleOwner
  <2>2. Tracked(d)
    BY <2>1 DEF Tracked, Generations
  <2> QED
    BY <1>6, <2>1, <2>2 DEF Vacant, IsFinished, Live
<1>7. ASSUME NEW c \in Devnodes, c # d, Tracked(c)'
      PROVE  /\ Tracked(c) /\ readers[c].generation \in Generations
             /\ readers[c].generation <= generations
             /\ readers[c].generation # g
             /\ readers'[c] = readers[c]
  <2>1. Tracked(c) /\ readers'[c] = readers[c]
    BY <1>4, <1>7 DEF Tracked
  <2>2. /\ readers[c].generation \in Generations
        /\ readers[c].generation <= generations
    BY <2>1, EntryTyped DEF Ledger, EntryNamesOwnTask
  <2> QED
    BY <1>1, <2>1, <2>2 DEF Generations
<1>8. \A h \in Generations : h # g => (Live(h)' <=> Live(h))
  BY <1>2 DEF Live
<1>9. Live(g)'
  BY <1>2 DEF Live
<1>10. Unborn'
  BY <1>1, <1>2 DEF Ledger, Unborn, Generations
<1>11. EntryNamesOwnTask'
  <2> SUFFICES ASSUME NEW c \in Devnodes, Tracked(c)'
               PROVE  /\ readers'[c].generation <= generations'
                      /\ tasks'[readers'[c].generation].devnode = c
    BY DEF EntryNamesOwnTask
  <2>1. CASE c = d
    BY <1>1, <1>2, <1>4, <2>1
  <2>2. CASE c # d
    <3>1. /\ Tracked(c) /\ readers[c].generation \in Generations
          /\ readers[c].generation <= generations
          /\ readers[c].generation # g
          /\ readers'[c] = readers[c]
      BY <1>7, <2>2
    <3>2. tasks'[readers[c].generation].devnode = c
      BY <1>2, <3>1 DEF Ledger, EntryNamesOwnTask
    <3> QED
      BY <1>1, <3>1, <3>2 DEF Generations
  <2> QED
    BY <2>1, <2>2
<1>12. ReportIsFinal'
  <2> SUFFICES ASSUME NEW i \in DOMAIN done
               PROVE  /\ tasks'[done[i].generation].state = "finished"
                      /\ tasks'[done[i].generation].devnode = done[i].devnode
    BY DEF ReportIsFinal
  <2>1. /\ done[i].generation \in Generations
        /\ tasks[done[i].generation].state = "finished"
        /\ tasks[done[i].generation].devnode = done[i].devnode
    BY ReportTyped DEF Ledger, ReportIsFinal
  <2> QED
    BY <1>2, <1>5, <2>1
<1>13. SingleOwner'
  <2> SUFFICES ASSUME NEW h \in Generations, Live(h)'
               PROVE  readers'[tasks'[h].devnode].generation = h
    BY DEF SingleOwner
  <2>1. CASE h = g
    BY <1>2, <1>4, <2>1
  <2>2. CASE h # g
    <3>1. Live(h) /\ tasks'[h] = tasks[h] /\ tasks[h].devnode # d
      BY <1>2, <1>6, <1>8, <2>2
    <3>2. tasks[h].devnode \in Devnodes
      BY <3>1 DEF TypeOK, Task, NoTask, Live
    <3> QED
      BY <1>4, <3>1, <3>2 DEF Ledger, SingleOwner
  <2> QED
    BY <2>1, <2>2
<1>14. EntryHasOwner'
  <2> SUFFICES ASSUME NEW c \in Devnodes, Tracked(c)'
               PROVE  \/ Live(readers[c].generation)'
                      \/ \E i \in DOMAIN done :
                           done[i].generation = readers'[c].generation
    BY DEF EntryHasOwner
  <2>1. CASE c = d
    <3>1. Live(readers[c].generation)' <=> Live(g)'
      BY <1>4, <2>1 DEF Live
    <3> QED
      BY <1>9, <3>1
  <2>2. CASE c # d
    BY <1>7, <1>8, <2>2 DEF Ledger, EntryHasOwner
  <2> QED
    BY <2>1, <2>2
<1>15. RetryExcludesReader'
  <2> SUFFICES ASSUME NEW r \in retries'
               PROVE  /\ ~Tracked(r.devnode)'
                      /\ \A s \in retries' : s.devnode = r.devnode => s = r
    BY DEF RetryExcludesReader
  <2>1. r.devnode \in Devnodes /\ r.devnode # d
    BY DEF TypeOK, Retry
  <2> QED
    BY <1>4, <2>1 DEF Ledger, RetryExcludesReader, Tracked
<1> QED
  BY <1>10, <1>11, <1>12, <1>13, <1>14, <1>15 DEF Ledger

\* Fresh evidence of a devnode, from a scan or an event.
LEMMA AdoptLedger ==
  ASSUME TypeOK, Ledger, NEW n \in Node, Adopt(n), UNCHANGED done
  PROVE  Ledger'
<1>1. /\ retries' \subseteq retries
      /\ \A r \in retries' : r.devnode # n.devnode
  BY DEF Adopt
<1>2. CASE Vacant(n.devnode)
  BY <1>1, <1>2, SpawnLedger, 0 \in Nat DEF Adopt
<1>3. CASE ~Vacant(n.devnode)
  <2>1. UNCHANGED <<generations, tasks, readers>>
    BY <1>3 DEF Adopt
  <2> QED
    BY <1>1, <2>1
    DEF Ledger, Unborn, EntryNamesOwnTask, ReportIsFinal, SingleOwner,
        EntryHasOwner, RetryExcludesReader, Live, Tracked
<1> QED
  BY <1>2, <1>3

(* A due retry: RetryExcludesReader is what makes its devnode free and it  *)
(* the devnode's only retry.                                               *)
LEMMA FireRetryLedger ==
  ASSUME TypeOK, Ledger, NEW r \in retries, FireRetry(r)
  PROVE  Ledger'
<1> DEFINE n == [devnode |-> r.devnode, key |-> r.key]
<1>1. n \in Node /\ r.attempt \in Nat /\ r.devnode \in Devnodes
  BY DEF TypeOK, Retry, Node
<1>2. /\ retries' \subseteq retries
      /\ \A s \in retries' : s.devnode # r.devnode
  BY DEF FireRetry, Ledger, RetryExcludesReader
<1>3. Vacant(r.devnode)
  BY DEF Ledger, RetryExcludesReader, Vacant
<1>4. Spawn(n, r.attempt) /\ UNCHANGED done
  BY <1>3 DEF FireRetry
<1> QED
  BY <1>1, <1>2, <1>3, <1>4, SpawnLedger

(* Unplug: the entry and the retries go and the reader is aborted in the   *)
(* same step, so no live reader is left without an entry.                  *)
LEMMA ForgetLedger ==
  ASSUME TypeOK, Ledger, NEW d \in Devnodes, Forget(d), UNCHANGED done
  PROVE  Ledger'
<1>1. /\ retries' = {r \in retries : r.devnode # d}
      /\ readers' = [readers EXCEPT ![d] = NoReader]
      /\ UNCHANGED generations
  BY DEF Forget
<1>2. ~Tracked(d)' /\ \A c \in Devnodes : c # d => readers'[c] = readers[c]
  BY <1>1 DEF TypeOK, Tracked, NoReader
<1>3. ASSUME NEW h \in Generations
      PROVE  tasks'[h].devnode = tasks[h].devnode
  <2>1. CASE Tracked(d)
    <3> PICK s : tasks' = [tasks EXCEPT ![readers[d].generation] =
                             Become(readers[d].generation, s,
                                    tasks[readers[d].generation].attached,
                                    tasks[readers[d].generation].end)]
      BY <2>1 DEF Forget, Abort
    <3> QED
      BY <2>1, EntryTyped DEF Become, TypeOK
  <2>2. CASE ~Tracked(d)
    BY <2>2 DEF Forget
  <2> QED
    BY <2>1, <2>2
<1>4. ASSUME NEW h \in Generations, ~(Tracked(d) /\ h = readers[d].generation)
      PROVE  tasks'[h] = tasks[h]
  BY <1>4, EntryTyped DEF Forget, Abort, TypeOK
<1>5. ASSUME NEW h \in Generations, Tracked(d), h = readers[d].generation
      PROVE  /\ tasks'[h].state \in {"aborting", "finished"}
             /\ tasks[h].state = "finished" => tasks'[h].state = "finished"
  BY <1>5 DEF Forget, Abort, Become, TypeOK
<1>6. ASSUME NEW h \in Generations, Live(h)'
      PROVE  Live(h) /\ tasks[h].devnode # d /\ tasks'[h] = tasks[h]
  <2>1. ~(Tracked(d) /\ h = readers[d].generation)
    BY <1>5, <1>6 DEF Live
  <2>2. tasks'[h] = tasks[h] /\ Live(h)
    BY <1>4, <1>6, <2>1 DEF Live
  <2>3. tasks[h].devnode = d => readers[d].generation = h /\ Tracked(d)
    BY <2>2 DEF Ledger, SingleOwner, Tracked, Generations
  <2> QED
    BY <2>1, <2>2, <2>3
<1>7. ASSUME NEW c \in Devnodes, Tracked(c)'
      PROVE  /\ Tracked(c) /\ c # d /\ readers'[c] = readers[c]
             /\ readers[c].generation \in Generations
             /\ tasks'[readers[c].generation] = tasks[readers[c].generation]
  <2>1. Tracked(c) /\ c # d /\ readers'[c] = readers[c]
    BY <1>2, <1>7 DEF Tracked
  <2>2. readers[c].generation \in Generations
    BY <2>1, EntryTyped
  <2>3. Tracked(d) => readers[c].generation # readers[d].generation
    BY <2>1 DEF Ledger, EntryNamesOwnTask
  <2> QED
    BY <1>4, <2>1, <2>2, <2>3
<1>8. Unborn'
  <2> SUFFICES ASSUME NEW h \in Generations, h > generations
               PROVE  tasks'[h].state = "unborn"
    BY <1>1 DEF Unborn
  <2>1. ~(Tracked(d) /\ h = readers[d].generation)
    <3>1. generations \in Nat /\ h \in Nat
      BY DEF Generations, TypeOK
    <3>2. Tracked(d) => readers[d].generation <= generations
      BY DEF Ledger, EntryNamesOwnTask
    <3> QED
      BY <3>1, <3>2
  <2> QED
    BY <1>4, <2>1 DEF Ledger, Unborn
<1>9. EntryNamesOwnTask'
  BY <1>1, <1>7 DEF Ledger, EntryNamesOwnTask
<1>10. ReportIsFinal'
  <2> SUFFICES ASSUME NEW i \in DOMAIN done
               PROVE  /\ tasks'[done[i].generation].state = "finished"
                      /\ tasks'[done[i].generation].devnode = done[i].devnode
    BY DEF ReportIsFinal
  <2>1. /\ done[i].generation \in Generations
        /\ tasks[done[i].generation].state = "finished"
        /\ tasks[done[i].generation].devnode = done[i].devnode
    BY ReportTyped DEF Ledger, ReportIsFinal
  <2> QED
    BY <1>3, <1>4, <1>5, <2>1
<1>11. SingleOwner'
  <2> SUFFICES ASSUME NEW h \in Generations, Live(h)'
               PROVE  readers'[tasks'[h].devnode].generation = h
    BY DEF SingleOwner
  <2>1. Live(h) /\ tasks[h].devnode # d /\ tasks'[h] = tasks[h]
    BY <1>6
  <2>2. tasks[h].devnode \in Devnodes
    BY <2>1 DEF TypeOK, Task, NoTask, Live
  <2> QED
    BY <1>2, <2>1, <2>2 DEF Ledger, SingleOwner
<1>12. EntryHasOwner'
  <2> SUFFICES ASSUME NEW c \in Devnodes, Tracked(c)'
               PROVE  \/ Live(readers[c].generation)'
                      \/ \E i \in DOMAIN done :
                           done[i].generation = readers'[c].generation
    BY DEF EntryHasOwner
  <2> QED
    BY <1>7 DEF Ledger, EntryHasOwner, Live
<1>13. RetryExcludesReader'
  <2> SUFFICES ASSUME NEW r \in retries'
               PROVE  /\ ~Tracked(r.devnode)'
                      /\ \A s \in retries' : s.devnode = r.devnode => s = r
    BY DEF RetryExcludesReader
  <2>1. r.devnode \in Devnodes /\ r.devnode # d /\ r \in retries
    BY <1>1 DEF TypeOK, Retry
  <2> QED
    BY <1>1, <1>2, <2>1 DEF Ledger, RetryExcludesReader, Tracked
<1> QED
  BY <1>8, <1>9, <1>10, <1>11, <1>12, <1>13 DEF Ledger

(* A report: it retires its own task's entry, and only when the devnode    *)
(* has not been given to another task meanwhile.                           *)
LEMMA HandleDoneLedger ==
  ASSUME TypeOK, Ledger, HandleDone
  PROVE  Ledger'
<1> PICK report \in Done : report = Head(done)
  BY DEF HandleDone, TypeOK
<1> DEFINE g == report.generation
           d == report.devnode
<1>1. g \in Generations /\ g # 0 /\ d \in Devnodes
  BY DEF Done, Generations
<1>2. /\ tasks[g].state = "finished" /\ tasks[g].devnode = d
      /\ 1 \in DOMAIN done /\ done[1] = report
  BY ReportTyped DEF HandleDone, Ledger, ReportIsFinal, TypeOK
<1>3. /\ done' = Tail(done)
      /\ UNCHANGED <<generations, tasks>>
  BY DEF HandleDone
<1>4. /\ DOMAIN done' = 1..(Len(done) - 1)
      /\ \A i \in DOMAIN done' : i + 1 \in DOMAIN done
                                /\ done'[i] = done[i + 1]
  BY <1>2, <1>3, ReportTyped DEF TypeOK
<1>5. \A i \in DOMAIN done : i # 1 => i - 1 \in DOMAIN done'
                                      /\ done'[i - 1] = done[i]
  BY <1>4, ReportTyped
<1>6. ReportIsFinal'
  BY <1>3, <1>4 DEF Ledger, ReportIsFinal
<1>7. Unborn'
  BY <1>3 DEF Ledger, Unborn
<1>8. CASE readers[d].generation # g
  <2>1. UNCHANGED <<readers, retries>>
    BY <1>8 DEF HandleDone, OnDone
  <2>2. EntryNamesOwnTask'
    BY <1>3, <2>1 DEF Ledger, EntryNamesOwnTask, Tracked
  <2>3. SingleOwner'
    BY <1>3, <2>1 DEF Ledger, SingleOwner, Live
  <2>4. EntryHasOwner'
    <3> SUFFICES ASSUME NEW c \in Devnodes, Tracked(c)
                 PROVE  \/ Live(readers[c].generation)
                        \/ \E i \in DOMAIN done' :
                             done'[i].generation = readers[c].generation
      BY <1>3, <2>1 DEF EntryHasOwner, Tracked, Live
    <3>1. readers[c].generation # g
      BY <1>2, <1>8 DEF Ledger, EntryNamesOwnTask
    <3>2. ASSUME NEW i \in DOMAIN done,
                 done[i].generation = readers[c].generation
          PROVE  \E j \in DOMAIN done' :
                   done'[j].generation = readers[c].generation
      BY <1>2, <1>5, <3>1, <3>2
    <3> QED
      BY <3>2 DEF Ledger, EntryHasOwner
  <2>5. RetryExcludesReader'
    BY <2>1 DEF Ledger, RetryExcludesReader, Tracked
  <2> QED
    BY <1>6, <1>7, <2>2, <2>3, <2>4, <2>5 DEF Ledger
<1>9. CASE readers[d].generation = g
  <2>1. /\ readers' = [readers EXCEPT ![d] = NoReader]
        /\ \/ UNCHANGED retries
           \/ \E retry \in Retry : /\ retry.devnode = d
                                  /\ retries' = retries \cup {retry}
    <3>1. Retire(report)
      BY <1>9 DEF HandleDone, OnDone
    <3>2. readers[d].attempt \in Nat
      BY <1>1 DEF TypeOK, Reader
    <3>3. \A failures \in {1, readers[d].attempt + 1} :
            [devnode |-> d, key |-> report.key, attempt |-> failures,
             from |-> g] \in Retry
      BY <1>1, <3>2 DEF Retry, Done
    <3> QED
      BY <3>1, <3>3 DEF Retire
  <2>2. ~Tracked(d)' /\ \A c \in Devnodes : c # d => readers'[c] = readers[c]
    BY <1>1, <2>1 DEF TypeOK, Tracked, NoReader
  <2>3. Tracked(d)
    BY <1>1, <1>9 DEF Tracked
  <2>4. EntryNamesOwnTask'
    BY <1>3, <2>2 DEF Ledger, EntryNamesOwnTask, Tracked
  <2>5. SingleOwner'
    <3> SUFFICES ASSUME NEW h \in Generations, Live(h)
                 PROVE  readers'[tasks[h].devnode].generation = h
      BY <1>3 DEF SingleOwner, Live
    <3>1. readers[tasks[h].devnode].generation = h
      BY DEF Ledger, SingleOwner
    <3>2. h # g
      BY <1>2 DEF Live
    <3>3. tasks[h].devnode \in Devnodes
      BY DEF TypeOK, Task, NoTask, Live
    <3> QED
      BY <1>9, <2>2, <3>1, <3>2, <3>3
  <2>6. EntryHasOwner'
    <3> SUFFICES ASSUME NEW c \in Devnodes, Tracked(c)'
                 PROVE  \/ Live(readers[c].generation)'
                        \/ \E i \in DOMAIN done' :
                             done'[i].generation = readers'[c].generation
      BY DEF EntryHasOwner
    <3>1. c # d /\ readers'[c] = readers[c] /\ Tracked(c)
      BY <2>2 DEF Tracked
    <3>2. readers[c].generation # g
      BY <1>2, <3>1 DEF Ledger, EntryNamesOwnTask
    <3>3. ASSUME NEW i \in DOMAIN done,
                 done[i].generation = readers[c].generation
          PROVE  \E j \in DOMAIN done' :
                   done'[j].generation = readers[c].generation
      BY <1>2, <1>5, <3>2, <3>3
    <3> QED
      BY <1>3, <3>1, <3>3 DEF Ledger, EntryHasOwner, Live
  <2>7. RetryExcludesReader'
    <3> SUFFICES ASSUME NEW r \in retries'
                 PROVE  /\ ~Tracked(r.devnode)'
                        /\ \A s \in retries' : s.devnode = r.devnode => s = r
      BY DEF RetryExcludesReader
    <3>1. \A s \in retries : s.devnode \in Devnodes /\ s.devnode # d
      BY <2>3 DEF Ledger, RetryExcludesReader, TypeOK, Retry
    <3> QED
      BY <2>1, <2>2, <3>1 DEF Ledger, RetryExcludesReader, Tracked
  <2> QED
    BY <1>6, <1>7, <2>4, <2>5, <2>6, <2>7 DEF Ledger
<1> QED
  BY <1>8, <1>9

\* Every step keeps the ledger.
LEMMA LedgerStep ==
  ASSUME TypeOK, Ledger, [Next]_vars
  PROVE  Ledger'
<1>1. ASSUME NEW d \in Devnodes, Unplug(d) PROVE Ledger'
  <2>1. UNCHANGED <<generations, readers, retries, done>>
    BY <1>1 DEF Unplug, supervision
  <2>2. ASSUME NEW h \in Generations
        PROVE  /\ tasks'[h].state = tasks[h].state
               /\ tasks'[h].devnode = tasks[h].devnode
    BY <1>1 DEF Unplug, Become
  <2>3. \A h \in Generations : Live(h)' <=> Live(h)
    BY <2>2 DEF Live
  <2>4. Unborn' /\ SingleOwner' /\ RetryExcludesReader'
    BY <2>1, <2>2, <2>3
    DEF Ledger, Unborn, SingleOwner, RetryExcludesReader, Tracked
  <2>5. EntryNamesOwnTask' /\ EntryHasOwner'
    BY <2>1, <2>2, <2>3, EntryTyped
    DEF Ledger, EntryNamesOwnTask, EntryHasOwner, Tracked
  <2>6. ReportIsFinal'
    BY <2>1, <2>2, ReportTyped DEF Ledger, ReportIsFinal
  <2> QED
    BY <2>4, <2>5, <2>6 DEF Ledger
<1>2. CASE AdoptScanned
  <2> PICK n \in pending : Adopt(n) /\ UNCHANGED done
    BY <1>2 DEF AdoptScanned
  <2> QED
    BY AdoptLedger DEF TypeOK
<1>3. CASE HandleEvent
  <2> DEFINE e == Head(events)
             n == [devnode |-> e.devnode, key |-> e.key]
  <2>1. e \in Event /\ UNCHANGED done
    BY <1>3 DEF HandleEvent, TypeOK
  <2>2. CASE e.kind = "Added" /\ Adopt(n)
    <3>1. n \in Node
      BY <2>1, <2>2 DEF Event, Node
    <3> QED
      BY <2>1, <2>2, <3>1, AdoptLedger
  <2>3. CASE Forget(e.devnode)
    <3>1. e.devnode \in Devnodes
      BY <2>1 DEF Event
    <3> QED
      BY <2>1, <2>3, <3>1, ForgetLedger
  <2> QED
    BY <1>3, <2>2, <2>3 DEF HandleEvent
<1>4. ASSUME NEW g \in Generations, Open(g) PROVE Ledger'
  BY <1>4, LiveMoves DEF Open, supervision, Live
<1>5. ASSUME NEW g \in Generations, OpenFail(g) PROVE Ledger'
  BY <1>5, LiveMoves DEF OpenFail, supervision, Live
<1>6. ASSUME NEW g \in Generations, NEW e, EndRead(g, e) PROVE Ledger'
  BY <1>6, LiveMoves DEF EndRead, supervision, Live
<1>7. ASSUME Restart PROVE Ledger'
  <2>1. \A g \in Generations : tasks'[g] = NoTask /\ ~Live(g)'
    BY <1>7 DEF Restart, NoTask, Live
  <2>2. \A d \in Devnodes : ~Tracked(d)'
    BY <1>7 DEF Restart, NoReader, Tracked
  <2>3. done' = <<>> /\ retries' = {}
    BY <1>7 DEF Restart
  <2>4. Unborn'
    BY <2>1 DEF Unborn, NoTask
  <2>5. ReportIsFinal'
    BY <2>3 DEF ReportIsFinal
  <2> QED
    BY <2>1, <2>2, <2>3, <2>4, <2>5
    DEF Ledger, EntryNamesOwnTask, SingleOwner, EntryHasOwner,
        RetryExcludesReader
<1>8. CASE UNCHANGED books
  BY <1>8, LedgerFrame
<1>9. CASE WorldNext
  <2>1. ASSUME NEW d \in Devnodes, NEW k \in Keys, Plug(d, k)
        PROVE  UNCHANGED books
    BY <2>1 DEF Plug, supervision, books
  <2>2. ASSUME NEW d \in Devnodes, Change(d) PROVE UNCHANGED books
    BY <2>2 DEF Change, supervision, books
  <2>3. CASE NoteResume
    BY <2>3, <1>8 DEF NoteResume, supervision, books
  <2> QED
    BY <1>1, <1>8, <1>9, <2>1, <2>2, <2>3 DEF WorldNext
<1>10. CASE MonitorNext
  BY <1>8, <1>10
  DEF MonitorNext, MonitorListen, MonitorFail, LoseUevent, MonitorForward,
      supervision, books
<1>11. CASE SupervisorNext
  <2>1. CASE InitialScan
    BY <1>8, <2>1 DEF InitialScan, books
  <2>2. CASE HandleResume
    BY <1>8, <2>2 DEF HandleResume, books
  <2>3. CASE HandleDone
    BY <2>3, HandleDoneLedger
  <2>4. ASSUME NEW r \in retries, FireRetry(r) PROVE Ledger'
    BY <2>4, FireRetryLedger
  <2> QED
    BY <1>2, <1>3, <1>11, <2>1, <2>2, <2>3, <2>4 DEF SupervisorNext
<1>12. CASE TaskNext
  BY <1>4, <1>5, <1>6, <1>12, SendDoneLedger, DropAbortedLedger
  DEF TaskNext, ReadGone, ReadFail
<1>13. CASE MonitorLost \/ ProcessFails
  BY <1>7, <1>13 DEF MonitorLost, ProcessFails
<1>14. CASE UNCHANGED vars
  BY <1>8, <1>14 DEF vars, books
<1> QED
  BY <1>9, <1>10, <1>11, <1>12, <1>13, <1>14 DEF Next

\* A fresh process has an empty ledger.
LEMMA InitLedger == Init => TypeOK /\ Ledger
<1> SUFFICES ASSUME Init PROVE TypeOK /\ Ledger
  OBVIOUS
<1>1. TypeOK
  BY StartTyped, ConstantsAssumption DEF Init
<1>2. \A g \in Generations : tasks[g] = NoTask /\ ~Live(g)
  BY DEF Init, ProcessStart, NoTask, Live
<1>3. \A d \in Devnodes : ~Tracked(d)
  BY DEF Init, ProcessStart, NoReader, Tracked
<1>4. Unborn
  BY <1>2 DEF Unborn, NoTask
<1>5. done = <<>> /\ retries = {}
  BY DEF Init, ProcessStart
<1>6. ReportIsFinal
  BY <1>5 DEF ReportIsFinal
<1> QED
  BY <1>1, <1>2, <1>3, <1>4, <1>5, <1>6
  DEF Ledger, EntryNamesOwnTask, SingleOwner, EntryHasOwner,
      RetryExcludesReader

\* The inductive invariant holds in every reachable state.
LEMMA Inductive == Spec => [](TypeOK /\ Ledger)
<1>1. TypeOK /\ Ledger /\ [Next]_vars => (TypeOK /\ Ledger)'
  BY TypeStep, LedgerStep DEF Ledger
<1> QED
  BY InitLedger, <1>1, PTL DEF Spec

-----------------------------------------------------------------------------
(* The reference counts of the registry *)

\* The tasks that hold a reference to k.
Guards(k) == {g \in Generations : HoldsGuard(g) /\ tasks[g].key = k}

\* Their number is a natural number.
LEMMA GuardsFinite ==
  ASSUME NEW k PROVE IsFiniteSet(Guards(k)) /\ Cardinality(Guards(k)) \in Nat
<1>1. IsFiniteSet(Generations)
  BY FS_Interval, ConstantsAssumption DEF Generations
<1> QED
  BY <1>1, FS_Subset, FS_CardinalityType DEF Guards

\* A task that takes or keeps its guard in the same key changes no count.
LEMMA GuardsKept ==
  ASSUME RefsCountGuards, UNCHANGED refs,
         \A g \in Generations :
           /\ HoldsGuard(g)' <=> HoldsGuard(g)
           /\ tasks'[g].key = tasks[g].key
  PROVE  RefsCountGuards'
<1>1. \A k \in Keys : Guards(k)' = Guards(k)
  BY DEF Guards
<1> QED
  BY <1>1 DEF RefsCountGuards, Guards

\* Opening a node takes a guard and counts it.
LEMMA OpenCounts ==
  ASSUME TypeOK, RefsCountGuards, NEW g \in Generations, Open(g)
  PROVE  RefsCountGuards'
<1> PICK key \in Keys : key = tasks[g].key
  BY DEF Open, TypeOK, Task, NoTask
<1>1. /\ tasks'[g].state = "reading" /\ tasks'[g].key = key
      /\ \A h \in Generations : h # g => tasks'[h] = tasks[h]
      /\ ~HoldsGuard(g)
  BY DEF Open, Become, TypeOK, HoldsGuard
<1>2. /\ refs'[key] = refs[key] + 1
      /\ \A k \in Keys : k # key => refs'[k] = refs[k]
  BY DEF Open, Acquire, TypeOK
<1>3. Guards(key)' = Guards(key) \cup {g} /\ g \notin Guards(key)
  BY <1>1 DEF Guards, HoldsGuard
<1>4. \A k \in Keys : k # key => Guards(k)' = Guards(k)
  BY <1>1 DEF Guards, HoldsGuard
<1>5. Cardinality(Guards(key)') = Cardinality(Guards(key)) + 1
  BY <1>3, GuardsFinite, FS_AddElement
<1> SUFFICES ASSUME NEW k \in Keys
             PROVE  refs'[k] = Cardinality(Guards(k)')
  BY DEF RefsCountGuards, Guards
<1>6. refs[k] = Cardinality(Guards(k))
  BY DEF RefsCountGuards, Guards
<1> QED
  BY <1>2, <1>4, <1>5, <1>6

(* Dropping a guard, on an end or an abort, is the one step that uncounts  *)
(* it; the count is not zero then, so Release never saturates.             *)
LEMMA DropCounts ==
  ASSUME TypeOK, RefsCountGuards, NEW g \in Generations, HoldsGuard(g),
         NEW s \in {"sending", "finished"}, NEW b, NEW e,
         tasks' = [tasks EXCEPT ![g] = Become(g, s, b, e)],
         Release(tasks[g].key)
  PROVE  RefsCountGuards'
<1> PICK key \in Keys : key = tasks[g].key
  BY DEF HoldsGuard, TypeOK, Task, NoTask
<1>1. /\ tasks'[g].state = s /\ tasks'[g].key = key
      /\ \A h \in Generations : h # g => tasks'[h] = tasks[h]
  BY DEF Become, TypeOK
<1>2. Guards(key)' = Guards(key) \ {g} /\ g \in Guards(key)
  BY <1>1 DEF Guards, HoldsGuard
<1>3. \A k \in Keys : k # key => Guards(k)' = Guards(k)
  BY <1>1 DEF Guards, HoldsGuard
<1>4. Cardinality(Guards(key)') = Cardinality(Guards(key)) - 1
  BY <1>2, GuardsFinite, FS_RemoveElement
<1>5. Cardinality(Guards(key)) # 0
  BY <1>2, GuardsFinite, FS_EmptySet
<1>6. \A k \in Keys : refs[k] = Cardinality(Guards(k))
  BY DEF RefsCountGuards, Guards
<1>7. refs'[key] = refs[key] - 1 /\ \A k \in Keys : k # key => refs'[k] = refs[k]
  BY <1>5, <1>6 DEF Release, TypeOK
<1> SUFFICES ASSUME NEW k \in Keys
             PROVE  refs'[k] = Cardinality(Guards(k)')
  BY DEF RefsCountGuards, Guards
<1> QED
  BY <1>3, <1>4, <1>6, <1>7

\* A new task holds no guard yet and the unborn one it replaces had none.
LEMMA SpawnCounts ==
  ASSUME TypeOK, Unborn, RefsCountGuards, NEW n, NEW a, Spawn(n, a),
         UNCHANGED refs
  PROVE  RefsCountGuards'
<1> PICK g \in Nat : g = generations + 1
  BY DEF TypeOK
<1>1. g \in Generations /\ g > generations
  BY ConstantsAssumption DEF TypeOK, Spawn, Generations
<1>2. /\ tasks'[g].state = "spawned" /\ tasks[g].state = "unborn"
      /\ \A h \in Generations : h # g => tasks'[h] = tasks[h]
  BY <1>1 DEF Spawn, TypeOK, Unborn
<1>3. \A k \in Keys : Guards(k)' = Guards(k)
  BY <1>2 DEF Guards, HoldsGuard
<1> QED
  BY <1>3 DEF RefsCountGuards, Guards

\* Every step keeps counts and guards equal.
LEMMA CountStep ==
  ASSUME TypeOK, Ledger, RefsCountGuards, [Next]_vars
  PROVE  RefsCountGuards'
<1>1. ASSUME NEW n \in Node, Adopt(n), UNCHANGED refs
      PROVE  RefsCountGuards'
  <2>1. CASE Vacant(n.devnode)
    BY <1>1, <2>1, SpawnCounts DEF Adopt, Ledger
  <2>2. CASE ~Vacant(n.devnode)
    BY <1>1, <2>2 DEF Adopt, RefsCountGuards, HoldsGuard
  <2> QED
    BY <2>1, <2>2
<1>2. ASSUME NEW d \in Devnodes, Forget(d), UNCHANGED refs
      PROVE  RefsCountGuards'
  <2>1. CASE Tracked(d)
    <3> PICK g \in Generations : g = readers[d].generation
      BY <2>1, EntryTyped
    <3>1. Live(g) \/ tasks[g].state = "finished"
      BY <2>1, ReportTyped DEF Ledger, EntryHasOwner, ReportIsFinal
    <3>2. /\ tasks'[g].key = tasks[g].key
          /\ tasks'[g].state =
               IF tasks[g].state = "reading" THEN "aborting" ELSE "finished"
          /\ \A h \in Generations : h # g => tasks'[h] = tasks[h]
      BY <1>2, <2>1 DEF Forget, Abort, Become, TypeOK
    <3> QED
      BY <1>2, <3>1, <3>2, GuardsKept DEF HoldsGuard, Live
  <2>2. CASE ~Tracked(d)
    BY <1>2, <2>2 DEF Forget, RefsCountGuards, HoldsGuard
  <2> QED
    BY <2>1, <2>2
<1>3. CASE UNCHANGED <<tasks, refs>>
  BY <1>3 DEF RefsCountGuards, HoldsGuard
<1>4. CASE WorldNext
  <2>1. ASSUME NEW d \in Devnodes, NEW k \in Keys, Plug(d, k)
        PROVE  UNCHANGED <<tasks, refs>>
    BY <2>1 DEF Plug
  <2>2. ASSUME NEW d \in Devnodes, Change(d) PROVE UNCHANGED <<tasks, refs>>
    BY <2>2 DEF Change
  <2>3. ASSUME NEW d \in Devnodes, Unplug(d) PROVE RefsCountGuards'
    BY <2>3, GuardsKept DEF Unplug, Become, HoldsGuard
  <2> QED
    BY <1>3, <1>4, <2>1, <2>2, <2>3 DEF WorldNext, NoteResume
<1>5. CASE MonitorNext
  BY <1>3, <1>5 DEF MonitorNext, MonitorListen, MonitorFail, LoseUevent,
                    MonitorForward
<1>6. CASE SupervisorNext
  <2>1. CASE AdoptScanned
    <3> PICK n \in pending : Adopt(n) /\ UNCHANGED refs
      BY <2>1 DEF AdoptScanned
    <3> QED
      BY <1>1 DEF TypeOK
  <2>2. CASE HandleEvent
    <3> DEFINE e == Head(events)
               n == [devnode |-> e.devnode, key |-> e.key]
    <3>1. e \in Event /\ UNCHANGED refs
      BY <2>2 DEF HandleEvent, TypeOK
    <3>2. CASE e.kind = "Added" /\ Adopt(n)
      <4>1. n \in Node
        BY <3>1, <3>2 DEF Event, Node
      <4> QED
        BY <1>1, <3>1, <3>2, <4>1
    <3>3. CASE Forget(e.devnode)
      <4>1. e.devnode \in Devnodes
        BY <3>1 DEF Event
      <4> QED
        BY <1>2, <3>1, <3>3, <4>1
    <3> QED
      BY <2>2, <3>2, <3>3 DEF HandleEvent
  <2>3. ASSUME NEW r \in retries, FireRetry(r) PROVE RefsCountGuards'
    <3>1. CASE Vacant(r.devnode)
      BY <2>3, <3>1, SpawnCounts DEF FireRetry, Ledger
    <3>2. CASE ~Vacant(r.devnode)
      BY <1>3, <2>3, <3>2 DEF FireRetry
    <3> QED
      BY <3>1, <3>2
  <2> QED
    BY <1>3, <1>6, <2>1, <2>2, <2>3
    DEF SupervisorNext, InitialScan, HandleDone, HandleResume
<1>7. CASE TaskNext
  <2>1. ASSUME NEW g \in Generations, OpenFail(g) \/ SendDone(g)
        PROVE  RefsCountGuards'
    <3>1. /\ UNCHANGED refs
          /\ tasks'[g].key = tasks[g].key
          /\ ~HoldsGuard(g) /\ ~HoldsGuard(g)'
          /\ \A h \in Generations : h # g => tasks'[h] = tasks[h]
      BY <2>1 DEF OpenFail, SendDone, Become, HoldsGuard, TypeOK
    <3> QED
      BY <3>1, GuardsKept DEF HoldsGuard
  <2>2. ASSUME NEW g \in Generations, NEW e, EndRead(g, e)
        PROVE  RefsCountGuards'
    BY <2>2, DropCounts DEF EndRead, HoldsGuard
  <2>3. ASSUME NEW g \in Generations, DropAborted(g) PROVE RefsCountGuards'
    BY <2>3, DropCounts DEF DropAborted, HoldsGuard
  <2> QED
    BY <1>7, <2>1, <2>2, <2>3, OpenCounts DEF TaskNext, ReadGone, ReadFail
<1>8. CASE MonitorLost \/ ProcessFails
  <2>1. Restart
    BY <1>8 DEF MonitorLost, ProcessFails
  <2>2. \A k \in Keys : refs'[k] = 0 /\ Guards(k)' = {}
    BY <2>1 DEF Restart, Guards, HoldsGuard, NoTask
  <2> QED
    BY <2>2, FS_EmptySet DEF RefsCountGuards, Guards
<1>9. CASE UNCHANGED vars
  BY <1>3, <1>9 DEF vars
<1> QED
  BY <1>4, <1>5, <1>6, <1>7, <1>8, <1>9 DEF Next

-----------------------------------------------------------------------------
(* Theorems *)

(* The supervisor's state, its channels and the tasks are always well      *)
(* typed and neither channel ever holds more than its capacity.            *)
THEOREM TypeCorrect == Spec => []TypeOK
  BY Inductive, PTL

(* main.rs:54-57: every live reader is the one its devnode's entry names,  *)
(* so a devnode never has two live readers and a late report never evicts  *)
(* a live replacement, for any number of devnodes, keys and spawns.        *)
THEOREM OneOwner == Spec => []SingleOwner
  BY Inductive, PTL DEF Ledger

(* Every entry has a live reader or its reader's report still queued: no   *)
(* devnode is held by a reader that is gone and will not say so.           *)
THEOREM EntriesAreOwned == Spec => []EntryHasOwner
  BY Inductive, PTL DEF Ledger

(* main.rs:73-76: a devnode with a scheduled retry has neither a reader    *)
(* entry nor a second retry.                                               *)
THEOREM RetriesAreExclusive == Spec => []RetryExcludesReader
  BY Inductive, PTL DEF Ledger

(* reader.rs:56-67: a key's reference count is the number of its readers   *)
(* that hold a guard, through opens, ends and aborts in any order, so a    *)
(* D-Bus object lives exactly as long as one of its readers.               *)
THEOREM RefsAreExact == Spec => []RefsCountGuards
<1>1. Init => RefsCountGuards
  <2> SUFFICES ASSUME Init PROVE RefsCountGuards
    OBVIOUS
  <2>1. \A k \in Keys : refs[k] = 0 /\ Guards(k) = {}
    BY DEF Init, ProcessStart, Guards, HoldsGuard, NoTask
  <2> QED
    BY <2>1, FS_EmptySet DEF RefsCountGuards, Guards
<1>2. TypeOK /\ Ledger /\ RefsCountGuards /\ [Next]_vars => RefsCountGuards'
  BY CountStep
<1> QED
  BY Inductive, <1>1, <1>2, PTL DEF Spec

-----------------------------------------------------------------------------
(* Supervisor implements Ownership: each operation moves the owner of one  *)
(* devnode by one of Ownership's steps; that it finds an owner to move     *)
(* rests on the ledger, where retries and entries exclude each other.      *)

Waiting(d) == {r \in retries : r.devnode = d}

\* The mapped variable.
OwnerMap == [d \in Devnodes |-> Owner(d)]

ReaderOwns(d) == [by |-> "reader", failures |-> readers[d].attempt]
RetryOwns(r) == [by |-> "retry", failures |-> r.attempt]

\* Who looks after a devnode, before and after a step.
LEMMA OwnerIs ==
  ASSUME RetryExcludesReader, NEW d \in Devnodes
  PROVE  /\ Waiting(d) = {} /\ ~Tracked(d) => Owner(d) = Owners!Nobody
         /\ Tracked(d) => Waiting(d) = {} /\ Owner(d) = ReaderOwns(d)
         /\ \A r \in Waiting(d) : Owner(d) = RetryOwns(r)
<1>1. Waiting(d) = {} /\ ~Tracked(d) => Owner(d) = Owners!Nobody
  BY DEF Owner, Waiting, Owners!Nobody, Owners!Owned
<1>2. ASSUME Tracked(d)
      PROVE  Waiting(d) = {} /\ Owner(d) = ReaderOwns(d)
  <2>1. Waiting(d) = {}
    BY <1>2 DEF RetryExcludesReader, Waiting
  <2> QED
    BY <1>2, <2>1 DEF Owner, Waiting, ReaderOwns
<1>3. ASSUME NEW r \in Waiting(d) PROVE Owner(d) = RetryOwns(r)
  <2>1. ~Tracked(d) /\ \A s \in Waiting(d) : s = r
    BY <1>3 DEF RetryExcludesReader, Waiting
  <2>2. Waiting(d) # {} /\ (CHOOSE s \in Waiting(d) : TRUE) = r
    BY <1>3, <2>1
  <2> QED
    BY <2>1, <2>2 DEF Owner, Waiting, RetryOwns
<1> QED
  BY <1>1, <1>2, <1>3

LEMMA OwnerIsPrimed ==
  ASSUME RetryExcludesReader', NEW d \in Devnodes
  PROVE  /\ Waiting(d)' = {} /\ ~Tracked(d)' => Owner(d)' = Owners!Nobody
         /\ Tracked(d)' => Owner(d)' = ReaderOwns(d)'
         /\ \A r \in Waiting(d)' : Owner(d)' = RetryOwns(r)
<1>1. Waiting(d)' = {} /\ ~Tracked(d)' => Owner(d)' = Owners!Nobody
  BY DEF Owner, Waiting, Owners!Nobody, Owners!Owned
<1>2. ASSUME Tracked(d)' PROVE Owner(d)' = ReaderOwns(d)'
  <2>1. Waiting(d)' = {}
    BY <1>2 DEF RetryExcludesReader, Waiting
  <2> QED
    BY <1>2, <2>1 DEF Owner, Waiting, ReaderOwns
<1>3. ASSUME NEW r \in Waiting(d)' PROVE Owner(d)' = RetryOwns(r)
  <2>1. ~Tracked(d)' /\ \A s \in Waiting(d)' : s = r
    BY <1>3 DEF RetryExcludesReader, Waiting
  <2>2. Waiting(d)' # {} /\ (CHOOSE s \in Waiting(d)' : TRUE) = r
    BY <1>3, <2>1
  <2> QED
    BY <2>1, <2>2 DEF Owner, Waiting, RetryOwns
<1> QED
  BY <1>1, <1>2, <1>3

\* A devnode whose entry and retries stand keeps its owner.
LEMMA OwnerStands ==
  ASSUME NEW d \in Devnodes, readers'[d] = readers[d],
         Waiting(d)' = Waiting(d)
  PROVE  Owner(d)' = Owner(d)
  BY DEF Owner, Waiting, Tracked

\* The other devnodes keep theirs.
LEMMA OneMoves ==
  ASSUME NEW d \in Devnodes,
         \A c \in Devnodes \ {d} : Owner(c)' = Owner(c),
         \/ Owner(d)' = Owner(d)
         \/ Owner(d)' = Owners!Owned("reader", 0)
         \/ Owner(d)' = Owners!Nobody
         \/ /\ Owner(d).by = "reader"
            /\ Owner(d)' = Owners!Owned("retry", Owner(d)'.failures)
            /\ Owners!Counted(Owner(d).failures, Owner(d)'.failures)
         \/ /\ Owner(d).by = "retry"
            /\ Owner(d)' = Owners!Owned("reader", Owner(d).failures)
  PROVE  Owners!Next
  BY DEF Owners!Next, Owners!Adopted, Owners!Forgotten, Owners!Failed,
         Owners!Retried

\* A step that touches neither entries nor retries.
LEMMA OwnersStand == UNCHANGED <<readers, retries>> => UNCHANGED OwnerMap
  BY DEF OwnerMap, Owner, Tracked

LEMMA AdoptOwner ==
  ASSUME TypeOK, RetryExcludesReader, RetryExcludesReader',
         NEW n \in Node, Adopt(n)
  PROVE  Owners!Next
<1> DEFINE d == n.devnode
<1>1. d \in Devnodes
  BY DEF Node
<1>2. ASSUME NEW c \in Devnodes \ {d} PROVE Owner(c)' = Owner(c)
  <2>1. readers'[c] = readers[c] /\ Waiting(c)' = Waiting(c)
    BY DEF Adopt, Spawn, Waiting, TypeOK
  <2> QED
    BY <2>1, OwnerStands
<1>3. Waiting(d)' = {}
  BY DEF Adopt, Waiting
<1>4. CASE Vacant(d)
  <2>1. readers'[d] = [generation |-> generations + 1, attempt |-> 0]
        /\ generations \in Nat
    BY <1>1, <1>4 DEF Adopt, Spawn, TypeOK
  <2>2. Tracked(d)'
    BY <2>1 DEF Tracked
  <2>3. Owner(d)' = Owners!Owned("reader", 0)
    BY <1>1, <2>1, <2>2, OwnerIsPrimed DEF ReaderOwns, Owners!Owned
  <2> QED
    BY <1>1, <1>2, <2>3, OneMoves
<1>5. CASE ~Vacant(d)
  <2>1. Tracked(d) /\ UNCHANGED readers
    BY <1>5 DEF Vacant, Adopt
  <2>2. Waiting(d) = {}
    BY <1>1, <2>1, OwnerIs
  <2>3. Owner(d)' = Owner(d)
    BY <1>1, <1>3, <2>1, <2>2, OwnerStands
  <2> QED
    BY <1>1, <1>2, <2>3, OneMoves
<1> QED
  BY <1>4, <1>5

LEMMA ForgetOwner ==
  ASSUME TypeOK, RetryExcludesReader', NEW d \in Devnodes, Forget(d)
  PROVE  Owners!Next
<1>1. ASSUME NEW c \in Devnodes \ {d} PROVE Owner(c)' = Owner(c)
  <2>1. readers'[c] = readers[c] /\ Waiting(c)' = Waiting(c)
    BY DEF Forget, Waiting, TypeOK
  <2> QED
    BY <2>1, OwnerStands
<1>2. Waiting(d)' = {} /\ ~Tracked(d)'
  BY DEF Forget, Waiting, Tracked, TypeOK, NoReader
<1>3. Owner(d)' = Owners!Nobody
  BY <1>2, OwnerIsPrimed
<1> QED
  BY <1>1, <1>3, OneMoves

\* A matched report passes the devnode on to a retry or to nobody.
LEMMA RetireOwner ==
  ASSUME TypeOK, RetryExcludesReader, RetryExcludesReader',
         NEW report \in Done, Tracked(report.devnode), Retire(report)
  PROVE  Owners!Next
<1> DEFINE d == report.devnode
<1>1. d \in Devnodes
  BY DEF Done
<1>2. ~Tracked(d)' /\ Waiting(d) = {} /\ Owner(d) = ReaderOwns(d)
  BY <1>1, OwnerIs DEF Retire, Tracked, NoReader, TypeOK
<1>3. ASSUME NEW c \in Devnodes \ {d} PROVE Owner(c)' = Owner(c)
  <2>1. readers'[c] = readers[c] /\ Waiting(c)' = Waiting(c)
    BY DEF Retire, Waiting, TypeOK
  <2> QED
    BY <2>1, OwnerStands
<1>4. CASE report.end = "DeviceGone"
  <2>1. Waiting(d)' = {}
    BY <1>2, <1>4 DEF Retire, Waiting
  <2>2. Owner(d)' = Owners!Nobody
    BY <1>1, <1>2, <2>1, OwnerIsPrimed
  <2> QED
    BY <1>1, <1>3, <2>2, OneMoves
<1>5. CASE report.end # "DeviceGone"
  <2> DEFINE retry(f) == [devnode |-> d, key |-> report.key,
                          attempt |-> f, from |-> report.generation]
  <2>1. PICK f \in {1, readers[d].attempt + 1} :
          retries' = retries \cup {retry(f)}
    BY <1>5 DEF Retire
  <2>2. retry(f) \in Waiting(d)' /\ retry(f).attempt = f
    BY <2>1 DEF Waiting
  <2>3. Owner(d)' = RetryOwns(retry(f))
    BY <1>1, <2>2, OwnerIsPrimed
  <2>4. Owner(d)' = Owners!Owned("retry", f)
    BY <2>2, <2>3 DEF RetryOwns, Owners!Owned
  <2>5. Owner(d).by = "reader" /\ Owner(d).failures = readers[d].attempt
    BY <1>2 DEF ReaderOwns
  <2>6. Owner(d)'.failures = f
    BY <2>4 DEF Owners!Owned
  <2>7. Owners!Counted(Owner(d).failures, Owner(d)'.failures)
    BY <2>1, <2>5, <2>6 DEF Owners!Counted
  <2> QED
    BY <1>1, <1>3, <2>4, <2>5, <2>6, <2>7, OneMoves
<1> QED
  BY <1>4, <1>5

LEMMA HandleDoneOwner ==
  ASSUME TypeOK, RetryExcludesReader, RetryExcludesReader', HandleDone
  PROVE  [Owners!Next]_OwnerMap
<1> PICK report \in Done : report = Head(done)
  BY DEF HandleDone, TypeOK
<1>1. report.generation # 0 /\ OnDone(report)
  BY DEF HandleDone, Done, Generations
<1>2. CASE readers[report.devnode].generation # report.generation
  BY <1>1, <1>2, OwnersStand DEF OnDone
<1>3. CASE readers[report.devnode].generation = report.generation
  BY <1>1, <1>3, RetireOwner DEF OnDone, Tracked
<1> QED
  BY <1>2, <1>3

LEMMA FireRetryOwner ==
  ASSUME TypeOK, RetryExcludesReader, RetryExcludesReader',
         NEW r \in retries, FireRetry(r)
  PROVE  Owners!Next
<1> DEFINE d == r.devnode
<1>1. d \in Devnodes /\ r \in Waiting(d)
  BY DEF TypeOK, Retry, Waiting
<1>2. ~Tracked(d) /\ Owner(d) = RetryOwns(r)
  BY <1>1, OwnerIs DEF RetryExcludesReader
<1>3. readers' = [readers EXCEPT ![d] = [generation |-> generations + 1,
                                         attempt |-> r.attempt]]
  BY <1>2 DEF FireRetry, Vacant, Spawn
<1>4. ASSUME NEW c \in Devnodes \ {d} PROVE Owner(c)' = Owner(c)
  <2>1. readers'[c] = readers[c] /\ Waiting(c)' = Waiting(c)
    BY <1>3 DEF FireRetry, Waiting, TypeOK
  <2> QED
    BY <2>1, OwnerStands
<1>5. Tracked(d)' /\ readers'[d].attempt = r.attempt
  BY <1>1, <1>3 DEF Tracked, TypeOK
<1>6. Owner(d)' = Owners!Owned("reader", r.attempt)
  BY <1>1, <1>5, OwnerIsPrimed DEF ReaderOwns, Owners!Owned
<1>7. Owner(d).by = "retry" /\ Owner(d).failures = r.attempt
  BY <1>2 DEF RetryOwns
<1> QED
  BY <1>1, <1>4, <1>6, <1>7, OneMoves

LEMMA RestartOwners ==
  ASSUME RetryExcludesReader', Restart
  PROVE  Owners!Next
<1>1. ASSUME NEW d \in Devnodes PROVE Owner(d)' = Owners!Nobody
  <2>1. Waiting(d)' = {} /\ ~Tracked(d)'
    BY DEF Restart, Waiting, Tracked, NoReader
  <2> QED
    BY <2>1, OwnerIsPrimed
<1> QED
  BY <1>1 DEF Owners!Next, Owners!Forgotten

LEMMA OwnersStep ==
  ASSUME TypeOK, RetryExcludesReader, RetryExcludesReader', [Next]_vars
  PROVE  [Owners!Next]_OwnerMap
<1>1. CASE AdoptScanned
  <2>1. PICK n \in pending : Adopt(n)
    BY <1>1 DEF AdoptScanned
  <2> QED
    BY <2>1, AdoptOwner DEF TypeOK
<1>2. CASE HandleEvent
  <2> DEFINE e == Head(events)
             n == [devnode |-> e.devnode, key |-> e.key]
  <2>1. e \in Event
    BY <1>2 DEF HandleEvent, TypeOK
  <2>2. CASE e.kind = "Added" /\ Adopt(n)
    <3>1. n \in Node
      BY <2>1, <2>2 DEF Event, Node
    <3> QED
      BY <2>2, <3>1, AdoptOwner
  <2>3. CASE Forget(e.devnode)
    <3>1. e.devnode \in Devnodes
      BY <2>1 DEF Event
    <3> QED
      BY <2>3, <3>1, ForgetOwner
  <2> QED
    BY <1>2, <2>2, <2>3 DEF HandleEvent
<1>3. CASE HandleDone
  BY <1>3, HandleDoneOwner
<1>4. CASE \E r \in retries : FireRetry(r)
  BY <1>4, FireRetryOwner
<1>5. CASE MonitorLost \/ ProcessFails
  BY <1>5, RestartOwners DEF MonitorLost, ProcessFails
<1>6. CASE WorldNext \/ MonitorNext \/ InitialScan \/ HandleResume \/ TaskNext
             \/ UNCHANGED vars
  <2>1. UNCHANGED <<readers, retries>>
    BY <1>6 DEF WorldNext, Plug, Unplug, Change, NoteResume, MonitorNext,
         MonitorListen, MonitorFail, LoseUevent, MonitorForward, InitialScan,
         HandleResume, TaskNext, Open, OpenFail, ReadGone, ReadFail, EndRead,
         SendDone, DropAborted, supervision, vars
  <2> QED
    BY <2>1, OwnersStand
<1> QED
  BY <1>1, <1>2, <1>3, <1>4, <1>5, <1>6 DEF Next, SupervisorNext

(* main.rs:65-76: whatever plugs, scans, retries, late reports and         *)
(* restarts come together, one owner looks after each devnode and hands it *)
(* on by Ownership's steps only.                                           *)
THEOREM SupervisorImplementsOwnership == Spec => ImplementsOwnership
<1>1. Init => Owners!Init
  <2> SUFFICES ASSUME Init PROVE Owners!Init
    OBVIOUS
  <2>1. \A d \in Devnodes : Waiting(d) = {} /\ ~Tracked(d)
    BY DEF Init, ProcessStart, Waiting, Tracked, NoReader
  <2>2. RetryExcludesReader
    BY DEF Init, ProcessStart, RetryExcludesReader
  <2> QED
    BY <2>1, <2>2, OwnerIs DEF Owners!Init
<1> QED
  BY <1>1, OwnersStep, Inductive, PTL
     DEF Spec, ImplementsOwnership, Owners!Spec, OwnerMap, Ledger

-----------------------------------------------------------------------------
(* Nothing is stranded.  What the supervisor believes of a devnode lags    *)
(* the world by what is still under way: a scan being adopted, events in   *)
(* the channel, uevents in the socket, end reports.  `Hearing` says what   *)
(* each of these is good for meanwhile: the last word under way about a    *)
(* devnode is true, with no removal under way nothing false is believed,   *)
(* and with no add either all that is true.  A quiet supervisor has        *)
(* nothing under way.                                                      *)

\* An entry of s after the i-th one is a `kind` of d.
Later(s, i, d, kind) ==
  \E m \in DOMAIN s : m > i /\ s[m].devnode = d /\ s[m].kind = kind

\* A removal, or an add, of d comes after the i-th event.
GoneAfter(i, d) ==
  Later(events, i, d, "Removed") \/ Later(uevents, 0, d, "remove")
BackAfter(i, d) ==
  Later(events, i, d, "Added") \/ Later(uevents, 0, d, "add")

Going(d) == GoneAfter(0, d)
Scanned(d) == \E n \in pending : n.devnode = d

\* What is said of d in the scan and the queues, and not taken back later,
\* is so.
ScanIsTrue(d) ==
  \A n \in pending : n.devnode = d /\ ~Going(d) => plugged[d] = n.key

EventsAreTrue(d) ==
  \A i \in DOMAIN events : events[i].devnode = d =>
    /\ events[i].kind = "Added" /\ ~GoneAfter(i, d)
         => plugged[d] = events[i].key
    /\ events[i].kind = "Removed" /\ ~BackAfter(i, d) => plugged[d] = None

UeventsAreTrue(d) ==
  \A j \in DOMAIN uevents : uevents[j].devnode = d =>
    /\ uevents[j].kind = "add" /\ ~Later(uevents, j, d, "remove")
         => uevents[j].current /\ plugged[d] = uevents[j].key
    /\ uevents[j].kind = "remove" /\ ~Later(uevents, j, d, "add")
         => plugged[d] = None

\* With no removal under way nothing false is believed of d, and with no
\* add either all that is true.
BeliefIsTrue(d) ==
  phase = "loop" /\ ~Going(d) =>
    /\ Believed(d) \subseteq {plugged[d]} \ {None}
    /\ Scanned(d) \/ BackAfter(0, d) \/ Believed(d) = {plugged[d]} \ {None}

\* Task g ends, or has ended, because its device went.
CutOff(g) ==
  \/ tasks[g].state = "reading" /\ ~tasks[g].attached
  \/ tasks[g].state \in {"sending", "finished"} /\ tasks[g].end = "DeviceGone"

CutIsAnnounced(d) == Tracked(d) /\ CutOff(readers[d].generation) => Going(d)

Heard(d) ==
  /\ ScanIsTrue(d) /\ EventsAreTrue(d) /\ UeventsAreTrue(d)
  /\ BeliefIsTrue(d) /\ CutIsAnnounced(d)

\* A queued report says of its task what is so.
ReportAgrees ==
  \A i \in DOMAIN done :
    /\ tasks[done[i].generation].key = done[i].key
    /\ tasks[done[i].generation].end = done[i].end

\* Before the monitor listens nothing is announced, and before the scan
\* nothing is believed.
StartIsBlank ==
  /\ monitor = "starting" => uevents = <<>> /\ events = <<>>
  /\ phase = "boot" => /\ pending = {} /\ retries = {}
                       /\ \A d \in Devnodes : ~Tracked(d)

Hearing ==
  /\ ReportAgrees
  /\ StartIsBlank
  /\ monitor # "dead" => \A d \in Devnodes \ unheard : Heard(d)

-----------------------------------------------------------------------------
(* The queues *)

LEMMA QueuesTyped ==
  ASSUME TypeOK
  PROVE  /\ Len(events) \in Nat /\ DOMAIN events = 1..Len(events)
         /\ Len(uevents) \in Nat /\ DOMAIN uevents = 1..Len(uevents)
         /\ \A i \in DOMAIN events : events[i] \in Event
         /\ \A i \in DOMAIN uevents : uevents[i] \in Uevent
<1>1. /\ Len(events) \in Nat /\ DOMAIN events = 1..Len(events)
      /\ Len(uevents) \in Nat /\ DOMAIN uevents = 1..Len(uevents)
  BY DEF TypeOK
<1>2. \A i \in DOMAIN events : events[i] \in Event
  BY <1>1 DEF TypeOK
<1>3. \A i \in DOMAIN uevents : uevents[i] \in Uevent
  BY <1>1 DEF TypeOK
<1> QED
  BY <1>1, <1>2, <1>3

LEMMA LaterAppend ==
  ASSUME NEW S, NEW s \in Seq(S), NEW x \in S,
         NEW i \in 0..Len(s), NEW d, NEW kind
  PROVE  Later(Append(s, x), i, d, kind)
           <=> \/ Later(s, i, d, kind)
               \/ x.devnode = d /\ x.kind = kind
<1>1. /\ Len(s) \in Nat /\ DOMAIN s = 1..Len(s)
      /\ DOMAIN Append(s, x) = 1..Len(s) + 1
      /\ Append(s, x)[Len(s) + 1] = x
      /\ \A m \in 1..Len(s) : Append(s, x)[m] = s[m]
  BY AppendProperties
<1> QED
  BY <1>1 DEF Later

LEMMA LaterTail ==
  ASSUME NEW S, NEW s \in Seq(S), s # <<>>,
         NEW i \in Nat, NEW d, NEW kind
  PROVE  /\ Later(Tail(s), i, d, kind) <=> Later(s, i + 1, d, kind)
         /\ Later(s, 0, d, kind) <=> \/ Later(s, 1, d, kind)
                                     \/ s[1].devnode = d /\ s[1].kind = kind
<1>1. /\ Len(s) \in Nat /\ DOMAIN s = 1..Len(s) /\ Len(s) > 0
      /\ DOMAIN Tail(s) = 1..(Len(s) - 1)
      /\ \A m \in 1..(Len(s) - 1) : Tail(s)[m] = s[m + 1]
  BY HeadTailProperties, EmptySeq, LenProperties
<1>2. Later(Tail(s), i, d, kind) => Later(s, i + 1, d, kind)
  <2> SUFFICES ASSUME NEW m \in 1..(Len(s) - 1), m > i,
                      s[m + 1].devnode = d, s[m + 1].kind = kind
               PROVE  Later(s, i + 1, d, kind)
    BY <1>1 DEF Later
  <2>1. m + 1 \in DOMAIN s /\ m + 1 > i + 1
    BY <1>1
  <2> QED
    BY <2>1 DEF Later
<1>3. Later(s, i + 1, d, kind) => Later(Tail(s), i, d, kind)
  <2> SUFFICES ASSUME NEW m \in DOMAIN s, m > i + 1,
                      s[m].devnode = d, s[m].kind = kind
               PROVE  Later(Tail(s), i, d, kind)
    BY DEF Later
  <2>1. /\ m - 1 \in DOMAIN Tail(s) /\ m - 1 > i
        /\ Tail(s)[m - 1] = s[m]
    BY <1>1
  <2> QED
    BY <2>1 DEF Later
<1>4. 1 \in DOMAIN s /\ \A m \in DOMAIN s : m > 0 /\ (m > 1 \/ m = 1)
  BY <1>1
<1>5. Later(s, 0, d, kind) <=> \/ Later(s, 1, d, kind)
                               \/ s[1].devnode = d /\ s[1].kind = kind
  BY <1>4 DEF Later
<1> QED
  BY <1>2, <1>3, <1>5

\* The queues of the next state.
LEMMA AfterPrimed ==
  ASSUME NEW i, NEW d
  PROVE  /\ GoneAfter(i, d)' <=> \/ Later(events', i, d, "Removed")
                                 \/ Later(uevents', 0, d, "remove")
         /\ BackAfter(i, d)' <=> \/ Later(events', i, d, "Added")
                                 \/ Later(uevents', 0, d, "add")
  BY DEF GoneAfter, BackAfter, Later

-----------------------------------------------------------------------------
(* What is believed of one devnode *)

\* The controller of d's entry if it has one, of its retries if not.
LEMMA BeliefIs ==
  ASSUME RetryExcludesReader, NEW d \in Devnodes
  PROVE  /\ Tracked(d) => Believed(d) = {tasks[readers[d].generation].key}
         /\ ~Tracked(d) => Believed(d) =
              {r.key : r \in {s \in retries : s.devnode = d}}
  BY DEF Believed, RetryExcludesReader

LEMMA BeliefIsPrimed ==
  ASSUME RetryExcludesReader', NEW d \in Devnodes
  PROVE  /\ Tracked(d)' => Believed(d)' = {tasks'[readers'[d].generation].key}
         /\ ~Tracked(d)' => Believed(d)' =
              {r.key : r \in {s \in retries' : s.devnode = d}}
  BY DEF Believed, RetryExcludesReader, Tracked

\* A devnode whose entry, retries and controller stand is believed the same.
LEMMA BeliefStands ==
  ASSUME NEW d \in Devnodes, readers'[d] = readers[d],
         {r \in retries' : r.devnode = d} = {r \in retries : r.devnode = d},
         Tracked(d) => tasks'[readers[d].generation].key
                         = tasks[readers[d].generation].key
  PROVE  Believed(d)' = Believed(d)
<1>1. CASE Tracked(d)
  BY <1>1 DEF Believed, Tracked
<1>2. CASE ~Tracked(d)
  BY <1>2 DEF Believed, Tracked
<1> QED
  BY <1>1, <1>2

\* The task of an entry has not been aborted.
LEMMA EntryNotAborting ==
  ASSUME TypeOK, Ledger, NEW d \in Devnodes, Tracked(d)
  PROVE  /\ readers[d].generation \in Generations
         /\ readers[d].generation <= generations
         /\ tasks[readers[d].generation].devnode = d
         /\ tasks[readers[d].generation].state
              \in {"spawned", "reading", "sending", "finished"}
  BY EntryTyped DEF Ledger, EntryHasOwner, ReportIsFinal, EntryNamesOwnTask,
     Live

LEMMA BeliefTyped ==
  ASSUME TypeOK, Ledger, NEW d \in Devnodes
  PROVE  Believed(d) \subseteq Keys
<1>1. CASE Tracked(d)
  <2>1. tasks[readers[d].generation].key \in Keys
    BY <1>1, EntryNotAborting, ConstantsAssumption DEF TypeOK, Task, NoTask
  <2> QED
    BY <1>1, <2>1, BeliefIs DEF Ledger
<1>2. CASE ~Tracked(d)
  BY <1>2, BeliefIs DEF Ledger, TypeOK, Retry
<1> QED
  BY <1>1, <1>2

-----------------------------------------------------------------------------
(* Steps that tell nothing new of d *)

(* What is under way about d stays where it is, and what is believed of it *)
(* is believed on.                                                         *)
LEMMA HeardStands ==
  ASSUME NEW d \in Devnodes, Heard(d),
         plugged'[d] = plugged[d], events' = events, phase' = phase,
         \A m \in DOMAIN uevents : uevents[m].devnode = d =>
           m \in DOMAIN uevents' /\ uevents'[m] = uevents[m],
         \A m \in DOMAIN uevents' : uevents'[m].devnode = d =>
           m \in DOMAIN uevents /\ uevents[m] = uevents'[m],
         \A n : n.devnode = d => (n \in pending' <=> n \in pending),
         Believed(d)' = Believed(d),
         (Tracked(d) /\ CutOff(readers[d].generation))' =>
           Going(d) \/ (Tracked(d) /\ CutOff(readers[d].generation))
  PROVE  Heard(d)'
<1>1. \A i, kind : Later(uevents', i, d, kind) <=> Later(uevents, i, d, kind)
  BY DEF Later
<1>2. \A i : /\ GoneAfter(i, d)' <=> GoneAfter(i, d)
             /\ BackAfter(i, d)' <=> BackAfter(i, d)
  BY <1>1, AfterPrimed DEF GoneAfter, BackAfter
<1>3. Going(d)' <=> Going(d)
  BY <1>2 DEF Going
<1>4. ScanIsTrue(d)'
  BY <1>3 DEF Heard, ScanIsTrue
<1>5. EventsAreTrue(d)'
  BY <1>2 DEF Heard, EventsAreTrue
<1>6. UeventsAreTrue(d)'
  <2> SUFFICES ASSUME NEW j \in DOMAIN uevents', uevents'[j].devnode = d
               PROVE
                 /\ uevents'[j].kind = "add" /\ ~Later(uevents', j, d, "remove")
                      => uevents'[j].current /\ plugged'[d] = uevents'[j].key
                 /\ uevents'[j].kind = "remove" /\ ~Later(uevents', j, d, "add")
                      => plugged'[d] = None
    BY DEF UeventsAreTrue, Later
  <2> QED
    BY <1>1 DEF Heard, UeventsAreTrue
<1>7. BeliefIsTrue(d)'
  BY <1>2, <1>3 DEF Heard, BeliefIsTrue, Scanned
<1>8. CutIsAnnounced(d)'
  BY <1>3 DEF Heard, CutIsAnnounced
<1> QED
  BY <1>4, <1>5, <1>6, <1>7, <1>8 DEF Heard

\* Where nothing is under way nor believed, all is well.
LEMMA BlankHeard ==
  ASSUME NEW d \in Devnodes, events' = <<>>, uevents' = <<>>, pending' = {},
         phase' = "boot", ~Tracked(d)'
  PROVE  Heard(d)'
  BY DEF Heard, ScanIsTrue, EventsAreTrue, UeventsAreTrue, BeliefIsTrue,
         CutIsAnnounced

-----------------------------------------------------------------------------
(* Uevents of d *)

\* An add is announced: it is true, and the last word about d.
LEMMA AddAnnounced ==
  ASSUME TypeOK, Ledger, NEW d \in Devnodes, Heard(d), NEW k \in Keys,
         plugged[d] \in {None, k}, plugged'[d] = k,
         uevents' = Append(uevents, [kind |-> "add", devnode |-> d,
                                     key |-> k, current |-> TRUE]),
         UNCHANGED <<events, phase, pending, readers, retries, tasks>>
  PROVE  Heard(d)'
<1> DEFINE u == [kind |-> "add", devnode |-> d, key |-> k, current |-> TRUE]
           N == Len(uevents)
<1>1. /\ N \in Nat /\ DOMAIN uevents = 1..N /\ None \notin Keys
      /\ uevents \in Seq(Uevent) /\ u \in Uevent
      /\ \A i \in DOMAIN events : i \in Nat /\ events[i] \in Event
      /\ \A i \in DOMAIN uevents : uevents[i] \in Uevent
  BY QueuesTyped, ConstantsAssumption DEF TypeOK, Uevent
<1>2. /\ DOMAIN uevents' = 1..N + 1 /\ uevents'[N + 1] = u
      /\ \A m \in 1..N : uevents'[m] = uevents[m]
  BY <1>1, AppendProperties
<1>3. \A i \in 0..N :
        /\ Later(uevents', i, d, "remove") <=> Later(uevents, i, d, "remove")
        /\ Later(uevents', i, d, "add")
  BY <1>1, LaterAppend
<1>4. \A i : /\ GoneAfter(i, d)' <=> GoneAfter(i, d)
             /\ BackAfter(i, d)'
  <2>1. 0 \in 0..N /\ events' = events
    BY <1>1
  <2>2. /\ Later(uevents', 0, d, "remove") <=> Later(uevents, 0, d, "remove")
        /\ Later(uevents', 0, d, "add")
    BY <1>3, <2>1
  <2> QED
    BY <2>1, <2>2, AfterPrimed DEF GoneAfter
<1>5. Going(d)' <=> Going(d)
  BY <1>4 DEF Going
<1>6. ScanIsTrue(d)'
  <2>1. \A n \in pending : n.key \in Keys
    BY DEF TypeOK, Node
  <2> QED
    BY <1>1, <1>5, <2>1 DEF Heard, ScanIsTrue
<1>7. EventsAreTrue(d)'
  <2>1. \A i \in DOMAIN events :
          events[i].kind = "Added" => events[i].key \in Keys
    BY <1>1 DEF Event
  <2> QED
    BY <1>1, <1>4, <2>1 DEF Heard, EventsAreTrue
<1>8. UeventsAreTrue(d)'
  <2> SUFFICES ASSUME NEW j \in 1..N + 1, uevents'[j].devnode = d
               PROVE
                 /\ uevents'[j].kind = "add" /\ ~Later(uevents', j, d, "remove")
                      => uevents'[j].current /\ k = uevents'[j].key
                 /\ uevents'[j].kind = "remove" => Later(uevents', j, d, "add")
    BY <1>2 DEF UeventsAreTrue, Later
  <2>1. CASE j = N + 1
    BY <1>2, <2>1
  <2>2. CASE j \in 1..N
    <3>1. uevents[j] \in Uevent /\ uevents'[j] = uevents[j]
      BY <1>1, <1>2, <2>2
    <3>2. uevents[j].kind = "add" => uevents[j].key # None
      BY <1>1, <3>1 DEF Uevent
    <3>3. /\ Later(uevents', j, d, "remove") <=> Later(uevents, j, d, "remove")
          /\ Later(uevents', j, d, "add")
      <4>1. j \in 0..N
        BY <1>1, <2>2
      <4> QED
        BY <1>3, <4>1
    <3> QED
      BY <1>1, <2>2, <3>1, <3>2, <3>3 DEF Heard, UeventsAreTrue
  <2> QED
    BY <1>1, <2>1, <2>2
<1>9. Believed(d)' = Believed(d)
  BY BeliefStands
<1>10. BeliefIsTrue(d)'
  <2> QED
    BY <1>1, <1>4, <1>5, <1>9, BeliefTyped DEF Heard, BeliefIsTrue
<1>11. CutIsAnnounced(d)'
  BY <1>5 DEF Heard, CutIsAnnounced, CutOff, Tracked
<1> QED
  BY <1>6, <1>7, <1>8, <1>10, <1>11 DEF Heard

\* A removal is announced: nothing said before it counts.
LEMMA RemovalAnnounced ==
  ASSUME TypeOK, NEW d \in Devnodes, plugged'[d] = None,
         NEW stale \in Seq(Uevent), DOMAIN stale = DOMAIN uevents,
         uevents' = Append(stale, [kind |-> "remove", devnode |-> d,
                                   key |-> None, current |-> TRUE])
  PROVE  Heard(d)'
<1> DEFINE u == [kind |-> "remove", devnode |-> d, key |-> None,
                 current |-> TRUE]
           N == Len(stale)
<1>1. /\ N \in Nat /\ DOMAIN stale = 1..N /\ u \in Uevent
  BY LenProperties DEF Uevent
<1>2. /\ DOMAIN uevents' = 1..N + 1 /\ uevents'[N + 1] = u
  BY <1>1, AppendProperties
<1>3. \A i \in 0..N : Later(uevents', i, d, "remove")
  BY <1>1, LaterAppend
<1>4. Going(d)' /\ \A i : GoneAfter(i, d)'
  <2>1. 0 \in 0..N
    BY <1>1
  <2>2. Later(uevents', 0, d, "remove")
    BY <1>3, <2>1
  <2> QED
    BY <2>2, AfterPrimed DEF Going
<1>5. UeventsAreTrue(d)'
  <2> SUFFICES ASSUME NEW j \in 1..N + 1, uevents'[j].kind = "add"
               PROVE  Later(uevents', j, d, "remove")
    BY <1>2 DEF UeventsAreTrue, Later
  <2>1. j # N + 1
    BY <1>2
  <2>2. j \in 0..N
    BY <1>1, <2>1
  <2> QED
    BY <1>3, <2>2
<1> QED
  BY <1>4, <1>5 DEF Heard, ScanIsTrue, EventsAreTrue, BeliefIsTrue,
     CutIsAnnounced

\* What the rest of the socket says stays true.
LEMMA TailHeard ==
  ASSUME TypeOK, NEW d \in Devnodes, UeventsAreTrue(d),
         uevents # <<>>, uevents' = Tail(uevents), UNCHANGED plugged
  PROVE  UeventsAreTrue(d)'
<1>1. uevents \in Seq(Uevent) /\ Len(uevents) \in Nat /\ Len(uevents) > 0
      /\ DOMAIN uevents = 1..Len(uevents)
      /\ DOMAIN uevents' = 1..(Len(uevents) - 1)
      /\ \A m \in 1..(Len(uevents) - 1) : uevents'[m] = uevents[m + 1]
  BY HeadTailProperties, EmptySeq, LenProperties DEF TypeOK
<1> SUFFICES ASSUME NEW j \in 1..(Len(uevents) - 1), uevents'[j].devnode = d
             PROVE
               /\ uevents'[j].kind = "add" /\ ~Later(uevents', j, d, "remove")
                    => uevents'[j].current /\ plugged[d] = uevents'[j].key
               /\ uevents'[j].kind = "remove" /\ ~Later(uevents', j, d, "add")
                    => plugged[d] = None
  BY <1>1 DEF UeventsAreTrue, Later
<1>2. j \in Nat /\ j + 1 \in DOMAIN uevents /\ uevents'[j] = uevents[j + 1]
  BY <1>1
<1>3. \A kind : Later(uevents', j, d, kind) <=> Later(uevents, j + 1, d, kind)
  BY <1>1, <1>2, LaterTail
<1> QED
  BY <1>2, <1>3 DEF UeventsAreTrue

\* A uevent is passed on as an event: what was to come is so still.
LEMMA ForwardHeard ==
  ASSUME TypeOK, TypeOK', Ledger, NEW d \in Devnodes, Heard(d),
         uevents # <<>>, uevents' = Tail(uevents),
         NEW e \in Event, events' = Append(events, e),
         e.devnode = Head(uevents).devnode, e.key = Head(uevents).key,
         \/ Head(uevents).kind = "add" /\ e.kind = "Added"
         \/ Head(uevents).kind = "remove" /\ e.kind = "Removed",
         UNCHANGED <<plugged, phase, pending, readers, retries, tasks>>
  PROVE  Heard(d)'
<1> DEFINE M == Len(events)
<1>1. /\ M \in Nat /\ DOMAIN events = 1..M /\ 1 \in DOMAIN uevents
      /\ Head(uevents) = uevents[1] /\ uevents \in Seq(Uevent)
      /\ events \in Seq(Event)
  BY QueuesTyped DEF TypeOK
<1>2. /\ DOMAIN events' = 1..M + 1 /\ events'[M + 1] = e
      /\ \A m \in 1..M : events'[m] = events[m]
  BY <1>1, AppendProperties
<1>3. \A kind, i : i \in Nat =>
        Later(uevents', i, d, kind) <=> Later(uevents, i + 1, d, kind)
  BY <1>1, LaterTail
<1>4. \A i \in 0..M :
        /\ GoneAfter(i, d)' <=> GoneAfter(i, d)
        /\ BackAfter(i, d)' <=> BackAfter(i, d)
  <2> SUFFICES ASSUME NEW i \in 0..M
               PROVE  /\ GoneAfter(i, d)' <=> GoneAfter(i, d)
                      /\ BackAfter(i, d)' <=> BackAfter(i, d)
    OBVIOUS
  <2>1. \A kind : Later(events', i, d, kind)
                    <=> \/ Later(events, i, d, kind)
                        \/ e.devnode = d /\ e.kind = kind
    BY <1>1, LaterAppend
  <2>2. \A kind : Later(uevents, 0, d, kind)
                    <=> \/ Later(uevents', 0, d, kind)
                        \/ e.devnode = d /\ Head(uevents).kind = kind
    BY <1>1, LaterTail
  <2> QED
    BY <2>1, <2>2, AfterPrimed DEF GoneAfter, BackAfter
<1>5. 0 \in 0..M /\ (Going(d)' <=> Going(d))
  BY <1>1, <1>4 DEF Going
<1>6. ScanIsTrue(d)'
  BY <1>5 DEF Heard, ScanIsTrue
<1>7. EventsAreTrue(d)'
  <2> SUFFICES ASSUME NEW i \in 1..M + 1, events'[i].devnode = d
               PROVE  /\ events'[i].kind = "Added" /\ ~GoneAfter(i, d)'
                           => plugged[d] = events'[i].key
                      /\ events'[i].kind = "Removed" /\ ~BackAfter(i, d)'
                           => plugged[d] = None
    BY <1>2 DEF EventsAreTrue
  <2>1. CASE i \in 1..M
    <3>1. i \in 0..M /\ i \in DOMAIN events /\ events'[i] = events[i]
      BY <1>1, <1>2, <2>1
    <3> QED
      BY <1>4, <3>1 DEF Heard, EventsAreTrue
  <2>2. CASE i = M + 1
    <3>1. /\ ~GoneAfter(i, d)' => ~Later(uevents, 1, d, "remove")
          /\ ~BackAfter(i, d)' => ~Later(uevents, 1, d, "add")
      BY <1>3, AfterPrimed, 0 \in Nat, 0 + 1 = 1
    <3> QED
      BY <1>1, <1>2, <2>2, <3>1 DEF Heard, UeventsAreTrue
  <2> QED
    BY <1>1, <2>1, <2>2
<1>8. UeventsAreTrue(d)'
  BY <1>1, TailHeard DEF Heard
<1>9. BeliefIsTrue(d)'
  BY <1>4, <1>5, BeliefStands DEF Heard, BeliefIsTrue, Scanned
<1>10. CutIsAnnounced(d)'
  BY <1>5 DEF Heard, CutIsAnnounced, CutOff, Tracked
<1> QED
  BY <1>6, <1>7, <1>8, <1>9, <1>10 DEF Heard

(* An add whose device is gone is not passed on.  Only of d's own can      *)
(* anything be missed, and then its removal is still to come.              *)
LEMMA SkipHeard ==
  ASSUME TypeOK, Ledger, NEW d \in Devnodes, Heard(d),
         uevents # <<>>, uevents' = Tail(uevents),
         Head(uevents).kind = "add", ~Head(uevents).current,
         UNCHANGED <<plugged, events, phase, pending, readers, retries, tasks>>
  PROVE  Heard(d)'
<1>1. /\ 1 \in DOMAIN uevents /\ Head(uevents) = uevents[1]
      /\ uevents \in Seq(Uevent)
  BY QueuesTyped DEF TypeOK
<1>2. \A kind :
        /\ Later(uevents', 0, d, kind) <=> Later(uevents, 1, d, kind)
        /\ Later(uevents, 0, d, kind)
             <=> \/ Later(uevents, 1, d, kind)
                 \/ uevents[1].devnode = d /\ uevents[1].kind = kind
  BY <1>1, LaterTail, 0 \in Nat, 0 + 1 = 1
<1>3. UeventsAreTrue(d)'
  BY TailHeard DEF Heard
<1>4. CASE uevents[1].devnode # d
  <2>1. \A i : /\ GoneAfter(i, d)' <=> GoneAfter(i, d)
               /\ BackAfter(i, d)' <=> BackAfter(i, d)
    BY <1>2, <1>4, AfterPrimed DEF GoneAfter, BackAfter
  <2>2. Going(d)' <=> Going(d)
    BY <2>1 DEF Going
  <2>3. ScanIsTrue(d)' /\ EventsAreTrue(d)'
    BY <2>1, <2>2 DEF Heard, ScanIsTrue, EventsAreTrue
  <2>4. BeliefIsTrue(d)'
    BY <2>1, <2>2, BeliefStands DEF Heard, BeliefIsTrue, Scanned
  <2>5. CutIsAnnounced(d)'
    BY <2>2 DEF Heard, CutIsAnnounced, CutOff, Tracked
  <2> QED
    BY <1>3, <2>3, <2>4, <2>5 DEF Heard
<1>5. CASE uevents[1].devnode = d
  <2>1. Later(uevents', 0, d, "remove")
    BY <1>1, <1>2, <1>5 DEF Heard, UeventsAreTrue
  <2>2. Going(d)' /\ \A i : GoneAfter(i, d)'
    BY <2>1, AfterPrimed DEF Going
  <2>3. EventsAreTrue(d)'
    <3>1. PICK j \in DOMAIN uevents :
            j > 1 /\ uevents[j].devnode = d /\ uevents[j].kind = "remove"
      BY <1>2, <2>1 DEF Later
    <3>2. \A i : ~BackAfter(i, d)' => ~Later(uevents, j, d, "add")
      <4> SUFFICES ASSUME Later(uevents, j, d, "add")
                   PROVE  Later(uevents', 0, d, "add")
        BY AfterPrimed
      <4>1. Later(uevents, 1, d, "add")
        BY <3>1, QueuesTyped DEF Later
      <4> QED
        BY <1>2, <4>1
    <3>3. \A i : ~BackAfter(i, d)' => plugged[d] = None
      BY <3>1, <3>2 DEF Heard, UeventsAreTrue
    <3> QED
      BY <2>2, <3>3 DEF EventsAreTrue
  <2> QED
    BY <1>3, <2>2, <2>3 DEF Heard, ScanIsTrue, BeliefIsTrue, CutIsAnnounced
<1> QED
  BY <1>4, <1>5

-----------------------------------------------------------------------------
(* The supervisor's steps on d *)

\* A scan sees what is there.
LEMMA RescanHeard ==
  ASSUME TypeOK, NEW d \in Devnodes, Heard(d),
         ~Going(d) => Believed(d) \subseteq {plugged[d]} \ {None},
         pending' = PresentNodes, phase' = "loop",
         UNCHANGED <<plugged, events, uevents, readers, retries, tasks>>
  PROVE  Heard(d)'
<1>1. \A i : /\ GoneAfter(i, d)' <=> GoneAfter(i, d)
             /\ BackAfter(i, d)' <=> BackAfter(i, d)
  BY AfterPrimed DEF GoneAfter, BackAfter
<1>2. Going(d)' <=> Going(d)
  BY <1>1 DEF Going
<1>3. ScanIsTrue(d)'
  BY DEF ScanIsTrue, PresentNodes
<1>4. EventsAreTrue(d)' /\ UeventsAreTrue(d)'
  BY <1>1 DEF Heard, EventsAreTrue, UeventsAreTrue, Later
<1>5. Scanned(d)' \/ plugged[d] = None
  <2> SUFFICES ASSUME plugged[d] # None PROVE Scanned(d)'
    OBVIOUS
  <2>1. [devnode |-> d, key |-> plugged[d]] \in PresentNodes
    BY DEF PresentNodes, Node, TypeOK
  <2> QED
    BY <2>1 DEF Scanned
<1>6. BeliefIsTrue(d)'
  BY <1>2, <1>5, BeliefStands DEF BeliefIsTrue
<1>7. CutIsAnnounced(d)'
  BY <1>2 DEF Heard, CutIsAnnounced, CutOff, Tracked
<1> QED
  BY <1>3, <1>4, <1>6, <1>7 DEF Heard

\* A node that is there, so far as is known, is adopted.
LEMMA AdoptBelief ==
  ASSUME TypeOK, Ledger, Ledger', NEW n \in Node, Adopt(n),
         phase = "loop", phase' = "loop",
         BeliefIsTrue(n.devnode), CutIsAnnounced(n.devnode),
         Going(n.devnode)' <=> Going(n.devnode),
         ~Going(n.devnode) => plugged[n.devnode] = n.key, UNCHANGED plugged
  PROVE  BeliefIsTrue(n.devnode)' /\ CutIsAnnounced(n.devnode)'
<1> DEFINE d == n.devnode
<1>1. d \in Devnodes /\ n.key \in Keys /\ n.key # None
  BY ConstantsAssumption DEF Node
<1>2. CASE Vacant(d)
  <2>1. /\ generations + 1 \in Generations /\ generations + 1 # 0
        /\ readers'[d].generation = generations + 1
        /\ tasks'[generations + 1].key = n.key
        /\ tasks'[generations + 1].state = "spawned"
    BY <1>1, <1>2, ConstantsAssumption
    DEF Adopt, Spawn, TypeOK, Generations
  <2>2. Tracked(d)' /\ Believed(d)' = {n.key}
    BY <1>1, <2>1, BeliefIsPrimed DEF Tracked, Ledger
  <2>3. CutIsAnnounced(d)'
    BY <2>1 DEF CutIsAnnounced, CutOff
  <2> QED
    BY <1>1, <2>2, <2>3 DEF BeliefIsTrue
<1>3. CASE ~Vacant(d)
  <2>1. Tracked(d) /\ UNCHANGED <<readers, tasks>>
    BY <1>3 DEF Vacant, Adopt
  <2>2. Tracked(d)' /\ Believed(d)' = Believed(d) /\ Believed(d) # {}
    BY <1>1, <2>1, BeliefIs, BeliefIsPrimed DEF Tracked, Ledger
  <2>3. CutIsAnnounced(d)'
    BY <2>1 DEF CutIsAnnounced, CutOff, Tracked
  <2> QED
    BY <2>2, <2>3 DEF BeliefIsTrue
<1> QED
  BY <1>2, <1>3

\* What the rest of the channel says stays true.
LEMMA NextEvent ==
  ASSUME TypeOK, NEW d \in Devnodes, EventsAreTrue(d),
         events # <<>>, events' = Tail(events), UNCHANGED <<plugged, uevents>>
  PROVE  /\ GoneAfter(0, d)' <=> GoneAfter(1, d)
         /\ BackAfter(0, d)' <=> BackAfter(1, d)
         /\ GoneAfter(0, d) <=> \/ GoneAfter(1, d)
                                \/ events[1].devnode = d
                                   /\ events[1].kind = "Removed"
         /\ BackAfter(0, d) <=> \/ BackAfter(1, d)
                                \/ events[1].devnode = d
                                   /\ events[1].kind = "Added"
         /\ events[1].devnode = d =>
              /\ events[1].kind = "Added" /\ ~GoneAfter(1, d)
                   => plugged[d] = events[1].key
              /\ events[1].kind = "Removed" /\ ~BackAfter(1, d)
                   => plugged[d] = None
         /\ EventsAreTrue(d)'
<1>1. /\ events \in Seq(Event) /\ Len(events) \in Nat /\ Len(events) > 0
      /\ DOMAIN events = 1..Len(events) /\ 1 \in DOMAIN events
      /\ DOMAIN events' = 1..(Len(events) - 1)
      /\ \A m \in 1..(Len(events) - 1) : events'[m] = events[m + 1]
  BY HeadTailProperties, EmptySeq, LenProperties DEF TypeOK
<1>2. \A i \in Nat : /\ GoneAfter(i, d)' <=> GoneAfter(i + 1, d)
                     /\ BackAfter(i, d)' <=> BackAfter(i + 1, d)
  <2>1. \A i \in Nat : \A kind :
          Later(events', i, d, kind) <=> Later(events, i + 1, d, kind)
    BY <1>1, LaterTail
  <2> QED
    BY <2>1, AfterPrimed DEF GoneAfter, BackAfter
<1>3. \A kind : Later(events, 0, d, kind)
                  <=> \/ Later(events, 1, d, kind)
                      \/ events[1].devnode = d /\ events[1].kind = kind
  BY <1>1, LaterTail, 0 \in Nat
<1>4. EventsAreTrue(d)'
  <2> SUFFICES ASSUME NEW i \in 1..(Len(events) - 1), events'[i].devnode = d
               PROVE  /\ events'[i].kind = "Added" /\ ~GoneAfter(i, d)'
                           => plugged[d] = events'[i].key
                      /\ events'[i].kind = "Removed" /\ ~BackAfter(i, d)'
                           => plugged[d] = None
    BY <1>1 DEF EventsAreTrue
  <2>1. i \in Nat /\ i + 1 \in DOMAIN events /\ events'[i] = events[i + 1]
    BY <1>1
  <2> QED
    BY <1>2, <2>1 DEF EventsAreTrue
<1>5. /\ GoneAfter(0, d)' <=> GoneAfter(1, d)
      /\ BackAfter(0, d)' <=> BackAfter(1, d)
  BY <1>2, 0 \in Nat, 0 + 1 = 1
<1> QED
  BY <1>1, <1>3, <1>4, <1>5 DEF GoneAfter, BackAfter, EventsAreTrue

\* The steps of one devnode leave the others' entries and retries alone.
LEMMA OthersBelieved ==
  ASSUME TypeOK, Ledger, NEW d \in Devnodes,
         \/ \E n \in Node : n.devnode # d /\ Adopt(n)
         \/ \E c \in Devnodes : c # d /\ Forget(c)
  PROVE  /\ Believed(d)' = Believed(d)
         /\ (Tracked(d) /\ CutOff(readers[d].generation))'
              => Tracked(d) /\ CutOff(readers[d].generation)
<1>1. readers'[d] = readers[d]
      /\ {r \in retries' : r.devnode = d} = {r \in retries : r.devnode = d}
  BY DEF Adopt, Spawn, Forget, TypeOK
<1>2. ASSUME Tracked(d)
      PROVE  tasks'[readers[d].generation] = tasks[readers[d].generation]
  <2> DEFINE g == readers[d].generation
  <2>1. g \in Generations /\ g <= generations /\ tasks[g].devnode = d
    BY <1>2, EntryNotAborting
  <2>2. ASSUME NEW n \in Node, Adopt(n) PROVE tasks'[g] = tasks[g]
    <3>1. generations \in Nat /\ g # generations + 1
      BY <2>1 DEF TypeOK, Generations
    <3> QED
      BY <2>1, <2>2, <3>1 DEF Adopt, Spawn, TypeOK
  <2>3. ASSUME NEW c \in Devnodes, c # d, Forget(c)
        PROVE  tasks'[g] = tasks[g]
    <3>1. Tracked(c) => tasks[readers[c].generation].devnode = c
      BY EntryNotAborting
    <3>2. Tracked(c) => readers[c].generation # g
      BY <2>1, <2>3, <3>1
    <3> QED
      BY <2>1, <2>3, <3>2 DEF Forget, Abort, TypeOK
  <2> QED
    BY <2>2, <2>3
<1>3. Believed(d)' = Believed(d)
  BY <1>1, <1>2, BeliefStands
<1> QED
  BY <1>1, <1>2, <1>3 DEF Tracked, CutOff

LEMMA HandleEventHeard ==
  ASSUME TypeOK, Ledger, Ledger', NEW d \in Devnodes, Heard(d), HandleEvent
  PROVE  Heard(d)'
<1> DEFINE e == events[1]
<1>1. /\ events # <<>> /\ events' = Tail(events) /\ pending = {}
      /\ UNCHANGED <<plugged, uevents, phase, pending>> /\ phase = "loop"
      /\ Head(events) = e /\ e \in Event
  BY QueuesTyped DEF HandleEvent, Yielded, world, monitoring, TypeOK
<1>2. /\ GoneAfter(0, d)' <=> GoneAfter(1, d)
      /\ BackAfter(0, d)' <=> BackAfter(1, d)
      /\ GoneAfter(0, d) <=> \/ GoneAfter(1, d)
                             \/ e.devnode = d /\ e.kind = "Removed"
      /\ BackAfter(0, d) <=> \/ BackAfter(1, d)
                             \/ e.devnode = d /\ e.kind = "Added"
      /\ e.devnode = d =>
           /\ e.kind = "Added" /\ ~GoneAfter(1, d) => plugged[d] = e.key
           /\ e.kind = "Removed" /\ ~BackAfter(1, d) => plugged[d] = None
      /\ EventsAreTrue(d)'
  BY <1>1, NextEvent DEF Heard
<1>3. ScanIsTrue(d)' /\ UeventsAreTrue(d)'
  BY <1>1 DEF Heard, ScanIsTrue, UeventsAreTrue, Later
<1> SUFFICES BeliefIsTrue(d)' /\ CutIsAnnounced(d)'
  BY <1>2, <1>3 DEF Heard
<1>4. CASE e.devnode # d
  <2>1. (Going(d)' <=> Going(d)) /\ (BackAfter(0, d)' <=> BackAfter(0, d))
    BY <1>2, <1>4 DEF Going
  <2>2. \/ \E n \in Node : n.devnode # d /\ Adopt(n)
        \/ \E c \in Devnodes : c # d /\ Forget(c)
    <3>1. CASE /\ e.kind = "Added"
               /\ Adopt([devnode |-> e.devnode, key |-> e.key])
      <4>1. [devnode |-> e.devnode, key |-> e.key] \in Node
        BY <1>1, <3>1 DEF Event, Node
      <4> QED
        BY <1>4, <3>1, <4>1
    <3>2. CASE Forget(e.devnode)
      BY <1>1, <1>4, <3>2 DEF Event
    <3> QED
      BY <1>1, <3>1, <3>2 DEF HandleEvent
  <2>3. /\ Believed(d)' = Believed(d)
        /\ (Tracked(d) /\ CutOff(readers[d].generation))'
             => Tracked(d) /\ CutOff(readers[d].generation)
    BY <2>2, OthersBelieved
  <2>4. BeliefIsTrue(d)'
    BY <1>1, <2>1, <2>3 DEF Heard, BeliefIsTrue, Scanned
  <2>5. CutIsAnnounced(d)'
    BY <2>1, <2>3 DEF Heard, CutIsAnnounced
  <2> QED
    BY <2>4, <2>5
<1>5. CASE e.devnode = d /\ e.kind = "Added"
  <2> DEFINE n == [devnode |-> d, key |-> e.key]
  <2>1. n \in Node /\ n.devnode = d /\ n.key = e.key
    BY <1>1, <1>5 DEF Event, Node
  <2>2. (Going(d)' <=> Going(d)) /\ (~Going(d) => plugged[d] = e.key)
    BY <1>2, <1>5 DEF Going
  <2>3. Adopt(n)
    BY <1>1, <1>5 DEF HandleEvent
  <2>4. BeliefIsTrue(d) /\ CutIsAnnounced(d)
    BY DEF Heard
  <2> HIDE DEF n
  <2> QED
    BY <1>1, <2>1, <2>2, <2>3, <2>4, AdoptBelief
<1>6. CASE e.devnode = d /\ e.kind = "Removed"
  <2>1. Forget(d)
    BY <1>1, <1>6 DEF HandleEvent
  <2>2. ~Tracked(d)' /\ Believed(d)' = {}
    BY <2>1 DEF Forget, Tracked, Believed, NoReader, TypeOK
  <2>3. BeliefIsTrue(d)'
    BY <1>1, <1>2, <1>6, <2>2 DEF BeliefIsTrue
  <2> QED
    BY <2>2, <2>3 DEF CutIsAnnounced
<1> QED
  BY <1>1, <1>4, <1>5, <1>6 DEF Event

LEMMA AdoptScannedHeard ==
  ASSUME TypeOK, Ledger, Ledger', StartIsBlank,
         NEW d \in Devnodes, Heard(d), AdoptScanned
  PROVE  Heard(d)'
<1>1. PICK n \in pending : /\ pending' = pending \ {n} /\ Adopt(n)
                           /\ UNCHANGED <<plugged, uevents, events, phase>>
  BY DEF AdoptScanned, world, monitoring
<1>2. n \in Node /\ phase = "loop" /\ n.devnode \in Devnodes
  BY <1>1 DEF TypeOK, StartIsBlank, Node
<1>3. CASE n.devnode # d
  <2>1. \A m : m.devnode = d => (m \in pending' <=> m \in pending)
    BY <1>1, <1>3
  <2>2. /\ Believed(d)' = Believed(d)
        /\ (Tracked(d) /\ CutOff(readers[d].generation))'
             => Tracked(d) /\ CutOff(readers[d].generation)
    BY <1>1, <1>2, <1>3, OthersBelieved
  <2> QED
    BY <1>1, <2>1, <2>2, HeardStands
<1>4. CASE n.devnode = d
  <2>1. \A i : /\ GoneAfter(i, d)' <=> GoneAfter(i, d)
               /\ BackAfter(i, d)' <=> BackAfter(i, d)
    BY <1>1, AfterPrimed DEF GoneAfter, BackAfter
  <2>2. Going(d)' <=> Going(d)
    BY <2>1 DEF Going
  <2>3. ScanIsTrue(d)' /\ EventsAreTrue(d)' /\ UeventsAreTrue(d)'
    BY <1>1, <2>1, <2>2
    DEF Heard, ScanIsTrue, EventsAreTrue, UeventsAreTrue, Later
  <2>4. /\ ~Going(d) => plugged[d] = n.key
        /\ BeliefIsTrue(d) /\ CutIsAnnounced(d)
    BY <1>4 DEF Heard, ScanIsTrue
  <2>5. BeliefIsTrue(d)' /\ CutIsAnnounced(d)'
    BY <1>1, <1>2, <1>4, <2>2, <2>4, AdoptBelief
  <2> QED
    BY <2>3, <2>5 DEF Heard
<1> QED
  BY <1>3, <1>4

\* A failed reader leaves its key in the retry; an unplug has been announced.
LEMMA HandleDoneHeard ==
  ASSUME TypeOK, Ledger, Ledger', ReportAgrees,
         NEW d \in Devnodes, Heard(d), HandleDone
  PROVE  Heard(d)'
<1> PICK report \in Done : report = Head(done)
  BY DEF HandleDone, TypeOK
<1> DEFINE g == report.generation
<1>1. /\ g \in Generations /\ g # 0 /\ report.devnode \in Devnodes
      /\ OnDone(report) /\ phase = "loop" /\ pending = {}
      /\ UNCHANGED <<plugged, uevents, events, phase, pending, tasks>>
  BY DEF HandleDone, Done, Generations, Yielded, world, monitoring
<1>2. /\ tasks[g].key = report.key /\ tasks[g].end = report.end
      /\ tasks[g].state = "finished"
  <2>1. 1 \in DOMAIN done /\ done[1] = report
    BY ReportTyped DEF HandleDone
  <2> QED
    BY <2>1 DEF ReportAgrees, Ledger, ReportIsFinal
<1>3. CASE readers[d].generation = g /\ report.devnode = d
  <2>1. /\ Tracked(d) /\ Retire(report) /\ ~Tracked(d)'
    BY <1>1, <1>3 DEF Tracked, OnDone, Retire, NoReader, TypeOK
  <2>2. \A i : /\ GoneAfter(i, d)' <=> GoneAfter(i, d)
               /\ BackAfter(i, d)' <=> BackAfter(i, d)
    BY <1>1, AfterPrimed DEF GoneAfter, BackAfter
  <2>3. Going(d)' <=> Going(d)
    BY <2>2 DEF Going
  <2>4. ScanIsTrue(d)' /\ EventsAreTrue(d)' /\ UeventsAreTrue(d)'
    BY <1>1, <2>2, <2>3
    DEF Heard, ScanIsTrue, EventsAreTrue, UeventsAreTrue, Later
  <2>5. BeliefIsTrue(d)'
    <3>1. CASE report.end = "DeviceGone"
      <4>1. Going(d)
        BY <1>2, <1>3, <2>1, <3>1 DEF Heard, CutIsAnnounced, CutOff
      <4> QED
        BY <2>3, <4>1 DEF BeliefIsTrue
    <3>2. CASE report.end # "DeviceGone"
      <4>1. Believed(d) = {report.key}
        BY <1>2, <1>3, <2>1, BeliefIs DEF Ledger
      <4>2. PICK r : /\ r.devnode = d /\ r.key = report.key
                     /\ retries' = retries \cup {r}
        BY <1>3, <2>1, <3>2 DEF Retire
      <4>3. {s \in retries' : s.devnode = d} = {r}
        BY <2>1, <4>2 DEF Ledger, RetryExcludesReader
      <4>4. Believed(d)' = {report.key}
        BY <2>1, <4>2, <4>3, BeliefIsPrimed DEF Ledger
      <4> QED
        BY <1>1, <2>2, <2>3, <4>1, <4>4 DEF Heard, BeliefIsTrue, Scanned
    <3> QED
      BY <3>1, <3>2
  <2>6. CutIsAnnounced(d)'
    BY <2>1 DEF CutIsAnnounced
  <2> QED
    BY <2>4, <2>5, <2>6 DEF Heard
<1>4. CASE ~(readers[d].generation = g /\ report.devnode = d)
  <2>1. /\ readers'[d] = readers[d]
        /\ {r \in retries' : r.devnode = d} = {r \in retries : r.devnode = d}
    BY <1>1, <1>4 DEF OnDone, Retire, TypeOK
  <2>2. Believed(d)' = Believed(d)
    BY <1>1, <2>1, BeliefStands
  <2> QED
    BY <1>1, <2>1, <2>2, HeardStands DEF Tracked, CutOff
<1> QED
  BY <1>3, <1>4

\* A retry's key passes on to the reader it spawns.
LEMMA FireRetryHeard ==
  ASSUME TypeOK, Ledger, Ledger', NEW d \in Devnodes, Heard(d),
         NEW r \in retries, FireRetry(r)
  PROVE  Heard(d)'
<1> DEFINE n == [devnode |-> r.devnode, key |-> r.key]
<1>1. /\ r.devnode \in Devnodes /\ ~Tracked(r.devnode) /\ Spawn(n, r.attempt)
      /\ retries' = retries \ {r}
      /\ UNCHANGED <<plugged, uevents, events, phase, pending>>
  BY DEF FireRetry, Vacant, Ledger, RetryExcludesReader, TypeOK, Retry,
     world, monitoring
<1>2. /\ generations + 1 \in Generations /\ generations + 1 # 0
      /\ readers' = [readers EXCEPT ![r.devnode] =
                       [generation |-> generations + 1, attempt |-> r.attempt]]
      /\ tasks'[generations + 1].key = r.key
      /\ tasks'[generations + 1].state = "spawned"
      /\ \A h \in Generations : h # generations + 1 => tasks'[h] = tasks[h]
  BY <1>1, ConstantsAssumption DEF Spawn, TypeOK, Generations
<1>3. CASE r.devnode = d
  <2>1. Tracked(d)' /\ ~CutOff(readers[d].generation)'
    BY <1>2, <1>3 DEF Tracked, CutOff, TypeOK
  <2>2. Believed(d)' = {r.key}
    BY <1>2, <1>3, <2>1, BeliefIsPrimed DEF Ledger, TypeOK
  <2>3. {s \in retries : s.devnode = d} = {r}
    BY <1>3 DEF Ledger, RetryExcludesReader
  <2>4. Believed(d) = {r.key}
    BY <1>1, <1>3, <2>3, BeliefIs DEF Ledger
  <2> QED
    BY <1>1, <2>1, <2>2, <2>4, HeardStands
<1>4. CASE r.devnode # d
  <2>1. /\ readers'[d] = readers[d]
        /\ {s \in retries' : s.devnode = d} = {s \in retries : s.devnode = d}
    BY <1>1, <1>2, <1>4 DEF TypeOK
  <2>2. Tracked(d) => tasks'[readers[d].generation]
                        = tasks[readers[d].generation]
    <3>1. Tracked(d) => /\ readers[d].generation \in Generations
                        /\ readers[d].generation <= generations
      BY EntryNotAborting
    <3> QED
      BY <1>2, <3>1 DEF TypeOK, Generations
  <2>3. Believed(d)' = Believed(d)
    BY <2>1, <2>2, BeliefStands
  <2> QED
    BY <1>1, <2>1, <2>2, <2>3, HeardStands DEF Tracked, CutOff
<1> QED
  BY <1>3, <1>4

\* A task's own steps: only one that was cut off ends as cut off.
LEMMA TaskHeard ==
  ASSUME TypeOK, Ledger, NEW d \in Devnodes, Heard(d),
         NEW g \in Generations,
         \/ Open(g) \/ OpenFail(g) \/ ReadGone(g) \/ ReadFail(g)
         \/ SendDone(g) \/ DropAborted(g)
  PROVE  Heard(d)'
<1>1. UNCHANGED <<plugged, uevents, events, phase, pending, readers, retries>>
  BY DEF Open, OpenFail, ReadGone, ReadFail, EndRead, SendDone, DropAborted,
     world, monitoring, supervision
<1>2. /\ \A h \in Generations : tasks'[h].key = tasks[h].key
      /\ \A h \in Generations : h # g => tasks'[h] = tasks[h]
  <2>1. \E s, b, e : tasks' = [tasks EXCEPT ![g] = Become(g, s, b, e)]
    BY DEF Open, OpenFail, ReadGone, ReadFail, EndRead, SendDone, DropAborted
  <2> QED
    BY <2>1 DEF Become, TypeOK
<1>3. tasks[g].state # "aborting" /\ CutOff(g)' => CutOff(g)
  <2>1. CASE Open(g)
    BY <2>1 DEF Open, CutOff, Become, TypeOK
  <2>2. CASE OpenFail(g)
    BY <2>2 DEF OpenFail, CutOff, Become, TypeOK
  <2>3. CASE ReadGone(g)
    BY <2>3 DEF ReadGone, EndRead, CutOff, Become, TypeOK
  <2>4. CASE ReadFail(g)
    BY <2>4 DEF ReadFail, EndRead, CutOff, Become, TypeOK
  <2>5. CASE SendDone(g)
    BY <2>5 DEF SendDone, CutOff, Become, TypeOK
  <2>6. CASE DropAborted(g)
    BY <2>6 DEF DropAborted
  <2> QED
    BY <2>1, <2>2, <2>3, <2>4, <2>5, <2>6
<1>4. (Tracked(d) /\ CutOff(readers[d].generation))'
        => Tracked(d) /\ CutOff(readers[d].generation)
  <2> SUFFICES ASSUME Tracked(d), CutOff(readers[d].generation)'
               PROVE  CutOff(readers[d].generation)
    BY <1>1 DEF Tracked
  <2>1. /\ readers[d].generation \in Generations
        /\ tasks[readers[d].generation].state # "aborting"
    BY EntryNotAborting
  <2> QED
    BY <1>1, <1>2, <1>3, <2>1 DEF CutOff
<1>5. Believed(d)' = Believed(d)
  BY <1>1, <1>2, EntryTyped, BeliefStands
<1> QED
  BY <1>1, <1>4, <1>5, HeardStands

\* The descriptors an unplug cuts off are of tasks of its own devnode.
LEMMA UnplugElsewhere ==
  ASSUME TypeOK, Ledger, NEW d \in Devnodes, Heard(d),
         NEW c \in Devnodes, c # d,
         plugged' = [plugged EXCEPT ![c] = None],
         tasks' = [g \in Generations |->
                     IF tasks[g].devnode = c
                     THEN Become(g, tasks[g].state, FALSE, tasks[g].end)
                     ELSE tasks[g]],
         \A m \in DOMAIN uevents : uevents[m].devnode = d =>
           m \in DOMAIN uevents' /\ uevents'[m] = uevents[m],
         \A m \in DOMAIN uevents' : uevents'[m].devnode = d =>
           m \in DOMAIN uevents /\ uevents[m] = uevents'[m],
         UNCHANGED <<events, phase, pending, readers, retries>>
  PROVE  Heard(d)'
<1>1. Tracked(d) => tasks'[readers[d].generation]
                      = tasks[readers[d].generation]
  BY EntryNotAborting
<1>2. Believed(d)' = Believed(d)
  BY <1>1, BeliefStands
<1>3. plugged'[d] = plugged[d]
  BY DEF TypeOK
<1> QED
  BY <1>1, <1>2, <1>3, HeardStands DEF Tracked, CutOff

-----------------------------------------------------------------------------
(* The world and the monitor *)

\* While the monitor starts, and nothing has been scanned, all is blank.
LEMMA StartHeard ==
  ASSUME StartIsBlank, monitor = "starting", phase = "boot",
         NEW d \in Devnodes,
         UNCHANGED <<events, uevents, phase, pending, readers>>
  PROVE  Heard(d)'
  BY BlankHeard DEF StartIsBlank, Tracked

LEMMA PlugHeard ==
  ASSUME TypeOK, Ledger, StartIsBlank, monitor # "dead",
         NEW d \in Devnodes, Heard(d), d \notin unheard',
         NEW c \in Devnodes, NEW k \in Keys,
         \/ Plug(c, k)
         \/ plugged[c] = k /\ Change(c)
  PROVE  Heard(d)'
<1>1. /\ plugged' = [plugged EXCEPT ![c] = k] /\ plugged[c] \in {None, k}
      /\ UNCHANGED <<events, phase, pending, readers, retries, tasks>>
      /\ UNCHANGED done
  BY DEF Plug, Change, supervision, TypeOK
<1>2. Believed(d)' = Believed(d)
  BY <1>1, BeliefStands
<1>3. CASE monitor = "listening"
  <2> DEFINE u == [kind |-> "add", devnode |-> c, key |-> k, current |-> TRUE]
  <2>1. uevents' = Append(uevents, u)
    BY <1>3 DEF Plug, Change, Announce
  <2>2. CASE c = d
    BY <1>1, <2>1, <2>2, AddAnnounced DEF TypeOK
  <2>3. CASE c # d
    <3>1. /\ uevents \in Seq(Uevent) /\ u \in Uevent /\ u.devnode # d
          /\ plugged'[d] = plugged[d]
      BY <1>1, <2>3 DEF TypeOK, Uevent
    <3>2. /\ DOMAIN uevents = 1..Len(uevents) /\ Len(uevents) \in Nat
          /\ DOMAIN uevents' = 1..Len(uevents) + 1
          /\ uevents'[Len(uevents) + 1] = u
          /\ \A m \in 1..Len(uevents) : uevents'[m] = uevents[m]
      BY <2>1, <3>1, AppendProperties
    <3>3. \A m \in DOMAIN uevents' : uevents'[m].devnode = d =>
            m \in DOMAIN uevents
      BY <3>1, <3>2
    <3> HIDE DEF u
    <3> QED
      BY <1>1, <1>2, <3>1, <3>2, <3>3, HeardStands DEF Tracked, CutOff
  <2> QED
    BY <2>2, <2>3
<1>4. CASE monitor = "starting"
  <2>1. UNCHANGED uevents /\ Plug(c, k)
    BY <1>4 DEF Plug, Change, Announce
  <2>2. CASE c = d
    <3>1. phase = "boot"
      BY <1>4, <2>1, <2>2 DEF Plug, Overhear, TypeOK
    <3> QED
      BY <1>1, <1>4, <2>1, <3>1, StartHeard
  <2>3. CASE c # d
    BY <1>1, <1>2, <2>1, <2>3, HeardStands DEF Tracked, CutOff, TypeOK
  <2> QED
    BY <2>2, <2>3
<1> QED
  BY <1>3, <1>4 DEF TypeOK

LEMMA UnplugHeard ==
  ASSUME TypeOK, Ledger, StartIsBlank, monitor # "dead",
         NEW d \in Devnodes, Heard(d), d \notin unheard',
         NEW c \in Devnodes, Unplug(c)
  PROVE  Heard(d)'
<1> DEFINE gone == [kind |-> "remove", devnode |-> c, key |-> None,
                    current |-> TRUE]
           stale == [i \in DOMAIN uevents |->
                       IF uevents[i].devnode = c
                       THEN [kind |-> uevents[i].kind, devnode |-> c,
                             key |-> uevents[i].key, current |-> FALSE]
                       ELSE uevents[i]]
<1>1. /\ plugged' = [plugged EXCEPT ![c] = None]
      /\ uevents' = IF monitor = "listening" THEN Append(stale, gone)
                                             ELSE stale
      /\ tasks' = [g \in Generations |->
                     IF tasks[g].devnode = c
                     THEN Become(g, tasks[g].state, FALSE, tasks[g].end)
                     ELSE tasks[g]]
      /\ UNCHANGED <<events, phase, pending, readers, retries>>
  BY DEF Unplug, supervision
<1>2. /\ stale \in Seq(Uevent) /\ DOMAIN stale = DOMAIN uevents
      /\ Len(stale) = Len(uevents)
      /\ \A m \in DOMAIN uevents : uevents[m].devnode # c =>
           stale[m] = uevents[m]
      /\ \A m \in DOMAIN uevents : uevents[m].devnode = c =>
           stale[m].devnode = c
  <2>1. \A i \in 1..Len(uevents) : stale[i] \in Uevent
    BY QueuesTyped DEF Uevent
  <2>2. stale \in Seq(Uevent) /\ Len(stale) = Len(uevents)
    <3>1. DOMAIN stale = 1..Len(uevents) /\ Len(uevents) \in Nat
      BY QueuesTyped
    <3>2. stale \in [1..Len(uevents) -> Uevent]
      BY <2>1, <3>1
    <3> QED
      BY <3>1, <3>2, SeqDef
  <2> QED
    BY <2>2
<1> HIDE DEF stale
<1>3. CASE monitor = "listening"
  <2>1. uevents' = Append(stale, gone) /\ gone \in Uevent
    BY <1>1, <1>3 DEF Uevent
  <2>2. CASE c = d
    BY <1>1, <1>2, <2>1, <2>2, RemovalAnnounced DEF TypeOK
  <2>3. CASE c # d
    <3>1. /\ DOMAIN stale = 1..Len(stale) /\ Len(stale) \in Nat
          /\ DOMAIN uevents' = 1..Len(stale) + 1
          /\ uevents'[Len(stale) + 1].devnode # d
          /\ \A m \in 1..Len(stale) : uevents'[m] = stale[m]
      BY <1>2, <2>1, <2>3, AppendProperties, LenProperties
    <3>2. /\ \A m \in DOMAIN uevents : uevents[m].devnode = d =>
               m \in DOMAIN uevents' /\ uevents'[m] = uevents[m]
          /\ \A m \in DOMAIN uevents' : uevents'[m].devnode = d =>
               m \in DOMAIN uevents /\ uevents[m] = uevents'[m]
      BY <1>2, <2>3, <3>1
    <3> QED
      BY <1>1, <2>3, <3>2, UnplugElsewhere
  <2> QED
    BY <2>2, <2>3
<1>4. CASE monitor = "starting"
  <2>1. uevents = <<>> /\ uevents' = <<>>
    <3>1. uevents = <<>> /\ uevents' = stale
      BY <1>1, <1>4 DEF StartIsBlank
    <3>2. stale \in Seq(Uevent) /\ Len(stale) = 0
      BY <1>2, <3>1
    <3> QED
      BY <3>1, <3>2, EmptySeq
  <2>2. CASE c = d
    <3>1. phase = "boot"
      BY <1>4, <2>2 DEF Unplug, Overhear, TypeOK
    <3> QED
      BY <1>1, <1>4, <2>1, <3>1, StartHeard
  <2>3. CASE c # d
    BY <1>1, <2>1, <2>3, UnplugElsewhere
  <2> QED
    BY <2>2, <2>3
<1> QED
  BY <1>3, <1>4 DEF TypeOK

LEMMA MonitorHeard ==
  ASSUME TypeOK, TypeOK', Ledger, monitor' # "dead",
         NEW d \in Devnodes, Heard(d), d \notin unheard', MonitorNext
  PROVE  Heard(d)'
<1>1. UNCHANGED <<plugged, phase, pending, readers, retries, tasks>>
  BY DEF MonitorNext, MonitorListen, MonitorFail, LoseUevent, MonitorForward,
     world, supervision
<1>2. Believed(d)' = Believed(d)
  BY <1>1, BeliefStands
<1>3. CASE MonitorListen
  BY <1>1, <1>2, <1>3, HeardStands DEF MonitorListen, Tracked, CutOff
<1>4. CASE MonitorFail
  BY <1>4 DEF MonitorFail
<1>5. CASE LoseUevent
  <2> DEFINE last == Len(uevents)
  <2>1. /\ last \in Nat \ {0} /\ DOMAIN uevents = 1..last
        /\ uevents \in Seq(Uevent)
        /\ uevents' = SubSeq(uevents, 1, last - 1)
        /\ uevents[last].devnode # d /\ UNCHANGED events
    BY <1>5, QueuesTyped, EmptySeq DEF LoseUevent, TypeOK
  <2>2. /\ DOMAIN uevents' = 1..(last - 1)
        /\ \A m \in 1..(last - 1) : uevents'[m] = uevents[m]
    BY <2>1
  <2>3. /\ \A m \in DOMAIN uevents : uevents[m].devnode = d =>
             m \in DOMAIN uevents' /\ uevents'[m] = uevents[m]
        /\ \A m \in DOMAIN uevents' : uevents'[m].devnode = d =>
             m \in DOMAIN uevents /\ uevents[m] = uevents'[m]
    BY <2>1, <2>2
  <2> QED
    BY <1>1, <1>2, <2>1, <2>3, HeardStands DEF Tracked, CutOff
<1>6. CASE MonitorForward
  <2> DEFINE u == Head(uevents)
  <2>1. uevents # <<>> /\ uevents' = Tail(uevents) /\ u \in Uevent
    BY <1>6 DEF MonitorForward, TypeOK
  <2>2. CASE u.kind = "remove" /\ events' = Append(events,
               [kind |-> "Removed", devnode |-> u.devnode, key |-> None])
    <3> DEFINE e == [kind |-> "Removed", devnode |-> u.devnode, key |-> None]
    <3>1. /\ e \in Event /\ e.devnode = u.devnode /\ e.key = u.key
          /\ e.kind = "Removed" /\ events' = Append(events, e)
      BY <2>1, <2>2 DEF Uevent, Event
    <3> HIDE DEF e
    <3> QED
      BY <1>1, <2>1, <2>2, <3>1, ForwardHeard
  <2>3. CASE u.kind = "add" /\ events' = Append(events,
               [kind |-> "Added", devnode |-> u.devnode, key |-> u.key])
    <3> DEFINE e == [kind |-> "Added", devnode |-> u.devnode, key |-> u.key]
    <3>1. /\ e \in Event /\ e.devnode = u.devnode /\ e.key = u.key
          /\ e.kind = "Added" /\ events' = Append(events, e)
      BY <2>1, <2>3 DEF Uevent, Event
    <3> HIDE DEF e
    <3> QED
      BY <1>1, <2>1, <2>3, <3>1, ForwardHeard
  <2>4. CASE u.kind = "add" /\ ~u.current /\ UNCHANGED events
    BY <1>1, <2>1, <2>4, SkipHeard
  <2> QED
    BY <1>6, <2>2, <2>3, <2>4 DEF MonitorForward
<1> QED
  BY <1>3, <1>4, <1>5, <1>6 DEF MonitorNext

-----------------------------------------------------------------------------
(* Every step *)

LEMMA HeardStep ==
  ASSUME TypeOK, TypeOK', Ledger, Ledger', Hearing, monitor' # "dead",
         [Next]_vars, NEW d \in Devnodes \ unheard'
  PROVE  Heard(d)'
<1> USE DEF Hearing
<1>1. CASE MonitorLost \/ ProcessFails
  <2>1. ~Tracked(d)'
    BY <1>1 DEF MonitorLost, ProcessFails, Restart, Tracked, NoReader
  <2> QED
    BY <1>1, <2>1, BlankHeard DEF MonitorLost, ProcessFails, Restart
<1> SUFFICES ASSUME ~(MonitorLost \/ ProcessFails) PROVE Heard(d)'
  BY <1>1
<1>2. /\ monitor # "dead" /\ unheard \subseteq unheard'
      /\ MonitorNext \/ UNCHANGED monitor
  BY DEF Next, WorldNext, Plug, Unplug, Change, NoteResume, MonitorNext,
     MonitorListen, MonitorFail, LoseUevent, MonitorForward, SupervisorNext,
     InitialScan, AdoptScanned, HandleEvent, HandleDone, HandleResume,
     FireRetry, TaskNext, Open, OpenFail, ReadGone, ReadFail, EndRead,
     SendDone, DropAborted, Overhear, monitoring, vars
<1>3. d \in Devnodes /\ d \notin unheard' /\ Heard(d)
  BY <1>2
<1>4. ASSUME NEW c \in Devnodes, NEW k \in Keys, Plug(c, k) PROVE Heard(d)'
  BY <1>2, <1>3, <1>4, PlugHeard
<1>5. ASSUME NEW c \in Devnodes, Unplug(c) PROVE Heard(d)'
  BY <1>2, <1>3, <1>5, UnplugHeard
<1>6. ASSUME NEW c \in Devnodes, Change(c) PROVE Heard(d)'
  <2>1. PICK k \in Keys : plugged[c] = k
    BY <1>6 DEF Change, TypeOK
  <2> QED
    BY <1>2, <1>3, <1>6, <2>1, PlugHeard
<1>7. CASE NoteResume \/ UNCHANGED vars
  <2>1. UNCHANGED <<plugged, events, uevents, phase, pending, readers,
                    retries, tasks>>
    BY <1>7 DEF NoteResume, monitoring, supervision, vars
  <2>2. Believed(d)' = Believed(d)
    BY <2>1, BeliefStands
  <2> QED
    BY <1>3, <2>1, <2>2, HeardStands DEF Tracked, CutOff
<1>8. CASE MonitorNext
  BY <1>3, <1>8, MonitorHeard
<1>9. CASE InitialScan
  <2>1. /\ pending' = PresentNodes /\ phase' = "loop" /\ phase = "boot"
        /\ UNCHANGED <<plugged, events, uevents, readers, retries, tasks>>
    BY <1>9 DEF InitialScan, world, monitoring
  <2>2. Believed(d) = {}
    BY <1>3, <2>1 DEF StartIsBlank, Believed
  <2> QED
    BY <1>3, <2>1, <2>2, RescanHeard
<1>10. CASE AdoptScanned
  BY <1>3, <1>10, AdoptScannedHeard
<1>11. CASE HandleEvent
  BY <1>3, <1>11, HandleEventHeard
<1>12. CASE HandleDone
  BY <1>3, <1>12, HandleDoneHeard
<1>13. CASE HandleResume
  <2>1. /\ phase = "loop" /\ phase' = "loop"
        /\ UNCHANGED <<plugged, events, uevents, readers, retries, tasks>>
        /\ pending' = PresentNodes \/ UNCHANGED pending
    BY <1>13 DEF HandleResume, world, monitoring
  <2>2. ~Going(d) => Believed(d) \subseteq {plugged[d]} \ {None}
    BY <1>3, <2>1 DEF Heard, BeliefIsTrue
  <2>3. CASE pending' = PresentNodes
    BY <1>3, <2>1, <2>2, <2>3, RescanHeard
  <2>4. CASE UNCHANGED pending
    <3>1. Believed(d)' = Believed(d)
      BY <2>1, BeliefStands
    <3> QED
      BY <1>3, <2>1, <2>4, <3>1, HeardStands DEF Tracked, CutOff
  <2> QED
    BY <2>1, <2>3, <2>4
<1>14. ASSUME NEW r \in retries, FireRetry(r) PROVE Heard(d)'
  BY <1>3, <1>14, FireRetryHeard
<1>15. CASE TaskNext
  BY <1>3, <1>15, TaskHeard DEF TaskNext
<1> QED
  BY <1>4, <1>5, <1>6, <1>7, <1>8, <1>9, <1>10, <1>11, <1>12, <1>13, <1>14,
     <1>15
  DEF Next, WorldNext, SupervisorNext

\* A finished task keeps its key and its end, and a report is of its task.
LEMMA ReportAgreesStep ==
  ASSUME TypeOK, Ledger, ReportAgrees, [Next]_vars
  PROVE  ReportAgrees'
<1>1. CASE MonitorLost \/ ProcessFails
  BY <1>1 DEF MonitorLost, ProcessFails, Restart, ReportAgrees
<1> SUFFICES ASSUME ~(MonitorLost \/ ProcessFails) PROVE ReportAgrees'
  BY <1>1
<1>2. ASSUME NEW g \in Generations, tasks[g].state # "unborn"
      PROVE  /\ tasks'[g].key = tasks[g].key
             /\ tasks[g].state = "finished" => tasks'[g].end = tasks[g].end
  <2>1. ASSUME NEW n, NEW a, Spawn(n, a) PROVE tasks'[g] = tasks[g]
    <3>1. g # generations + 1
      BY <1>2 DEF Ledger, Unborn, TypeOK, Generations
    <3> QED
      BY <2>1, <3>1 DEF Spawn, TypeOK
  <2>2. CASE AdoptScanned
    BY <2>1, <2>2 DEF AdoptScanned, Adopt
  <2>3. CASE HandleEvent
    <3>1. CASE \E n : Adopt(n)
      BY <2>1, <3>1 DEF Adopt
    <3>2. CASE Forget(Head(events).devnode)
      <4>1. \/ UNCHANGED tasks
            \/ \E h, s, b : tasks' = [tasks EXCEPT ![h] =
                                       Become(h, s, b, tasks[h].end)]
        BY <3>2 DEF Forget, Abort
      <4> QED
        BY <4>1 DEF Become, TypeOK
    <3> QED
      BY <2>3, <3>1, <3>2 DEF HandleEvent
  <2>4. CASE \E r \in retries : FireRetry(r)
    BY <2>1, <2>4 DEF FireRetry
  <2>5. CASE TaskNext
    <3>1. PICK h \in Generations :
            \/ Open(h) \/ OpenFail(h) \/ ReadGone(h) \/ ReadFail(h)
            \/ SendDone(h) \/ DropAborted(h)
      BY <2>5 DEF TaskNext
    <3>2. tasks[h].state # "finished"
          /\ \E s, b, e : tasks' = [tasks EXCEPT ![h] = Become(h, s, b, e)]
      BY <3>1 DEF Open, OpenFail, ReadGone, ReadFail, EndRead, SendDone,
         DropAborted
    <3>3. PICK s, b, e : tasks' = [tasks EXCEPT ![h] = Become(h, s, b, e)]
      BY <3>2
    <3>4. tasks'[h].key = tasks[h].key
      BY <3>3 DEF Become, TypeOK
    <3>5. g # h => tasks'[g] = tasks[g]
      BY <3>3 DEF TypeOK
    <3> QED
      BY <3>2, <3>4, <3>5
  <2>6. CASE \E c \in Devnodes : Unplug(c)
    BY <2>6 DEF Unplug, Become, TypeOK
  <2>7. CASE (WorldNext /\ ~\E c \in Devnodes : Unplug(c)) \/ MonitorNext
               \/ InitialScan \/ HandleDone \/ HandleResume \/ UNCHANGED vars
    BY <2>7 DEF WorldNext, Plug, Change, NoteResume, MonitorNext,
       MonitorListen, MonitorFail, LoseUevent, MonitorForward, InitialScan,
       HandleDone, HandleResume, vars
  <2> QED
    BY <2>2, <2>3, <2>4, <2>5, <2>6, <2>7 DEF Next, SupervisorNext, WorldNext
<1>3. \A i \in DOMAIN done :
        /\ tasks'[done[i].generation].key = done[i].key
        /\ tasks'[done[i].generation].end = done[i].end
  BY <1>2, ReportTyped DEF Ledger, ReportIsFinal, ReportAgrees
<1>4. CASE HandleDone
  <2>1. \A i \in DOMAIN done' :
          i + 1 \in DOMAIN done /\ done'[i] = done[i + 1]
    BY <1>4, ReportTyped DEF HandleDone, TypeOK
  <2> QED
    BY <1>3, <2>1 DEF ReportAgrees
<1>5. ASSUME NEW g \in Generations, SendDone(g) PROVE ReportAgrees'
  <2> DEFINE report == [generation |-> g, devnode |-> tasks[g].devnode,
                        key |-> tasks[g].key, end |-> tasks[g].end]
  <2>1. tasks'[g].key = tasks[g].key /\ tasks'[g].end = tasks[g].end
    BY <1>5 DEF SendDone, Become, TypeOK
  <2>2. \A i \in DOMAIN done' :
          \/ done'[i] = report
          \/ i \in DOMAIN done /\ done'[i] = done[i]
    BY <1>5, ReportTyped DEF SendDone, TypeOK
  <2> QED
    BY <1>3, <2>1, <2>2 DEF ReportAgrees
<1>6. CASE ~HandleDone /\ ~\E g \in Generations : SendDone(g)
  <2>1. UNCHANGED done
    BY <1>6 DEF Next, WorldNext, Plug, Unplug, Change, NoteResume,
       MonitorNext, MonitorListen, MonitorFail, LoseUevent, MonitorForward,
       SupervisorNext, InitialScan, AdoptScanned, HandleEvent, HandleResume,
       FireRetry, TaskNext, Open, OpenFail, ReadGone, ReadFail, EndRead,
       DropAborted, vars
  <2> QED
    BY <1>3, <2>1 DEF ReportAgrees
<1> QED
  BY <1>4, <1>5, <1>6

LEMMA BlankStep ==
  ASSUME TypeOK, Ledger, StartIsBlank, [Next]_vars
  PROVE  StartIsBlank'
<1>1. CASE MonitorLost \/ ProcessFails
  BY <1>1 DEF MonitorLost, ProcessFails, Restart, StartIsBlank, Tracked,
     NoReader
<1>2. CASE \E c \in Devnodes : Unplug(c)
  <2>1. PICK c \in Devnodes : Unplug(c)
    BY <1>2
  <2>2. UNCHANGED <<monitor, events, phase, pending, retries, readers>>
    BY <2>1 DEF Unplug, supervision
  <2>3. monitor = "starting" => uevents' = <<>>
    <3> SUFFICES ASSUME monitor = "starting" PROVE uevents' = <<>>
      OBVIOUS
    <3>1. uevents = <<>> /\ DOMAIN uevents = {}
      BY QueuesTyped DEF StartIsBlank
    <3>2. uevents' \in [{} -> {}]
      BY <2>1, <3>1 DEF Unplug
    <3> QED
      BY <3>2
  <2> QED
    BY <2>2, <2>3 DEF StartIsBlank, Tracked
<1>3. CASE AdoptScanned
  BY <1>3 DEF AdoptScanned, StartIsBlank, monitoring, Tracked
<1>4. CASE WorldNext /\ ~\E c \in Devnodes : Unplug(c)
  BY <1>4 DEF WorldNext, Plug, Change, NoteResume, Announce, monitoring,
     supervision, StartIsBlank, Tracked
<1>5. CASE MonitorNext
  BY <1>5 DEF MonitorNext, MonitorListen, MonitorFail, LoseUevent,
     MonitorForward, world, supervision, StartIsBlank, Tracked
<1>6. CASE InitialScan \/ HandleEvent \/ HandleDone \/ HandleResume
             \/ \E r \in retries : FireRetry(r)
  BY <1>6 DEF InitialScan, HandleEvent, HandleDone, HandleResume, FireRetry,
     world, monitoring, StartIsBlank
<1>7. CASE TaskNext \/ UNCHANGED vars
  BY <1>7 DEF TaskNext, Open, OpenFail, ReadGone, ReadFail, EndRead,
     SendDone, DropAborted, world, monitoring, supervision, StartIsBlank,
     Tracked, vars
<1> QED
  BY <1>1, <1>2, <1>3, <1>4, <1>5, <1>6, <1>7 DEF Next, SupervisorNext

LEMMA HearingInit == Init => Hearing
<1> SUFFICES ASSUME Init PROVE Hearing
  OBVIOUS
<1>1. \A d \in Devnodes : ~Tracked(d)
  BY DEF Init, ProcessStart, Tracked, NoReader
<1>2. StartIsBlank /\ ReportAgrees
  BY <1>1 DEF Init, ProcessStart, StartIsBlank, ReportAgrees
<1>3. \A d \in Devnodes : Heard(d)
  BY <1>1 DEF Init, ProcessStart, Heard, ScanIsTrue, EventsAreTrue,
     UeventsAreTrue, BeliefIsTrue, CutIsAnnounced
<1> QED
  BY <1>2, <1>3 DEF Hearing

(* main.rs:259: once all events are handled, every present devnode has a   *)
(* reader or a retry under its own key and every absent one has neither,   *)
(* for any devnodes and keys, however long the queues grew and however     *)
(* plugs, scans, retries, late reports and restarts interleaved; only a    *)
(* devnode a uevent of which was lost is excepted.                         *)
THEOREM NothingIsStranded == Spec => []NothingStranded
<1>1. TypeOK /\ Ledger /\ Hearing /\ [Next]_vars => Hearing'
  <2> SUFFICES ASSUME TypeOK, Ledger, Hearing, [Next]_vars PROVE Hearing'
    OBVIOUS
  <2>1. TypeOK' /\ Ledger'
    BY TypeStep, LedgerStep DEF Ledger
  <2>2. ReportAgrees' /\ StartIsBlank'
    BY ReportAgreesStep, BlankStep DEF Hearing
  <2>3. monitor' # "dead" => \A d \in Devnodes \ unheard' : Heard(d)'
    BY <2>1, HeardStep
  <2> QED
    BY <2>2, <2>3 DEF Hearing
<1>2. Hearing => NothingStranded
  <2> SUFFICES ASSUME Hearing, Quiet, NEW d \in Devnodes \ unheard
               PROVE  Believed(d) = {plugged[d]} \ {None}
    BY DEF NothingStranded
  <2>1. ~Scanned(d) /\ ~Going(d) /\ ~BackAfter(0, d)
    BY DEF Quiet, Yielded, Scanned, Going, GoneAfter, BackAfter, Later
  <2> QED
    BY <2>1 DEF Hearing, Quiet, Heard, BeliefIsTrue
<1> QED
  BY <1>1, <1>2, HearingInit, Inductive, PTL DEF Spec
=============================================================================
