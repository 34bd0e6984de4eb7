----------------------------- MODULE Supervisor -----------------------------
(***************************************************************************)
(* The supervision of hidraw readers in steambatteryd: the udev monitor    *)
(* thread (daemon/src/discovery.rs), the main select loop and its          *)
(* `Supervisor` (daemon/src/main.rs), the reader tasks it spawns           *)
(* (daemon/src/reader.rs, reduced here to open, end and drop) and the      *)
(* reference count those tasks keep in the registry (daemon/src/state.rs). *)
(*                                                                         *)
(* Three threads of control interleave: the world (kernel, udev, logind),  *)
(* the monitor thread, and one current-thread tokio runtime on which the   *)
(* main loop and every reader task run one at a time.                      *)
(*                                                                         *)
(* Abstractions.  Time is not modelled: a scheduled retry may fire at any  *)
(* moment, and whether a failed reader had run for HEALTHY_RUN is a free   *)
(* choice, so every order of timers and events is covered.  `retries` is a *)
(* set: each entry names the spawn it comes from, so no two entries merge. *)
(***************************************************************************)
EXTENDS Naturals, Sequences, FiniteSets

CONSTANTS
  Devnodes,    \* hidraw device nodes, /dev/hidrawN
  Keys,        \* logical controllers (HidrawNode::key)
  None,        \* no controller behind a devnode, no devnode of a task
  EventCap,    \* capacity of the hotplug event channel (16 in main.rs)
  DoneCap,     \* capacity of the end-report channel (16 in main.rs)
  MaxSpawns,   \* bound: reader tasks spawned by one process
  MaxChanges,  \* bound: hotplug, change and resume events of the world
  MaxFaults    \* bound: failed opens and reads, failures of process parts

ASSUME ConstantsAssumption ==
  /\ None \notin Keys \cup Devnodes
  /\ EventCap \in Nat \ {0}
  /\ DoneCap \in Nat \ {0}
  /\ MaxSpawns \in Nat
  /\ MaxChanges \in Nat
  /\ MaxFaults \in Nat

VARIABLES
  plugged,     \* the controller behind each devnode, None when absent
  monitor,     \* the monitor thread: starting, listening or dead
  uevents,     \* uevents in the monitor's netlink socket, oldest first
  events,      \* the hotplug channel from the monitor to the main loop
  resume,      \* a rescan request waits in the capacity-1 resume channel
  phase,       \* main: boot until the initial scan, then loop
  pending,     \* nodes a scan returned that its `for` loop still adopts
  generations, \* Supervisor::generations
  readers,     \* Supervisor::readers
  retries,     \* Supervisor::retries
  tasks,       \* the spawned reader tasks, by generation
  done,        \* the end-report channel
  refs,        \* Registry entries' `refs`, 0 when there is no entry
  changes,     \* world events so far
  faults,      \* faults so far
  unheard      \* history: devnodes that changed after the initial scan
               \* unheard by the monitor, or whose event was lost

world == <<plugged, changes>>
monitoring == <<monitor, uevents>>
supervision == <<phase, pending, generations, readers, retries>>
vars == <<plugged, monitor, uevents, events, resume, phase, pending,
          generations, readers, retries, tasks, done, refs, changes, faults,
          unheard>>

-----------------------------------------------------------------------------
(* Values *)

Generations == 1..MaxSpawns

\* discovery::HidrawNode without its label.
Node == [devnode : Devnodes, key : Keys]

\* reader::End.
End == {"DeviceGone", "OpenFailed", "ReadFailed"}

\* A uevent; `current` says the device it was sent for is still there.
Uevent ==
  [kind : {"add"}, devnode : Devnodes, key : Keys, current : BOOLEAN]
    \cup [kind : {"remove"}, devnode : Devnodes, key : {None},
          current : BOOLEAN]

\* discovery::Event; a Removed carries a devnode only.
Event == [kind : {"Added"}, devnode : Devnodes, key : Keys]
           \cup [kind : {"Removed"}, devnode : Devnodes, key : {None}]

\* main.rs `Reader`; generation 0 stands for a missing map entry.
Reader == [generation : 0..MaxSpawns, attempt : Nat]
NoReader == [generation |-> 0, attempt |-> 0]

\* main.rs `Retry` without its instant; `from` is the spawn that failed.
Retry == [devnode : Devnodes, key : Keys, attempt : Nat, from : Generations]

\* main.rs `Done`.
Done == [generation : Generations, devnode : Devnodes, key : Keys, end : End]

(* A reader task is spawned (not yet polled), reading (open, registry ref  *)
(* held), sending (ended, ref dropped, awaiting room for its report),      *)
(* aborting (aborted while reading, not yet dropped) or finished;          *)
(* `attached` says its descriptor still has a device behind it.            *)
TaskState == {"spawned", "reading", "sending", "aborting", "finished"}
NoTask == [devnode |-> None, key |-> None, state |-> "unborn",
           attached |-> FALSE, end |-> "DeviceGone"]
Task == [devnode : Devnodes, key : Keys, state : TaskState,
         attached : BOOLEAN, end : End] \cup {NoTask}

\* Task g with a new state, descriptor and end.
Become(g, state, attached, end) ==
  [devnode |-> tasks[g].devnode, key |-> tasks[g].key,
   state |-> state, attached |-> attached, end |-> end]

Live(g) == tasks[g].state \in {"spawned", "reading", "sending"}
HoldsGuard(g) == tasks[g].state \in {"reading", "aborting"}
Tracked(d) == readers[d].generation # 0

PresentNodes == {n \in Node : plugged[n.devnode] = n.key}

\* The runtime has one thread and the loop over a scan has no await.
Yielded == pending = {}

-----------------------------------------------------------------------------
(* The world *)

WorldChange == changes < MaxChanges /\ changes' = changes + 1
Fault == faults < MaxFaults /\ faults' = faults + 1

Announce(kind, d, k) ==
  uevents' = IF monitor = "listening"
             THEN Append(uevents, [kind |-> kind, devnode |-> d, key |-> k,
                                   current |-> TRUE])
             ELSE uevents

Overhear(d) ==
  unheard' = IF phase = "loop" /\ monitor # "listening"
             THEN unheard \cup {d} ELSE unheard

\* A controller's hidraw node appears.
Plug(d, k) ==
  /\ plugged[d] = None
  /\ WorldChange
  /\ plugged' = [plugged EXCEPT ![d] = k]
  /\ Announce("add", d, k)
  /\ Overhear(d)
  /\ UNCHANGED <<monitor, events, resume, supervision, tasks, done, refs,
                 faults>>

\* It disappears: open descriptors are cut off and pending adds become stale.
Unplug(d) ==
  /\ plugged[d] # None
  /\ WorldChange
  /\ plugged' = [plugged EXCEPT ![d] = None]
  /\ LET stale == [i \in DOMAIN uevents |->
                     IF uevents[i].devnode = d
                     THEN [kind |-> uevents[i].kind, devnode |-> d,
                           key |-> uevents[i].key, current |-> FALSE]
                     ELSE uevents[i]]
     IN uevents' = IF monitor = "listening"
                   THEN Append(stale, [kind |-> "remove", devnode |-> d,
                                       key |-> None, current |-> TRUE])
                   ELSE stale
  /\ tasks' = [g \in Generations |->
                 IF tasks[g].devnode = d
                 THEN Become(g, tasks[g].state, FALSE, tasks[g].end)
                 ELSE tasks[g]]
  /\ Overhear(d)
  /\ UNCHANGED <<monitor, events, resume, supervision, done, refs, faults>>

\* A udev `change` event, handled like an add.
Change(d) ==
  /\ plugged[d] # None
  /\ monitor = "listening"
  /\ WorldChange
  /\ Announce("add", d, plugged[d])
  /\ UNCHANGED <<plugged, monitor, events, resume, supervision, tasks, done,
                 refs, faults, unheard>>

\* suspend::watch saw a resume: `try_send` keeps at most one request.
NoteResume ==
  /\ WorldChange
  /\ resume' = TRUE
  /\ UNCHANGED <<plugged, monitoring, events, supervision, tasks, done, refs,
                 faults, unheard>>

-----------------------------------------------------------------------------
(* The monitor thread: discovery::monitor_blocking *)

MonitorListen ==
  /\ monitor = "starting"
  /\ monitor' = "listening"
  /\ UNCHANGED <<world, uevents, events, resume, supervision, tasks, done,
                 refs, faults, unheard>>

\* poll fails for good: the thread returns and drops the only sender.
MonitorFail ==
  /\ monitor # "dead"
  /\ Fault
  /\ monitor' = "dead"
  /\ uevents' = <<>>
  /\ UNCHANGED <<world, events, resume, supervision, tasks, done, refs,
                 unheard>>

(* The socket's buffer is full while the thread waits for the main loop:   *)
(* the kernel drops the newest uevent, and nobody is told.                 *)
LoseUevent ==
  /\ monitor = "listening"
  /\ uevents # <<>>
  /\ Fault
  /\ LET last == Len(uevents) IN
     /\ uevents' = SubSeq(uevents, 1, last - 1)
     /\ unheard' = unheard \cup {uevents[last].devnode}
  /\ UNCHANGED <<world, monitor, events, resume, supervision, tasks, done,
                 refs>>

(* One uevent is classified and sent.  An add whose device is gone may     *)
(* have lost the sysfs parents `classify` reads, and is then not sent.     *)
MonitorForward ==
  /\ monitor = "listening"
  /\ uevents # <<>>
  /\ uevents' = Tail(uevents)
  /\ LET u == Head(uevents) IN
     \/ /\ u.kind = "remove"
        /\ Len(events) < EventCap
        /\ events' = Append(events, [kind |-> "Removed",
                                     devnode |-> u.devnode, key |-> None])
     \/ /\ u.kind = "add"
        /\ Len(events) < EventCap
        /\ events' = Append(events, [kind |-> "Added",
                                     devnode |-> u.devnode, key |-> u.key])
     \/ u.kind = "add" /\ ~u.current /\ UNCHANGED events
  /\ UNCHANGED <<world, monitor, resume, supervision, tasks, done, refs,
                 faults, unheard>>

-----------------------------------------------------------------------------
(* The main loop and its Supervisor *)

IsFinished(g) == tasks[g].state = "finished"

\* No entry, or one whose task has finished: `is_none_or(is_finished)`.
Vacant(d) == ~Tracked(d) \/ IsFinished(readers[d].generation)

\* Supervisor::spawn
Spawn(n, attempt) ==
  /\ generations < MaxSpawns
  /\ generations' = generations + 1
  /\ tasks' = [tasks EXCEPT ![generations + 1] =
                 [devnode |-> n.devnode, key |-> n.key, state |-> "spawned",
                  attached |-> FALSE, end |-> "DeviceGone"]]
  /\ readers' = [readers EXCEPT ![n.devnode] =
                   [generation |-> generations + 1, attempt |-> attempt]]

\* Mutant of Adopt: pending retries survive the fresh evidence.
AdoptKeepingRetries(n) ==
  /\ IF Vacant(n.devnode)
     THEN Spawn(n, 0)
     ELSE UNCHANGED <<generations, tasks, readers>>
  /\ UNCHANGED retries

\* Supervisor::adopt
Adopt(n) ==
  /\ retries' = {r \in retries : r.devnode # n.devnode}
  /\ IF Vacant(n.devnode)
     THEN Spawn(n, 0)
     ELSE UNCHANGED <<generations, tasks, readers>>

\* JoinHandle::abort: only a reading task has anything to drop later on.
Abort(g) ==
  tasks' = [tasks EXCEPT ![g] =
              Become(g, IF tasks[g].state = "reading"
                        THEN "aborting" ELSE "finished",
                     tasks[g].attached, tasks[g].end)]

\* Mutant of Forget: a retry outlives the device.
ForgetKeepingRetries(d) ==
  /\ readers' = [readers EXCEPT ![d] = NoReader]
  /\ IF Tracked(d) THEN Abort(readers[d].generation) ELSE UNCHANGED tasks
  /\ UNCHANGED <<generations, retries>>

\* Supervisor::forget
Forget(d) ==
  /\ retries' = {r \in retries : r.devnode # d}
  /\ readers' = [readers EXCEPT ![d] = NoReader]
  /\ IF Tracked(d) THEN Abort(readers[d].generation) ELSE UNCHANGED tasks
  /\ UNCHANGED generations

\* Mutant of Retire: a clean end leaves the entry behind.
RetireFailuresOnly(report) ==
  IF report.end = "DeviceGone"
  THEN UNCHANGED <<readers, retries>>
  ELSE /\ readers' = [readers EXCEPT ![report.devnode] = NoReader]
       /\ retries' = retries \cup
            {[devnode |-> report.devnode, key |-> report.key,
              attempt |-> 1, from |-> report.generation]}

\* Mutant of Retire: a failed reader is not tried again.
RetireWithoutRetry(report) ==
  /\ readers' = [readers EXCEPT ![report.devnode] = NoReader]
  /\ UNCHANGED retries

\* The rest of on_done: the entry goes, a failure leaves a retry.
Retire(report) ==
  LET retry(failures) == [devnode |-> report.devnode, key |-> report.key,
                          attempt |-> failures, from |-> report.generation]
  IN
  /\ readers' = [readers EXCEPT ![report.devnode] = NoReader]
  /\ IF report.end = "DeviceGone"
     THEN UNCHANGED retries
     ELSE \E failures \in {1, readers[report.devnode].attempt + 1} :
            retries' = retries \cup {retry(failures)}

\* Mutant of OnDone: any report retires whatever reader is tracked.
OnDoneUnmatched(report) == Retire(report)

\* Supervisor::on_done
OnDone(report) ==
  IF readers[report.devnode].generation # report.generation
  THEN UNCHANGED <<readers, retries>>
  ELSE Retire(report)

\* `discovery::scan()?` before the loop.
InitialScan ==
  /\ phase = "boot"
  /\ phase' = "loop"
  /\ pending' = PresentNodes
  /\ UNCHANGED <<world, monitoring, events, resume, generations, readers,
                 retries, tasks, done, refs, faults, unheard>>

\* One iteration of `for node in nodes { adopt }`.
AdoptScanned ==
  \E n \in pending :
    /\ pending' = pending \ {n}
    /\ Adopt(n)
    /\ UNCHANGED <<world, monitoring, events, resume, phase, done, refs,
                   faults, unheard>>

\* The select loop's hotplug arm.
HandleEvent ==
  /\ phase = "loop" /\ Yielded
  /\ events # <<>>
  /\ events' = Tail(events)
  /\ LET e == Head(events) IN
     \/ /\ e.kind = "Added"
        /\ Adopt([devnode |-> e.devnode, key |-> e.key])
     \/ /\ e.kind = "Removed"
        /\ Forget(e.devnode)
  /\ UNCHANGED <<world, monitoring, resume, phase, pending, done, refs,
                 faults, unheard>>

\* Its end-report arm.
HandleDone ==
  /\ phase = "loop" /\ Yielded
  /\ done # <<>>
  /\ done' = Tail(done)
  /\ OnDone(Head(done))
  /\ UNCHANGED <<world, monitoring, events, resume, phase, pending,
                 generations, tasks, refs, faults, unheard>>

(* Its timer arm: fire_due_retries, one due entry at a time.  The entries  *)
(* are of different devnodes, so firing several is firing each in turn.    *)
FireRetry(r) ==
  /\ phase = "loop" /\ Yielded
  /\ retries' = retries \ {r}
  /\ IF Vacant(r.devnode)
     THEN Spawn([devnode |-> r.devnode, key |-> r.key], r.attempt)
     ELSE UNCHANGED <<generations, tasks, readers>>
  /\ UNCHANGED <<world, monitoring, events, resume, phase, pending, done,
                 refs, faults, unheard>>

\* Its resume arm; a rescan that fails is only logged.
HandleResume ==
  /\ phase = "loop" /\ Yielded
  /\ resume
  /\ resume' = FALSE
  /\ \/ pending' = PresentNodes /\ UNCHANGED faults
     \/ Fault /\ UNCHANGED pending
  /\ UNCHANGED <<world, monitoring, events, phase, generations, readers,
                 retries, tasks, done, refs, unheard>>

-----------------------------------------------------------------------------
(* Reader tasks: reader::run and the task body of Supervisor::spawn *)

Acquire(k) == refs' = [refs EXCEPT ![k] = @ + 1]
Release(k) == refs' = [refs EXCEPT ![k] = IF @ = 0 THEN 0 ELSE @ - 1]

\* The node opens: the key is acquired and the guard taken.
Open(g) ==
  /\ Yielded
  /\ tasks[g].state = "spawned"
  /\ plugged[tasks[g].devnode] # None
  /\ tasks' = [tasks EXCEPT ![g] = Become(g, "reading", TRUE, tasks[g].end)]
  /\ Acquire(tasks[g].key)
  /\ UNCHANGED <<world, monitoring, events, resume, supervision, done,
                 faults, unheard>>

\* The open is refused (seat ACL not applied yet) or finds no node.
OpenFail(g) ==
  /\ Yielded
  /\ tasks[g].state = "spawned"
  /\ Fault
  /\ tasks' = [tasks EXCEPT ![g] =
                 Become(g, "sending", FALSE, "OpenFailed")]
  /\ UNCHANGED <<world, monitoring, events, resume, supervision, done, refs,
                 unheard>>

EndRead(g, end) ==
  /\ Yielded
  /\ tasks[g].state = "reading"
  /\ tasks' = [tasks EXCEPT ![g] = Become(g, "sending", FALSE, end)]
  /\ Release(tasks[g].key)
  /\ UNCHANGED <<world, monitoring, events, resume, supervision, done,
                 unheard>>

\* EOF or ENODEV: only a descriptor whose device is gone reads so.
ReadGone(g) == ~tasks[g].attached /\ EndRead(g, "DeviceGone") /\ UNCHANGED faults

\* MAX_CONSECUTIVE_ERRORS failed reads, or `readable()` failed.
ReadFail(g) == Fault /\ EndRead(g, "ReadFailed")

\* Mutant of SendDone: the report does not wait for room.
SendDoneUnbounded(g) ==
  /\ Yielded
  /\ tasks[g].state = "sending"
  /\ done' = Append(done, [generation |-> g, devnode |-> tasks[g].devnode,
                           key |-> tasks[g].key, end |-> tasks[g].end])
  /\ tasks' = [tasks EXCEPT ![g] =
                 Become(g, "finished", FALSE, tasks[g].end)]
  /\ UNCHANGED <<world, monitoring, events, resume, supervision, refs,
                 faults, unheard>>

\* The end report finds room in the channel and the task finishes.
SendDone(g) ==
  /\ Yielded
  /\ tasks[g].state = "sending"
  /\ Len(done) < DoneCap
  /\ done' = Append(done, [generation |-> g, devnode |-> tasks[g].devnode,
                           key |-> tasks[g].key, end |-> tasks[g].end])
  /\ tasks' = [tasks EXCEPT ![g] =
                 Become(g, "finished", FALSE, tasks[g].end)]
  /\ UNCHANGED <<world, monitoring, events, resume, supervision, refs,
                 faults, unheard>>

\* Mutant of DropAborted: no guard, an aborted reader keeps its ref.
DropAbortedUnguarded(g) ==
  /\ Yielded
  /\ tasks[g].state = "aborting"
  /\ tasks' = [tasks EXCEPT ![g] =
                 Become(g, "finished", FALSE, tasks[g].end)]
  /\ UNCHANGED <<world, monitoring, events, resume, supervision, done, refs,
                 faults, unheard>>

\* The runtime drops an aborted task; its ReleaseGuard drops the ref.
DropAborted(g) ==
  /\ Yielded
  /\ tasks[g].state = "aborting"
  /\ tasks' = [tasks EXCEPT ![g] =
                 Become(g, "finished", FALSE, tasks[g].end)]
  /\ Release(tasks[g].key)
  /\ UNCHANGED <<world, monitoring, events, resume, supervision, done,
                 faults, unheard>>

-----------------------------------------------------------------------------
(* The process ends with an error and systemd starts it again *)

ProcessStart ==
  /\ monitor = "starting"
  /\ uevents = <<>>
  /\ events = <<>>
  /\ resume = FALSE
  /\ phase = "boot"
  /\ pending = {}
  /\ generations = 0
  /\ readers = [d \in Devnodes |-> NoReader]
  /\ retries = {}
  /\ tasks = [g \in Generations |-> NoTask]
  /\ done = <<>>
  /\ refs = [k \in Keys |-> 0]
  /\ unheard = {}

\* The new process knows nothing of the old one.
Restart ==
  /\ monitor' = "starting"
  /\ uevents' = <<>>
  /\ events' = <<>>
  /\ resume' = FALSE
  /\ phase' = "boot"
  /\ pending' = {}
  /\ generations' = 0
  /\ readers' = [d \in Devnodes |-> NoReader]
  /\ retries' = {}
  /\ tasks' = [g \in Generations |-> NoTask]
  /\ done' = <<>>
  /\ refs' = [k \in Keys |-> 0]
  /\ unheard' = {}

\* `event_rx.recv()` yields None once the monitor is gone and all is read.
MonitorLost ==
  /\ phase = "loop" /\ Yielded
  /\ monitor = "dead"
  /\ events = <<>>
  /\ Restart
  /\ UNCHANGED <<world, faults>>

\* The session bus is lost, or the initial scan fails.
ProcessFails ==
  /\ Fault
  /\ Restart
  /\ UNCHANGED world

-----------------------------------------------------------------------------
(* Specification *)

Init ==
  /\ plugged \in [Devnodes -> Keys \cup {None}]
  /\ changes = 0
  /\ faults = 0
  /\ ProcessStart

WorldNext ==
  \/ \E d \in Devnodes, k \in Keys : Plug(d, k)
  \/ \E d \in Devnodes : Unplug(d) \/ Change(d)
  \/ NoteResume

MonitorNext ==
  MonitorListen \/ MonitorFail \/ LoseUevent \/ MonitorForward

SupervisorNext ==
  \/ InitialScan \/ AdoptScanned
  \/ HandleEvent \/ HandleDone \/ HandleResume
  \/ \E r \in retries : FireRetry(r)

TaskNext ==
  \E g \in Generations :
    \/ Open(g) \/ OpenFail(g)
    \/ ReadGone(g) \/ ReadFail(g)
    \/ SendDone(g) \/ DropAborted(g)

Next == WorldNext \/ MonitorNext \/ SupervisorNext \/ TaskNext
          \/ MonitorLost \/ ProcessFails

Spec == Init /\ [][Next]_vars

(* The runtime polls every ready task and `select!` picks among ready arms *)
(* at random, so what stays ready is done; the world owes nothing.         *)
Fairness ==
  /\ WF_vars(MonitorListen) /\ WF_vars(MonitorForward)
  /\ WF_vars(InitialScan) /\ WF_vars(AdoptScanned)
  /\ WF_vars(HandleEvent) /\ WF_vars(HandleDone) /\ WF_vars(HandleResume)
  /\ WF_vars(\E r \in retries : FireRetry(r))
  /\ WF_vars(MonitorLost)
  /\ \A g \in Generations :
       /\ WF_vars(Open(g)) /\ WF_vars(ReadGone(g))
       /\ WF_vars(SendDone(g)) /\ WF_vars(DropAborted(g))

FairSpec == Spec /\ Fairness

-----------------------------------------------------------------------------
(* Properties *)

TypeOK ==
  /\ plugged \in [Devnodes -> Keys \cup {None}]
  /\ monitor \in {"starting", "listening", "dead"}
  /\ uevents \in Seq(Uevent)
  /\ events \in Seq(Event) /\ Len(events) <= EventCap
  /\ resume \in BOOLEAN
  /\ phase \in {"boot", "loop"}
  /\ pending \in SUBSET Node
  /\ generations \in 0..MaxSpawns
  /\ readers \in [Devnodes -> Reader]
  /\ retries \in SUBSET Retry
  /\ tasks \in [Generations -> Task]
  /\ done \in Seq(Done) /\ Len(done) <= DoneCap
  /\ refs \in [Keys -> Nat]
  /\ changes \in 0..MaxChanges
  /\ faults \in 0..MaxFaults
  /\ unheard \in SUBSET Devnodes

(* main.rs:54-57, 132-136: a live reader is always the one its devnode's   *)
(* entry names, so no devnode ever has two live readers and no late report *)
(* evicts the replacement of the reader it came from.                      *)
SingleOwner ==
  \A g \in Generations :
    Live(g) => readers[tasks[g].devnode].generation = g

(* An entry never outlives its reader silently: if the task has finished,  *)
(* its report is still queued and will remove the entry.  Without this a   *)
(* devnode would be owned by nobody until its next hotplug event.          *)
EntryHasOwner ==
  \A d \in Devnodes :
    Tracked(d) =>
      \/ Live(readers[d].generation)
      \/ \E i \in DOMAIN done : done[i].generation = readers[d].generation

(* main.rs:73-76: a devnode is either owned by a reader or waiting for its *)
(* one retry, never both, so a retry can never double up a live reader.    *)
RetryExcludesReader ==
  \A r \in retries :
    /\ ~Tracked(r.devnode)
    /\ \A s \in retries : s.devnode = r.devnode => s = r

(* reader.rs:56-67: the registry's count for a key is exactly the number   *)
(* of guards alive, over opens, ends and aborts in any order; a device     *)
(* object neither outlives its last reader nor dies under a living one.    *)
RefsCountGuards ==
  \A k \in Keys :
    refs[k] = Cardinality({g \in Generations : HoldsGuard(g)
                                               /\ tasks[g].key = k})

\* Every announced change of the world has reached the supervisor.
Quiet ==
  /\ phase = "loop" /\ Yielded
  /\ monitor = "listening"
  /\ uevents = <<>> /\ events = <<>>

\* The controller the supervisor believes to be behind d, if any.
Believed(d) == {tasks[readers[d].generation].key : x \in {y \in {d} : Tracked(y)}}
                 \cup {r.key : r \in {s \in retries : s.devnode = d}}

(* main.rs:259: once all events are handled, every present devnode has a   *)
(* reader or a retry under its own key, and every absent one has neither,  *)
(* however plugs, unplugs, scans, retries and late reports interleaved.    *)
NothingStranded ==
  Quiet => \A d \in Devnodes \ unheard :
             Believed(d) = {plugged[d]} \ {None}

(* main.rs:259 as it stands: `start before the initial scan so nothing is  *)
(* missed`, with no allowance for the time the monitor takes to listen.    *)
NothingMissed ==
  Quiet => \A d \in Devnodes :
             plugged[d] # None => Believed(d) # {}

\* d is read under its own key when present and left alone when absent.
Served(d) ==
  IF plugged[d] = None
  THEN ~Tracked(d) /\ \A g \in Generations :
                         tasks[g].devnode = d => ~Live(g) /\ ~HoldsGuard(g)
  ELSE LET g == readers[d].generation IN
       /\ Tracked(d)
       /\ tasks[g].state = "reading" /\ tasks[g].attached
       /\ tasks[g].key = plugged[d]

(* main.rs:27-34: once plugging and faults stop, every present controller  *)
(* ends up being read for good and every trace of absent ones is gone; in  *)
(* particular a failed reader is always tried again.                       *)
Converges == <>[](\A d \in Devnodes \ unheard : Served(d))

\* Who looks after d, and after how many failures in a row.
Owner(d) ==
  LET waiting == {r \in retries : r.devnode = d} IN
  IF waiting = {}
  THEN IF Tracked(d) THEN [by |-> "reader", failures |-> readers[d].attempt]
                     ELSE [by |-> "nobody", failures |-> 0]
  ELSE IF Tracked(d) \/ \E r, s \in waiting : r # s
       THEN [by |-> "both", failures |-> 0]
       ELSE [by |-> "retry",
             failures |-> (CHOOSE r \in waiting : TRUE).attempt]

Owners == INSTANCE Ownership WITH MaxFailures <- MaxSpawns,
                                  own <- [d \in Devnodes |-> Owner(d)]

(* main.rs:65-76: over all events, retries, late reports and restarts one  *)
(* owner looks after each devnode, a retry comes from a reader only and    *)
(* its count of failures goes on in the reader it spawns.                  *)
ImplementsOwnership == Owners!Spec
=============================================================================
