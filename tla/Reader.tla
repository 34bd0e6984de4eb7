------------------------------- MODULE Reader -------------------------------
(***************************************************************************)
(* The reader tasks (daemon/src/reader.rs) on top of the registry and its  *)
(* sweeper, module Registry: the kernel queue of each open hidraw node,    *)
(* the drain and the sleep after it, the throttle of liveness marks and    *)
(* the budget of consecutive read errors, against time.                    *)
(*                                                                         *)
(* A drain has no await: once a reader has begun to read nothing else on   *)
(* the runtime's one thread runs until its queue is empty or a read fails. *)
(* A timer that expires in a tick is served in that tick or the next, and  *)
(* a reader with something to do does it before time passes.  An open node *)
(* receives at most one report per tick; a tick stands for 100 ms or so of *)
(* reports, which the kernel's capacity is scaled to.                      *)
(*                                                                         *)
(* Every step is a step of Registry or leaves it alone: ReaderSpec         *)
(* implements Spec, and what is proved of the registry holds here.         *)
(***************************************************************************)
EXTENDS Registry, Sequences

CONSTANTS
  Nodes,            \* open hidraw nodes, one reader each
  KeyOf,            \* the controller each belongs to
  DrainSleep,       \* DRAIN_SLEEP, in ticks
  MarkInterval,     \* MARK_INTERVAL, in ticks
  Margin,           \* the scheduling margin of RESUME_GRACE, in ticks
  MaxErrors,        \* MAX_CONSECUTIVE_ERRORS
  QueueCap,         \* reports the kernel queues for an open node
  MaxFaults         \* bound: failed reads

\* protocol::Report as the reader sees it; Other is read and ignored.
Report == {"Battery", "Liveness", "Other"}
SignsOfLife == {"Battery", "Liveness"}

\* RetunedTogether is the const assertion next to RESUME_GRACE.
ASSUME ReaderAssumption ==
  /\ KeyOf \in [Nodes -> Keys]
  /\ DrainSleep \in Nat \ {0} /\ MarkInterval \in Nat
  /\ Margin \in Nat \ {0} /\ MaxErrors \in Nat \ {0}
  /\ QueueCap \in Nat \ {0} /\ MaxFaults \in Nat
  /\ None \notin Report

ASSUME RetunedTogether == ResumeGrace >= MarkInterval + DrainSleep + Margin

VARIABLES
  reader,      \* the task of each node: see Task
  queue,       \* reports in the kernel for each node, oldest first
  faults,      \* failed reads so far
  streak,      \* history: since when a node has sent in every tick
  failing,     \* history: the first error since a node's last good read
  passes,      \* history: drains of each node begun in this tick
  dropped,     \* history: the kernel dropped a report since that read
  sent,        \* history: when a controller last sent a report
  silent       \* history: since which suspend, or since the resume handled
               \* after it, a controller shown as connected has sent nothing

kernel == <<queue, dropped>>
traces == <<streak, failing, passes, sent, silent>>
readerVars == <<vars, reader, kernel, faults, traces>>

(* A task is closed (not running), awaiting readiness, draining, sleeping  *)
(* until `until`, or failed (ended by a read error).  `ready` is tokio's   *)
(* cached readiness, which only a read that would block clears.            *)
Task == [at : {"closed", "failed", "awaiting", "draining", "sleeping"},
         until : Nat, ready : BOOLEAN, drained : BOOLEAN,
         consecutive_errors : 0..MaxErrors - 1, last_mark : Option(Nat)]

NoTask(at) == [at |-> at, until |-> 0, ready |-> FALSE, drained |-> FALSE,
               consecutive_errors |-> 0, last_mark |-> None]

\* The task goes on elsewhere, its read descriptor still ready or not.
Onto(t, at, until, ready) ==
  [at |-> at, until |-> until, ready |-> ready, drained |-> FALSE,
   consecutive_errors |-> t.consecutive_errors, last_mark |-> t.last_mark]

IsOpen(n) == reader[n].at \in {"awaiting", "draining", "sleeping"}

\* No reader is in the middle of its drain.
Yielded == \A n \in Nodes : reader[n].at # "draining"

-----------------------------------------------------------------------------
(* The reader task: reader::run *)

\* The node opens; a new descriptor starts with an empty queue.
Open(n) ==
  /\ Yielded
  /\ ~IsOpen(n)
  /\ Acquire(KeyOf[n])
  /\ reader' = [reader EXCEPT ![n] = NoTask("awaiting")]
  /\ UNCHANGED <<kernel, faults, traces>>

\* ReleaseGuard::drop
Unguard(k) == Release(k)

\* The task is gone, its descriptor closed and its guard dropped.
End(n, at) ==
  /\ Unguard(KeyOf[n])
  /\ reader' = [reader EXCEPT ![n] = NoTask(at)]
  /\ queue' = [queue EXCEPT ![n] = <<>>]
  /\ dropped' = [dropped EXCEPT ![n] = FALSE]
  /\ streak' = [streak EXCEPT ![n] = None]
  /\ failing' = [failing EXCEPT ![n] = None]
  /\ sent' = IF inner'[KeyOf[n]] = Absent
             THEN [sent EXCEPT ![KeyOf[n]] = None] ELSE sent
  /\ UNCHANGED <<passes, silent>>

\* EOF or ENODEV in a drain, an abort at an await.
Stop(n) ==
  /\ Yielded \/ reader[n].at = "draining"
  /\ IsOpen(n)
  /\ End(n, "closed")
  /\ UNCHANGED faults

\* `readable()`
Readable(n) ==
  /\ Yielded
  /\ reader[n].at = "awaiting"
  /\ reader[n].ready \/ queue[n] # <<>>
  /\ reader' = [reader EXCEPT ![n] = Onto(reader[n], "draining", 0, TRUE)]
  /\ passes' = [passes EXCEPT ![n] = @ + 1]
  /\ UNCHANGED <<vars, kernel, faults, streak, failing, sent, silent>>

MarkDue(t) == t.last_mark = None \/ (t.last_mark # None
                                     /\ now - t.last_mark >= MarkInterval)

\* A good read.
Read(mark) == [at |-> "draining", until |-> 0, ready |-> TRUE,
               drained |-> TRUE, consecutive_errors |-> 0, last_mark |-> mark]

\* Mutant of Handle: throttled reports restart the throttle.
HandleRestartingThrottle(n, report) ==
  LET t == reader[n]
      k == KeyOf[n]
  IN
  \/ /\ report = "Battery"
     /\ \E b \in Readings : UpdateBattery(k, b)
     /\ reader' = [reader EXCEPT ![n] = Read(t.last_mark)]
  \/ /\ report = "Liveness"
     /\ IF MarkDue(t) THEN MarkTraffic(k) ELSE UNCHANGED vars
     /\ reader' = [reader EXCEPT ![n] = Read(now)]
  \/ /\ report = "Other"
     /\ UNCHANGED vars
     /\ reader' = [reader EXCEPT ![n] = Read(t.last_mark)]

\* Mutant of Handle: a good read does not restore the error budget.
HandleKeepingErrors(n, report) ==
  LET t == reader[n]
      k == KeyOf[n]
      read(mark) == [Read(mark) EXCEPT
                       !.consecutive_errors = t.consecutive_errors]
  IN
  \/ /\ report = "Battery"
     /\ \E b \in Readings : UpdateBattery(k, b)
     /\ reader' = [reader EXCEPT ![n] = read(t.last_mark)]
  \/ /\ report = "Liveness" /\ MarkDue(t)
     /\ MarkTraffic(k)
     /\ reader' = [reader EXCEPT ![n] = read(now)]
  \/ /\ report = "Other" \/ (report = "Liveness" /\ ~MarkDue(t))
     /\ UNCHANGED vars
     /\ reader' = [reader EXCEPT ![n] = read(t.last_mark)]

\* One report: a battery report always counts, liveness once per interval.
Handle(n, report) ==
  LET t == reader[n]
      k == KeyOf[n]
  IN
  \/ /\ report = "Battery"
     /\ \E b \in Readings : UpdateBattery(k, b)
     /\ reader' = [reader EXCEPT ![n] = Read(t.last_mark)]
  \/ /\ report = "Liveness" /\ MarkDue(t)
     /\ MarkTraffic(k)
     /\ reader' = [reader EXCEPT ![n] = Read(now)]
  \/ /\ report = "Other" \/ (report = "Liveness" /\ ~MarkDue(t))
     /\ UNCHANGED vars
     /\ reader' = [reader EXCEPT ![n] = Read(t.last_mark)]

ReadReport(n) ==
  /\ reader[n].at = "draining"
  /\ queue[n] # <<>>
  /\ Handle(n, Head(queue[n]))
  /\ queue' = [queue EXCEPT ![n] = Tail(@)]
  /\ dropped' = [dropped EXCEPT ![n] = FALSE]
  /\ failing' = [failing EXCEPT ![n] = None]
  /\ UNCHANGED <<faults, streak, passes, sent, silent>>

\* Mutant of Fail: the failed read is tried again at once.
FailSpinning(t) == [Onto(t, "awaiting", 0, TRUE) EXCEPT
                      !.consecutive_errors = t.consecutive_errors + 1]

\* A transient error: back to sleep, still ready.
Fail(t) == [at |-> "sleeping", until |-> now + DrainSleep, ready |-> TRUE,
            drained |-> FALSE, consecutive_errors |-> t.consecutive_errors + 1,
            last_mark |-> t.last_mark]

TooMany(errors) == errors >= MaxErrors

ReadError(n) ==
  /\ reader[n].at = "draining"
  /\ faults < MaxFaults /\ faults' = faults + 1
  /\ IF TooMany(reader[n].consecutive_errors + 1)
     THEN End(n, "failed")
     ELSE /\ reader' = [reader EXCEPT ![n] = Fail(reader[n])]
          /\ failing' = [failing EXCEPT ![n] = IF @ = None THEN now ELSE @]
          /\ streak' = [streak EXCEPT ![n] = None]
          /\ UNCHANGED <<vars, kernel, passes, sent, silent>>

\* Mutant of Drained: a sleep of twice the length.
DrainedOversleeping(t) ==
  IF t.drained THEN Onto(t, "sleeping", now + 2 * DrainSleep, FALSE)
               ELSE Onto(t, "awaiting", 0, FALSE)

\* Nothing left: sleep if something was read, else park.
Drained(t) ==
  IF t.drained THEN Onto(t, "sleeping", now + DrainSleep, FALSE)
               ELSE Onto(t, "awaiting", 0, FALSE)

WouldBlock(n) ==
  /\ reader[n].at = "draining"
  /\ queue[n] = <<>>
  /\ reader' = [reader EXCEPT ![n] = Drained(reader[n])]
  /\ UNCHANGED <<vars, kernel, faults, traces>>

WakeUp(n) ==
  /\ Yielded
  /\ reader[n].at = "sleeping"
  /\ now >= reader[n].until
  /\ reader' = [reader EXCEPT ![n] =
                  Onto(reader[n], "awaiting", 0, reader[n].ready)]
  /\ UNCHANGED <<vars, kernel, faults, traces>>

-----------------------------------------------------------------------------
(* Time and the rest of the daemon *)

ReaderIdle(n) ==
  \/ ~IsOpen(n)
  \/ reader[n].at = "awaiting" /\ ~reader[n].ready /\ queue[n] = <<>>
  \/ reader[n].at = "sleeping" /\ now <= reader[n].until

(* A tick passes, in which each open node may receive a report; with its   *)
(* queue full the kernel drops the new one.                                *)
PassTime ==
  /\ Tick
  /\ \A n \in Nodes : ReaderIdle(n)
  /\ \E report \in [Nodes -> Option(Report)] :
       LET receives(n) == IsOpen(n) /\ report[n] # None
           alive(n) == IsOpen(n) /\ report[n] \in SignsOfLife
       IN
       /\ \A n \in Nodes : ~IsOpen(n) => report[n] = None
       /\ queue' = [n \in Nodes |->
                      IF receives(n) /\ Len(queue[n]) < QueueCap
                      THEN Append(queue[n], report[n]) ELSE queue[n]]
       /\ dropped' = [n \in Nodes |->
                        \/ dropped[n]
                        \/ receives(n) /\ Len(queue[n]) >= QueueCap]
       /\ streak' = [n \in Nodes |-> IF ~alive(n) THEN None
                                     ELSE IF streak[n] = None THEN now'
                                     ELSE streak[n]]
       /\ sent' = [k \in Keys |->
                     IF \E n \in Nodes : KeyOf[n] = k /\ alive(n)
                     THEN now' ELSE sent[k]]
       /\ silent' = [k \in Keys |->
                       IF \E n \in Nodes : KeyOf[n] = k /\ alive(n)
                       THEN None ELSE silent[k]]
  /\ passes' = [n \in Nodes |-> 0]
  /\ UNCHANGED <<reader, faults, failing>>

FallAsleep(duration) ==
  /\ Suspend(duration)
  /\ silent' = [k \in Keys |-> now]
  /\ UNCHANGED <<reader, kernel, faults, streak, failing, passes, sent>>

HandleResume ==
  /\ Yielded
  /\ NoteResume
  /\ silent' = [k \in Keys |-> IF silent[k] # None /\ inner[k].connected
                               THEN now ELSE None]
  /\ UNCHANGED <<reader, kernel, faults, streak, failing, passes, sent>>

LoseResume ==
  /\ MissResume
  /\ silent' = [k \in Keys |-> None]
  /\ UNCHANGED <<reader, kernel, faults, streak, failing, passes, sent>>

Others ==
  /\ Yielded
  /\ SweeperArm \/ SweeperNotified \/ SweeperFire
  /\ UNCHANGED <<reader, kernel, faults, traces>>

-----------------------------------------------------------------------------
(* Specification *)

ReaderInit ==
  /\ Init
  /\ reader = [n \in Nodes |-> NoTask("closed")]
  /\ queue = [n \in Nodes |-> <<>>]
  /\ faults = 0
  /\ streak = [n \in Nodes |-> None]
  /\ failing = [n \in Nodes |-> None]
  /\ passes = [n \in Nodes |-> 0]
  /\ dropped = [n \in Nodes |-> FALSE]
  /\ sent = [k \in Keys |-> None]
  /\ silent = [k \in Keys |-> None]

ReaderNext ==
  \/ \E n \in Nodes :
       \/ Open(n) \/ Stop(n) \/ Readable(n)
       \/ ReadReport(n) \/ ReadError(n) \/ WouldBlock(n) \/ WakeUp(n)
  \/ PassTime \/ HandleResume \/ LoseResume \/ Others
  \/ \E duration \in 1..MaxAsleep : FallAsleep(duration)

ReaderSpec == ReaderInit /\ [][ReaderNext]_readerVars

-----------------------------------------------------------------------------
(* Properties *)

ReaderTypeOK ==
  /\ reader \in [Nodes -> Task]
  /\ queue \in [Nodes -> Seq(Report)]
  /\ \A n \in Nodes : Len(queue[n]) <= QueueCap
  /\ faults \in 0..MaxFaults
  /\ streak \in [Nodes -> Option(Nat)]
  /\ failing \in [Nodes -> Option(Nat)]
  /\ passes \in [Nodes -> Nat]
  /\ dropped \in [Nodes -> BOOLEAN]
  /\ sent \in [Keys -> Option(Nat)]
  /\ silent \in [Keys -> Option(Nat)]
  /\ \A n, m \in Nodes :
       reader[n].at = "draining" /\ reader[m].at = "draining" => n = m

(* state.rs:30-39: a controller one of whose nodes has been sending for    *)
(* the re-mark latency is never dropped, whatever suspends, resumes,       *)
(* throttled marks and sleeps came in between.                             *)
AliveStaysConnected ==
  [][\A n \in Nodes :
       LET k == KeyOf[n] IN
       /\ inner[k].connected /\ ~inner'[k].connected /\ inner'[k].refs > 0
       /\ streak[n] # None
       => now - streak[n] <= MarkInterval + DrainSleep + 1]_readerVars

(* reader.rs:96-166: what counts as being heard was sent not long ago: a   *)
(* report waits for the rest of a drain sleep, and for one sleep more,     *)
(* served a tick late, with each read that fails before its turn.  With    *)
(* ConnectedIsFresh this bounds how long a controller that has fallen      *)
(* silent is still shown as connected.                                     *)
HeardInTime ==
  \A k \in Keys :
    heard[k] # None =>
      /\ sent[k] # None
      /\ heard[k] <= sent[k] + DrainSleep + faults * (DrainSleep + 1)

(* reader.rs:22-25: draining in batches loses nothing.  The kernel's queue *)
(* overflows only while reads fail.                                        *)
NothingDropped ==
  \A n \in Nodes : dropped[n] => reader[n].consecutive_errors # 0

(* reader.rs:30-34: a reader gives up only on a run of errors that spans   *)
(* the sleeps between them, with no good read inside.                      *)
GivesUpSlowly ==
  [][\A n \in Nodes :
       reader[n].at = "draining" /\ reader'[n].at = "failed" =>
         \/ MaxErrors = 1
         \/ /\ failing[n] # None
            /\ now - failing[n] >= (MaxErrors - 1) * DrainSleep]_readerVars

(* reader.rs:104-106, 152-155: neither an error nor an empty queue makes   *)
(* the reader spin, and the readiness that an error leaves behind does not *)
(* wake it a second time: it drains at most once for each tick.            *)
NoSpinning == \A n \in Nodes : passes[n] <= 1

(* state.rs:25-27 as it stands: a controller that died during sleep is     *)
(* reported disconnected RESUME_GRACE after the resume.                    *)
DeadIsNoticed ==
  \A k \in Connected :
    ~resuming /\ silent[k] # None => now <= silent[k] + ResumeGrace + 1
=============================================================================
