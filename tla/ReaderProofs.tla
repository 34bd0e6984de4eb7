---------------------------- MODULE ReaderProofs ----------------------------
(***************************************************************************)
(* Reader implements Registry for any nodes and controllers: every step of *)
(* a reader, of the kernel or of the clock is a step of the registry or    *)
(* leaves it alone.  So all that RegistryProofs shows of the registry is   *)
(* true of it under its real readers.                                      *)
(*                                                                         *)
(* Each promise of a reader has an invariant of its own.  That it never    *)
(* gives up early rests on a measure of its errors: with c of them in a    *)
(* row, c sleeps have passed or are due since the first (`Paced`).  That   *)
(* it drains once a tick and drops nothing: what a drain leaves behind and *)
(* how a queue grows in a sleep (`Calm`).  That it hears in time: by when  *)
(* each waiting report is read (`Waiting`), and that a controller's        *)
(* history lasts as long as one of its readers (`RefsAreReaders`).  That   *)
(* who sends stays connected: what the next drain will find (`Sending`).   *)
(***************************************************************************)
EXTENDS Reader, RegistryProofs, FiniteSetTheorems

-----------------------------------------------------------------------------
(* Refinement *)

\* Handling a report is an operation of the registry on its controller.
LEMMA HandleIsNext ==
  ASSUME NEW n \in Nodes, NEW report, Handle(n, report)
  PROVE  [Next]_vars
<1>1. KeyOf[n] \in Keys
  BY ReaderAssumption
<1>2. CASE \E b \in Readings : UpdateBattery(KeyOf[n], b)
  BY <1>1, <1>2 DEF Next
<1>3. CASE MarkTraffic(KeyOf[n])
  BY <1>1, <1>3 DEF Next
<1>4. CASE UNCHANGED vars
  BY <1>4
<1> QED
  BY <1>2, <1>3, <1>4 DEF Handle

\* A task that ends releases its controller.
LEMMA EndIsNext ==
  ASSUME NEW n \in Nodes, NEW at, End(n, at)
  PROVE  Next
<1>1. KeyOf[n] \in Keys
  BY ReaderAssumption
<1>2. Release(KeyOf[n])
  BY DEF End, Unguard
<1> QED
  BY <1>1, <1>2 DEF Next

\* What a reader does.
LEMMA ReaderStepIsNext ==
  ASSUME NEW n \in Nodes,
         \/ Open(n) \/ Stop(n) \/ Readable(n)
         \/ ReadReport(n) \/ ReadError(n) \/ WouldBlock(n) \/ WakeUp(n)
  PROVE  [Next]_vars
<1>1. CASE Open(n)
  <2>1. KeyOf[n] \in Keys /\ Acquire(KeyOf[n])
    BY <1>1, ReaderAssumption DEF Open
  <2> QED
    BY <2>1 DEF Next
<1>2. CASE Stop(n)
  BY <1>2, EndIsNext DEF Stop
<1>3. CASE Readable(n) \/ WouldBlock(n) \/ WakeUp(n)
  BY <1>3 DEF Readable, WouldBlock, WakeUp
<1>4. CASE ReadReport(n)
  BY <1>4, HandleIsNext DEF ReadReport
<1>5. CASE ReadError(n)
  BY <1>5, EndIsNext DEF ReadError
<1> QED
  BY <1>1, <1>2, <1>3, <1>4, <1>5

LEMMA StepIsNext == [ReaderNext]_readerVars => [Next]_vars
<1> SUFFICES ASSUME [ReaderNext]_readerVars PROVE [Next]_vars
  OBVIOUS
<1>1. CASE \E n \in Nodes :
             \/ Open(n) \/ Stop(n) \/ Readable(n)
             \/ ReadReport(n) \/ ReadError(n) \/ WouldBlock(n) \/ WakeUp(n)
  BY <1>1, ReaderStepIsNext
<1>2. CASE PassTime
  BY <1>2 DEF PassTime, Next
<1>3. CASE HandleResume \/ LoseResume \/ Others
  BY <1>3 DEF HandleResume, LoseResume, Others, Next
<1>4. CASE \E duration \in 1..MaxAsleep : FallAsleep(duration)
  BY <1>4 DEF FallAsleep, Next
<1>5. CASE UNCHANGED readerVars
  BY <1>5 DEF readerVars
<1> QED
  BY <1>1, <1>2, <1>3, <1>4, <1>5 DEF ReaderNext

(* The registry driven by real readers, their kernel queues, drains and    *)
(* sleeps is the registry of module Registry.                              *)
THEOREM ReaderImplementsRegistry == ReaderSpec => Spec
<1>1. ReaderInit => Init
  BY DEF ReaderInit
<1> QED
  BY <1>1, StepIsNext, PTL DEF ReaderSpec, Spec

(* Under real readers too, a controller is shown as connected only within  *)
(* a window of what was last read from it.                                 *)
THEOREM ConnectedUnderReaders == ReaderSpec => []ConnectedIsFresh
  BY ReaderImplementsRegistry, ConnectedMeansFresh

(* What the D-Bus service assumes of the registry (Channel) is true of the *)
(* registry its readers drive.                                             *)
THEOREM ReadersFeedTheChannel == ReaderSpec => ImplementsChannel
  BY ReaderImplementsRegistry, RegistryImplementsChannel

-----------------------------------------------------------------------------
(* The error budget *)

\* The errors in a row are a sleep apart from each other.
Paced(n) ==
  LET t == reader[n]
      c == t.consecutive_errors
  IN
  /\ c = 0 => failing[n] = None
  /\ c # 0 =>
       /\ failing[n] \in Nat
       /\ IsOpen(n) /\ (t.at = "draining" => ~t.drained)
       /\ IF t.at = "sleeping" THEN t.until >= failing[n] + c * DrainSleep
                               ELSE now >= failing[n] + c * DrainSleep

RInv ==
  /\ now \in Nat
  /\ reader \in [Nodes -> Task]
  /\ failing \in [Nodes -> Option(Nat)]
  /\ \A n \in Nodes : Paced(n)

\* Nothing but a tick moves the clock.
LEMMA ClockStands ==
  ASSUME [ReaderNext]_readerVars, ~PassTime
  PROVE  now' = now
<1>1. CASE \E n \in Nodes : Open(n) \/ Stop(n) \/ ReadError(n)
  BY <1>1 DEF Open, Acquire, Stop, ReadError, End, Unguard, Release, clocks,
              vars
<1>2. CASE \E n \in Nodes : Readable(n) \/ WouldBlock(n) \/ WakeUp(n)
  BY <1>2 DEF Readable, WouldBlock, WakeUp, vars
<1>3. CASE \E n \in Nodes : ReadReport(n)
  BY <1>3 DEF ReadReport, Handle, UpdateBattery, MarkTraffic, clocks, vars
<1>4. CASE HandleResume \/ LoseResume \/ Others
  BY <1>4 DEF HandleResume, LoseResume, Others, NoteResume, MissResume,
              SweeperArm, SweeperNotified, SweeperFire, clocks
<1>5. CASE \E duration \in 1..MaxAsleep : FallAsleep(duration)
  BY <1>5 DEF FallAsleep, Suspend
<1>6. CASE UNCHANGED readerVars
  BY <1>6 DEF readerVars, vars
<1> QED
  BY <1>1, <1>2, <1>3, <1>4, <1>5, <1>6 DEF ReaderNext

\* A node no step touches stays paced.
LEMMA StaysPaced ==
  ASSUME RInv, NEW n \in Nodes, now' \in Nat, now' >= now,
         reader'[n] = reader[n], failing'[n] = failing[n]
  PROVE  Paced(n)'
<1>1. reader[n].consecutive_errors * DrainSleep \in Nat
  BY ReaderAssumption DEF RInv, Task
<1> QED
  BY <1>1 DEF RInv, Paced, IsOpen, Task

\* One task moves on without a new error.
LEMMA MovesOn ==
  ASSUME RInv, NEW n \in Nodes, NEW t \in Task, NEW first \in Option(Nat),
         reader' = [reader EXCEPT ![n] = t],
         failing' = [failing EXCEPT ![n] = first],
         UNCHANGED now,
         t.consecutive_errors = 0 => first = None,
         t.consecutive_errors # 0 =>
           /\ first \in Nat
           /\ t.at \in {"awaiting", "draining", "sleeping"}
           /\ t.at = "draining" => ~t.drained
           /\ LET since == first + t.consecutive_errors * DrainSleep IN
              IF t.at = "sleeping" THEN t.until >= since ELSE now >= since
  PROVE  RInv'
<1>1. reader' \in [Nodes -> Task] /\ failing' \in [Nodes -> Option(Nat)]
  BY DEF RInv
<1>2. ASSUME NEW m \in Nodes PROVE Paced(m)'
  <2>1. CASE m = n
    BY <2>1 DEF Paced, IsOpen, RInv
  <2>2. CASE m # n
    BY <2>2, StaysPaced DEF RInv
  <2> QED
    BY <2>1, <2>2
<1> QED
  BY <1>1, <1>2 DEF RInv

\* A task that is not running, or has just read.
LEMMA FreshTask ==
  ASSUME NEW at \in {"closed", "failed", "awaiting"},
         NEW mark \in Option(Nat)
  PROVE  /\ NoTask(at) \in Task /\ NoTask(at).consecutive_errors = 0
         /\ Read(mark) \in Task /\ Read(mark).consecutive_errors = 0
  BY ReaderAssumption DEF NoTask, Read, Task, Option

\* Going on elsewhere keeps the count of errors.
LEMMA OntoTask ==
  ASSUME NEW t \in Task, NEW until \in Nat, NEW ready \in BOOLEAN,
         NEW at \in {"awaiting", "draining", "sleeping"}
  PROVE  /\ Onto(t, at, until, ready) \in Task
         /\ Onto(t, at, until, ready).at = at
         /\ Onto(t, at, until, ready).until = until
         /\ ~Onto(t, at, until, ready).drained
         /\ Onto(t, at, until, ready).consecutive_errors =
              t.consecutive_errors
  BY DEF Onto, Task

\* Nothing that leaves the tasks alone disturbs them while the clock rises.
LEMMA TasksStand ==
  ASSUME RInv, UNCHANGED <<reader, failing>>, now' \in Nat, now' >= now
  PROVE  RInv'
<1>1. \A n \in Nodes : Paced(n)'
  BY StaysPaced
<1> QED
  BY <1>1 DEF RInv

LEMMA EndStep ==
  ASSUME RInv, NEW n \in Nodes, NEW at \in {"closed", "failed"}, End(n, at),
         UNCHANGED now
  PROVE  RInv'
<1>1. /\ reader' = [reader EXCEPT ![n] = NoTask(at)]
      /\ failing' = [failing EXCEPT ![n] = None]
  BY DEF End
<1>2. NoTask(at) \in Task /\ NoTask(at).consecutive_errors = 0
  BY FreshTask DEF Option
<1>3. None \in Option(Nat)
  BY DEF Option
<1> QED
  BY <1>1, <1>2, <1>3, MovesOn

\* A task that goes on with its errors as they were.
LEMMA OntoStep ==
  ASSUME RInv, NEW n \in Nodes, UNCHANGED <<failing, now>>,
         NEW at \in {"awaiting", "draining", "sleeping"},
         NEW until \in Nat, NEW ready \in BOOLEAN,
         reader' = [reader EXCEPT ![n] = Onto(reader[n], at, until, ready)],
         reader[n].consecutive_errors # 0 =>
           /\ at # "sleeping"
           /\ reader[n].at = "sleeping" => now >= reader[n].until
  PROVE  RInv'
<1> DEFINE t == Onto(reader[n], at, until, ready)
<1>1. reader[n] \in Task
  BY DEF RInv
<1>2. /\ t \in Task /\ t.at = at /\ t.until = until /\ ~t.drained
      /\ t.consecutive_errors = reader[n].consecutive_errors
  BY <1>1, OntoTask
<1>3. failing[n] \in Option(Nat) /\ failing' = [failing EXCEPT ![n] = failing[n]]
  BY DEF RInv
<1>4. reader[n].consecutive_errors * DrainSleep \in Nat
  BY <1>1, ReaderAssumption DEF Task
<1>5. t.consecutive_errors # 0 =>
        /\ failing[n] \in Nat
        /\ at # "sleeping"
        /\ now >= failing[n] + t.consecutive_errors * DrainSleep
  <2> SUFFICES ASSUME t.consecutive_errors # 0
               PROVE  /\ failing[n] \in Nat
                      /\ at # "sleeping"
                      /\ now >= failing[n]
                                 + reader[n].consecutive_errors * DrainSleep
    BY <1>2
  <2>1. Paced(n) /\ now \in Nat /\ reader[n].until \in Nat
    BY <1>1 DEF RInv, Task
  <2>2. CASE reader[n].at = "sleeping"
    BY <2>1, <2>2, <1>2, <1>4 DEF Paced
  <2>3. CASE reader[n].at # "sleeping"
    BY <2>1, <2>3, <1>2, <1>4 DEF Paced
  <2> QED
    BY <2>2, <2>3
<1> HIDE DEF t
<1>6. reader' = [reader EXCEPT ![n] = t]
  BY DEF t
<1>7. t.consecutive_errors = 0 => failing[n] = None
  BY <1>2 DEF RInv, Paced
<1> QED
  BY <1>2, <1>3, <1>5, <1>6, <1>7, MovesOn

\* Handling a report leaves the clock and, in the task, no error.
LEMMA ReadReportStep ==
  ASSUME RInv, NEW n \in Nodes, ReadReport(n), UNCHANGED now
  PROVE  RInv'
<1>1. PICK mark \in Option(Nat) :
        reader' = [reader EXCEPT ![n] = Read(mark)]
  BY DEF ReadReport, Handle, RInv, Task, Option
<1>2. Read(mark) \in Task /\ Read(mark).consecutive_errors = 0
  BY FreshTask
<1>3. failing' = [failing EXCEPT ![n] = None] /\ None \in Option(Nat)
  BY DEF ReadReport, Option
<1> QED
  BY <1>1, <1>2, <1>3, MovesOn

\* A failed read short of the budget puts one more sleep behind it.
LEMMA FailStep ==
  ASSUME RInv, NEW n \in Nodes, ReadError(n), UNCHANGED now,
         ~TooMany(reader[n].consecutive_errors + 1)
  PROVE  RInv'
<1> DEFINE t == reader[n]
           c == t.consecutive_errors
           first == IF failing[n] = None THEN now ELSE failing[n]
<1>1. /\ reader' = [reader EXCEPT ![n] = Fail(t)]
      /\ failing' = [failing EXCEPT ![n] = first]
      /\ t.at = "draining"
  BY DEF ReadError, RInv
<1>2. t \in Task /\ failing[n] \in Option(Nat) /\ now \in Nat /\ Paced(n)
  BY DEF RInv
<1>3. c \in Nat /\ c + 1 \in 0..MaxErrors - 1
  BY <1>2, ReaderAssumption DEF Task, TooMany
<1>4. Fail(t) \in Task
  BY <1>2, <1>3, ReaderAssumption DEF Fail, Task
<1>5. Fail(t).until = now + DrainSleep /\ Fail(t).at = "sleeping"
      /\ Fail(t).consecutive_errors = c + 1
  BY DEF Fail
<1>6. first \in Nat /\ now >= first + c * DrainSleep
  <2>1. CASE c = 0
    BY <2>1, <1>2, ReaderAssumption DEF Paced
  <2>2. CASE c # 0
    BY <2>2, <1>1, <1>2, ConstantsAssumption DEF Paced
  <2> QED
    BY <2>1, <2>2
<1>7. (c + 1) * DrainSleep = c * DrainSleep + DrainSleep
      /\ c * DrainSleep \in Nat
  BY <1>3, ReaderAssumption
<1>8. now + DrainSleep >= first + (c + 1) * DrainSleep
  <2> HIDE DEF first
  <2> QED
    BY <1>2, <1>3, <1>6, <1>7, ReaderAssumption
<1> DEFINE u == Fail(t)
<1>9. /\ u.consecutive_errors = c + 1 /\ u.at = "sleeping"
      /\ u.until >= first + (c + 1) * DrainSleep
      /\ u \in Task /\ reader' = [reader EXCEPT ![n] = u]
  BY <1>1, <1>4, <1>5, <1>8
<1>10. first \in Nat /\ failing' = [failing EXCEPT ![n] = first]
       /\ first \in Option(Nat) /\ c \in Nat
  BY <1>1, <1>3, <1>6 DEF Option
<1> HIDE DEF first, c, t, u
<1>11. /\ u.consecutive_errors = 0 => first = None
       /\ u.consecutive_errors # 0 =>
            /\ first \in Nat
            /\ u.at \in {"awaiting", "draining", "sleeping"}
            /\ u.at = "draining" => ~u.drained
            /\ LET since == first + u.consecutive_errors * DrainSleep IN
               IF u.at = "sleeping" THEN u.until >= since ELSE now >= since
  BY <1>9, <1>10
<1> QED
  BY <1>9, <1>10, <1>11, MovesOn

LEMMA RInitial == ReaderInit => RInv
<1> SUFFICES ASSUME ReaderInit PROVE RInv
  OBVIOUS
<1>1. NoTask("closed") \in Task /\ NoTask("closed").consecutive_errors = 0
  BY FreshTask DEF Option
<1> QED
  BY <1>1, ConstantsAssumption DEF ReaderInit, Init, RInv, Paced, Option

LEMMA RStep == RInv /\ [ReaderNext]_readerVars => RInv'
<1> SUFFICES ASSUME RInv, [ReaderNext]_readerVars PROVE RInv'
  OBVIOUS
<1> USE DEF traces
<1>1. CASE PassTime
  <2>1. UNCHANGED <<reader, failing>> /\ now' = now + 1 /\ now \in Nat
    BY <1>1 DEF PassTime, Tick, RInv
  <2> QED
    BY <2>1, TasksStand
<1>2. ASSUME ~PassTime PROVE UNCHANGED now
  BY <1>2, ClockStands
<1>3. ASSUME NEW n \in Nodes, ~PassTime,
             \/ Open(n) \/ Stop(n) \/ Readable(n)
             \/ ReadReport(n) \/ ReadError(n) \/ WouldBlock(n) \/ WakeUp(n)
      PROVE  RInv'
  <2>1. UNCHANGED now /\ reader[n] \in Task /\ now \in Nat /\ Paced(n)
    BY <1>2, <1>3 DEF RInv
  <2>2. CASE Open(n)
    <3>1. /\ reader' = [reader EXCEPT ![n] = NoTask("awaiting")]
          /\ failing' = [failing EXCEPT ![n] = failing[n]]
          /\ failing[n] \in Option(Nat)
      BY <2>2 DEF Open, RInv
    <3>2. NoTask("awaiting") \in Task
          /\ NoTask("awaiting").consecutive_errors = 0
      BY FreshTask DEF Option
    <3>3. failing[n] = None
      BY <2>1, <2>2 DEF Open, Paced, IsOpen, Task
    <3> QED
      BY <2>1, <3>1, <3>2, <3>3, MovesOn
  <2>3. CASE Stop(n)
    BY <2>1, <2>3, EndStep DEF Stop
  <2>4. CASE Readable(n)
    BY <2>1, <2>4, OntoStep DEF Readable
  <2>5. CASE ReadReport(n)
    BY <2>1, <2>5, ReadReportStep
  <2>6. CASE ReadError(n)
    BY <2>1, <2>6, EndStep, FailStep DEF ReadError
  <2>7. CASE WouldBlock(n)
    <3>1. CASE reader[n].drained
      <4>1. reader' = [reader EXCEPT
                         ![n] = Onto(reader[n], "sleeping", now + DrainSleep,
                                     FALSE)]
            /\ reader[n].consecutive_errors = 0 /\ UNCHANGED failing
            /\ now + DrainSleep \in Nat
        BY <2>1, <2>7, <3>1, ReaderAssumption
           DEF WouldBlock, Drained, Paced, Task
      <4> QED
        BY <2>1, <4>1, OntoStep
    <3>2. CASE ~reader[n].drained
      BY <2>1, <2>7, <3>2, OntoStep DEF WouldBlock, Drained
    <3> QED
      BY <3>1, <3>2
  <2>8. CASE WakeUp(n)
    <3>1. reader[n].ready \in BOOLEAN
      BY <2>1 DEF Task
    <3> QED
      BY <2>1, <2>8, <3>1, OntoStep DEF WakeUp
  <2> QED
    BY <1>3, <2>2, <2>3, <2>4, <2>5, <2>6, <2>7, <2>8
<1>4. CASE ~PassTime /\ (HandleResume \/ LoseResume \/ Others)
  <2>1. UNCHANGED <<reader, failing, now>> /\ now \in Nat
    BY <1>2, <1>4 DEF HandleResume, LoseResume, Others, RInv
  <2> QED
    BY <2>1, TasksStand
<1>5. CASE ~PassTime /\ \E duration \in 1..MaxAsleep : FallAsleep(duration)
  <2>1. UNCHANGED <<reader, failing, now>> /\ now \in Nat
    BY <1>2, <1>5 DEF FallAsleep, RInv
  <2> QED
    BY <2>1, TasksStand
<1>6. CASE ~PassTime /\ UNCHANGED readerVars
  <2>1. UNCHANGED <<reader, failing, now>> /\ now \in Nat
    BY <1>2, <1>6 DEF readerVars, RInv
  <2> QED
    BY <2>1, TasksStand
<1> QED
  BY <1>1, <1>3, <1>4, <1>5, <1>6 DEF ReaderNext

(* reader.rs:30-34: whatever is read, lost, suspended or reopened between, *)
(* a reader gives up only when the sleeps of a whole budget of errors have *)
(* passed since the first of them.                                         *)
THEOREM NeverGivesUpEarly == ReaderSpec => GivesUpSlowly
<1> DEFINE Patient == \A n \in Nodes :
             reader[n].at = "draining" /\ reader'[n].at = "failed" =>
               \/ MaxErrors = 1
               \/ /\ failing[n] # None
                  /\ now - failing[n] >= (MaxErrors - 1) * DrainSleep
<1>1. RInv /\ [ReaderNext]_readerVars => [Patient]_readerVars
  <2> SUFFICES ASSUME RInv, ReaderNext, NEW n \in Nodes,
                      reader[n].at = "draining", reader'[n].at = "failed",
                      MaxErrors # 1
               PROVE  /\ failing[n] # None
                      /\ now - failing[n] >= (MaxErrors - 1) * DrainSleep
    OBVIOUS
  <2> DEFINE c == reader[n].consecutive_errors
  <2>1. TooMany(c + 1)
    <3>1. ASSUME NEW m \in Nodes, NEW t,
                 reader' = [reader EXCEPT ![m] = t], t.at # "failed"
          PROVE  FALSE
      BY <3>1 DEF RInv
    <3>2. ASSUME UNCHANGED reader PROVE FALSE
      BY <3>2
    <3>3. PICK m \in Nodes :
            \/ Open(m) \/ Stop(m) \/ Readable(m)
            \/ ReadReport(m) \/ ReadError(m) \/ WouldBlock(m) \/ WakeUp(m)
      BY <3>2 DEF ReaderNext, PassTime, HandleResume, LoseResume, Others,
                  FallAsleep
    <3>4. ~Open(m) /\ ~Stop(m)
      BY <3>1 DEF Open, Stop, End, NoTask
    <3>5. ~Readable(m) /\ ~ReadReport(m) /\ ~WouldBlock(m) /\ ~WakeUp(m)
      BY <3>1 DEF Readable, ReadReport, Handle, WouldBlock, Drained, WakeUp,
                  Onto, Read
    <3>6. ReadError(m) /\ m = n
      BY <3>3, <3>4, <3>5 DEF ReadError, End, RInv
    <3> QED
      BY <3>1, <3>6 DEF ReadError, Fail
  <2>2. c \in 0..MaxErrors - 1 /\ Paced(n) /\ now \in Nat
    BY DEF RInv, Task
  <2>3. c = MaxErrors - 1 /\ c # 0
    BY <2>1, <2>2, ReaderAssumption DEF TooMany
  <2> QED
    BY <2>2, <2>3, ConstantsAssumption, ReaderAssumption DEF Paced
<1> QED
  BY <1>1, RInitial, RStep, PTL DEF ReaderSpec, GivesUpSlowly

-----------------------------------------------------------------------------
(* Drains and sleeps *)

(* A node whose drain has begun in this tick drains still, has nothing to  *)
(* do, or sleeps past the tick.  A good reader's sleep is short enough for *)
(* its queue: a sleep of DrainSleep ticks leaves a report for each.        *)
Calm(n) ==
  LET t == reader[n] IN
  /\ ~IsOpen(n) => queue[n] = <<>>
  /\ t.at = "sleeping" => t.until <= now + DrainSleep /\ now <= t.until + 1
  /\ passes[n] <= 1
  /\ passes[n] = 1 =>
       \/ ~IsOpen(n)
       \/ t.at = "draining"
       \/ t.at = "awaiting" /\ ~t.ready /\ queue[n] = <<>>
       \/ t.at = "sleeping" /\ t.until > now
  /\ QueueCap > DrainSleep /\ t.consecutive_errors = 0 =>
       /\ ~dropped[n]
       /\ t.at = "sleeping" => Len(queue[n]) + t.until <= now + DrainSleep

CInv ==
  /\ queue \in [Nodes -> Seq(Report)]
  /\ passes \in [Nodes -> Nat]
  /\ dropped \in [Nodes -> BOOLEAN]
  /\ \A n \in Nodes : Calm(n)

\* One task moves on, the others and the clock stand.
LEMMA CalmlyOn ==
  ASSUME RInv, RInv', CInv, NEW n \in Nodes, UNCHANGED now,
         queue' \in [Nodes -> Seq(Report)],
         passes' \in [Nodes -> Nat],
         dropped' \in [Nodes -> BOOLEAN],
         \A m \in Nodes \ {n} :
           /\ reader'[m] = reader[m] /\ queue'[m] = queue[m]
           /\ passes'[m] = passes[m] /\ dropped'[m] = dropped[m],
         Calm(n)'
  PROVE  CInv'
<1>1. ASSUME NEW m \in Nodes, m # n PROVE Calm(m)'
  <2>1. /\ reader'[m] = reader[m] /\ queue'[m] = queue[m]
        /\ passes'[m] = passes[m] /\ dropped'[m] = dropped[m]
    BY <1>1
  <2> QED
    BY <2>1 DEF CInv, Calm, IsOpen
<1> QED
  BY <1>1 DEF CInv

\* Nothing that leaves reader, queue and clock alone disturbs them.
LEMMA CalmStands ==
  ASSUME CInv, UNCHANGED <<reader, queue, dropped, passes, now>>
  PROVE  CInv'
BY DEF CInv, Calm, IsOpen

LEMMA EndCalmly ==
  ASSUME RInv, RInv', CInv, NEW n \in Nodes, NEW at \in {"closed", "failed"},
         End(n, at), UNCHANGED now
  PROVE  CInv'
<1>1. /\ reader' = [reader EXCEPT ![n] = NoTask(at)]
      /\ queue' = [queue EXCEPT ![n] = <<>>]
      /\ dropped' = [dropped EXCEPT ![n] = FALSE]
      /\ UNCHANGED passes
  BY DEF End
<1>2. /\ queue' \in [Nodes -> Seq(Report)] /\ passes' \in [Nodes -> Nat]
      /\ dropped' \in [Nodes -> BOOLEAN]
      /\ \A m \in Nodes \ {n} :
           /\ reader'[m] = reader[m] /\ queue'[m] = queue[m]
           /\ passes'[m] = passes[m] /\ dropped'[m] = dropped[m]
  BY <1>1 DEF CInv, RInv
<1>3. /\ reader'[n].at \in {"closed", "failed"} /\ queue'[n] = <<>>
      /\ passes'[n] <= 1 /\ ~dropped'[n]
  BY <1>1 DEF CInv, RInv, Calm, NoTask
<1>4. Calm(n)'
  BY <1>3 DEF Calm, IsOpen
<1> QED
  BY <1>2, <1>4, CalmlyOn

\* A tick brings each sleeping queue one report at most.
LEMMA TickCalmly ==
  ASSUME RInv, RInv', CInv, PassTime
  PROVE  CInv'
<1>1. /\ now' = now + 1 /\ now \in Nat /\ UNCHANGED reader
      /\ \A n \in Nodes : ReaderIdle(n)
      /\ passes' = [n \in Nodes |-> 0]
  BY DEF PassTime, Tick, RInv
<1>2. PICK report \in [Nodes -> Option(Report)] :
        /\ \A n \in Nodes : ~IsOpen(n) => report[n] = None
        /\ queue' = [n \in Nodes |->
             IF IsOpen(n) /\ report[n] # None /\ Len(queue[n]) < QueueCap
             THEN Append(queue[n], report[n]) ELSE queue[n]]
        /\ dropped' = [n \in Nodes |->
             \/ dropped[n]
             \/ IsOpen(n) /\ report[n] # None /\ Len(queue[n]) >= QueueCap]
  BY DEF PassTime
<1>3. ASSUME NEW n \in Nodes
      PROVE  /\ queue'[n] \in Seq(Report)
             /\ \/ queue'[n] = queue[n]
                \/ IsOpen(n) /\ Len(queue'[n]) = Len(queue[n]) + 1
             /\ dropped'[n] \in BOOLEAN
             /\ dropped'[n] => \/ dropped[n]
                               \/ IsOpen(n) /\ Len(queue[n]) >= QueueCap
  <2>1. queue[n] \in Seq(Report) /\ dropped[n] \in BOOLEAN
    BY DEF CInv
  <2>2. dropped'[n] = \/ dropped[n]
                      \/ /\ IsOpen(n) /\ report[n] # None
                         /\ Len(queue[n]) >= QueueCap
    BY <1>2, Zenon
  <2>3. /\ dropped'[n] \in BOOLEAN
        /\ dropped'[n] => \/ dropped[n]
                          \/ IsOpen(n) /\ Len(queue[n]) >= QueueCap
    BY <2>1, <2>2, Zenon
  <2>4. CASE IsOpen(n) /\ report[n] # None /\ Len(queue[n]) < QueueCap
    <3>1. report[n] \in Report /\ queue'[n] = Append(queue[n], report[n])
      BY <1>2, <2>4 DEF Option
    <3>2. Len(queue'[n]) = Len(queue[n]) + 1 /\ queue'[n] \in Seq(Report)
      BY <2>1, <3>1
    <3> QED
      BY <2>3, <2>4, <3>2, Zenon
  <2>5. CASE ~(IsOpen(n) /\ report[n] # None /\ Len(queue[n]) < QueueCap)
    <3>1. queue'[n] = queue[n]
      BY <1>2, <2>5
    <3> QED
      BY <2>1, <2>3, <3>1, Zenon
  <2> QED
    BY <2>4, <2>5
<1>4. ASSUME NEW n \in Nodes PROVE Calm(n)'
  <2>1. /\ reader'[n] = reader[n] /\ reader[n] \in Task /\ passes'[n] = 0
        /\ Calm(n) /\ ReaderIdle(n) /\ Len(queue[n]) \in Nat
    BY <1>1 DEF CInv, RInv
  <2>2. CASE ~IsOpen(n)
    BY <1>1, <1>3, <2>1, <2>2 DEF Calm, IsOpen
  <2>3. CASE reader[n].at = "awaiting" /\ queue[n] = <<>>
    BY <1>1, <1>3, <2>1, <2>3, ReaderAssumption DEF Calm, IsOpen
  <2>4. CASE reader[n].at = "sleeping" /\ now <= reader[n].until
    <3>1. QueueCap > DrainSleep /\ reader[n].consecutive_errors = 0 =>
            Len(queue[n]) < QueueCap
      BY <1>1, <2>1, <2>4, ReaderAssumption DEF Calm, Task
    <3>2. QueueCap > DrainSleep /\ reader[n].consecutive_errors = 0 =>
            ~dropped'[n]
      BY <1>3, <2>1, <3>1, ReaderAssumption DEF Calm
    <3>3. /\ reader[n].until <= now' + DrainSleep
          /\ now' <= reader[n].until + 1
      BY <1>1, <2>1, <2>4, ReaderAssumption DEF Calm, Task
    <3>4. QueueCap > DrainSleep /\ reader[n].consecutive_errors = 0 =>
            Len(queue'[n]) + reader[n].until <= now' + DrainSleep
      <4>1. /\ Len(queue'[n]) \in Nat /\ reader[n].until \in Nat
            /\ Len(queue'[n]) <= Len(queue[n]) + 1
        BY <1>3, <2>1 DEF Task
      <4>2. QueueCap > DrainSleep /\ reader[n].consecutive_errors = 0 =>
              Len(queue[n]) + reader[n].until <= now + DrainSleep
        BY <2>1, <2>4 DEF Calm
      <4> QED
        BY <1>1, <2>1, <4>1, <4>2, ReaderAssumption
    <3> QED
      BY <2>1, <2>4, <3>2, <3>3, <3>4 DEF Calm, IsOpen
  <2> QED
    BY <2>1, <2>2, <2>3, <2>4, Zenon DEF ReaderIdle
<1>5. /\ queue' \in [Nodes -> Seq(Report)] /\ passes' \in [Nodes -> Nat]
      /\ dropped' \in [Nodes -> BOOLEAN]
  BY <1>1, <1>2, <1>3
<1> QED
  BY <1>4, <1>5 DEF CInv

\* One task moves on to t and leaves the rest to its queue.
LEMMA TaskOn ==
  ASSUME RInv, RInv', CInv, NEW n \in Nodes, NEW t, UNCHANGED now,
         reader' = [reader EXCEPT ![n] = t],
         \/ UNCHANGED passes
         \/ passes[n] = 0 /\ passes' = [passes EXCEPT ![n] = @ + 1],
         \/ UNCHANGED <<queue, dropped>>
         \/ /\ queue[n] # <<>> /\ queue' = [queue EXCEPT ![n] = Tail(@)]
            /\ dropped' = [dropped EXCEPT ![n] = FALSE],
         Calm(n)'
  PROVE  CInv'
<1>1. queue' \in [Nodes -> Seq(Report)] /\ dropped' \in [Nodes -> BOOLEAN]
  <2>1. CASE UNCHANGED <<queue, dropped>>
    BY <2>1 DEF CInv
  <2>2. CASE /\ queue[n] # <<>> /\ queue' = [queue EXCEPT ![n] = Tail(@)]
             /\ dropped' = [dropped EXCEPT ![n] = FALSE]
    <3>1. Tail(queue[n]) \in Seq(Report)
      BY <2>2 DEF CInv
    <3> QED
      BY <2>2, <3>1 DEF CInv
  <2> QED
    BY <2>1, <2>2
<1>2. passes' \in [Nodes -> Nat]
  <2>1. CASE UNCHANGED passes
    BY <2>1 DEF CInv
  <2>2. CASE passes[n] = 0 /\ passes' = [passes EXCEPT ![n] = @ + 1]
    BY <2>2 DEF CInv
  <2> QED
    BY <2>1, <2>2
<1>3. \A m \in Nodes \ {n} :
        /\ reader'[m] = reader[m] /\ queue'[m] = queue[m]
        /\ passes'[m] = passes[m] /\ dropped'[m] = dropped[m]
  BY DEF CInv, RInv
<1> QED
  BY <1>1, <1>2, <1>3, CalmlyOn

LEMMA CStep == RInv /\ RInv' /\ CInv /\ [ReaderNext]_readerVars => CInv'
<1> SUFFICES ASSUME RInv, RInv', CInv, [ReaderNext]_readerVars PROVE CInv'
  OBVIOUS
<1> USE DEF traces, kernel
<1>1. ASSUME ~PassTime PROVE UNCHANGED now
  BY <1>1, ClockStands
<1>2. ASSUME NEW n \in Nodes, ~PassTime,
             \/ Open(n) \/ Stop(n) \/ Readable(n)
             \/ ReadReport(n) \/ ReadError(n) \/ WouldBlock(n) \/ WakeUp(n)
      PROVE  CInv'
  <2>1. /\ UNCHANGED now /\ reader[n] \in Task /\ now \in Nat /\ Paced(n)
        /\ Calm(n) /\ queue[n] \in Seq(Report) /\ passes[n] \in Nat
        /\ reader[n].until \in Nat /\ reader[n].consecutive_errors \in Nat
    BY <1>1, <1>2, ReaderAssumption DEF RInv, CInv, Task
  <2>2. CASE Open(n)
    <3>1. /\ reader' = [reader EXCEPT ![n] = NoTask("awaiting")]
          /\ UNCHANGED <<queue, dropped, passes>> /\ ~IsOpen(n)
      BY <2>2 DEF Open
    <3>2. /\ reader'[n].at = "awaiting" /\ ~reader'[n].ready
          /\ queue[n] = <<>> /\ reader[n].consecutive_errors = 0
      BY <2>1, <3>1 DEF NoTask, RInv, Calm, Paced
    <3>3. Calm(n)'
      BY <2>1, <3>1, <3>2 DEF Calm, IsOpen
    <3> QED
      BY <2>1, <3>1, <3>3, TaskOn
  <2>3. CASE Stop(n)
    BY <2>1, <2>3, EndCalmly DEF Stop
  <2>4. CASE Readable(n)
    <3> DEFINE t == Onto(reader[n], "draining", 0, TRUE)
    <3>1. /\ reader' = [reader EXCEPT ![n] = t]
          /\ passes' = [passes EXCEPT ![n] = @ + 1]
          /\ UNCHANGED <<queue, dropped>>
      BY <2>4 DEF Readable
    <3>2. reader'[n].at = "draining" /\ passes[n] = 0 /\ passes'[n] = 1
          /\ reader'[n].consecutive_errors = reader[n].consecutive_errors
      BY <2>1, <2>4, <3>1 DEF Readable, Calm, IsOpen, Onto, CInv, RInv
    <3>3. dropped'[n] = dropped[n]
      BY <3>1
    <3>4. Calm(n)'
      BY <2>1, <3>2, <3>3 DEF Calm, IsOpen
    <3> QED
      BY <2>1, <3>1, <3>2, <3>4, TaskOn
  <2>5. CASE ReadReport(n)
    <3>1. PICK mark \in Option(Nat) :
            reader' = [reader EXCEPT ![n] = Read(mark)]
      BY <2>5 DEF ReadReport, Handle, RInv, Task, Option
    <3>2. /\ queue[n] # <<>> /\ queue' = [queue EXCEPT ![n] = Tail(@)]
          /\ dropped' = [dropped EXCEPT ![n] = FALSE]
          /\ UNCHANGED passes
      BY <2>5 DEF ReadReport
    <3>3. reader'[n].at = "draining" /\ ~dropped'[n]
      BY <3>1, <3>2 DEF Read, CInv, RInv
    <3>4. Calm(n)'
      BY <2>1, <3>2, <3>3 DEF Calm, IsOpen
    <3> QED
      BY <2>1, <3>1, <3>2, <3>4, TaskOn
  <2>6. CASE ReadError(n) /\ TooMany(reader[n].consecutive_errors + 1)
    BY <2>1, <2>6, EndCalmly DEF ReadError
  <2>7. CASE ReadError(n) /\ ~TooMany(reader[n].consecutive_errors + 1)
    <3>1. /\ reader' = [reader EXCEPT ![n] = Fail(reader[n])]
          /\ UNCHANGED <<queue, dropped, passes>>
      BY <2>7 DEF ReadError
    <3>2. /\ reader'[n].at = "sleeping"
          /\ reader'[n].until = now + DrainSleep
          /\ reader'[n].consecutive_errors # 0
      BY <2>1, <3>1 DEF Fail, RInv
    <3>3. Calm(n)'
      BY <2>1, <3>1, <3>2, ReaderAssumption DEF Calm, IsOpen
    <3> QED
      BY <2>1, <3>1, <3>3, TaskOn
  <2>8. CASE WouldBlock(n)
    <3>1. /\ reader' = [reader EXCEPT ![n] = Drained(reader[n])]
          /\ UNCHANGED <<queue, dropped, passes>> /\ queue[n] = <<>>
          /\ reader[n].at = "draining"
      BY <2>8 DEF WouldBlock
    <3>2. /\ reader'[n].consecutive_errors = reader[n].consecutive_errors
          /\ \/ /\ reader'[n].at = "sleeping"
                /\ reader'[n].until = now + DrainSleep
             \/ reader'[n].at = "awaiting" /\ ~reader'[n].ready
      BY <3>1 DEF Drained, Onto, RInv
    <3>3. Calm(n)'
      BY <2>1, <3>1, <3>2, ReaderAssumption DEF Calm, IsOpen
    <3> QED
      BY <2>1, <3>1, <3>3, TaskOn
  <2>9. CASE WakeUp(n)
    <3> DEFINE t == Onto(reader[n], "awaiting", 0, reader[n].ready)
    <3>1. /\ reader' = [reader EXCEPT ![n] = t]
          /\ UNCHANGED <<queue, dropped, passes>>
          /\ reader[n].at = "sleeping" /\ now >= reader[n].until
      BY <2>9 DEF WakeUp
    <3>2. /\ reader'[n].at = "awaiting" /\ passes[n] = 0
          /\ reader'[n].consecutive_errors = reader[n].consecutive_errors
      BY <2>1, <3>1 DEF Onto, RInv, Calm, IsOpen
    <3>3. Calm(n)'
      BY <2>1, <3>1, <3>2 DEF Calm, IsOpen
    <3> QED
      BY <2>1, <3>1, <3>3, TaskOn
  <2> QED
    BY <1>2, <2>2, <2>3, <2>4, <2>5, <2>6, <2>7, <2>8, <2>9
<1>3. CASE /\ ~PassTime
           /\ \/ HandleResume \/ LoseResume \/ Others
              \/ \E duration \in 1..MaxAsleep : FallAsleep(duration)
              \/ UNCHANGED readerVars
  <2>1. UNCHANGED <<reader, queue, dropped, passes, now>>
    BY <1>1, <1>3 DEF HandleResume, LoseResume, Others, FallAsleep, readerVars
  <2> QED
    BY <2>1, CalmStands
<1> QED
  BY <1>2, <1>3, TickCalmly, Zenon DEF ReaderNext

LEMMA CInitial == ReaderInit => CInv
<1> SUFFICES ASSUME ReaderInit PROVE CInv
  OBVIOUS
<1>1. NoTask("closed").at = "closed"
  BY DEF NoTask
<1> QED
  BY <1>1 DEF ReaderInit, CInv, Calm, IsOpen

LEMMA RAlways == ReaderSpec => []RInv
  BY RInitial, RStep, PTL DEF ReaderSpec

LEMMA CAlways == ReaderSpec => []CInv
  BY CInitial, CStep, RAlways, PTL DEF ReaderSpec

(* reader.rs:104-106, 152-155: no reader begins a second drain before time *)
(* has passed, whatever failed or was left ready.                          *)
THEOREM NeverSpins == ReaderSpec => []NoSpinning
<1>1. CInv => NoSpinning
  BY DEF CInv, Calm, NoSpinning
<1> QED
  BY <1>1, CAlways, PTL

(* reader.rs:22-25: with a kernel queue longer than the reports of a drain *)
(* sleep, nothing is dropped but while reads fail.                         *)
THEOREM BatchesLoseNothing ==
  ASSUME QueueCap > DrainSleep
  PROVE  ReaderSpec => []NothingDropped
<1>1. CInv => NothingDropped
  BY DEF CInv, Calm, NothingDropped
<1> QED
  BY <1>1, CAlways, PTL

-----------------------------------------------------------------------------
(* Readers and references *)

\* The running readers of a controller.
Readers(k) == {n \in Nodes : IsOpen(n) /\ KeyOf[n] = k}

\* The registry counts exactly them.
RefsAreReaders ==
  \A k \in Keys :
    IsFiniteSet(Readers(k)) /\ inner[k].refs = Cardinality(Readers(k))

\* Handling a report leaves the references as they are.
LEMMA HandleKeepsRefs ==
  ASSUME TypeOK, NEW n \in Nodes, NEW report, Handle(n, report)
  PROVE  \A k \in Keys : inner'[k].refs = inner[k].refs
<1>1. CASE \E b \in Readings : UpdateBattery(KeyOf[n], b)
  BY <1>1 DEF UpdateBattery, Seen, TypeOK
<1>2. CASE MarkTraffic(KeyOf[n])
  BY <1>2 DEF MarkTraffic, Seen, TypeOK
<1>3. CASE UNCHANGED vars
  BY <1>3 DEF vars
<1> QED
  BY <1>1, <1>2, <1>3 DEF Handle

\* Nor do the sweeper, the resume watcher and the clock touch them.
LEMMA OthersKeepRefs ==
  ASSUME TypeOK,
         \/ PassTime \/ HandleResume \/ LoseResume \/ Others
         \/ \E duration \in 1..MaxAsleep : FallAsleep(duration)
         \/ UNCHANGED readerVars
  PROVE  UNCHANGED reader /\ \A k \in Keys : inner'[k].refs = inner[k].refs
<1>1. UNCHANGED reader
  BY DEF PassTime, HandleResume, LoseResume, Others, FallAsleep, readerVars
<1>2. CASE PassTime \/ LoseResume \/ UNCHANGED readerVars
           \/ \E duration \in 1..MaxAsleep : FallAsleep(duration)
  BY <1>2 DEF PassTime, LoseResume, FallAsleep, Tick, MissResume, Suspend,
              devices, readerVars, vars
<1>3. CASE HandleResume
  BY <1>3 DEF HandleResume, NoteResume, TypeOK
<1>4. CASE Others
  BY <1>4 DEF Others, SweeperArm, SweeperNotified, SweeperFire, Sweep,
              Disconnected, devices, TypeOK
<1> QED
  BY <1>1, <1>2, <1>3, <1>4

LEMMA RefsKept ==
  ASSUME RefsAreReaders, \A n \in Nodes : IsOpen(n)' <=> IsOpen(n),
         \A k \in Keys : inner'[k].refs = inner[k].refs
  PROVE  RefsAreReaders'
<1>1. \A k \in Keys : Readers(k)' = Readers(k)
  BY DEF Readers
<1> QED
  BY <1>1 DEF RefsAreReaders

\* A running reader that goes on leaves the references to its registry calls.
LEMMA GoesOn ==
  ASSUME TypeOK, RInv, NEW n \in Nodes,
         \/ Readable(n) \/ ReadReport(n) \/ WouldBlock(n) \/ WakeUp(n)
         \/ ReadError(n) /\ ~TooMany(reader[n].consecutive_errors + 1)
  PROVE  /\ \A m \in Nodes : IsOpen(m)' <=> IsOpen(m)
         /\ \A k \in Keys : inner'[k].refs = inner[k].refs
<1>1. ASSUME NEW t, reader' = [reader EXCEPT ![n] = t],
             reader[n].at \in {"awaiting", "draining", "sleeping"},
             t.at \in {"awaiting", "draining", "sleeping"}
      PROVE  \A m \in Nodes : IsOpen(m)' <=> IsOpen(m)
  BY <1>1 DEF IsOpen, RInv
<1>2. CASE Readable(n) \/ WouldBlock(n) \/ WakeUp(n)
  BY <1>1, <1>2 DEF Readable, WouldBlock, WakeUp, Onto, Drained, vars
<1>3. CASE ReadReport(n)
  BY <1>1, <1>3, HandleKeepsRefs DEF ReadReport, Handle, Read
<1>4. CASE ReadError(n) /\ ~TooMany(reader[n].consecutive_errors + 1)
  BY <1>1, <1>4 DEF ReadError, Fail, vars
<1> QED
  BY <1>2, <1>3, <1>4

LEMMA OpenCounts ==
  ASSUME TypeOK, RInv, RefsAreReaders, NEW n \in Nodes, Open(n)
  PROVE  RefsAreReaders'
<1> DEFINE c == KeyOf[n]
<1>1. /\ c \in Keys /\ ~IsOpen(n) /\ IsOpen(n)'
      /\ \A m \in Nodes \ {n} : IsOpen(m)' <=> IsOpen(m)
  BY ReaderAssumption DEF Open, IsOpen, NoTask, RInv
<1>2. /\ Readers(c)' = Readers(c) \cup {n} /\ n \notin Readers(c)
      /\ \A k \in Keys \ {c} : Readers(k)' = Readers(k)
  BY <1>1 DEF Readers
<1>3. /\ inner'[c].refs = inner[c].refs + 1
      /\ \A k \in Keys \ {c} : inner'[k].refs = inner[k].refs
  BY <1>1 DEF Open, Acquire, WithRefs, TypeOK
<1>4. IsFiniteSet(Readers(c)) /\ inner[c].refs = Cardinality(Readers(c))
  BY <1>1 DEF RefsAreReaders
<1>5. /\ IsFiniteSet(Readers(c) \cup {n})
      /\ Cardinality(Readers(c) \cup {n}) = Cardinality(Readers(c)) + 1
  BY <1>2, <1>4, FS_AddElement
<1> QED
  BY <1>2, <1>3, <1>4, <1>5 DEF RefsAreReaders

LEMMA EndCounts ==
  ASSUME TypeOK, RInv, RefsAreReaders, NEW n \in Nodes, IsOpen(n),
         NEW at \in {"closed", "failed"}, End(n, at)
  PROVE  RefsAreReaders'
<1> DEFINE c == KeyOf[n]
<1>1. /\ c \in Keys /\ ~IsOpen(n)'
      /\ \A m \in Nodes \ {n} : IsOpen(m)' <=> IsOpen(m)
  BY ReaderAssumption DEF End, IsOpen, NoTask, RInv
<1>2. /\ Readers(c)' = Readers(c) \ {n} /\ n \in Readers(c)
      /\ \A k \in Keys \ {c} : Readers(k)' = Readers(k)
  BY <1>1 DEF Readers
<1>3. /\ inner'[c].refs = inner[c].refs - 1
      /\ \A k \in Keys \ {c} : inner'[k].refs = inner[k].refs
  BY <1>1 DEF End, Unguard, Release, WithRefs, Absent, TypeOK, Entry
<1>4. IsFiniteSet(Readers(c)) /\ inner[c].refs = Cardinality(Readers(c))
  BY <1>1 DEF RefsAreReaders
<1>5. /\ IsFiniteSet(Readers(c) \ {n})
      /\ Cardinality(Readers(c) \ {n}) = Cardinality(Readers(c)) - 1
  BY <1>2, <1>4, FS_RemoveElement
<1> QED
  BY <1>2, <1>3, <1>4, <1>5 DEF RefsAreReaders

LEMMA KStep ==
  TypeOK /\ RInv /\ RefsAreReaders /\ [ReaderNext]_readerVars
    => RefsAreReaders'
<1> SUFFICES ASSUME TypeOK, RInv, RefsAreReaders, [ReaderNext]_readerVars
             PROVE  RefsAreReaders'
  OBVIOUS
<1>1. ASSUME NEW n \in Nodes,
             \/ Open(n) \/ Stop(n) \/ Readable(n)
             \/ ReadReport(n) \/ ReadError(n) \/ WouldBlock(n) \/ WakeUp(n)
      PROVE  RefsAreReaders'
  <2>1. CASE \/ Readable(n) \/ ReadReport(n) \/ WouldBlock(n) \/ WakeUp(n)
             \/ ReadError(n) /\ ~TooMany(reader[n].consecutive_errors + 1)
    BY <2>1, GoesOn, RefsKept
  <2>2. CASE Stop(n)
    BY <2>2, EndCounts DEF Stop
  <2>3. CASE ReadError(n) /\ TooMany(reader[n].consecutive_errors + 1)
    BY <2>3, EndCounts DEF ReadError, IsOpen
  <2> QED
    BY <1>1, <2>1, <2>2, <2>3, OpenCounts
<1>2. CASE \/ PassTime \/ HandleResume \/ LoseResume \/ Others
           \/ \E duration \in 1..MaxAsleep : FallAsleep(duration)
           \/ UNCHANGED readerVars
  BY <1>2, OthersKeepRefs, RefsKept DEF IsOpen
<1> QED
  BY <1>1, <1>2, Zenon DEF ReaderNext

LEMMA KInitial == ReaderInit => RefsAreReaders
<1> SUFFICES ASSUME ReaderInit, NEW k \in Keys
             PROVE  /\ IsFiniteSet(Readers(k))
                    /\ inner[k].refs = Cardinality(Readers(k))
  BY DEF RefsAreReaders
<1>1. Readers(k) = {} /\ inner[k].refs = 0
  BY DEF ReaderInit, Init, Readers, IsOpen, NoTask, Absent
<1> QED
  BY <1>1, FS_EmptySet

LEMMA TAlways == ReaderSpec => []TypeOK
  BY ReaderImplementsRegistry, TypeCorrect, PTL

LEMMA KAlways == ReaderSpec => []RefsAreReaders
  BY KInitial, KStep, RAlways, TAlways, PTL DEF ReaderSpec

\* Two readers of a controller hold two references.
LEMMA TwoReaders ==
  ASSUME RefsAreReaders, NEW n \in Nodes, NEW m \in Nodes, n # m,
         IsOpen(n), IsOpen(m), KeyOf[n] = KeyOf[m]
  PROVE  inner[KeyOf[n]].refs # 1
<1> SUFFICES ASSUME inner[KeyOf[n]].refs = 1 PROVE FALSE
  OBVIOUS
<1>1. KeyOf[n] \in Keys /\ {n, m} \subseteq Readers(KeyOf[n])
  BY ReaderAssumption DEF Readers
<1>2. PICK x : Readers(KeyOf[n]) = {x}
  BY <1>1, FS_Singleton DEF RefsAreReaders
<1> QED
  BY <1>1, <1>2

-----------------------------------------------------------------------------
(* What waits in the kernel *)

\* By when a reader has begun its next drain, or now.
Due(n) == IF reader[n].at = "sleeping" THEN reader[n].until + 1 ELSE now

\* How old a sign of life may be when its reader gets to it.
Slack == DrainSleep + faults * (DrainSleep + 1)

Pending(n) == \E i \in 1..Len(queue[n]) : queue[n][i] \in SignsOfLife

\* A sign of life that waits for its reader will be read in time.
Waiting(n) ==
  Pending(n) => /\ sent[KeyOf[n]] \in Nat
                /\ Due(n) <= sent[KeyOf[n]] + Slack

HInv ==
  /\ faults \in Nat
  /\ sent \in [Keys -> Option(Nat)]
  /\ \A k \in Keys : sent[k] # None => sent[k] <= now
  /\ \A k \in Keys : heard[k] # None =>
       sent[k] # None /\ heard[k] <= sent[k] + Slack
  /\ \A n \in Nodes : Waiting(n)

LEMMA SlackTyped ==
  ASSUME faults \in Nat
  PROVE  Slack \in Nat /\ Slack >= DrainSleep
<1>1. DrainSleep \in Nat /\ faults * (DrainSleep + 1) \in Nat
  BY ReaderAssumption
<1> QED
  BY <1>1 DEF Slack

\* A failed read costs a sleep and a tick.
LEMMA SlackGrows ==
  ASSUME faults \in Nat, faults' = faults + 1
  PROVE  Slack' = Slack + DrainSleep + 1
<1>1. DrainSleep \in Nat
  BY ReaderAssumption
<1>2. (faults + 1) * (DrainSleep + 1)
        = faults * (DrainSleep + 1) + DrainSleep + 1
      /\ faults * (DrainSleep + 1) \in Nat
  BY <1>1
<1> QED
  BY <1>1, <1>2 DEF Slack

\* What a reader hands on while it drains has not waited too long.
LEMMA HeardNow ==
  ASSUME TypeOK, RInv, CInv, HInv, NEW n \in Nodes,
         reader[n].at = "draining", queue[n] # <<>>,
         Head(queue[n]) \in SignsOfLife
  PROVE  sent[KeyOf[n]] # None /\ now <= sent[KeyOf[n]] + Slack
<1>1. queue[n] \in Seq(Report) /\ Waiting(n)
  BY DEF CInv, HInv
<1>2. 1 \in 1..Len(queue[n]) /\ Head(queue[n]) = queue[n][1]
  BY <1>1
<1>3. Pending(n)
  BY <1>2 DEF Pending
<1> QED
  BY <1>1, <1>3, ConstantsAssumption DEF Waiting, Due

\* Handling a report hears only signs of life.
LEMMA HandleHears ==
  ASSUME TypeOK, NEW n \in Nodes, NEW report, Handle(n, report)
  PROVE  \/ UNCHANGED heard
         \/ /\ report \in SignsOfLife
            /\ heard' = [heard EXCEPT ![KeyOf[n]] = now]
<1>1. CASE report = "Battery" /\ \E b \in Readings : UpdateBattery(KeyOf[n], b)
  BY <1>1 DEF UpdateBattery, Hear, SignsOfLife
<1>2. CASE report = "Liveness" /\ MarkTraffic(KeyOf[n])
  BY <1>2 DEF MarkTraffic, Hear, SignsOfLife
<1>3. CASE UNCHANGED vars
  BY <1>3 DEF vars
<1> QED
  BY <1>1, <1>2, <1>3 DEF Handle

\* What was said of the time waited holds with more time granted.
LEMMA StillHeard ==
  ASSUME TypeOK, HInv, UNCHANGED <<heard, sent>>,
         faults' = faults \/ faults' = faults + 1
  PROVE  /\ faults' \in Nat
         /\ Slack \in Nat /\ Slack' \in Nat /\ Slack' >= Slack
         /\ \A k \in Keys : heard'[k] # None =>
              sent'[k] # None /\ heard'[k] <= sent'[k] + Slack'
<1>1. faults \in Nat /\ faults' \in Nat
  BY DEF HInv
<1>2. Slack \in Nat
  BY <1>1, SlackTyped
<1>3. Slack' = Slack \/ Slack' = Slack + DrainSleep + 1
  BY <1>1, SlackGrows DEF Slack
<1>4. Slack' \in Nat /\ Slack' >= Slack
  BY <1>2, <1>3, ReaderAssumption
<1>5. ASSUME NEW k \in Keys, heard[k] # None
      PROVE  sent[k] # None /\ heard[k] <= sent[k] + Slack'
  <2>1. heard[k] \in Nat /\ sent[k] \in Nat /\ heard[k] <= sent[k] + Slack
    BY <1>5 DEF HInv, TypeOK, Option
  <2> QED
    BY <1>2, <1>4, <2>1, ConstantsAssumption
<1> QED
  BY <1>1, <1>2, <1>4, <1>5

\* Nor does it hurt a node that no step touches.
LEMMA StillWaiting ==
  ASSUME RInv, HInv, NEW n \in Nodes,
         reader'[n] = reader[n], queue'[n] = queue[n], now' = now,
         sent'[KeyOf[n]] = sent[KeyOf[n]],
         Slack \in Nat, Slack' \in Nat, Slack' >= Slack
  PROVE  Waiting(n)'
<1> SUFFICES ASSUME Pending(n)'
             PROVE  /\ sent'[KeyOf[n]] \in Nat
                    /\ Due(n)' <= sent'[KeyOf[n]] + Slack'
  BY DEF Waiting
<1>1. Pending(n) /\ Due(n)' = Due(n)
  BY DEF Pending, Due
<1>2. sent[KeyOf[n]] \in Nat /\ Due(n) <= sent[KeyOf[n]] + Slack
  BY <1>1 DEF HInv, Waiting
<1>3. Due(n) \in Nat
  BY DEF Due, RInv, Task
<1> QED
  BY <1>1, <1>2, <1>3

\* A reader moves on without a report and waits no longer than it may.
LEMMA WaitsOn ==
  ASSUME TypeOK, RInv, RInv', HInv, NEW n \in Nodes, NEW t,
         reader' = [reader EXCEPT ![n] = t],
         UNCHANGED <<queue, sent, heard, now>>,
         faults' = faults \/ faults' = faults + 1,
         Pending(n) => Due(n)' <= Due(n) + (Slack' - Slack)
  PROVE  HInv'
<1>1. /\ faults' \in Nat
      /\ Slack \in Nat /\ Slack' \in Nat /\ Slack' >= Slack
      /\ \A k \in Keys : heard'[k] # None =>
           sent'[k] # None /\ heard'[k] <= sent'[k] + Slack'
  BY StillHeard
<1>2. ASSUME NEW m \in Nodes, m # n PROVE Waiting(m)'
  BY <1>1, <1>2, StillWaiting DEF RInv
<1>3. Waiting(n)'
  <2> SUFFICES ASSUME Pending(n)
               PROVE  /\ sent[KeyOf[n]] \in Nat
                      /\ Due(n)' <= sent[KeyOf[n]] + Slack'
    BY DEF Waiting, Pending
  <2>1. /\ sent[KeyOf[n]] \in Nat /\ Due(n) <= sent[KeyOf[n]] + Slack
        /\ Due(n)' <= Due(n) + (Slack' - Slack)
    BY DEF HInv, Waiting
  <2>2. Due(n) \in Nat /\ Due(n)' \in Nat
    BY DEF Due, RInv, Task
  <2> QED
    BY <1>1, <2>1, <2>2
<1>4. /\ sent' \in [Keys -> Option(Nat)]
      /\ \A k \in Keys : sent'[k] # None => sent'[k] <= now'
  BY DEF HInv
<1> QED
  BY <1>1, <1>2, <1>3, <1>4 DEF HInv

\* A report read is heard now, and the rest waits as before.
LEMMA ReadHeard ==
  ASSUME TypeOK, RInv, CInv, HInv, NEW n \in Nodes, ReadReport(n),
         UNCHANGED now
  PROVE  HInv'
<1>1. /\ reader[n].at = "draining" /\ queue[n] # <<>>
      /\ queue' = [queue EXCEPT ![n] = Tail(@)]
      /\ Handle(n, Head(queue[n])) /\ UNCHANGED <<sent, faults>>
      /\ queue[n] \in Seq(Report) /\ KeyOf[n] \in Keys
  BY ReaderAssumption DEF ReadReport, CInv
<1>2. PICK mark : reader' = [reader EXCEPT ![n] = Read(mark)]
  BY <1>1 DEF Handle
<1>3. Slack' = Slack /\ Slack \in Nat
  BY <1>1, SlackTyped DEF Slack, HInv
<1>4. ASSUME NEW k \in Keys, heard'[k] # None
      PROVE  sent'[k] # None /\ heard'[k] <= sent'[k] + Slack'
  <2>1. CASE UNCHANGED heard
    BY <1>1, <1>3, <1>4, <2>1 DEF HInv
  <2>2. CASE /\ Head(queue[n]) \in SignsOfLife
             /\ heard' = [heard EXCEPT ![KeyOf[n]] = now]
    <3>1. sent[KeyOf[n]] # None /\ now <= sent[KeyOf[n]] + Slack
      BY <1>1, <2>2, HeardNow
    <3>2. CASE k = KeyOf[n]
      BY <1>1, <1>3, <2>2, <3>1, <3>2 DEF TypeOK
    <3>3. CASE k # KeyOf[n]
      BY <1>1, <1>3, <1>4, <2>2, <3>3 DEF TypeOK, HInv
    <3> QED
      BY <3>2, <3>3
  <2> QED
    BY <1>1, <2>1, <2>2, HandleHears
<1>5. ASSUME NEW m \in Nodes, m # n PROVE Waiting(m)'
  <2>1. reader'[m] = reader[m] /\ queue'[m] = queue[m]
        /\ sent'[KeyOf[m]] = sent[KeyOf[m]]
    BY <1>1, <1>2, <1>5 DEF RInv, CInv
  <2> QED
    BY <1>3, <2>1, StillWaiting
<1>6. Waiting(n)'
  <2> SUFFICES ASSUME Pending(n)'
               PROVE  /\ sent[KeyOf[n]] \in Nat
                      /\ Due(n)' <= sent[KeyOf[n]] + Slack
    BY <1>1, <1>3 DEF Waiting
  <2>1. queue'[n] = Tail(queue[n])
    BY <1>1 DEF CInv
  <2>2. PICK i \in 1..Len(Tail(queue[n])) :
          Tail(queue[n])[i] \in SignsOfLife
    BY <2>1 DEF Pending
  <2>3. /\ i + 1 \in 1..Len(queue[n])
        /\ queue[n][i + 1] = Tail(queue[n])[i]
    BY <1>1, <2>2
  <2>4. Pending(n)
    BY <2>2, <2>3 DEF Pending
  <2>5. Due(n) = now /\ Due(n)' = now
    BY <1>1, <1>2 DEF Due, Read, RInv
  <2> QED
    BY <2>4, <2>5 DEF HInv, Waiting
<1>7. /\ faults' \in Nat /\ sent' \in [Keys -> Option(Nat)]
      /\ \A k \in Keys : sent'[k] # None => sent'[k] <= now'
  BY <1>1 DEF HInv
<1> QED
  BY <1>4, <1>5, <1>6, <1>7 DEF HInv

\* The last reader of a controller takes with it what it was heard by.
LEMMA EndForgets ==
  ASSUME TypeOK, RInv, RefsAreReaders, CInv, HInv, NEW n \in Nodes,
         IsOpen(n), NEW at \in {"closed", "failed"}, End(n, at),
         UNCHANGED now, faults' = faults \/ faults' = faults + 1
  PROVE  HInv'
<1> DEFINE c == KeyOf[n]
<1>1. /\ c \in Keys /\ Release(c)
      /\ reader' = [reader EXCEPT ![n] = NoTask(at)]
      /\ queue' = [queue EXCEPT ![n] = <<>>]
      /\ sent' = IF inner'[c] = Absent THEN [sent EXCEPT ![c] = None]
                                       ELSE sent
  BY ReaderAssumption DEF End, Unguard
<1>2. \/ /\ inner[c].refs = 1 /\ heard' = [heard EXCEPT ![c] = None]
         /\ sent' = [sent EXCEPT ![c] = None]
      \/ inner[c].refs # 1 /\ UNCHANGED <<heard, sent>>
  <2>1. CASE inner[c].refs = 1
    BY <1>1, <2>1 DEF Release, Unhear, TypeOK
  <2>2. CASE inner[c].refs # 1
    <3>1. /\ inner'[c].refs = inner[c].refs - 1 /\ UNCHANGED heard
          /\ inner[c].refs \in Nat /\ inner[c].refs > 0
      BY <1>1, <2>2 DEF Release, WithRefs, history, TypeOK, Entry
    <3>2. inner'[c] # Absent
      BY <2>2, <3>1 DEF Absent
    <3> QED
      BY <1>1, <2>2, <3>1, <3>2
  <2> QED
    BY <2>1, <2>2
<1>3. faults \in Nat /\ faults' \in Nat
  BY DEF HInv
<1>4. Slack \in Nat /\ Slack' \in Nat /\ Slack' >= Slack
  <2>1. Slack \in Nat
    BY <1>3, SlackTyped
  <2>2. Slack' = Slack \/ Slack' = Slack + DrainSleep + 1
    BY <1>3, SlackGrows DEF Slack
  <2> QED
    BY <2>1, <2>2, ReaderAssumption
<1>5. ASSUME NEW k \in Keys, heard'[k] # None
      PROVE  sent'[k] # None /\ heard'[k] <= sent'[k] + Slack'
  <2>1. heard'[k] = heard[k] /\ sent'[k] = sent[k]
    BY <1>2, <1>5 DEF TypeOK, HInv
  <2>2. heard[k] \in Nat /\ sent[k] \in Nat /\ heard[k] <= sent[k] + Slack
    BY <1>5, <2>1 DEF HInv, TypeOK, Option
  <2> QED
    BY <1>4, <2>1, <2>2, ConstantsAssumption
<1>6. ASSUME NEW m \in Nodes PROVE Waiting(m)'
  <2>1. CASE queue'[m] = <<>>
    BY <2>1 DEF Waiting, Pending
  <2>2. CASE queue'[m] # <<>>
    <3>1. m # n /\ queue'[m] = queue[m] /\ reader'[m] = reader[m]
      BY <1>1, <2>2 DEF RInv, CInv
    <3>2. IsOpen(m)
      BY <2>2, <3>1 DEF CInv, Calm
    <3>3. sent'[KeyOf[m]] = sent[KeyOf[m]]
      <4>1. CASE KeyOf[m] = c
        BY <1>2, <3>1, <3>2, <4>1, TwoReaders
      <4>2. CASE KeyOf[m] # c
        BY <1>2, <4>2, ReaderAssumption DEF HInv
      <4> QED
        BY <4>1, <4>2
    <3> QED
      BY <1>4, <3>1, <3>3, StillWaiting
  <2> QED
    BY <2>1, <2>2
<1>7. /\ sent' \in [Keys -> Option(Nat)]
      /\ \A k \in Keys : sent'[k] # None => sent'[k] <= now'
  BY <1>2 DEF HInv, Option
<1> QED
  BY <1>3, <1>5, <1>6, <1>7 DEF HInv

\* A tick brings signs of life that wait for a sleep at most.
LEMMA TickHeard ==
  ASSUME TypeOK, RInv, CInv, HInv, PassTime
  PROVE  HInv'
<1>1. /\ now' = now + 1 /\ now \in Nat /\ UNCHANGED <<reader, faults, heard>>
      /\ \A n \in Nodes : ReaderIdle(n)
  BY DEF PassTime, Tick, RInv, history
<1>2. Slack' = Slack /\ Slack \in Nat /\ Slack >= DrainSleep
  BY <1>1, SlackTyped DEF Slack, HInv
<1>3. PICK report \in [Nodes -> Option(Report)] :
        /\ \A n \in Nodes : ~IsOpen(n) => report[n] = None
        /\ queue' = [n \in Nodes |->
             IF IsOpen(n) /\ report[n] # None /\ Len(queue[n]) < QueueCap
             THEN Append(queue[n], report[n]) ELSE queue[n]]
        /\ sent' = [k \in Keys |->
             IF \E n \in Nodes : /\ KeyOf[n] = k
                                 /\ IsOpen(n) /\ report[n] \in SignsOfLife
             THEN now' ELSE sent[k]]
  BY DEF PassTime
<1>4. ASSUME NEW k \in Keys
      PROVE  \/ sent'[k] = now + 1
             \/ /\ sent'[k] = sent[k]
                /\ \A n \in Nodes :
                     KeyOf[n] = k /\ IsOpen(n) => report[n] \notin SignsOfLife
  BY <1>1, <1>3
<1>5. /\ sent' \in [Keys -> Option(Nat)]
      /\ \A k \in Keys : sent'[k] # None => sent'[k] <= now'
  <2>1. ASSUME NEW k \in Keys
        PROVE  /\ sent'[k] \in Option(Nat)
               /\ sent'[k] # None => sent'[k] <= now'
    <3>1. CASE sent'[k] = now + 1
      BY <1>1, <3>1 DEF Option
    <3>2. CASE sent'[k] = sent[k]
      BY <1>1, <3>2 DEF HInv, Option
    <3> QED
      BY <1>4, <3>1, <3>2
  <2> QED
    BY <1>3, <2>1
<1>6. ASSUME NEW k \in Keys, heard'[k] # None
      PROVE  sent'[k] # None /\ heard'[k] <= sent'[k] + Slack'
  <2>1. /\ heard'[k] = heard[k] /\ heard[k] \in Nat /\ sent[k] \in Nat
        /\ heard[k] <= sent[k] + Slack /\ sent[k] <= now
    BY <1>1, <1>6 DEF HInv, TypeOK, Option
  <2> QED
    BY <1>1, <1>2, <1>4, <2>1, ConstantsAssumption
<1>7. ASSUME NEW n \in Nodes, Pending(n)'
      PROVE  sent'[KeyOf[n]] \in Nat /\ Due(n)' <= sent'[KeyOf[n]] + Slack'
  <2> DEFINE k == KeyOf[n]
  <2>1. /\ k \in Keys /\ ReaderIdle(n) /\ Calm(n) /\ reader[n] \in Task
        /\ queue[n] \in Seq(Report) /\ reader'[n] = reader[n]
    BY <1>1, ReaderAssumption DEF CInv, RInv
  <2>2. CASE sent'[k] = now + 1
    <3>1. Due(n)' <= now + 1 + DrainSleep /\ Due(n)' \in Nat
      BY <1>1, <2>1, ReaderAssumption DEF Due, Calm, Task
    <3> QED
      BY <1>1, <1>2, <2>2, <3>1, ReaderAssumption
  <2>3. CASE /\ sent'[k] = sent[k]
             /\ IsOpen(n) => report[n] \notin SignsOfLife
    <3>1. Pending(n)
      <4>1. CASE queue'[n] = queue[n]
        BY <1>7, <4>1 DEF Pending
      <4>2. CASE IsOpen(n) /\ queue'[n] = Append(queue[n], report[n])
        <5>1. PICK i \in 1..Len(queue[n]) + 1 :
                Append(queue[n], report[n])[i] \in SignsOfLife
          BY <1>7, <2>1, <4>2 DEF Pending
        <5>2. i # Len(queue[n]) + 1
          BY <2>1, <2>3, <4>2, <5>1
        <5>3. i \in 1..Len(queue[n]) /\ queue[n][i] \in SignsOfLife
          BY <2>1, <5>1, <5>2
        <5> QED
          BY <5>3 DEF Pending
      <4> QED
        BY <1>3, <4>1, <4>2
    <3>2. queue[n] # <<>>
      BY <2>1, <3>1 DEF Pending
    <3>3. Due(n)' = Due(n)
      BY <2>1, <3>2 DEF ReaderIdle, Calm, Due
    <3> QED
      BY <1>2, <2>3, <3>1, <3>3 DEF HInv, Waiting
  <2> QED
    BY <1>4, <2>1, <2>2, <2>3
<1> QED
  BY <1>1, <1>5, <1>6, <1>7 DEF HInv, Waiting

LEMMA HStep ==
  /\ TypeOK /\ RInv /\ RInv' /\ RefsAreReaders /\ CInv /\ HInv
  /\ [ReaderNext]_readerVars
  => HInv'
<1> SUFFICES ASSUME TypeOK, RInv, RInv', RefsAreReaders, CInv, HInv,
                    [ReaderNext]_readerVars
             PROVE  HInv'
  OBVIOUS
<1> USE DEF traces, kernel
<1>1. ASSUME ~PassTime PROVE UNCHANGED now
  BY <1>1, ClockStands
<1>2. ASSUME NEW n \in Nodes, ~PassTime,
             \/ Open(n) \/ Stop(n) \/ Readable(n)
             \/ ReadReport(n) \/ ReadError(n) \/ WouldBlock(n) \/ WakeUp(n)
      PROVE  HInv'
  <2>1. /\ UNCHANGED now /\ reader[n] \in Task /\ now \in Nat /\ Calm(n)
        /\ reader[n].until \in Nat /\ faults \in Nat /\ Slack \in Nat
        /\ Due(n) \in Nat
    BY <1>1, <1>2, SlackTyped DEF RInv, CInv, HInv, Task, Due
  <2>2. CASE Open(n)
    <3>1. /\ reader' = [reader EXCEPT ![n] = NoTask("awaiting")]
          /\ UNCHANGED <<queue, sent, heard, faults>> /\ ~IsOpen(n)
      BY <2>2 DEF Open, Acquire, history
    <3>2. ~Pending(n)
      BY <2>1, <3>1 DEF Calm, Pending
    <3> QED
      BY <2>1, <3>1, <3>2, WaitsOn
  <2>3. CASE Stop(n)
    BY <2>1, <2>3, EndForgets DEF Stop
  <2>4. CASE Readable(n)
    <3>1. /\ reader' = [reader EXCEPT ![n] =
                          Onto(reader[n], "draining", 0, TRUE)]
          /\ UNCHANGED <<queue, sent, heard, faults>>
          /\ reader[n].at = "awaiting"
      BY <2>4 DEF Readable, vars
    <3>2. Due(n)' = Due(n) /\ Slack' = Slack
      BY <2>1, <3>1 DEF Due, Slack, Onto, RInv
    <3>3. Due(n)' <= Due(n) + (Slack' - Slack)
      BY <2>1, <3>2
    <3> QED
      BY <2>1, <3>1, <3>3, WaitsOn
  <2>5. CASE ReadReport(n)
    BY <2>1, <2>5, ReadHeard
  <2>6. CASE ReadError(n) /\ TooMany(reader[n].consecutive_errors + 1)
    BY <2>1, <2>6, EndForgets DEF ReadError, IsOpen
  <2>7. CASE ReadError(n) /\ ~TooMany(reader[n].consecutive_errors + 1)
    <3>1. /\ reader' = [reader EXCEPT ![n] = Fail(reader[n])]
          /\ UNCHANGED <<queue, sent, heard>> /\ faults' = faults + 1
          /\ reader[n].at = "draining"
      BY <2>7 DEF ReadError, vars
    <3>2. Due(n) = now /\ Due(n)' = now + DrainSleep + 1
      BY <2>1, <3>1, ReaderAssumption DEF Due, Fail, RInv
    <3>3. Slack' = Slack + DrainSleep + 1
      BY <2>1, <3>1, SlackGrows
    <3>4. Due(n)' <= Due(n) + (Slack' - Slack)
      BY <2>1, <3>2, <3>3, ReaderAssumption
    <3> QED
      BY <2>1, <3>1, <3>4, WaitsOn
  <2>8. CASE WouldBlock(n)
    <3>1. /\ reader' = [reader EXCEPT ![n] = Drained(reader[n])]
          /\ UNCHANGED <<queue, sent, heard, faults>> /\ queue[n] = <<>>
      BY <2>8 DEF WouldBlock, vars
    <3>2. ~Pending(n)
      BY <3>1 DEF Pending
    <3> QED
      BY <2>1, <3>1, <3>2, WaitsOn
  <2>9. CASE WakeUp(n)
    <3>1. /\ reader' = [reader EXCEPT ![n] =
                          Onto(reader[n], "awaiting", 0, reader[n].ready)]
          /\ UNCHANGED <<queue, sent, heard, faults>>
          /\ reader[n].at = "sleeping"
      BY <2>9 DEF WakeUp, vars
    <3>2. Due(n)' = now /\ now <= Due(n) /\ Slack' = Slack
      BY <2>1, <3>1 DEF Due, Slack, Onto, RInv, Calm
    <3>3. Due(n)' <= Due(n) + (Slack' - Slack)
      BY <2>1, <3>2
    <3> QED
      BY <2>1, <3>1, <3>3, WaitsOn
  <2> QED
    BY <1>2, <2>2, <2>3, <2>4, <2>5, <2>6, <2>7, <2>8, <2>9
<1>3. CASE /\ ~PassTime
           /\ \/ HandleResume \/ LoseResume \/ Others
              \/ \E duration \in 1..MaxAsleep : FallAsleep(duration)
              \/ UNCHANGED readerVars
  <2>1. UNCHANGED <<reader, queue, faults, sent, heard, now>>
    BY <1>1, <1>3 DEF HandleResume, LoseResume, Others, FallAsleep, NoteResume,
                      MissResume, SweeperArm, SweeperNotified, SweeperFire,
                      Suspend, history, readerVars, vars
  <2>2. \A n \in Nodes : Waiting(n)'
    BY <2>1 DEF HInv, Waiting, Pending, Due, Slack
  <2>3. Slack' = Slack
    BY <2>1 DEF Slack
  <2> QED
    BY <2>1, <2>2, <2>3 DEF HInv
<1> QED
  BY <1>2, <1>3, TickHeard, Zenon DEF ReaderNext

LEMMA HInitial == ReaderInit => HInv
<1> SUFFICES ASSUME ReaderInit PROVE HInv
  OBVIOUS
<1>1. \A n \in Nodes : ~Pending(n)
  BY DEF ReaderInit, Pending
<1> QED
  BY <1>1 DEF ReaderInit, Init, HInv, Waiting, Option

LEMMA HAlways == ReaderSpec => []HInv
  BY HInitial, HStep, RAlways, TAlways, KAlways, CAlways, PTL DEF ReaderSpec

(* reader.rs:96-166: whatever a report waits for, drain sleeps and failed  *)
(* reads, it is counted as heard within a sleep of being sent, and one     *)
(* more for each failure.                                                  *)
THEOREM HearsInTime == ReaderSpec => []HeardInTime
<1>1. TypeOK /\ HInv => HeardInTime
  <2> SUFFICES ASSUME TypeOK, HInv, NEW k \in Keys, heard[k] # None
               PROVE  /\ sent[k] # None
                      /\ heard[k] <= sent[k] + DrainSleep
                                       + faults * (DrainSleep + 1)
    BY DEF HeardInTime
  <2>1. /\ sent[k] # None /\ sent[k] \in Nat
        /\ heard[k] <= sent[k] + (DrainSleep + faults * (DrainSleep + 1))
    BY DEF HInv, Slack, Option
  <2>2. DrainSleep \in Nat /\ faults * (DrainSleep + 1) \in Nat
    BY ReaderAssumption DEF HInv
  <2> QED
    BY <2>1, <2>2
<1> QED
  BY <1>1, HAlways, TAlways, PTL

-----------------------------------------------------------------------------
(* Controllers that send *)

\* The task has gone to sleep in this tick, after a drain.
Resting(n) == reader[n].at = "sleeping" /\ reader[n].until = now + DrainSleep

\* A sign of life is read at the next drain, if its node goes on sending.
Promised(n) == Pending(n) \/ Resting(n)

\* The next drain of a node that sends finds something to read.
Fed(n) ==
  \/ queue[n] # <<>>
  \/ reader[n].at = "draining" /\ reader[n].drained
  \/ Resting(n)

(* The first drain of a node that has begun to send comes within a sleep.  *)
(* It may find only what an overflowing queue kept, but the next, a sleep  *)
(* later, finds a sign of life.  From then on a sign of life is read, and  *)
(* its controller heard within a mark interval, before each sleep.         *)
Attended(n) ==
  \/ Due(n) <= streak[n] + DrainSleep
  \/ Promised(n) /\ Due(n) <= streak[n] + 2 * DrainSleep + 1
  \/ /\ Promised(n) /\ heard[KeyOf[n]] # None
     /\ Due(n) <= heard[KeyOf[n]] + MarkInterval + DrainSleep + 1
  \/ /\ reader[n].at = "draining" /\ reader[n].drained
     /\ heard[KeyOf[n]] # None
     /\ now <= heard[KeyOf[n]] + MarkInterval

Sending(n) ==
  /\ Fed(n)
  /\ Resting(n) => queue[n] = <<>>
  /\ Attended(n)

Alive(n) ==
  /\ streak[n] # None => IsOpen(n) /\ Sending(n)
  /\ reader[n].last_mark # None =>
       /\ IsOpen(n) /\ heard[KeyOf[n]] # None
       /\ reader[n].last_mark <= heard[KeyOf[n]]

\* What a resume rewinds was heard before.
InOrder(k) ==
  heard[k] # None =>
    heard[k] <= now /\ (rewound[k] # None => heard[k] <= rewound[k])

AInv ==
  /\ streak \in [Nodes -> Option(Nat)]
  /\ \A k \in Keys : InOrder(k)
  /\ \A n \in Nodes : Alive(n)

\* A node no step touches, whose controller is heard now or as before.
LEMMA StaysAlive ==
  ASSUME TypeOK, RInv, AInv, NEW n \in Nodes, UNCHANGED now,
         reader'[n] = reader[n], queue'[n] = queue[n],
         streak'[n] = streak[n],
         \/ heard'[KeyOf[n]] = heard[KeyOf[n]]
         \/ heard'[KeyOf[n]] = now
         \/ ~IsOpen(n)
  PROVE  Alive(n)'
<1> DEFINE k == KeyOf[n]
<1>1. /\ k \in Keys /\ now \in Nat /\ heard[k] \in Option(Nat)
      /\ reader[n] \in Task /\ streak[n] \in Option(Nat)
      /\ heard[k] # None => heard[k] <= now
      /\ Alive(n) /\ Due(n) \in Nat
      /\ MarkInterval \in Nat /\ DrainSleep \in Nat
  BY ReaderAssumption DEF TypeOK, RInv, AInv, InOrder, Due, Task
<1>2. /\ Due(n)' = Due(n) /\ (Resting(n)' <=> Resting(n))
      /\ (Promised(n)' <=> Promised(n)) /\ (Fed(n)' <=> Fed(n))
      /\ (IsOpen(n)' <=> IsOpen(n))
  BY DEF Due, Resting, Promised, Pending, Fed, IsOpen
<1>3. CASE ~IsOpen(n)
  BY <1>1, <1>2, <1>3 DEF Alive
<1>4. CASE heard'[k] = heard[k]
  BY <1>1, <1>2, <1>4 DEF Alive, Sending, Attended
<1>5. CASE heard'[k] = now
  <2>1. heard[k] # None => heard[k] \in Nat /\ heard[k] <= heard'[k]
    BY <1>1, <1>5 DEF Option
  <2>2. heard'[k] # None /\ heard'[k] \in Nat
    BY <1>1, <1>5, ConstantsAssumption
  <2>3. Attended(n) => Attended(n)'
    BY <1>1, <1>2, <2>1, <2>2 DEF Attended
  <2>4. streak'[n] # None => IsOpen(n)' /\ Sending(n)'
    BY <1>1, <1>2, <2>3 DEF Alive, Sending
  <2>5. reader[n].last_mark # None =>
          reader[n].last_mark \in Nat /\ reader[n].last_mark <= heard'[k]
    BY <1>1, <2>1, <2>2 DEF Alive, Task, Option
  <2> QED
    BY <1>1, <1>2, <2>2, <2>4, <2>5 DEF Alive
<1> QED
  BY <1>3, <1>4, <1>5

\* A controller is heard now, and rewound by resumes handled later.
LEMMA OrderKept ==
  ASSUME TypeOK, AInv, [Next]_vars
  PROVE  \A k \in Keys : InOrder(k)'
<1> USE DEF history, clocks
<1>1. now \in Nat /\ \A k \in Keys : InOrder(k)
  BY DEF TypeOK, AInv
<1>2. ASSUME UNCHANGED <<heard, rewound>>, now' = now \/ now' = now + 1
      PROVE  \A k \in Keys : InOrder(k)'
  <2> SUFFICES ASSUME NEW k \in Keys, heard[k] # None
               PROVE  /\ heard[k] <= now'
                      /\ rewound[k] # None => heard[k] <= rewound[k]
    BY <1>2 DEF InOrder
  <2>1. heard[k] \in Nat
    BY DEF TypeOK, Option
  <2> QED
    BY <1>1, <1>2, <2>1 DEF InOrder
<1>3. ASSUME NEW k \in Keys,
             \/ MarkTraffic(k)
             \/ \E b \in Readings : UpdateBattery(k, b)
      PROVE  \A j \in Keys : InOrder(j)'
  <2>1. Hear(k) /\ UNCHANGED now
    BY <1>3 DEF UpdateBattery, MarkTraffic
  <2>2. ASSUME NEW j \in Keys PROVE InOrder(j)'
    <3>1. CASE j = k
      BY <1>1, <2>1, <3>1 DEF Hear, InOrder, TypeOK
    <3>2. CASE j # k
      BY <1>1, <2>1, <3>2 DEF Hear, InOrder, TypeOK
    <3> QED
      BY <3>1, <3>2
  <2> QED
    BY <2>2
<1>4. ASSUME NEW k \in Keys, Release(k)
      PROVE  \A j \in Keys : InOrder(j)'
  <2>1. UNCHANGED now
    BY <1>4 DEF Release
  <2>2. CASE Unhear(k)
    <3>1. \A j \in Keys : \/ heard'[j] = None
                          \/ heard'[j] = heard[j] /\ rewound'[j] = rewound[j]
      BY <2>2 DEF Unhear, TypeOK
    <3> QED
      BY <1>1, <2>1, <3>1 DEF InOrder
  <2>3. CASE UNCHANGED history
    BY <1>2, <2>1, <2>3
  <2> QED
    BY <1>4, <2>2, <2>3 DEF Release
<1>5. CASE NoteResume
  <2> SUFFICES ASSUME NEW k \in Keys, heard[k] # None
               PROVE  /\ heard[k] <= now
                      /\ rewound'[k] # None => heard[k] <= rewound'[k]
    BY <1>5 DEF NoteResume, InOrder
  <2>1. rewound'[k] = now \/ rewound'[k] = rewound[k]
    BY <1>5 DEF NoteResume
  <2> QED
    BY <1>1, <2>1 DEF InOrder
<1>6. CASE \/ \E k \in Keys : Acquire(k)
           \/ SweeperArm \/ SweeperNotified \/ SweeperFire
           \/ Tick \/ MissResume
           \/ \E duration \in 1..MaxAsleep : Suspend(duration)
           \/ UNCHANGED vars
  <2>1. UNCHANGED <<heard, rewound>> /\ (now' = now \/ now' = now + 1)
    BY <1>6 DEF Acquire, SweeperArm, SweeperNotified, SweeperFire, Tick,
                MissResume, Suspend, vars
  <2> QED
    BY <1>2, <2>1
<1> QED
  BY <1>3, <1>4, <1>5, <1>6 DEF Next

\* One task moves on and its controller is heard now or as before.
LEMMA AliveOn ==
  ASSUME TypeOK, RInv, CInv, AInv, NEW n \in Nodes, NEW t, NEW q,
         UNCHANGED now,
         reader' = [reader EXCEPT ![n] = t],
         queue' = [queue EXCEPT ![n] = q],
         UNCHANGED streak \/ streak' = [streak EXCEPT ![n] = None],
         \A m \in Nodes \ {n} :
           \/ heard'[KeyOf[m]] = heard[KeyOf[m]]
           \/ heard'[KeyOf[m]] = now
           \/ ~IsOpen(m),
         \A k \in Keys : InOrder(k)',
         Alive(n)'
  PROVE  AInv'
<1>1. streak' \in [Nodes -> Option(Nat)]
  BY DEF AInv, Option
<1>2. ASSUME NEW m \in Nodes, m # n PROVE Alive(m)'
  <2>1. /\ reader'[m] = reader[m] /\ queue'[m] = queue[m]
        /\ streak'[m] = streak[m]
    BY <1>2 DEF RInv, CInv, AInv
  <2> QED
    BY <1>2, <2>1, StaysAlive
<1> QED
  BY <1>1, <1>2 DEF AInv

\* A node that ends has nothing to keep; the others are heard as before.
LEMMA EndAlive ==
  ASSUME TypeOK, RInv, RefsAreReaders, CInv, AInv, NEW n \in Nodes,
         IsOpen(n), NEW at \in {"closed", "failed"}, End(n, at),
         UNCHANGED now, \A k \in Keys : InOrder(k)'
  PROVE  AInv'
<1> DEFINE c == KeyOf[n]
<1>1. /\ c \in Keys /\ Release(c)
      /\ reader' = [reader EXCEPT ![n] = NoTask(at)]
      /\ queue' = [queue EXCEPT ![n] = <<>>]
      /\ streak' = [streak EXCEPT ![n] = None]
  BY ReaderAssumption DEF End, Unguard
<1>2. ASSUME NEW m \in Nodes \ {n}, IsOpen(m)
      PROVE  heard'[KeyOf[m]] = heard[KeyOf[m]]
  <2>1. CASE inner[c].refs = 1
    <3>1. KeyOf[m] # c
      BY <1>2, <2>1, TwoReaders
    <3>2. heard' = [heard EXCEPT ![c] = None]
      BY <1>1, <2>1 DEF Release, Unhear
    <3> QED
      BY <3>1, <3>2, ReaderAssumption DEF TypeOK
  <2>2. CASE inner[c].refs # 1
    BY <1>1, <2>2 DEF Release, history
  <2> QED
    BY <2>1, <2>2
<1>3. Alive(n)'
  <2>1. reader'[n].last_mark = None /\ streak'[n] = None
    BY <1>1 DEF RInv, AInv, NoTask
  <2> QED
    BY <2>1 DEF Alive
<1> QED
  BY <1>1, <1>2, <1>3, AliveOn

\* Every report read leaves its controller heard within a mark interval.
LEMMA HandleHeard ==
  ASSUME TypeOK, RInv, AInv, NEW n \in Nodes, NEW report,
         Handle(n, report), UNCHANGED now
  PROVE  LET k == KeyOf[n] IN
         /\ reader'[n].at = "draining" /\ reader'[n].drained
         /\ IsOpen(n)'
         /\ UNCHANGED heard \/ heard' = [heard EXCEPT ![k] = now]
         /\ reader'[n].last_mark # None =>
              /\ heard'[k] # None
              /\ reader'[n].last_mark <= heard'[k]
         /\ report \in SignsOfLife =>
              heard'[k] # None /\ now <= heard'[k] + MarkInterval
<1> DEFINE k == KeyOf[n]
           t == reader[n]
<1>1. /\ k \in Keys /\ now \in Nat /\ now # None /\ MarkInterval \in Nat
      /\ t.last_mark \in Option(Nat)
      /\ t.last_mark # None => /\ heard[k] \in Nat /\ heard[k] <= now
                               /\ t.last_mark \in Nat
                               /\ t.last_mark <= heard[k]
  BY ReaderAssumption, ConstantsAssumption
     DEF TypeOK, RInv, AInv, Alive, InOrder, Task, Option
<1>2. /\ reader'[n].at = "draining" /\ reader'[n].drained
      /\ IsOpen(n)'
  BY DEF Handle, Read, RInv, IsOpen
<1>3. CASE report = "Battery" /\ \E b \in Readings : UpdateBattery(k, b)
  <2>1. heard' = [heard EXCEPT ![k] = now]
    BY <1>3 DEF UpdateBattery, Hear
  <2>2. reader'[n].last_mark = t.last_mark
    BY <1>3 DEF Handle, Read, RInv
  <2> QED
    BY <1>1, <1>2, <2>1, <2>2 DEF TypeOK
<1>4. CASE report = "Liveness" /\ MarkDue(t) /\ MarkTraffic(k)
  <2>1. heard' = [heard EXCEPT ![k] = now]
    BY <1>4 DEF MarkTraffic, Hear
  <2>2. reader'[n].last_mark = now
    BY <1>4 DEF Handle, Read, RInv
  <2> QED
    BY <1>1, <1>2, <2>1, <2>2 DEF TypeOK
<1>5. CASE report = "Other" \/ (report = "Liveness" /\ ~MarkDue(t))
  <2>1. UNCHANGED heard /\ reader'[n].last_mark = t.last_mark
    BY <1>5 DEF Handle, Read, RInv, vars
  <2>2. report \in SignsOfLife =>
          t.last_mark # None /\ now - t.last_mark < MarkInterval
    BY <1>1, <1>5 DEF SignsOfLife, MarkDue
  <2> QED
    BY <1>1, <1>2, <2>1, <2>2, ConstantsAssumption
<1> QED
  BY <1>3, <1>4, <1>5 DEF Handle

\* A sign of life that is not read yet stays in the queue.
LEMMA PendingTail ==
  ASSUME CInv, NEW n \in Nodes, Pending(n), queue[n] # <<>>,
         Head(queue[n]) \notin SignsOfLife, queue'[n] = Tail(queue[n])
  PROVE  Pending(n)'
<1>1. queue[n] \in Seq(Report)
  BY DEF CInv
<1>2. PICK i \in 1..Len(queue[n]) : queue[n][i] \in SignsOfLife
  BY DEF Pending
<1>3. i # 1
  BY <1>1, <1>2
<1>4. /\ i - 1 \in 1..Len(Tail(queue[n]))
      /\ Tail(queue[n])[i - 1] = queue[n][i]
  BY <1>1, <1>2, <1>3
<1> QED
  BY <1>2, <1>4 DEF Pending

LEMMA ReadAlive ==
  ASSUME TypeOK, RInv, CInv, AInv, NEW n \in Nodes, ReadReport(n),
         UNCHANGED now, \A k \in Keys : InOrder(k)'
  PROVE  AInv'
<1> DEFINE k == KeyOf[n]
<1>1. /\ reader[n].at = "draining" /\ queue[n] # <<>>
      /\ queue' = [queue EXCEPT ![n] = Tail(@)]
      /\ Handle(n, Head(queue[n])) /\ UNCHANGED streak
      /\ k \in Keys /\ now \in Nat /\ MarkInterval \in Nat
      /\ DrainSleep \in Nat
  BY ReaderAssumption DEF ReadReport, RInv
<1>2. PICK mark : reader' = [reader EXCEPT ![n] = Read(mark)]
  BY <1>1 DEF Handle
<1>3. /\ reader'[n].at = "draining" /\ reader'[n].drained
      /\ IsOpen(n)'
      /\ UNCHANGED heard \/ heard' = [heard EXCEPT ![k] = now]
      /\ reader'[n].last_mark # None =>
           heard'[k] # None /\ reader'[n].last_mark <= heard'[k]
      /\ Head(queue[n]) \in SignsOfLife =>
           heard'[k] # None /\ now <= heard'[k] + MarkInterval
  BY <1>1, HandleHeard
<1>4. \A m \in Nodes \ {n} : \/ heard'[KeyOf[m]] = heard[KeyOf[m]]
                             \/ heard'[KeyOf[m]] = now
  BY <1>3, ReaderAssumption DEF TypeOK
<1>5. heard[k] # None =>
        /\ heard[k] \in Nat /\ heard'[k] # None /\ heard'[k] \in Nat
        /\ heard[k] <= heard'[k]
  BY <1>1, <1>3, ConstantsAssumption DEF TypeOK, AInv, InOrder, Option
<1>6. ASSUME streak[n] # None PROVE Attended(n)'
  <2>1. Attended(n) /\ streak[n] \in Nat /\ streak'[n] = streak[n]
    BY <1>1, <1>6 DEF AInv, Alive, Sending, Option
  <2>2. Due(n) = now /\ Due(n)' = now /\ ~Resting(n)
    BY <1>1, <1>3 DEF Due, Resting
  <2>3. CASE Head(queue[n]) \in SignsOfLife
    BY <1>3, <2>3 DEF Attended
  <2>4. CASE Head(queue[n]) \notin SignsOfLife
    <3>1. queue'[n] = Tail(queue[n])
      BY <1>1 DEF CInv
    <3>2. Promised(n) => Promised(n)'
      BY <1>1, <2>2, <2>4, <3>1, PendingTail DEF Promised
    <3> QED
      BY <1>1, <1>3, <1>5, <2>1, <2>2, <3>2 DEF Attended
  <2> QED
    BY <2>3, <2>4
<1>7. streak'[n] # None => IsOpen(n)' /\ Sending(n)'
  BY <1>1, <1>3, <1>6 DEF Sending, Fed, Resting
<1>8. Alive(n)'
  BY <1>3, <1>7 DEF Alive
<1> QED
  BY <1>1, <1>2, <1>4, <1>8, AliveOn

\* A reader moves on without a report.
LEMMA MovesAlive ==
  ASSUME TypeOK, RInv, CInv, AInv, NEW n \in Nodes, NEW t,
         reader' = [reader EXCEPT ![n] = t],
         UNCHANGED <<queue, heard, now>>,
         UNCHANGED streak \/ streak' = [streak EXCEPT ![n] = None],
         t.at \in {"awaiting", "draining", "sleeping"},
         t.last_mark = None \/ t.last_mark = reader[n].last_mark,
         streak'[n] # None => Sending(n)',
         \A k \in Keys : InOrder(k)'
  PROVE  AInv'
<1>1. reader'[n] = t /\ queue = [queue EXCEPT ![n] = queue[n]]
  BY DEF RInv, CInv
<1>2. Alive(n)'
  BY <1>1 DEF AInv, Alive, IsOpen
<1> QED
  BY <1>1, <1>2, AliveOn

\* A node that sends through the tick.
LEMMA TickSending ==
  ASSUME TypeOK, RInv, CInv, AInv, NEW n \in Nodes,
         now' = now + 1, reader'[n] = reader[n],
         heard'[KeyOf[n]] = heard[KeyOf[n]],
         ReaderIdle(n), IsOpen(n),
         NEW sign \in SignsOfLife,
         queue'[n] = IF Len(queue[n]) < QueueCap
                     THEN Append(queue[n], sign) ELSE queue[n],
         streak'[n] = IF streak[n] = None THEN now' ELSE streak[n]
  PROVE  Sending(n)'
<1>1. /\ reader[n] \in Task /\ now \in Nat /\ queue[n] \in Seq(Report)
      /\ Calm(n) /\ Alive(n) /\ streak[n] \in Option(Nat)
      /\ DrainSleep \in Nat \ {0} /\ QueueCap \in Nat \ {0}
      /\ reader[n].until \in Nat /\ SignsOfLife \subseteq Report
  BY ReaderAssumption DEF RInv, CInv, AInv, Task, SignsOfLife, Report
<1>2. \/ reader[n].at = "awaiting" /\ queue[n] = <<>>
      \/ reader[n].at = "sleeping" /\ now <= reader[n].until
  BY <1>1 DEF ReaderIdle
<1>3. ~Resting(n)'
  BY <1>1, <1>2 DEF Resting, Calm
<1>4. queue'[n] # <<>>
  BY <1>1
<1>5. CASE streak[n] = None
  <2>1. Due(n)' <= now + 1 + DrainSleep
    BY <1>1, <1>2 DEF Due, Calm
  <2>2. streak'[n] = now + 1
    BY <1>5
  <2> QED
    BY <1>3, <1>4, <2>1, <2>2 DEF Sending, Fed, Attended
<1>6. CASE streak[n] # None
  <2>1. /\ streak'[n] = streak[n] /\ Fed(n) /\ Attended(n)
        /\ Resting(n) => queue[n] = <<>>
    BY <1>1, <1>6 DEF Alive, Sending
  <2>2. reader[n].at = "sleeping" /\ Due(n)' = Due(n)
    BY <1>2, <2>1 DEF Fed, Resting, Due
  <2>3. Promised(n) => Promised(n)'
    <3>1. CASE Resting(n)
      <4>1. queue[n] = <<>> /\ Len(queue[n]) = 0
        BY <2>1, <3>1
      <4>2. queue'[n] = Append(queue[n], sign)
        BY <1>1, <4>1
      <4>3. 1 \in 1..Len(queue'[n]) /\ queue'[n][1] = sign
        BY <1>1, <4>1, <4>2
      <4> QED
        BY <4>3 DEF Promised, Pending
    <3>2. CASE Pending(n)
      <4>1. PICK i \in 1..Len(queue[n]) : queue[n][i] \in SignsOfLife
        BY <3>2 DEF Pending
      <4>2. i \in 1..Len(queue'[n]) /\ queue'[n][i] = queue[n][i]
        BY <1>1, <4>1
      <4> QED
        BY <4>1, <4>2 DEF Promised, Pending
    <3> QED
      BY <3>1, <3>2 DEF Promised
  <2>4. Attended(n)'
    BY <2>1, <2>2, <2>3 DEF Attended
  <2> QED
    BY <1>3, <1>4, <2>4 DEF Sending, Fed
<1> QED
  BY <1>5, <1>6

LEMMA TickAlive ==
  ASSUME TypeOK, RInv, CInv, AInv, PassTime, \A k \in Keys : InOrder(k)'
  PROVE  AInv'
<1>1. /\ now' = now + 1 /\ now \in Nat /\ UNCHANGED <<reader, heard>>
      /\ \A n \in Nodes : ReaderIdle(n)
  BY DEF PassTime, Tick, RInv, history
<1>2. PICK report \in [Nodes -> Option(Report)] :
        /\ queue' = [n \in Nodes |->
             IF IsOpen(n) /\ report[n] # None /\ Len(queue[n]) < QueueCap
             THEN Append(queue[n], report[n]) ELSE queue[n]]
        /\ streak' = [n \in Nodes |->
             IF ~(IsOpen(n) /\ report[n] \in SignsOfLife) THEN None
             ELSE IF streak[n] = None THEN now' ELSE streak[n]]
  BY DEF PassTime
<1>3. ASSUME NEW n \in Nodes, streak'[n] # None
      PROVE  IsOpen(n)' /\ Sending(n)'
  <2>1. IsOpen(n) /\ report[n] \in SignsOfLife
    BY <1>2, <1>3
  <2>2. streak'[n] = IF streak[n] = None THEN now' ELSE streak[n]
    BY <1>2, <2>1
  <2>3. report[n] # None
    BY <2>1, ReaderAssumption DEF SignsOfLife, Report
  <2>4. queue'[n] = IF Len(queue[n]) < QueueCap
                    THEN Append(queue[n], report[n]) ELSE queue[n]
    BY <1>2, <2>1, <2>3
  <2> QED
    BY <1>1, <2>1, <2>2, <2>4, TickSending DEF IsOpen
<1>4. streak' \in [Nodes -> Option(Nat)]
  BY <1>1, <1>2 DEF AInv, Option
<1>5. ASSUME NEW n \in Nodes PROVE Alive(n)'
  BY <1>1, <1>3 DEF AInv, Alive, IsOpen
<1> QED
  BY <1>4, <1>5 DEF AInv

LEMMA AStep ==
  /\ TypeOK /\ RInv /\ RefsAreReaders /\ CInv /\ AInv
  /\ [ReaderNext]_readerVars
  => AInv'
<1> SUFFICES ASSUME TypeOK, RInv, RefsAreReaders, CInv, AInv,
                    [ReaderNext]_readerVars
             PROVE  AInv'
  OBVIOUS
<1> USE DEF traces, kernel
<1>1. ASSUME ~PassTime PROVE UNCHANGED now
  BY <1>1, ClockStands
<1>2. \A k \in Keys : InOrder(k)'
  BY StepIsNext, OrderKept
<1>3. ASSUME NEW n \in Nodes, ~PassTime,
             \/ Open(n) \/ Stop(n) \/ Readable(n)
             \/ ReadReport(n) \/ ReadError(n) \/ WouldBlock(n) \/ WakeUp(n)
      PROVE  AInv'
  <2>1. /\ UNCHANGED now /\ reader[n] \in Task /\ now \in Nat /\ Calm(n)
        /\ Alive(n) /\ streak[n] \in Option(Nat)
        /\ reader[n].until \in Nat /\ Due(n) \in Nat
        /\ DrainSleep \in Nat \ {0} /\ MarkInterval \in Nat
    BY <1>1, <1>3, ReaderAssumption DEF RInv, CInv, AInv, Task, Due
  <2>2. CASE Open(n)
    <3>1. /\ reader' = [reader EXCEPT ![n] = NoTask("awaiting")]
          /\ UNCHANGED <<queue, heard, streak>> /\ ~IsOpen(n)
      BY <2>2 DEF Open, Acquire, history
    <3>2. NoTask("awaiting").at = "awaiting"
          /\ NoTask("awaiting").last_mark = None
      BY DEF NoTask
    <3>3. streak'[n] = None
      BY <2>1, <3>1 DEF Alive
    <3> QED
      BY <1>2, <2>1, <3>1, <3>2, <3>3, MovesAlive
  <2>3. CASE Stop(n)
    BY <1>2, <2>1, <2>3, EndAlive DEF Stop
  <2>4. CASE Readable(n)
    <3> DEFINE t == Onto(reader[n], "draining", 0, TRUE)
    <3>1. /\ reader' = [reader EXCEPT ![n] = t]
          /\ UNCHANGED <<queue, heard, streak>>
          /\ reader[n].at = "awaiting"
      BY <2>4 DEF Readable, vars
    <3>2. t.at = "draining" /\ t.last_mark = reader[n].last_mark
      BY DEF Onto
    <3>3. /\ reader'[n].at = "draining" /\ Due(n)' = Due(n)
          /\ ~Resting(n) /\ ~Resting(n)' /\ (Pending(n)' <=> Pending(n))
      BY <2>1, <3>1, <3>2 DEF Due, Resting, Pending, RInv
    <3>4. ASSUME streak'[n] # None PROVE Sending(n)'
      BY <2>1, <3>1, <3>3, <3>4
         DEF Alive, Sending, Fed, Attended, Promised
    <3> HIDE DEF t
    <3> QED
      BY <1>2, <2>1, <3>1, <3>2, <3>4, MovesAlive
  <2>5. CASE ReadReport(n)
    BY <1>2, <2>1, <2>5, ReadAlive
  <2>6. CASE ReadError(n) /\ TooMany(reader[n].consecutive_errors + 1)
    BY <1>2, <2>1, <2>6, EndAlive DEF ReadError, IsOpen
  <2>7. CASE ReadError(n) /\ ~TooMany(reader[n].consecutive_errors + 1)
    <3>1. /\ reader' = [reader EXCEPT ![n] = Fail(reader[n])]
          /\ UNCHANGED <<queue, heard>>
          /\ streak' = [streak EXCEPT ![n] = None]
      BY <2>7 DEF ReadError, vars
    <3>2. /\ Fail(reader[n]).at = "sleeping"
          /\ Fail(reader[n]).last_mark = reader[n].last_mark
      BY DEF Fail
    <3>3. streak'[n] = None
      BY <3>1 DEF AInv
    <3> QED
      BY <1>2, <2>1, <3>1, <3>2, <3>3, MovesAlive
  <2>8. CASE WouldBlock(n)
    <3>1. /\ reader' = [reader EXCEPT ![n] = Drained(reader[n])]
          /\ UNCHANGED <<queue, heard, streak>> /\ queue[n] = <<>>
          /\ reader[n].at = "draining"
      BY <2>8 DEF WouldBlock, vars
    <3>2. /\ Drained(reader[n]).at \in {"awaiting", "sleeping"}
          /\ Drained(reader[n]).last_mark = reader[n].last_mark
      BY DEF Drained, Onto
    <3>3. ASSUME streak'[n] # None PROVE Sending(n)'
      <4>1. Fed(n) /\ Attended(n) /\ streak[n] \in Nat
        BY <2>1, <3>1, <3>3 DEF Alive, Sending, Option
      <4>2. ~Resting(n) /\ ~Pending(n) /\ Due(n) = now
        BY <3>1 DEF Resting, Pending, Due
      <4>3. reader[n].drained
        BY <3>1, <4>1, <4>2 DEF Fed
      <4>4. reader'[n].at = "sleeping" /\ reader'[n].until = now + DrainSleep
        BY <3>1, <4>3 DEF Drained, Onto, RInv
      <4>5. Resting(n)' /\ Promised(n)' /\ Due(n)' = now + DrainSleep + 1
        BY <2>1, <4>4 DEF Resting, Promised, Due
      <4>6. heard[KeyOf[n]] # None => heard[KeyOf[n]] \in Nat
        BY ReaderAssumption DEF TypeOK, Option
      <4>7. \/ now <= streak[n] + DrainSleep
            \/ /\ heard[KeyOf[n]] # None
               /\ now <= heard[KeyOf[n]] + MarkInterval
        BY <4>1, <4>2 DEF Attended, Promised
      <4>8. Attended(n)'
        BY <2>1, <3>1, <4>1, <4>5, <4>6, <4>7 DEF Attended
      <4> QED
        BY <3>1, <4>5, <4>8 DEF Sending, Fed
    <3> QED
      BY <1>2, <2>1, <3>1, <3>2, <3>3, MovesAlive
  <2>9. CASE WakeUp(n)
    <3> DEFINE t == Onto(reader[n], "awaiting", 0, reader[n].ready)
    <3>1. /\ reader' = [reader EXCEPT ![n] = t]
          /\ UNCHANGED <<queue, heard, streak>>
          /\ reader[n].at = "sleeping" /\ now >= reader[n].until
      BY <2>9 DEF WakeUp, vars
    <3>2. t.at = "awaiting" /\ t.last_mark = reader[n].last_mark
      BY DEF Onto
    <3>3. /\ reader'[n].at = "awaiting" /\ Due(n)' = now
          /\ ~Resting(n) /\ ~Resting(n)' /\ (Pending(n)' <=> Pending(n))
          /\ now <= Due(n)
      BY <2>1, <3>1, <3>2 DEF Due, Resting, Pending, RInv, Calm
    <3>4. ASSUME streak'[n] # None PROVE Sending(n)'
      <4>1. Fed(n) /\ Attended(n) /\ streak[n] \in Nat
        BY <2>1, <3>1, <3>4 DEF Alive, Sending, Option
      <4>2. heard[KeyOf[n]] # None => heard[KeyOf[n]] \in Nat
        BY ReaderAssumption DEF TypeOK, Option
      <4>3. Attended(n)'
        BY <2>1, <3>1, <3>3, <4>1, <4>2 DEF Attended, Promised
      <4> QED
        BY <3>1, <3>3, <4>1, <4>3 DEF Sending, Fed
    <3> HIDE DEF t
    <3> QED
      BY <1>2, <2>1, <3>1, <3>2, <3>4, MovesAlive
  <2> QED
    BY <1>3, <2>2, <2>3, <2>4, <2>5, <2>6, <2>7, <2>8, <2>9
<1>4. CASE /\ ~PassTime
           /\ \/ HandleResume \/ LoseResume \/ Others
              \/ \E duration \in 1..MaxAsleep : FallAsleep(duration)
              \/ UNCHANGED readerVars
  <2>1. UNCHANGED <<reader, queue, streak, heard, now>>
    BY <1>1, <1>4 DEF HandleResume, LoseResume, Others, FallAsleep, NoteResume,
                      MissResume, SweeperArm, SweeperNotified, SweeperFire,
                      Suspend, history, readerVars, vars
  <2>2. \A n \in Nodes : Alive(n)'
    BY <2>1, StaysAlive
  <2> QED
    BY <1>2, <2>1, <2>2 DEF AInv
<1> QED
  BY <1>2, <1>3, <1>4, TickAlive, Zenon DEF ReaderNext

LEMMA AInitial == ReaderInit => AInv
<1> SUFFICES ASSUME ReaderInit PROVE AInv
  OBVIOUS
<1>1. NoTask("closed").last_mark = None
  BY DEF NoTask
<1> QED
  BY <1>1 DEF ReaderInit, Init, AInv, Alive, InOrder, Option

LEMMA AAlways == ReaderSpec => []AInv
  BY AInitial, AStep, RAlways, TAlways, KAlways, CAlways, PTL DEF ReaderSpec

\* A node that has sent for long enough has been heard lately.
LEMMA HeardLately ==
  ASSUME TypeOK, RInv, CInv, AInv, DrainSleep <= MarkInterval,
         NEW n \in Nodes, streak[n] # None,
         heard[KeyOf[n]] \in Nat,
         now - streak[n] > MarkInterval + DrainSleep + 1
  PROVE  now <= heard[KeyOf[n]] + MarkInterval + DrainSleep + 1
<1>1. /\ Attended(n) /\ streak[n] \in Nat /\ now \in Nat /\ Calm(n)
      /\ reader[n].until \in Nat
      /\ DrainSleep \in Nat \ {0} /\ MarkInterval \in Nat
  BY ReaderAssumption DEF AInv, Alive, Sending, RInv, CInv, Task, Option
<1>2. Due(n) \in Nat /\ now <= Due(n)
  BY <1>1 DEF Due, Calm
<1> QED
  BY <1>1, <1>2 DEF Attended

(* state.rs:30-39: for any windows the const assertion admits, with marks  *)
(* no more frequent than drains, no controller that sends is dropped.      *)
THEOREM AliveIsNeverDropped ==
  ASSUME DrainSleep <= MarkInterval
  PROVE  ReaderSpec => AliveStaysConnected
<1> DEFINE Silent == \A k \in Keys :
             inner[k].connected /\ ~inner'[k].connected /\ inner'[k].refs > 0
               => \/ now - heard[k] > StaleAfter
                  \/ rewound[k] # None /\ now - rewound[k] > ResumeGrace
           Remain == \A n \in Nodes :
             LET k == KeyOf[n] IN
             /\ inner[k].connected /\ ~inner'[k].connected /\ inner'[k].refs > 0
             /\ streak[n] # None
             => now - streak[n] <= MarkInterval + DrainSleep + 1
<1>1. TypeOK /\ ConnectedIsFresh /\ RInv /\ CInv /\ AInv /\ [Silent]_vars
        => [Remain]_readerVars
  <2> SUFFICES ASSUME TypeOK, ConnectedIsFresh, RInv, CInv, AInv,
                      [Silent]_vars, NEW n \in Nodes,
                      inner[KeyOf[n]].connected, ~inner'[KeyOf[n]].connected,
                      inner'[KeyOf[n]].refs > 0, streak[n] # None,
                      now - streak[n] > MarkInterval + DrainSleep + 1
               PROVE  FALSE
    <3>1. ASSUME TypeOK, AInv, NEW n \in Nodes, streak[n] # None
          PROVE  now - streak[n] \in Int
      BY <3>1 DEF AInv, TypeOK, Option
    <3>2. MarkInterval + DrainSleep + 1 \in Int
      BY ReaderAssumption
    <3> QED
      BY <3>1, <3>2
  <2> DEFINE k == KeyOf[n]
  <2>1. /\ k \in Keys /\ heard[k] \in Nat /\ now \in Nat
        /\ heard[k] <= now
        /\ rewound[k] # None => rewound[k] \in Nat /\ heard[k] <= rewound[k]
    BY ReaderAssumption, ConstantsAssumption
       DEF ConnectedIsFresh, Connected, TypeOK, AInv, InOrder, Option
  <2>2. \/ now - heard[k] > StaleAfter
        \/ rewound[k] # None /\ now - rewound[k] > ResumeGrace
    BY <2>1 DEF vars
  <2>3. now - heard[k] > ResumeGrace
    BY <2>1, <2>2, ConstantsAssumption
  <2>4. now <= heard[k] + MarkInterval + DrainSleep + 1
    BY <2>1, HeardLately
  <2> QED
    BY <2>1, <2>3, <2>4, RetunedTogether, ReaderAssumption,
       ConstantsAssumption
<1>2. ReaderSpec => [][Silent]_vars
  BY ReaderImplementsRegistry, SilenceOnly, PTL DEF DroppedOnlyWhenSilent
<1> QED
  BY <1>1, <1>2, TAlways, ConnectedUnderReaders, RAlways, CAlways, AAlways,
     PTL DEF AliveStaysConnected

-----------------------------------------------------------------------------
(* Types *)

\* What the invariants above leave open.
Limits ==
  /\ faults \in 0..MaxFaults
  /\ silent \in [Keys -> Option(Nat)]
  /\ \A n \in Nodes : Len(queue[n]) <= QueueCap
  /\ \A n, m \in Nodes :
       reader[n].at = "draining" /\ reader[m].at = "draining" => n = m

LEMMA LimitsStep ==
  TypeOK /\ RInv /\ CInv /\ Limits /\ [ReaderNext]_readerVars => Limits'
<1> SUFFICES ASSUME TypeOK, RInv, CInv, Limits, [ReaderNext]_readerVars
             PROVE  Limits'
  OBVIOUS
<1> USE DEF traces, kernel
<1>1. now \in Nat /\ QueueCap \in Nat \ {0} /\ MaxFaults \in Nat
  BY ReaderAssumption DEF TypeOK
<1>2. ASSUME NEW n \in Nodes,
             \/ Open(n) \/ Stop(n) \/ Readable(n)
             \/ ReadReport(n) \/ ReadError(n) \/ WouldBlock(n) \/ WakeUp(n)
      PROVE  Limits'
  <2>1. faults' \in 0..MaxFaults
    <3>1. \/ UNCHANGED faults
          \/ faults < MaxFaults /\ faults' = faults + 1
      BY <1>2 DEF Open, Stop, Readable, ReadReport, ReadError, WouldBlock,
                  WakeUp
    <3> QED
      BY <1>1, <3>1 DEF Limits
  <2>2. UNCHANGED silent
    BY <1>2 DEF Open, Stop, Readable, ReadReport, ReadError, WouldBlock,
                WakeUp, End
  <2>3. \/ UNCHANGED queue
        \/ queue' = [queue EXCEPT ![n] = <<>>]
        \/ queue[n] # <<>> /\ queue' = [queue EXCEPT ![n] = Tail(@)]
    BY <1>2 DEF Open, Stop, Readable, ReadReport, ReadError, WouldBlock,
                WakeUp, End
  <2>4. ASSUME NEW m \in Nodes PROVE Len(queue'[m]) <= QueueCap
    <3>1. queue[m] \in Seq(Report) /\ Len(queue[m]) <= QueueCap
      BY DEF CInv, Limits
    <3>2. CASE UNCHANGED queue \/ m # n
      BY <2>3, <3>1, <3>2 DEF CInv
    <3>3. CASE m = n /\ queue' = [queue EXCEPT ![n] = <<>>]
      BY <1>1, <3>3 DEF CInv
    <3>4. CASE /\ m = n /\ queue[n] # <<>>
               /\ queue' = [queue EXCEPT ![n] = Tail(@)]
      <4>1. queue'[m] = Tail(queue[m])
        BY <3>4 DEF CInv
      <4>2. Len(Tail(queue[m])) = Len(queue[m]) - 1
        BY <3>1, <3>4
      <4> QED
        BY <1>1, <3>1, <4>1, <4>2
    <3> QED
      BY <2>3, <3>2, <3>3, <3>4
  <2>5. PICK t : reader' = [reader EXCEPT ![n] = t]
    BY <1>2 DEF Open, Stop, Readable, ReadReport, Handle, ReadError,
                WouldBlock, WakeUp, End
  <2>6. \/ reader'[n].at # "draining"
        \/ reader[n].at = "draining"
        \/ Yielded
    BY <1>2 DEF Open, Stop, Readable, ReadReport, ReadError, WouldBlock,
                WakeUp, End
  <2>7. ASSUME NEW m \in Nodes, NEW j \in Nodes,
               reader'[m].at = "draining", reader'[j].at = "draining"
        PROVE  m = j
    BY <2>5, <2>6, <2>7 DEF RInv, Yielded, Limits
  <2> QED
    BY <2>1, <2>2, <2>4, <2>7 DEF Limits
<1>3. CASE PassTime
  <2>1. UNCHANGED <<reader, faults>> /\ now' \in Nat
    BY <1>1, <1>3 DEF PassTime, Tick
  <2>2. silent' \in [Keys -> Option(Nat)]
    BY <1>3 DEF PassTime, Limits, Option
  <2>3. ASSUME NEW n \in Nodes PROVE Len(queue'[n]) <= QueueCap
    <3>1. queue[n] \in Seq(Report) /\ Len(queue[n]) <= QueueCap
      BY DEF CInv, Limits
    <3>2. \/ queue'[n] = queue[n]
          \/ /\ Len(queue[n]) < QueueCap
             /\ \E report \in Report : queue'[n] = Append(queue[n], report)
      BY <1>3 DEF PassTime, Option
    <3> QED
      BY <1>1, <3>1, <3>2
  <2> QED
    BY <2>1, <2>2, <2>3 DEF Limits
<1>4. CASE \/ HandleResume \/ LoseResume \/ Others
           \/ \E duration \in 1..MaxAsleep : FallAsleep(duration)
           \/ UNCHANGED readerVars
  <2>1. UNCHANGED <<reader, queue, faults>>
    BY <1>4 DEF HandleResume, LoseResume, Others, FallAsleep, readerVars
  <2>2. silent' \in [Keys -> Option(Nat)]
    BY <1>1, <1>4 DEF HandleResume, LoseResume, Others, FallAsleep,
                      readerVars, Limits, Option
  <2> QED
    BY <2>1, <2>2 DEF Limits
<1> QED
  BY <1>2, <1>3, <1>4, Zenon DEF ReaderNext

(* Reports, clocks and counters keep their types and the queues their      *)
(* capacity, and no two readers are in the middle of a drain.              *)
THEOREM ReaderTypeCorrect == ReaderSpec => []ReaderTypeOK
<1>1. ReaderInit => Limits
  BY ReaderAssumption DEF ReaderInit, Limits, Option, NoTask
<1>2. RInv /\ CInv /\ HInv /\ AInv /\ Limits => ReaderTypeOK
  BY DEF RInv, CInv, HInv, AInv, Limits, ReaderTypeOK
<1>3. ReaderSpec => []Limits
  BY <1>1, LimitsStep, TAlways, RAlways, CAlways, PTL DEF ReaderSpec
<1> QED
  BY <1>2, <1>3, RAlways, CAlways, HAlways, AAlways, PTL
=============================================================================
