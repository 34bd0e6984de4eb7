------------------------------ MODULE Registry ------------------------------
(***************************************************************************)
(* The device registry of steambatteryd (daemon/src/state.rs) with the two *)
(* tasks that drive it by time: the staleness sweeper (daemon/src/main.rs) *)
(* and the resume watcher (daemon/src/suspend.rs).                         *)
(*                                                                         *)
(* Every operation runs under the registry's lock on one thread, so each   *)
(* is one step.  What interleaves is their order, the sweeper being        *)
(* suspended at an await, the passing of time, and system suspends, during *)
(* which the monotonic clock stands still and the wall clock does not.     *)
(*                                                                         *)
(* Time is counted in ticks.  A ready sweeper runs before the next tick,   *)
(* but a timer that expires in this tick may still be served in the next.  *)
(* Instants start at StaleAfter, so that note_resume's `checked_sub` never *)
(* goes below zero; it never fails on Linux, whose Instants are signed.    *)
(***************************************************************************)
EXTENDS Integers, FiniteSets

CONSTANTS
  Keys,        \* logical controllers
  Fields,      \* the analog telemetry fields of a BatteryStatus
  Deadband,    \* publish deadband of each analog field
  Readings,    \* the battery reports that may arrive
  None,        \* Option::None
  StaleAfter,  \* STALE_AFTER, in ticks
  ResumeGrace, \* RESUME_GRACE, in ticks
  MaxRefs,     \* bound: readers of one controller
  MaxNow,      \* bound: the monotonic clock
  MaxAsleep    \* bound: time spent suspended

\* protocol::BatteryStatus, analog fields by name.
BatteryStatus == [charge_state : Nat, level : Nat, analog : [Fields -> Nat]]

ASSUME ConstantsAssumption ==
  /\ Readings \subseteq BatteryStatus
  /\ Deadband \in [Fields -> Nat \ {0}]
  /\ None \notin Readings \cup Nat
  /\ StaleAfter \in Nat /\ ResumeGrace \in Nat
  /\ ResumeGrace < StaleAfter
  /\ MaxRefs \in Nat /\ MaxNow \in Nat /\ MaxAsleep \in Nat

VARIABLES
  inner,     \* Registry::inner; an entry with no refs is no entry
  published, \* the watch channel's value, by key
  permit,    \* Registry::sweep_notify holds a permit
  sweeper,   \* the sweeper task: where it is and its timer's deadline
  now,       \* the monotonic clock, Instant::now()
  asleep,    \* time spent suspended: SystemTime::now() is now + asleep
  resuming,  \* logind has announced a resume not handled yet
  heard,     \* history: instant of the last report of each entry
  heardWall, \* history: its wall-clock time
  reported,  \* history: the last battery report of each entry
  rewound    \* history: first resume handled since the last report

devices == <<inner, published>>
clocks == <<now, asleep>>
history == <<heard, heardWall, reported, rewound>>
vars == <<inner, published, permit, sweeper, now, asleep, resuming, heard,
          heardWall, reported, rewound>>

Option(S) == S \cup {None}
Wall == now + asleep

-----------------------------------------------------------------------------
(* Entries, snapshots and publishing *)

Entry == [refs : Nat, connected : BOOLEAN, battery : Option(Readings),
          last_updated : Option(Nat), last_seen : Option(Nat)]

Absent == [refs |-> 0, connected |-> FALSE, battery |-> None,
           last_updated |-> None, last_seen |-> None]

\* A DeviceSnapshot; a key without one is not in the published list.
Snapshot(e) == [present |-> e.refs > 0, connected |-> e.connected,
                battery |-> e.battery, last_updated |-> e.last_updated]

\* Registry::publish, after `inner` has been updated.
Publish == published' = [k \in Keys |-> Snapshot(inner'[k])]

AbsDiff(a, b) == IF a >= b THEN a - b ELSE b - a

\* Mutant of Significant: any difference is worth a signal.
SignificantAlways(old, new) == old # new

\* state::significant
Significant(old, new) ==
  \/ old.charge_state # new.charge_state
  \/ old.level # new.level
  \/ \E f \in Fields : AbsDiff(old.analog[f], new.analog[f]) >= Deadband[f]

\* An entry that has just been heard.
Seen(e, battery, updated) ==
  [refs |-> e.refs, connected |-> TRUE, battery |-> battery,
   last_updated |-> updated, last_seen |-> now]

Hear(k) ==
  /\ heard' = [heard EXCEPT ![k] = now]
  /\ heardWall' = [heardWall EXCEPT ![k] = Wall]
  /\ rewound' = [rewound EXCEPT ![k] = None]

Unhear(k) ==
  /\ heard' = [heard EXCEPT ![k] = None]
  /\ heardWall' = [heardWall EXCEPT ![k] = None]
  /\ rewound' = [rewound EXCEPT ![k] = None]
  /\ reported' = [reported EXCEPT ![k] = None]

-----------------------------------------------------------------------------
(* Operations of the readers *)

WithRefs(e, refs) ==
  [refs |-> refs, connected |-> e.connected, battery |-> e.battery,
   last_updated |-> e.last_updated, last_seen |-> e.last_seen]

\* Registry::acquire
Acquire(k) ==
  /\ inner[k].refs < MaxRefs
  /\ inner' = [inner EXCEPT ![k] = WithRefs(inner[k], inner[k].refs + 1)]
  /\ IF inner[k].refs = 0 THEN Publish ELSE UNCHANGED published
  /\ UNCHANGED <<permit, sweeper, clocks, resuming, history>>

\* Mutant of Release: the last reader leaves its entry behind.
ReleaseKeepingEntry(k) ==
  /\ inner[k].refs > 0
  /\ inner' = [inner EXCEPT ![k] = WithRefs(inner[k], inner[k].refs - 1)]
  /\ Publish
  /\ UNCHANGED <<history, permit, sweeper, clocks, resuming>>

\* Registry::release
Release(k) ==
  /\ inner[k].refs > 0
  /\ IF inner[k].refs = 1
     THEN inner' = [inner EXCEPT ![k] = Absent] /\ Publish /\ Unhear(k)
     ELSE /\ inner' = [inner EXCEPT ![k] =
                         WithRefs(inner[k], inner[k].refs - 1)]
          /\ UNCHANGED <<published, history>>
  /\ UNCHANGED <<permit, sweeper, clocks, resuming>>

\* Registry::mark_traffic
MarkTraffic(k) ==
  /\ inner[k].refs > 0
  /\ inner' = [inner EXCEPT ![k] =
                 Seen(inner[k], inner[k].battery, inner[k].last_updated)]
  /\ IF inner[k].connected
     THEN UNCHANGED <<published, permit>>
     ELSE Publish /\ permit' = TRUE
  /\ Hear(k)
  /\ UNCHANGED <<sweeper, clocks, resuming, reported>>

\* Mutant of UpdateBattery: jitter re-anchors the deadband unpublished.
UpdateBatteryReanchoring(k, b) ==
  LET e == inner[k] IN
  /\ e.refs > 0
  /\ inner' = [inner EXCEPT ![k] = Seen(e, b, Wall)]
  /\ IF \/ ~e.connected
        \/ e.battery = None
        \/ e.battery # None /\ Significant(e.battery, b)
     THEN Publish
     ELSE UNCHANGED published
  /\ permit' = (permit \/ ~e.connected)
  /\ Hear(k)
  /\ reported' = [reported EXCEPT ![k] = b]
  /\ UNCHANGED <<sweeper, clocks, resuming>>

\* Registry::update_battery
UpdateBattery(k, b) ==
  LET e == inner[k] IN
  /\ e.refs > 0
  /\ IF \/ ~e.connected
        \/ e.battery = None
        \/ e.battery # None /\ Significant(e.battery, b)
     THEN /\ inner' = [inner EXCEPT ![k] = Seen(e, b, Wall)]
          /\ Publish
          /\ permit' = (permit \/ ~e.connected)
     ELSE /\ inner' = [inner EXCEPT ![k] =
                         Seen(e, e.battery, e.last_updated)]
          /\ UNCHANGED <<published, permit>>
  /\ Hear(k)
  /\ reported' = [reported EXCEPT ![k] = b]
  /\ UNCHANGED <<sweeper, clocks, resuming>>

-----------------------------------------------------------------------------
(* The staleness sweeper *)

Connected == {k \in Keys : inner[k].connected}

Deadline(k) ==
  IF inner[k].last_seen = None THEN now ELSE inner[k].last_seen + StaleAfter

\* Mutant of SweeperArm: the timer is set for the latest deadline.
SweeperArmLatest ==
  /\ sweeper.at = "computing"
  /\ \/ /\ Connected = {}
        /\ sweeper' = [at |-> "parked", deadline |-> 0]
     \/ \E k \in Connected :
          /\ \A j \in Connected : Deadline(j) <= Deadline(k)
          /\ sweeper' = [at |-> "timer", deadline |-> Deadline(k)]
  /\ UNCHANGED <<devices, permit, clocks, resuming, history>>

\* Registry::next_deadline, then the await it leads to.
SweeperArm ==
  /\ sweeper.at = "computing"
  /\ \/ /\ Connected = {}
        /\ sweeper' = [at |-> "parked", deadline |-> 0]
     \/ \E k \in Connected :
          /\ \A j \in Connected : Deadline(k) <= Deadline(j)
          /\ sweeper' = [at |-> "timer", deadline |-> Deadline(k)]
  /\ UNCHANGED <<devices, permit, clocks, resuming, history>>

\* Registry::sweep_notified: the permit completes the pending await.
SweeperNotified ==
  /\ sweeper.at \in {"parked", "timer"}
  /\ permit
  /\ permit' = FALSE
  /\ sweeper' = [at |-> "computing", deadline |-> 0]
  /\ UNCHANGED <<devices, clocks, resuming, history>>

\* Mutant of Stale: the boundary instant already counts as stale.
StaleAtDeadline(e) ==
  /\ e.connected
  /\ e.last_seen = None \/ (e.last_seen # None /\ now - e.last_seen >= StaleAfter)

Stale(e) ==
  /\ e.connected
  /\ e.last_seen = None \/ (e.last_seen # None /\ now - e.last_seen > StaleAfter)

\* Mutant of Disconnected: the disconnect is not stamped.
DisconnectedUnstamped(e) ==
  [refs |-> e.refs, connected |-> FALSE, battery |-> e.battery,
   last_updated |-> e.last_updated, last_seen |-> e.last_seen]

Disconnected(e) ==
  [refs |-> e.refs, connected |-> FALSE, battery |-> e.battery,
   last_updated |-> IF e.battery = None THEN e.last_updated ELSE Wall,
   last_seen |-> e.last_seen]

\* Mutant of Sweep: the disconnects are not published.
SweepUnpublished ==
  /\ inner' = [k \in Keys |-> IF Stale(inner[k]) THEN Disconnected(inner[k])
                                                 ELSE inner[k]]
  /\ UNCHANGED published

\* Registry::sweep
Sweep ==
  /\ inner' = [k \in Keys |-> IF Stale(inner[k]) THEN Disconnected(inner[k])
                                                 ELSE inner[k]]
  /\ IF \E k \in Keys : Stale(inner[k]) THEN Publish ELSE UNCHANGED published

SweeperFire ==
  /\ sweeper.at = "timer"
  /\ now >= sweeper.deadline
  /\ Sweep
  /\ sweeper' = [at |-> "computing", deadline |-> 0]
  /\ UNCHANGED <<permit, clocks, resuming, history>>

-----------------------------------------------------------------------------
(* Time, suspend and resume *)

\* The sweeper has nothing to do that cannot wait for the next tick.
SweeperIdle ==
  /\ ~permit
  /\ \/ sweeper.at = "parked"
     \/ sweeper.at = "timer" /\ now <= sweeper.deadline

Tick ==
  /\ now < MaxNow
  /\ SweeperIdle
  /\ now' = now + 1
  /\ UNCHANGED <<devices, permit, sweeper, asleep, resuming, history>>

\* The machine sleeps: only the wall clock moves.
Suspend(duration) ==
  /\ asleep + duration <= MaxAsleep
  /\ asleep' = asleep + duration
  /\ resuming' = TRUE
  /\ UNCHANGED <<devices, permit, sweeper, now, history>>

\* Mutant of Earlier: the resume does not rewind.
EarlierSwapped(a, b) == IF a <= b THEN b ELSE a

\* Instant::min
Earlier(a, b) == IF a <= b THEN a ELSE b

\* Registry::note_resume, called by suspend::watch.
NoteResume ==
  /\ resuming
  /\ resuming' = FALSE
  /\ LET cutoff == (now - StaleAfter) + ResumeGrace
         rewind(e) == [refs |-> e.refs, connected |-> e.connected,
                       battery |-> e.battery,
                       last_updated |-> e.last_updated,
                       last_seen |-> IF e.last_seen = None THEN cutoff
                                     ELSE Earlier(e.last_seen, cutoff)]
     IN inner' = [k \in Keys |-> IF inner[k].connected THEN rewind(inner[k])
                                                       ELSE inner[k]]
  /\ permit' = TRUE
  /\ rewound' = [k \in Keys |-> IF inner[k].connected /\ rewound[k] = None
                                THEN now ELSE rewound[k]]
  /\ UNCHANGED <<published, sweeper, clocks, heard, heardWall, reported>>

\* The watcher was reconnecting when logind announced the resume.
MissResume ==
  /\ resuming
  /\ resuming' = FALSE
  /\ UNCHANGED <<devices, permit, sweeper, clocks, history>>

-----------------------------------------------------------------------------
(* Specification *)

Init ==
  /\ inner = [k \in Keys |-> Absent]
  /\ published = [k \in Keys |-> Snapshot(Absent)]
  /\ permit = FALSE
  /\ sweeper = [at |-> "computing", deadline |-> 0]
  /\ now = StaleAfter
  /\ asleep = 0
  /\ resuming = FALSE
  /\ heard = [k \in Keys |-> None]
  /\ heardWall = [k \in Keys |-> None]
  /\ reported = [k \in Keys |-> None]
  /\ rewound = [k \in Keys |-> None]

Next ==
  \/ \E k \in Keys :
       \/ Acquire(k) \/ Release(k) \/ MarkTraffic(k)
       \/ \E b \in Readings : UpdateBattery(k, b)
  \/ SweeperArm \/ SweeperNotified \/ SweeperFire
  \/ Tick \/ NoteResume \/ MissResume
  \/ \E duration \in 1..MaxAsleep : Suspend(duration)

Spec == Init /\ [][Next]_vars

-----------------------------------------------------------------------------
(* Properties *)

TypeOK ==
  /\ inner \in [Keys -> Entry]
  /\ published \in [Keys -> [present : BOOLEAN, connected : BOOLEAN,
                             battery : Option(Readings),
                             last_updated : Option(Nat)]]
  /\ permit \in BOOLEAN
  /\ sweeper \in [at : {"computing", "parked", "timer"}, deadline : Nat]
  /\ now \in Nat /\ asleep \in Nat
  /\ resuming \in BOOLEAN
  /\ heard \in [Keys -> Option(Nat)]
  /\ heardWall \in [Keys -> Option(Nat)]
  /\ reported \in [Keys -> Option(Readings)]
  /\ rewound \in [Keys -> Option(Nat)]
  /\ \A k \in Keys : inner[k].refs = 0 => inner[k] = Absent

(* Every handler that changes what clients may see also publishes it, and  *)
(* the handlers that skip publishing (ref bumps, jitter, traffic of a      *)
(* connected device) change nothing visible.                               *)
PublishedIsInner == published = [k \in Keys |-> Snapshot(inner[k])]

(* state.rs:93-96: the sweeper never sleeps past a deadline.  Whenever a   *)
(* device is connected the sweeper is about to recompute or has a timer no *)
(* later than that device's deadline: a notification is missing nowhere.   *)
SweeperArmed ==
  \A k \in Connected :
    \/ permit
    \/ sweeper.at = "computing"
    \/ sweeper.at = "timer" /\ sweeper.deadline <= Deadline(k)

(* state.rs:17-21, 71: Connected means traffic within StaleAfter, give or  *)
(* take the tick in which the timer is served.                             *)
ConnectedIsFresh ==
  \A k \in Connected : heard[k] # None /\ now <= heard[k] + StaleAfter + 1

(* state.rs:23-27: a device not heard since a handled resume is dropped    *)
(* ResumeGrace after it and not StaleAfter, whatever suspends, reports and *)
(* further resumes came between.                                           *)
ResumeNoticed ==
  \A k \in Connected :
    rewound[k] # None => now <= rewound[k] + ResumeGrace + 1

(* state.rs:23-27, 237: a device is dropped for silence only, longer than  *)
(* StaleAfter or, since a resume, longer than ResumeGrace: a stale timer,  *)
(* an early notification or a second resume never cuts the window short.   *)
DroppedOnlyWhenSilent ==
  [][\A k \in Keys :
       inner[k].connected /\ ~inner'[k].connected /\ inner'[k].refs > 0 =>
         \/ now - heard[k] > StaleAfter
         \/ rewound[k] # None /\ now - rewound[k] > ResumeGrace]_vars

(* state.rs:41-46: what clients see of a reported device is never further  *)
(* than a deadband from its last report: drift in small steps cannot hide. *)
PublishedWithinDeadband ==
  \A k \in Keys :
    reported[k] # None =>
      LET shown == published[k].battery IN
      /\ shown # None
      /\ shown.level = reported[k].level
      /\ shown.charge_state = reported[k].charge_state
      /\ \A f \in Fields :
           /\ shown.analog[f] - reported[k].analog[f] < Deadband[f]
           /\ reported[k].analog[f] - shown.analog[f] < Deadband[f]

(* state.rs:41-46: jitter wakes nobody.  A connected device's battery is   *)
(* republished only with a level or state of its own or a full deadband    *)
(* away, and its timestamp moves only together with it.                    *)
NoJitter ==
  [][\A k \in Keys :
       LET old == published[k]
           new == published'[k]
       IN
       old.connected /\ new.connected /\ old.battery # None /\ old # new =>
         /\ new.battery # None
         /\ \/ old.battery.level # new.battery.level
            \/ old.battery.charge_state # new.battery.charge_state
            \/ \E f \in Fields :
                 \/ new.battery.analog[f] >= old.battery.analog[f] + Deadband[f]
                 \/ old.battery.analog[f] >= new.battery.analog[f] + Deadband[f]
    ]_vars

(* state.rs:75-79: the age clients show for a disconnected device's values *)
(* counts from no earlier than its last report, however long the values    *)
(* had been inside the deadband before.                                    *)
DisconnectStamped ==
  \A k \in Keys :
    ~published[k].connected /\ published[k].battery # None =>
      /\ published[k].last_updated # None
      /\ published[k].last_updated >= heardWall[k]

(* interface/src/lib.rs:133-136 as it stands: for a disconnected device    *)
(* LastUpdated is when its values were last known good, give or take the   *)
(* silence it takes to notice.                                             *)
StampIsLastKnownGood ==
  \A k \in Keys :
    ~published[k].connected /\ published[k].battery # None =>
      published[k].last_updated <= heardWall[k] + StaleAfter + 1

\* A snapshot is Some.
ASSUME NoneAssumption ==
  None \notin [connected : BOOLEAN, battery : Option(Readings),
               last_updated : Option(Nat)]

\* What a subscriber of the watch channel sees of k.
Visible(k) ==
  IF published[k].present
  THEN [connected |-> published[k].connected,
        battery |-> published[k].battery,
        last_updated |-> published[k].last_updated]
  ELSE None

Feed == INSTANCE Channel WITH Reports <- Readings,
                              channel <- [k \in Keys |-> Visible(k)],
                              wall <- Wall

(* state.rs:64-80, 90-97: a subscriber sees devices come unknown, be       *)
(* heard, report, fall silent and go, and what it knows of one kept until  *)
(* it goes; shared readers, jitter and resumes never show.                 *)
ImplementsChannel == Feed!Spec
=============================================================================
