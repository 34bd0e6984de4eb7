--------------------------- MODULE RegistryProofs ---------------------------
(***************************************************************************)
(* Safety of Registry for any controllers, readings, deadbands and windows.*)
(*                                                                         *)
(* The timing properties rest on one fact about `last_seen`: it is exactly *)
(* the last report's instant, or the rewound instant of the first resume   *)
(* since if that is earlier.  With it, that the sweeper is armed for every *)
(* connected device and that no connected device is overdue are inductive  *)
(* together: a tick is taken only once the sweeper sleeps on a timer that  *)
(* is not overdue.  `Sound` says all this of one key, and `IInv` of all.   *)
(***************************************************************************)
EXTENDS Registry, TLAPS

\* The instant a resume at t rewinds `last_seen` to.
Cutoff(t) == (t - StaleAfter) + ResumeGrace

\* What a connected device's `last_seen` is.
LastSeen(k) ==
  IF rewound[k] = None THEN heard[k] ELSE Earlier(heard[k], Cutoff(rewound[k]))

\* The sweeper will look at a deadline t in time.
Armed(t) ==
  \/ permit
  \/ sweeper.at = "computing"
  \/ sweeper.at = "timer" /\ sweeper.deadline <= t

\* What each entry owes its history: the instants it is judged by, the timer
\* it relies on, and the stamp of a retained battery.
Sound(k) ==
  /\ heardWall[k] # None => heardWall[k] <= Wall
  /\ inner[k].connected =>
       /\ heardWall[k] # None
       /\ heard[k] # None /\ heard[k] <= now
       /\ rewound[k] # None => rewound[k] <= now /\ rewound[k] >= StaleAfter
       /\ inner[k].last_seen = LastSeen(k)
       /\ now <= inner[k].last_seen + StaleAfter + 1
       /\ Armed(inner[k].last_seen + StaleAfter)
  /\ ~inner[k].connected /\ inner[k].battery # None =>
       /\ heardWall[k] # None /\ inner[k].last_updated # None
       /\ heardWall[k] <= inner[k].last_updated

IInv ==
  /\ TypeOK
  /\ now >= StaleAfter
  /\ PublishedIsInner
  /\ \A k \in Keys : Sound(k)

-----------------------------------------------------------------------------
(* Type correctness *)

SnapshotType == [present : BOOLEAN, connected : BOOLEAN,
                 battery : Option(Readings), last_updated : Option(Nat)]

\* A snapshot of an entry is a snapshot.
LEMMA SnapshotTyped ==
  ASSUME NEW e \in Entry PROVE Snapshot(e) \in SnapshotType
  BY DEF Entry, Snapshot, SnapshotType, Option

\* Publishing keeps the published list well typed and equal to `inner`.
LEMMA PublishTyped ==
  ASSUME inner' \in [Keys -> Entry], Publish
  PROVE  published' \in [Keys -> SnapshotType] /\ PublishedIsInner'
<1>1. \A k \in Keys : Snapshot(inner'[k]) \in SnapshotType
  BY SnapshotTyped
<1> QED
  BY <1>1 DEF Publish, PublishedIsInner, Snapshot

\* No entry at all is an entry with nothing in it.
LEMMA AbsentTyped == Absent \in Entry
  BY DEF Absent, Entry, Option

\* Not publishing is right when no entry changed visibly.
LEMMA UnpublishedRight ==
  ASSUME PublishedIsInner, UNCHANGED published,
         \A k \in Keys : Snapshot(inner'[k]) = Snapshot(inner[k])
  PROVE  PublishedIsInner'
<1>1. PublishedIsInner' <=> published' = [k \in Keys |-> Snapshot(inner'[k])]
  BY DEF PublishedIsInner, Snapshot
<1> QED
  BY <1>1 DEF PublishedIsInner

\* The initial state satisfies the invariant.
LEMMA InitInvariant == Init => IInv
<1> SUFFICES ASSUME Init PROVE IInv
  OBVIOUS
<1>1. inner \in [Keys -> Entry]
  BY AbsentTyped DEF Init
<1>2. published \in [Keys -> SnapshotType]
  BY AbsentTyped, SnapshotTyped DEF Init
<1>3. /\ heard \in [Keys -> Option(Nat)]
      /\ heardWall \in [Keys -> Option(Nat)]
      /\ reported \in [Keys -> Option(Readings)]
      /\ rewound \in [Keys -> Option(Nat)]
  BY DEF Init, Option
<1>4. sweeper \in [at : {"computing", "parked", "timer"}, deadline : Nat]
  BY DEF Init
<1>5. TypeOK
  BY <1>1, <1>2, <1>3, <1>4, ConstantsAssumption DEF Init, TypeOK, SnapshotType
<1>6. \A k \in Keys : Sound(k)
  BY DEF Init, Absent, Sound
<1>7. PublishedIsInner
  BY DEF Init, PublishedIsInner
<1> QED
  BY <1>5, <1>6, <1>7, ConstantsAssumption DEF Init, IInv

-----------------------------------------------------------------------------
(* Steps *)

\* A key an operation does not touch stays sound.
LEMMA Untouched ==
  ASSUME NEW j \in Keys, Sound(j), inner'[j] = inner[j],
         heard'[j] = heard[j], heardWall'[j] = heardWall[j],
         rewound'[j] = rewound[j],
         UNCHANGED <<sweeper, now, asleep>>, permit => permit'
  PROVE  Sound(j)'
  BY DEF Sound, LastSeen, Armed, Wall

\* A connected device's dates are instants, not after now.
LEMMA Instants ==
  ASSUME IInv, NEW k \in Keys, inner[k].connected
  PROVE  /\ heard[k] \in Nat /\ heardWall[k] \in Nat
         /\ inner[k].last_seen \in Nat /\ inner[k].last_seen <= now
         /\ inner[k].last_seen <= heard[k]
         /\ rewound[k] # None => rewound[k] \in Nat
         /\ now \in Nat
<1>1. /\ heard[k] \in Nat /\ heardWall[k] \in Nat /\ now \in Nat
      /\ rewound[k] # None => rewound[k] \in Nat
  BY DEF IInv, TypeOK, Sound, Option
<1> QED
  BY <1>1, ConstantsAssumption DEF IInv, Sound, LastSeen, Earlier, Cutoff

\* A report just in makes its device sound if the sweeper has been told.
LEMMA JustHeard ==
  ASSUME IInv, NEW k \in Keys, Hear(k),
         inner'[k].connected, inner'[k].last_seen = now,
         UNCHANGED <<sweeper, now, asleep>>,
         permit => permit', ~inner[k].connected => permit'
  PROVE  Sound(k)'
<1>1. now \in Nat /\ Wall \in Nat
  BY DEF IInv, TypeOK, Wall
<1>2. /\ heard'[k] = now /\ heardWall'[k] = Wall /\ rewound'[k] = None
      /\ Wall' = Wall
  BY DEF Hear, Wall, IInv, TypeOK
<1>3. Armed(now + StaleAfter)'
  <2>1. CASE ~inner[k].connected
    BY <2>1 DEF Armed
  <2>2. CASE inner[k].connected
    <3>1. inner[k].last_seen \in Nat /\ inner[k].last_seen <= now
      BY <2>2, Instants
    <3>2. Armed(inner[k].last_seen + StaleAfter)
      BY <2>2 DEF IInv, Sound
    <3>3. sweeper.deadline \in Nat
      BY DEF IInv, TypeOK
    <3> QED
      BY <1>1, <3>1, <3>2, <3>3, ConstantsAssumption DEF Armed
  <2> QED
    BY <2>1, <2>2
<1> QED
  BY <1>1, <1>2, <1>3, ConstantsAssumption DEF Sound, LastSeen, Armed

\* Readers come.
LEMMA AcquireStep ==
  ASSUME IInv, NEW k \in Keys, Acquire(k)
  PROVE  IInv'
<1> DEFINE e == WithRefs(inner[k], inner[k].refs + 1)
<1>1. inner[k] \in Entry /\ e \in Entry /\ e.refs # 0
  BY DEF IInv, TypeOK, WithRefs, Entry
<1>2. inner' \in [Keys -> Entry]
  BY <1>1 DEF Acquire, IInv, TypeOK
<1>3. inner'[k] = e /\ \A j \in Keys : j # k => inner'[j] = inner[j]
  BY DEF Acquire, IInv, TypeOK
<1>4. published' \in [Keys -> SnapshotType] /\ PublishedIsInner'
  <2>1. CASE inner[k].refs = 0
    BY <1>2, <2>1, PublishTyped DEF Acquire
  <2>2. CASE inner[k].refs # 0
    <3>1. \A j \in Keys : Snapshot(inner'[j]) = Snapshot(inner[j])
      BY <1>1, <1>3, <2>2 DEF Snapshot, WithRefs, Entry
    <3>2. UNCHANGED published
      BY <2>2 DEF Acquire
    <3> QED
      BY <3>1, <3>2, UnpublishedRight DEF IInv, TypeOK, SnapshotType
  <2> QED
    BY <2>1, <2>2
<1>5. UNCHANGED <<permit, sweeper, now, asleep, resuming, heard, heardWall,
                  reported, rewound>>
  BY DEF Acquire, clocks, history
<1>6. TypeOK'
  BY <1>1, <1>2, <1>3, <1>4, <1>5 DEF IInv, TypeOK, SnapshotType
<1>7. ASSUME NEW j \in Keys PROVE Sound(j)'
  <2>1. CASE j # k
    BY <1>3, <1>5, <2>1, Untouched DEF IInv
  <2>2. CASE j = k
    BY <1>3, <1>5, <2>2 DEF IInv, Sound, LastSeen, Armed, Wall, WithRefs
  <2> QED
    BY <2>1, <2>2
<1> QED
  BY <1>4, <1>5, <1>6, <1>7 DEF IInv

\* Readers go, the last one with the entry.
LEMMA ReleaseStep ==
  ASSUME IInv, NEW k \in Keys, Release(k)
  PROVE  IInv'
<1>1. UNCHANGED <<permit, sweeper, now, asleep, resuming>>
  BY DEF Release, clocks
<1>2. CASE inner[k].refs = 1
  <2>1. /\ inner' = [inner EXCEPT ![k] = Absent] /\ Publish /\ Unhear(k)
    BY <1>2 DEF Release
  <2>2. inner' \in [Keys -> Entry]
    BY <2>1, AbsentTyped DEF IInv, TypeOK
  <2>3. published' \in [Keys -> SnapshotType] /\ PublishedIsInner'
    BY <2>1, <2>2, PublishTyped
  <2>4. /\ heard' \in [Keys -> Option(Nat)]
        /\ heardWall' \in [Keys -> Option(Nat)]
        /\ reported' \in [Keys -> Option(Readings)]
        /\ rewound' \in [Keys -> Option(Nat)]
    BY <2>1 DEF Unhear, IInv, TypeOK, Option
  <2>5. inner'[k] = Absent /\ \A j \in Keys : j # k => inner'[j] = inner[j]
    BY <2>1 DEF IInv, TypeOK
  <2>6. TypeOK'
    BY <1>1, <2>2, <2>3, <2>4, <2>5 DEF IInv, TypeOK, SnapshotType
  <2>7. ASSUME NEW j \in Keys PROVE Sound(j)'
    <3>1. CASE j # k
      BY <1>1, <2>1, <2>5, <3>1, Untouched DEF IInv, TypeOK, Unhear
    <3>2. CASE j = k
      BY <2>1, <2>5, <3>2 DEF IInv, TypeOK, Unhear, Sound, Absent
    <3> QED
      BY <3>1, <3>2
  <2> QED
    BY <1>1, <2>3, <2>6, <2>7 DEF IInv
<1>3. CASE inner[k].refs # 1
  <2> DEFINE e == WithRefs(inner[k], inner[k].refs - 1)
  <2>1. inner[k] \in Entry /\ inner[k].refs > 1 /\ e \in Entry /\ e.refs # 0
    BY <1>3 DEF Release, IInv, TypeOK, WithRefs, Entry
  <2>2. /\ inner' = [inner EXCEPT ![k] = e]
        /\ UNCHANGED <<published, heard, heardWall, reported, rewound>>
    BY <1>3 DEF Release, history
  <2>3. /\ inner' \in [Keys -> Entry]
        /\ inner'[k] = e /\ \A j \in Keys : j # k => inner'[j] = inner[j]
    BY <2>1, <2>2 DEF IInv, TypeOK
  <2>4. PublishedIsInner'
    <3>1. \A j \in Keys : Snapshot(inner'[j]) = Snapshot(inner[j])
      BY <2>1, <2>3 DEF Snapshot, WithRefs, Entry
    <3> QED
      BY <2>2, <3>1, UnpublishedRight DEF IInv
  <2>5. TypeOK'
    BY <1>1, <2>1, <2>2, <2>3 DEF IInv, TypeOK
  <2>6. ASSUME NEW j \in Keys PROVE Sound(j)'
    <3>1. CASE j # k
      BY <1>1, <2>2, <2>3, <3>1, Untouched DEF IInv
    <3>2. CASE j = k
      BY <1>1, <2>2, <2>3, <3>2
      DEF IInv, Sound, LastSeen, Armed, Wall, WithRefs
    <3> QED
      BY <3>1, <3>2
  <2> QED
    BY <1>1, <2>4, <2>5, <2>6 DEF IInv
<1> QED
  BY <1>2, <1>3

(* What mark_traffic and update_battery have in common: the entry is seen, *)
(* the sweeper is told of a new device, and the rest is published or not.  *)
LEMMA HeardStep ==
  ASSUME IInv, NEW k \in Keys, inner[k].refs > 0, Hear(k),
         NEW battery \in Option(Readings), NEW updated \in Option(Nat),
         inner' = [inner EXCEPT ![k] = Seen(inner[k], battery, updated)],
         UNCHANGED <<sweeper, now, asleep, resuming>>,
         permit' \in BOOLEAN, permit => permit', ~inner[k].connected => permit',
         reported' \in [Keys -> Option(Readings)],
         \/ Publish
         \/ /\ UNCHANGED published
            /\ inner[k].connected
            /\ battery = inner[k].battery /\ updated = inner[k].last_updated
  PROVE  IInv'
<1> DEFINE e == Seen(inner[k], battery, updated)
<1>1. now \in Nat /\ Wall \in Nat /\ inner[k] \in Entry
  BY DEF IInv, TypeOK, Wall
<1>2. e \in Entry /\ e.refs # 0 /\ e.connected /\ e.last_seen = now
  BY <1>1 DEF Seen, Entry, Option
<1>3. inner'[k] = e /\ \A j \in Keys : j # k => inner'[j] = inner[j]
  BY DEF IInv, TypeOK
<1>4. inner' \in [Keys -> Entry]
  BY <1>2 DEF IInv, TypeOK
<1>5. published' \in [Keys -> SnapshotType] /\ PublishedIsInner'
  <2>1. CASE Publish
    BY <1>4, <2>1, PublishTyped
  <2>2. CASE /\ UNCHANGED published
             /\ inner[k].connected
             /\ battery = inner[k].battery /\ updated = inner[k].last_updated
    <3>1. \A j \in Keys : Snapshot(inner'[j]) = Snapshot(inner[j])
      <4>1. inner[k].connected = TRUE
        BY <1>1, <2>2 DEF Entry
      <4>2. Snapshot(e) = Snapshot(inner[k])
        BY <1>1, <2>2, <4>1 DEF Snapshot, Seen, Entry
      <4> QED
        BY <1>3, <4>2
    <3> QED
      BY <2>2, <3>1, UnpublishedRight DEF IInv, TypeOK, SnapshotType
  <2> QED
    BY <2>1, <2>2
<1>6. /\ heard' \in [Keys -> Option(Nat)]
      /\ heardWall' \in [Keys -> Option(Nat)]
      /\ rewound' \in [Keys -> Option(Nat)]
  BY <1>1 DEF Hear, IInv, TypeOK, Option
<1>7. TypeOK'
  BY <1>2, <1>3, <1>4, <1>5, <1>6 DEF IInv, TypeOK, SnapshotType
<1>8. ASSUME NEW j \in Keys PROVE Sound(j)'
  <2>1. CASE j # k
    BY <1>3, <2>1, Untouched DEF IInv, TypeOK, Hear
  <2>2. CASE j = k
    BY <1>2, <1>3, <2>2, JustHeard
  <2> QED
    BY <2>1, <2>2
<1> QED
  BY <1>5, <1>7, <1>8 DEF IInv

\* Traffic makes a device connected and fresh, and wakes the sweeper if new.
LEMMA MarkTrafficStep ==
  ASSUME IInv, NEW k \in Keys, MarkTraffic(k)
  PROVE  IInv'
<1>1. /\ inner[k].battery \in Option(Readings)
      /\ inner[k].last_updated \in Option(Nat)
      /\ permit \in BOOLEAN /\ reported \in [Keys -> Option(Readings)]
  BY DEF IInv, TypeOK, Entry
<1> QED
  BY <1>1, HeardStep DEF MarkTraffic, clocks

\* So does a battery report, published or not.
LEMMA UpdateBatteryStep ==
  ASSUME IInv, NEW k \in Keys, NEW b \in Readings, UpdateBattery(k, b)
  PROVE  IInv'
<1>1. /\ inner[k].battery \in Option(Readings)
      /\ inner[k].last_updated \in Option(Nat)
      /\ b \in Option(Readings) /\ Wall \in Option(Nat)
      /\ permit \in BOOLEAN
  BY DEF IInv, TypeOK, Entry, Option, Wall
<1>2. reported' \in [Keys -> Option(Readings)]
  BY <1>1 DEF UpdateBattery, IInv, TypeOK
<1>3. UNCHANGED <<sweeper, now, asleep, resuming>> /\ Hear(k)
      /\ inner[k].refs > 0
  BY DEF UpdateBattery, clocks
<1>4. CASE \/ ~inner[k].connected
           \/ inner[k].battery = None
           \/ inner[k].battery # None /\ Significant(inner[k].battery, b)
  <2>1. /\ inner' = [inner EXCEPT ![k] = Seen(inner[k], b, Wall)]
        /\ Publish
        /\ permit' = (permit \/ ~inner[k].connected)
    BY <1>4 DEF UpdateBattery
  <2>2. /\ permit' \in BOOLEAN
        /\ permit => permit'
        /\ ~inner[k].connected => permit'
    BY <2>1
  <2> QED
    BY <1>1, <1>2, <1>3, <2>1, <2>2, HeardStep
<1>5. CASE ~(\/ ~inner[k].connected
             \/ inner[k].battery = None
             \/ inner[k].battery # None /\ Significant(inner[k].battery, b))
  <2>1. /\ inner' = [inner EXCEPT ![k] = Seen(inner[k], inner[k].battery,
                                             inner[k].last_updated)]
        /\ UNCHANGED <<published, permit>>
        /\ inner[k].connected
    BY <1>5 DEF UpdateBattery
  <2> QED
    BY <1>1, <1>2, <1>3, <2>1, HeardStep
<1> QED
  BY <1>4, <1>5

\* The sweeper goes to sleep on the earliest deadline.
LEMMA SweeperArmStep ==
  ASSUME IInv, SweeperArm
  PROVE  IInv'
<1>1. UNCHANGED <<inner, published, permit, now, asleep, resuming, heard,
                  heardWall, reported, rewound>>
  BY DEF SweeperArm, devices, clocks, history
<1>2. \A k \in Connected : Deadline(k) = inner[k].last_seen + StaleAfter
                           /\ Deadline(k) \in Nat
  BY Instants, ConstantsAssumption DEF Connected, Deadline
<1>3. sweeper' \in [at : {"computing", "parked", "timer"}, deadline : Nat]
  BY <1>2 DEF SweeperArm
<1>4. ASSUME NEW k \in Keys, inner[k].connected
      PROVE  Armed(inner[k].last_seen + StaleAfter)'
  <2>1. k \in Connected
    BY <1>4 DEF Connected
  <2>2. PICK j \in Connected :
          /\ \A i \in Connected : Deadline(j) <= Deadline(i)
          /\ sweeper' = [at |-> "timer", deadline |-> Deadline(j)]
    BY <2>1 DEF SweeperArm
  <2> QED
    BY <1>1, <1>2, <2>1, <2>2 DEF Armed
<1>5. TypeOK'
  BY <1>1, <1>3 DEF IInv, TypeOK
<1>6. ASSUME NEW k \in Keys PROVE Sound(k)'
  BY <1>1, <1>4 DEF IInv, Sound, LastSeen, Wall
<1> QED
  BY <1>1, <1>5, <1>6 DEF IInv, PublishedIsInner

\* A notified sweeper computes anew.
LEMMA SweeperNotifiedStep ==
  ASSUME IInv, SweeperNotified
  PROVE  IInv'
<1>1. UNCHANGED <<inner, published, now, asleep, resuming, heard, heardWall,
                  reported, rewound>>
  BY DEF SweeperNotified, devices, clocks, history
<1>2. sweeper' = [at |-> "computing", deadline |-> 0] /\ permit' = FALSE
  BY DEF SweeperNotified
<1>3. TypeOK'
  BY <1>1, <1>2 DEF IInv, TypeOK
<1>4. ASSUME NEW k \in Keys PROVE Sound(k)'
  BY <1>1, <1>2 DEF IInv, Sound, LastSeen, Armed, Wall
<1> QED
  BY <1>1, <1>3, <1>4 DEF IInv, PublishedIsInner

\* A sweep drops the overdue, stamps them, and computes anew.
LEMMA SweeperFireStep ==
  ASSUME IInv, SweeperFire
  PROVE  IInv'
<1>1. UNCHANGED <<permit, now, asleep, resuming, heard, heardWall, reported,
                  rewound>>
  BY DEF SweeperFire, clocks, history
<1>2. sweeper' = [at |-> "computing", deadline |-> 0]
  BY DEF SweeperFire
<1>3. Wall \in Nat
  BY DEF Wall, IInv, TypeOK
<1>4. ASSUME NEW k \in Keys
      PROVE  /\ inner[k] \in Entry
             /\ Disconnected(inner[k]) \in Entry
             /\ Stale(inner[k]) => inner[k].refs # 0
  BY <1>3 DEF IInv, TypeOK, Disconnected, Entry, Option, Stale, Absent
<1>5. inner' = [k \in Keys |-> IF Stale(inner[k]) THEN Disconnected(inner[k])
                                                  ELSE inner[k]]
  BY DEF SweeperFire, Sweep
<1>6. inner' \in [Keys -> Entry]
  BY <1>4, <1>5
<1>7. published' \in [Keys -> SnapshotType] /\ PublishedIsInner'
  <2>1. CASE \E k \in Keys : Stale(inner[k])
    BY <1>6, <2>1, PublishTyped DEF SweeperFire, Sweep
  <2>2. CASE ~\E k \in Keys : Stale(inner[k])
    <3>1. UNCHANGED published /\ \A k \in Keys : inner'[k] = inner[k]
      BY <1>5, <2>2 DEF SweeperFire, Sweep
    <3> QED
      BY <3>1, UnpublishedRight DEF IInv, TypeOK, SnapshotType
  <2> QED
    BY <2>1, <2>2
<1>8. \A k \in Keys : inner'[k].refs = 0 => inner'[k] = Absent
  BY <1>4, <1>5 DEF IInv, TypeOK, Disconnected
<1>9. TypeOK'
  BY <1>1, <1>2, <1>6, <1>7, <1>8 DEF IInv, TypeOK, SnapshotType
<1>10. ASSUME NEW k \in Keys PROVE Sound(k)'
  <2>1. CASE Stale(inner[k])
    <3>1. inner'[k] = Disconnected(inner[k]) /\ inner[k].connected
      BY <1>5, <2>1 DEF Stale
    <3>2. heardWall[k] # None /\ heardWall[k] <= Wall
      BY <3>1 DEF IInv, Sound
    <3>3. ~inner'[k].connected /\ inner'[k].battery = inner[k].battery
          /\ (inner[k].battery # None => inner'[k].last_updated = Wall)
      BY <3>1 DEF Disconnected
    <3>4. Wall # None
      BY <1>3, ConstantsAssumption
    <3> QED
      BY <1>1, <3>2, <3>3, <3>4 DEF Sound, Wall
  <2>2. CASE ~Stale(inner[k])
    BY <1>1, <1>2, <1>5, <2>2 DEF IInv, Sound, LastSeen, Armed, Wall
  <2> QED
    BY <2>1, <2>2
<1> QED
  BY <1>1, <1>7, <1>9, <1>10 DEF IInv

\* A tick passes only while every connected device has an armed timer.
LEMMA TickStep ==
  ASSUME IInv, Tick
  PROVE  IInv'
<1>1. UNCHANGED <<inner, published, permit, sweeper, asleep, resuming, heard,
                  heardWall, reported, rewound>>
  BY DEF Tick, devices, history
<1>2. now \in Nat /\ now' = now + 1 /\ asleep \in Nat
  BY DEF Tick, IInv, TypeOK
<1>3. TypeOK' /\ (now >= StaleAfter)'
  BY <1>1, <1>2, ConstantsAssumption DEF IInv, TypeOK
<1>4. ASSUME NEW k \in Keys PROVE Sound(k)'
  <2>1. heardWall[k] # None => heardWall[k] <= Wall'
    BY <1>1, <1>2 DEF IInv, TypeOK, Sound, Wall, Option
  <2>2. ASSUME inner[k].connected
        PROVE  /\ now' <= inner[k].last_seen + StaleAfter + 1
               /\ heard[k] <= now'
               /\ rewound[k] # None => rewound[k] <= now'
    <3>1. /\ inner[k].last_seen \in Nat /\ heard[k] \in Nat
          /\ rewound[k] # None => rewound[k] \in Nat
      BY <2>2, Instants
    <3>2. /\ Armed(inner[k].last_seen + StaleAfter)
          /\ heard[k] <= now /\ (rewound[k] # None => rewound[k] <= now)
      BY <2>2 DEF IInv, Sound
    <3>3. /\ sweeper.at = "timer"
          /\ now <= sweeper.deadline /\ sweeper.deadline \in Nat
          /\ sweeper.deadline <= inner[k].last_seen + StaleAfter
      BY <3>2 DEF Tick, SweeperIdle, Armed, IInv, TypeOK
    <3> QED
      BY <1>2, <3>1, <3>2, <3>3, ConstantsAssumption
  <2>3. Armed(inner[k].last_seen + StaleAfter)' <=>
          Armed(inner[k].last_seen + StaleAfter)
    BY <1>1 DEF Armed
  <2> QED
    BY <1>1, <2>1, <2>2, <2>3 DEF IInv, Sound, LastSeen
<1> QED
  BY <1>1, <1>3, <1>4 DEF IInv, PublishedIsInner

\* A suspend moves the wall clock only.
LEMMA SuspendStep ==
  ASSUME IInv, NEW duration \in 1..MaxAsleep, Suspend(duration)
  PROVE  IInv'
<1>1. UNCHANGED <<inner, published, permit, sweeper, now, heard, heardWall,
                  reported, rewound>>
  BY DEF Suspend, devices, history
<1>2. /\ asleep \in Nat /\ asleep' \in Nat /\ now \in Nat /\ Wall <= Wall'
      /\ Wall \in Nat /\ Wall' \in Nat /\ resuming' = TRUE
  BY <1>1, ConstantsAssumption DEF Suspend, IInv, TypeOK, Wall
<1>3. TypeOK'
  BY <1>1, <1>2 DEF IInv, TypeOK
<1>4. ASSUME NEW k \in Keys PROVE Sound(k)'
  <2>1. heardWall[k] # None => heardWall[k] <= Wall'
    BY <1>2 DEF IInv, TypeOK, Sound, Option
  <2> QED
    BY <1>1, <2>1 DEF IInv, Sound, LastSeen, Armed
<1> QED
  BY <1>1, <1>3, <1>4 DEF IInv, PublishedIsInner

(* A handled resume rewinds and notifies; a second one changes nothing of  *)
(* what the first has rewound.                                             *)
LEMMA NoteResumeStep ==
  ASSUME IInv, NoteResume
  PROVE  IInv'
<1> DEFINE cutoff == Cutoff(now)
           rewind(e) == [refs |-> e.refs, connected |-> e.connected,
                         battery |-> e.battery,
                         last_updated |-> e.last_updated,
                         last_seen |-> IF e.last_seen = None THEN cutoff
                                       ELSE Earlier(e.last_seen, cutoff)]
<1>1. /\ UNCHANGED <<published, sweeper, now, asleep, heard, heardWall,
                     reported>>
      /\ resuming' = FALSE /\ permit' = TRUE
  BY DEF NoteResume, clocks
<1>2. /\ inner' = [k \in Keys |-> IF inner[k].connected THEN rewind(inner[k])
                                                        ELSE inner[k]]
      /\ rewound' = [k \in Keys |->
                       IF inner[k].connected /\ rewound[k] = None
                       THEN now ELSE rewound[k]]
  BY DEF NoteResume, Cutoff
<1>3. now \in Nat /\ cutoff \in Nat /\ cutoff <= now
      /\ now <= cutoff + StaleAfter + 1
  BY ConstantsAssumption DEF IInv, TypeOK, Cutoff
<1>4. ASSUME NEW k \in Keys
      PROVE  /\ inner[k] \in Entry
             /\ rewind(inner[k]) \in Entry
             /\ Snapshot(rewind(inner[k])) = Snapshot(inner[k])
             /\ inner[k].connected => inner[k].refs # 0
  <2>1. inner[k] \in Entry /\ (inner[k].connected => inner[k].refs # 0)
    BY DEF IInv, TypeOK, Absent
  <2> QED
    BY <1>3, <2>1 DEF Entry, Option, Earlier, Snapshot
<1>5. inner' \in [Keys -> Entry] /\ rewound' \in [Keys -> Option(Nat)]
  BY <1>2, <1>3, <1>4 DEF IInv, TypeOK, Option
<1>6. \A k \in Keys : inner'[k].refs = 0 => inner'[k] = Absent
  BY <1>2, <1>4 DEF IInv, TypeOK
<1>7. PublishedIsInner'
  <2>1. \A k \in Keys : Snapshot(inner'[k]) = Snapshot(inner[k])
    BY <1>2, <1>4
  <2> QED
    BY <1>1, <2>1, UnpublishedRight DEF IInv
<1>8. TypeOK'
  BY <1>1, <1>5, <1>6 DEF IInv, TypeOK
<1>9. ASSUME NEW k \in Keys PROVE Sound(k)'
  <2>1. CASE ~inner[k].connected
    BY <1>1, <1>2, <2>1 DEF IInv, Sound, Wall
  <2>2. CASE inner[k].connected
    <3>1. /\ heard[k] \in Nat /\ inner[k].last_seen \in Nat
          /\ rewound[k] # None => rewound[k] \in Nat
      BY <2>2, Instants
    <3>2. /\ inner'[k].connected
          /\ inner'[k].last_seen = Earlier(inner[k].last_seen, cutoff)
      BY <1>2, <2>2, <3>1, ConstantsAssumption
    <3>3. Sound(k)
      BY DEF IInv
    <3>4. inner[k].last_seen = LastSeen(k)
      BY <2>2, <3>3 DEF Sound
    <3>5. inner'[k].last_seen = LastSeen(k)'
      <4>1. CASE rewound[k] = None
        <5>1. rewound'[k] = now /\ rewound'[k] # None
          BY <1>2, <1>3, <2>2, <4>1, ConstantsAssumption
        <5> QED
          BY <1>1, <3>2, <3>4, <4>1, <5>1 DEF LastSeen
      <4>2. CASE rewound[k] # None
        <5>1. rewound'[k] = rewound[k] /\ rewound[k] <= now
          BY <1>2, <2>2, <3>3, <4>2 DEF Sound
        <5>2. Cutoff(rewound[k]) \in Int /\ Cutoff(rewound[k]) <= cutoff
          BY <1>3, <3>1, <4>2, <5>1, ConstantsAssumption DEF Cutoff
        <5> HIDE DEF cutoff
        <5> QED
          BY <1>1, <1>3, <3>1, <3>2, <3>4, <4>2, <5>1, <5>2
          DEF LastSeen, Earlier
      <4> QED
        BY <4>1, <4>2
    <3>6. /\ rewound'[k] # None => rewound'[k] <= now'
                                   /\ rewound'[k] >= StaleAfter
          /\ now' <= inner'[k].last_seen + StaleAfter + 1
      <4>1. rewound'[k] # None => rewound'[k] <= now /\ rewound'[k] >= StaleAfter
        BY <1>2, <1>3, <2>2, <3>3 DEF Sound, IInv
      <4>2. now <= inner[k].last_seen + StaleAfter + 1
        BY <2>2, <3>3 DEF Sound
      <4> HIDE DEF cutoff
      <4> QED
        BY <1>1, <1>3, <3>2, <4>1, <4>2 DEF Earlier
    <3>7. Armed(inner[k].last_seen + StaleAfter)' /\ Wall' = Wall
      BY <1>1 DEF Armed, Wall
    <3> QED
      BY <1>1, <2>2, <3>2, <3>3, <3>5, <3>6, <3>7 DEF Sound
  <2> QED
    BY <2>1, <2>2
<1> QED
  BY <1>1, <1>7, <1>8, <1>9 DEF IInv

\* Every step keeps the invariant.
LEMMA Step == IInv /\ [Next]_vars => IInv'
<1> SUFFICES ASSUME IInv, [Next]_vars PROVE IInv'
  OBVIOUS
<1>1. CASE MissResume \/ UNCHANGED vars
  <2>1. UNCHANGED <<inner, published, permit, sweeper, now, asleep, heard,
                    heardWall, reported, rewound>> /\ resuming' \in BOOLEAN
    BY <1>1 DEF MissResume, vars, devices, clocks, history, IInv, TypeOK
  <2> QED
    BY <2>1
    DEF IInv, TypeOK, PublishedIsInner, Sound, LastSeen, Armed, Wall
<1> QED
  BY <1>1, AcquireStep, ReleaseStep, MarkTrafficStep, UpdateBatteryStep,
     SweeperArmStep, SweeperNotifiedStep, SweeperFireStep, TickStep,
     SuspendStep, NoteResumeStep
  DEF Next

\* The invariant holds initially and over every step.
LEMMA Inductive == Spec => []IInv
  BY InitInvariant, Step, PTL DEF Spec

-----------------------------------------------------------------------------
(* Theorems *)

(* The registry's state is always well typed and an entry without readers  *)
(* is no entry.                                                            *)
THEOREM TypeCorrect == Spec => []TypeOK
  BY Inductive, PTL DEF IInv

(* What clients are shown is always what the registry holds, although most *)
(* reports are not published.                                              *)
THEOREM PublishedTruly == Spec => []PublishedIsInner
  BY Inductive, PTL DEF IInv

(* state.rs:93-96: no notification is missing, so a connected device never *)
(* has a sleeping sweeper that would wake after its deadline.              *)
THEOREM SweeperNeverOversleeps == Spec => []SweeperArmed
<1>1. IInv => SweeperArmed
  <2> SUFFICES ASSUME IInv, NEW k \in Connected
               PROVE  Armed(Deadline(k))
    BY DEF SweeperArmed, Armed
  <2>1. k \in Keys /\ inner[k].connected
    BY DEF Connected
  <2>2. inner[k].last_seen # None /\ Armed(inner[k].last_seen + StaleAfter)
    BY <2>1, Instants, ConstantsAssumption DEF IInv, Sound
  <2> QED
    BY <2>2 DEF Deadline
<1> QED
  BY Inductive, <1>1, PTL

(* Connected means heard within StaleAfter, for every window, every number *)
(* of devices and every order of reports, suspends, resumes and sweeps.    *)
THEOREM ConnectedMeansFresh == Spec => []ConnectedIsFresh
<1>1. IInv => ConnectedIsFresh
  <2> SUFFICES ASSUME IInv, NEW k \in Connected
               PROVE  heard[k] # None /\ now <= heard[k] + StaleAfter + 1
    BY DEF ConnectedIsFresh
  <2>1. k \in Keys /\ inner[k].connected
    BY DEF Connected
  <2>2. heard[k] # None /\ now <= inner[k].last_seen + StaleAfter + 1
    BY <2>1 DEF IInv, Sound
  <2>3. /\ heard[k] \in Nat /\ inner[k].last_seen \in Nat
        /\ inner[k].last_seen <= heard[k] /\ now \in Nat
    BY <2>1, Instants
  <2> QED
    BY <2>2, <2>3, ConstantsAssumption
<1> QED
  BY Inductive, <1>1, PTL

(* state.rs:23-27: silence after a handled resume is noticed ResumeGrace   *)
(* later and not StaleAfter later.                                         *)
THEOREM ResumesAreNoticed == Spec => []ResumeNoticed
<1>1. IInv => ResumeNoticed
  <2> SUFFICES ASSUME IInv, NEW k \in Connected, rewound[k] # None
               PROVE  now <= rewound[k] + ResumeGrace + 1
    BY DEF ResumeNoticed
  <2>1. k \in Keys /\ inner[k].connected
    BY DEF Connected
  <2>2. /\ now <= inner[k].last_seen + StaleAfter + 1
        /\ inner[k].last_seen = Earlier(heard[k], Cutoff(rewound[k]))
    BY <2>1 DEF IInv, Sound, LastSeen
  <2>3. heard[k] \in Nat /\ rewound[k] \in Nat /\ now \in Nat
    BY <2>1, Instants
  <2> QED
    BY <2>2, <2>3, ConstantsAssumption DEF Earlier, Cutoff
<1> QED
  BY Inductive, <1>1, PTL

(* A device leaves Connected, while it has readers, for silence only: more *)
(* than StaleAfter of it, or more than ResumeGrace of it since a resume.   *)
THEOREM SilenceOnly == Spec => DroppedOnlyWhenSilent
<1> DEFINE Dropped == \A k \in Keys :
             inner[k].connected /\ ~inner'[k].connected /\ inner'[k].refs > 0 =>
               \/ now - heard[k] > StaleAfter
               \/ rewound[k] # None /\ now - rewound[k] > ResumeGrace
<1>1. IInv /\ [Next]_vars => [Dropped]_vars
  <2> SUFFICES ASSUME IInv, Next, NEW k \in Keys, inner[k].connected,
                      ~inner'[k].connected, inner'[k].refs > 0
               PROVE  \/ now - heard[k] > StaleAfter
                      \/ rewound[k] # None /\ now - rewound[k] > ResumeGrace
    OBVIOUS
  <2>1. inner[k] \in Entry /\ inner \in [Keys -> Entry]
    BY DEF IInv, TypeOK
  <2>2. CASE Stale(inner[k])
    <3>1. /\ heard[k] \in Nat /\ inner[k].last_seen \in Nat /\ now \in Nat
          /\ rewound[k] # None => rewound[k] \in Nat
      BY Instants
    <3>2. now - inner[k].last_seen > StaleAfter
      BY <2>2, <3>1, ConstantsAssumption DEF Stale
    <3>3. inner[k].last_seen = LastSeen(k)
      BY DEF IInv, Sound
    <3> QED
      BY <3>1, <3>2, <3>3, ConstantsAssumption DEF LastSeen, Earlier, Cutoff
  <2>3. CASE ~Stale(inner[k])
    <3>1. ASSUME NEW j \in Keys, Acquire(j) PROVE inner'[k].connected
      BY <2>1, <3>1 DEF Acquire, WithRefs
    <3>2. ASSUME NEW j \in Keys, Release(j)
          PROVE  inner'[k].connected \/ inner'[k].refs = 0
      BY <2>1, <3>2 DEF Release, WithRefs, Absent
    <3>3. ASSUME NEW j \in Keys, MarkTraffic(j) PROVE inner'[k].connected
      BY <2>1, <3>3 DEF MarkTraffic, Seen
    <3>4. ASSUME NEW j \in Keys, NEW b \in Readings, UpdateBattery(j, b)
          PROVE  inner'[k].connected
      BY <2>1, <3>4 DEF UpdateBattery, Seen
    <3>5. CASE SweeperFire
      BY <2>3, <3>5 DEF SweeperFire, Sweep
    <3>6. CASE NoteResume
      BY <3>6 DEF NoteResume
    <3>7. CASE UNCHANGED inner
      BY <3>7
    <3> QED
      BY <2>1, <3>1, <3>2, <3>3, <3>4, <3>5, <3>6, <3>7
      DEF Next, SweeperArm, SweeperNotified, Tick, Suspend, MissResume,
          devices, Entry
  <2> QED
    BY <2>2, <2>3
<1> QED
  BY Inductive, <1>1, PTL DEF Spec, DroppedOnlyWhenSilent

(* state.rs:75-79, 245-248: the age shown for a disconnected device counts *)
(* from no earlier than its last report.                                   *)
THEOREM DisconnectsAreStamped == Spec => []DisconnectStamped
<1>1. IInv => DisconnectStamped
  BY DEF IInv, Sound, PublishedIsInner, Snapshot, DisconnectStamped,
         TypeOK, Option
<1> QED
  BY Inductive, <1>1, PTL

-----------------------------------------------------------------------------
(* Refinement *)

\* A registry whose list is unchanged publishes nothing.
LEMMA NotShown ==
  ASSUME UNCHANGED <<published, now, asleep>>
  PROVE  UNCHANGED <<[k \in Keys |-> Visible(k)], Wall>>
  BY DEF Visible, Wall

\* What a snapshot says.
LEMMA SnapshotFields ==
  ASSUME NEW e \in Entry
  PROVE  /\ Snapshot(e).present <=> e.refs # 0
         /\ Snapshot(e).connected = e.connected
         /\ Snapshot(e).battery = e.battery
         /\ Snapshot(e).last_updated = e.last_updated
<1>1. e.refs \in Nat
  BY DEF Entry
<1>2. Snapshot(e).present = (e.refs > 0)
  BY Zenon DEF Snapshot
<1>3. (e.refs > 0) <=> e.refs # 0
  BY <1>1
<1>4. Snapshot(e).present <=> e.refs # 0
  BY <1>2, <1>3, Zenon
<1>5. /\ Snapshot(e).connected = e.connected
      /\ Snapshot(e).battery = e.battery
      /\ Snapshot(e).last_updated = e.last_updated
  BY Zenon DEF Snapshot
<1> QED
  BY <1>4, <1>5

\* What a publication shows of an entry.
LEMMA Shown ==
  ASSUME IInv, IInv', NEW k \in Keys
  PROVE  /\ Visible(k) = IF inner[k].refs = 0 THEN None
                         ELSE [connected |-> inner[k].connected,
                               battery |-> inner[k].battery,
                               last_updated |-> inner[k].last_updated]
         /\ Visible(k)' = IF inner'[k].refs = 0 THEN None
                          ELSE [connected |-> inner'[k].connected,
                                battery |-> inner'[k].battery,
                                last_updated |-> inner'[k].last_updated]
<1>1. published[k] = Snapshot(inner[k]) /\ published'[k] = Snapshot(inner'[k])
  BY DEF IInv, PublishedIsInner, Snapshot
<1>2. inner[k] \in Entry /\ inner'[k] \in Entry
  BY DEF IInv, TypeOK
<1> QED
  BY <1>1, <1>2, SnapshotFields DEF Visible

\* A listed key shows a record.
LEMMA ListedIsSomething ==
  ASSUME IInv, IInv', NEW k \in Keys, inner[k].refs # 0
  PROVE  Visible(k) # None
<1>1. Visible(k) = [connected |-> inner[k].connected,
                    battery |-> inner[k].battery,
                    last_updated |-> inner[k].last_updated]
  BY Shown
<1>2. inner[k] \in Entry
  BY DEF IInv, TypeOK
<1>3. Visible(k) \in [connected : BOOLEAN, battery : Option(Readings),
                     last_updated : Option(Nat)]
  BY <1>1, <1>2 DEF Entry
<1> QED
  BY <1>3, NoneAssumption

\* The mapped channel.
Chan == [k \in Keys |-> Visible(k)]

\* One entry changes: one snapshot does.
LEMMA OneShown ==
  ASSUME IInv, IInv', NEW k \in Keys, NEW e,
         inner' = [inner EXCEPT ![k] = e]
  PROVE  Chan' = [Chan EXCEPT ![k] = Visible(k)']
<1>1. ASSUME NEW j \in Keys, j # k PROVE Visible(j)' = Visible(j)
  <2>1. inner'[j] = inner[j]
    BY <1>1
  <2> QED
    BY <2>1, Shown
<1> QED
  BY <1>1 DEF Chan

LEMMA AcquireShown ==
  ASSUME IInv, IInv', NEW k \in Keys, Acquire(k)
  PROVE  [Feed!Next]_<<Chan, Wall>>
<1> UNCHANGED <<now, asleep>>
  BY DEF Acquire, clocks
<1>1. CASE inner[k].refs = 0
  <2>1. inner[k] = Absent /\ inner'[k] = WithRefs(Absent, 1)
    BY <1>1 DEF Acquire, IInv, TypeOK
  <2>2. Visible(k) = None /\ Visible(k)' = Feed!Device(FALSE, None, None)
    BY <1>1, <2>1, Shown DEF WithRefs, Absent, Feed!Device
  <2>3. Chan' = [Chan EXCEPT ![k] = Visible(k)']
    BY OneShown DEF Acquire
  <2>4. Chan[k] = None /\ UNCHANGED Wall
    BY <2>2 DEF Chan, Wall
  <2> QED
    BY <2>2, <2>3, <2>4 DEF Feed!Next, Feed!Acquired, Chan
<1>2. CASE inner[k].refs # 0
  BY <1>2, NotShown DEF Acquire, Chan
<1> QED
  BY <1>1, <1>2

LEMMA ReleaseShown ==
  ASSUME IInv, IInv', NEW k \in Keys, Release(k)
  PROVE  [Feed!Next]_<<Chan, Wall>>
<1> UNCHANGED <<now, asleep>>
  BY DEF Release, clocks
<1>1. CASE inner[k].refs = 1
  <2>1. inner' = [inner EXCEPT ![k] = Absent] /\ inner'[k].refs = 0
    BY <1>1 DEF Release, IInv, TypeOK, Absent
  <2>2. Visible(k) # None /\ Visible(k)' = None
    BY <1>1, <2>1, Shown, ListedIsSomething
  <2>3. Chan' = [Chan EXCEPT ![k] = Visible(k)']
    BY <2>1, OneShown
  <2>4. Chan[k] # None /\ UNCHANGED Wall
    BY <2>2 DEF Chan, Wall
  <2> QED
    BY <2>2, <2>3, <2>4 DEF Feed!Next, Feed!Released, Chan
<1>2. CASE inner[k].refs # 1
  BY <1>2, NotShown DEF Release, Chan
<1> QED
  BY <1>1, <1>2

LEMMA MarkTrafficShown ==
  ASSUME IInv, IInv', NEW k \in Keys, MarkTraffic(k)
  PROVE  [Feed!Next]_<<Chan, Wall>>
<1>1. UNCHANGED <<now, asleep>>
  BY DEF MarkTraffic, clocks
<1>2. CASE ~inner[k].connected
  <2>1. inner[k] \in Entry /\ inner[k].refs # 0
        /\ inner'[k] = Seen(inner[k], inner[k].battery, inner[k].last_updated)
    BY DEF MarkTraffic, IInv, TypeOK
  <2>2. inner'[k].refs # 0
    BY <2>1 DEF Seen
  <2>3. /\ Visible(k) # None /\ Visible(k).connected = FALSE
        /\ Visible(k).battery = inner[k].battery
        /\ Visible(k).last_updated = inner[k].last_updated
    BY <1>2, <2>1, Shown, ListedIsSomething DEF Entry
  <2>4. Visible(k)' = Feed!Device(TRUE, inner[k].battery,
                                  inner[k].last_updated)
    BY <2>1, <2>2, Shown DEF Seen, Feed!Device
  <2>5. Chan' = [Chan EXCEPT ![k] = Visible(k)']
    BY OneShown DEF MarkTraffic
  <2>6. Chan[k] = Visible(k) /\ UNCHANGED Wall
    BY <1>1 DEF Chan, Wall
  <2>7. Feed!TrafficMarked(k)
    BY <2>3, <2>4, <2>5, <2>6 DEF Feed!TrafficMarked, Chan
  <2> QED
    BY <2>7 DEF Feed!Next
<1>3. CASE inner[k].connected
  BY <1>1, <1>3, NotShown DEF MarkTraffic, Chan
<1> QED
  BY <1>2, <1>3

\* A significant change is one.
LEMMA SignificantDiffers ==
  ASSUME NEW b \in Readings PROVE ~Significant(b, b)
<1>1. \A f \in Fields : b.analog[f] \in Nat /\ Deadband[f] \in Nat \ {0}
  BY ConstantsAssumption DEF BatteryStatus
<1> QED
  BY <1>1 DEF Significant, AbsDiff

LEMMA UpdateBatteryShown ==
  ASSUME IInv, IInv', NEW k \in Keys, NEW b \in Readings, UpdateBattery(k, b)
  PROVE  [Feed!Next]_<<Chan, Wall>>
<1> DEFINE e == inner[k]
           shown == \/ ~e.connected
                    \/ e.battery = None
                    \/ e.battery # None /\ Significant(e.battery, b)
<1>1. UNCHANGED <<now, asleep>>
  BY DEF UpdateBattery, clocks
<1>2. CASE shown
  <2>1. e \in Entry /\ e.refs # 0 /\ inner'[k] = Seen(e, b, Wall)
        /\ inner' = [inner EXCEPT ![k] = Seen(e, b, Wall)]
    BY <1>2 DEF UpdateBattery, IInv, TypeOK
  <2>2. /\ inner'[k].refs # 0 /\ inner'[k].connected = TRUE
        /\ inner'[k].battery = b /\ inner'[k].last_updated = Wall
    BY <2>1 DEF Seen
  <2>3. /\ Visible(k) # None
        /\ Visible(k).connected = e.connected
        /\ Visible(k).battery = e.battery
    BY <2>1, Shown, ListedIsSomething
  <2>4. Visible(k)' = Feed!Device(TRUE, b, Wall)
    BY <2>2, Shown DEF Feed!Device
  <2>5. Chan' = [Chan EXCEPT ![k] = Visible(k)']
    BY <2>1, OneShown
  <2>6. Chan[k] = Visible(k) /\ UNCHANGED Wall
    BY <1>1 DEF Chan, Wall
  <2>7. ~e.connected \/ e.battery # b
    BY <1>2, SignificantDiffers, ConstantsAssumption
  <2>8. Wall >= Wall
    BY DEF Wall, IInv, TypeOK
  <2> HIDE DEF shown
  <2>9. Feed!BatteryUpdated(k, b, Wall)
    BY <2>3, <2>4, <2>5, <2>6, <2>7, <2>8 DEF Feed!BatteryUpdated, Chan
  <2> QED
    BY <2>9 DEF Feed!Next
<1>3. CASE ~shown
  BY <1>1, <1>3, NotShown DEF UpdateBattery, Chan
<1> QED
  BY <1>2, <1>3

LEMMA SweepShown ==
  ASSUME IInv, IInv', Sweep, UNCHANGED <<now, asleep>>
  PROVE  [Feed!Next]_<<Chan, Wall>>
<1> DEFINE silent == {k \in Keys : Stale(inner[k])}
<1>1. CASE silent # {}
  <2>1. ASSUME NEW k \in silent
        PROVE  /\ Visible(k) # None /\ Visible(k).connected
               /\ Visible(k)' = Feed!Device(FALSE, Visible(k).battery,
                                   IF Visible(k).battery = None
                                   THEN Visible(k).last_updated ELSE Wall)
    <3>1. inner[k] \in Entry /\ inner[k].connected
      BY DEF IInv, TypeOK, Stale
    <3>2. inner[k].refs # 0
      BY <3>1 DEF IInv, TypeOK, Absent
    <3>3. inner'[k] = Disconnected(inner[k])
      BY DEF Sweep
    <3>4. inner'[k].refs # 0
      BY <3>2, <3>3 DEF Disconnected
    <3> QED
      BY <3>1, <3>2, <3>3, <3>4, Shown, ListedIsSomething
         DEF Disconnected, Feed!Device
  <2>2. ASSUME NEW k \in Keys, k \notin silent PROVE Visible(k)' = Visible(k)
    <3>1. inner'[k] = inner[k]
      BY <2>2 DEF Sweep
    <3> QED
      BY <3>1, Shown
  <2>3. UNCHANGED Wall /\ Wall >= Wall
    BY DEF Wall, IInv, TypeOK
  <2> HIDE DEF silent
  <2>4. silent \in SUBSET Keys
    BY DEF silent
  <2>5. Feed!Swept(silent, Wall)
    BY <1>1, <2>1, <2>2, <2>3, <2>4 DEF Feed!Swept, Chan
  <2> QED
    BY <2>4, <2>5 DEF Feed!Next
<1>2. CASE silent = {}
  BY <1>2, NotShown DEF Sweep, Chan
<1> QED
  BY <1>1, <1>2

LEMMA ClockShown ==
  ASSUME IInv, \/ Tick
               \/ \E duration \in 1..MaxAsleep : Suspend(duration)
  PROVE  Feed!Next
<1>1. UNCHANGED published
  BY DEF Tick, Suspend, devices
<1>2. Wall' \in Nat /\ Wall' > Wall
  BY ConstantsAssumption DEF Tick, Suspend, Wall, IInv, TypeOK
<1>3. UNCHANGED Chan
  BY <1>1 DEF Chan, Visible
<1> QED
  BY <1>2, <1>3 DEF Feed!Next, Chan

LEMMA StepShown == IInv /\ IInv' /\ [Next]_vars => [Feed!Next]_<<Chan, Wall>>
<1> SUFFICES ASSUME IInv, IInv', [Next]_vars
             PROVE  [Feed!Next]_<<Chan, Wall>>
  OBVIOUS
<1>1. CASE \E k \in Keys : \/ Acquire(k) \/ Release(k) \/ MarkTraffic(k)
                          \/ \E b \in Readings : UpdateBattery(k, b)
  BY <1>1, AcquireShown, ReleaseShown, MarkTrafficShown, UpdateBatteryShown
<1>2. CASE SweeperFire
  BY <1>2, SweepShown DEF SweeperFire, clocks
<1>3. CASE Tick \/ \E duration \in 1..MaxAsleep : Suspend(duration)
  BY <1>3, ClockShown
<1>4. CASE SweeperArm \/ SweeperNotified \/ NoteResume \/ MissResume
             \/ UNCHANGED vars
  <2>1. UNCHANGED <<published, now, asleep>>
    BY <1>4 DEF SweeperArm, SweeperNotified, NoteResume, MissResume, devices,
                clocks, vars
  <2> QED
    BY <2>1, NotShown DEF Chan
<1> QED
  BY <1>1, <1>2, <1>3, <1>4 DEF Next

(* The registry implements Channel for any controllers, readings and       *)
(* windows: nothing else of it is visible to the D-Bus service.            *)
THEOREM RegistryImplementsChannel == Spec => ImplementsChannel
<1>1. Init => Chan = [k \in Keys |-> None] /\ Wall \in Nat
  <2> SUFFICES ASSUME Init PROVE Chan = [k \in Keys |-> None] /\ Wall \in Nat
    OBVIOUS
  <2>1. ~Snapshot(Absent).present
    BY AbsentTyped, SnapshotFields DEF Absent
  <2>2. \A k \in Keys : published[k] = Snapshot(Absent)
    BY DEF Init, Snapshot
  <2>3. \A k \in Keys : Visible(k) = None
    BY <2>1, <2>2 DEF Visible
  <2> QED
    BY <2>3, ConstantsAssumption DEF Init, Chan, Wall
<1>2. Init => Feed!Init
  BY <1>1 DEF Feed!Init, Chan
<1> QED
  BY <1>2, StepShown, Inductive, PTL
     DEF Spec, ImplementsChannel, Feed!Spec, Chan
-----------------------------------------------------------------------------
(* The deadband *)

\* Two reports that clients need not tell apart.
Alike(a, b) ==
  /\ a.level = b.level
  /\ a.charge_state = b.charge_state
  /\ \A f \in Fields : /\ a.analog[f] - b.analog[f] < Deadband[f]
                       /\ b.analog[f] - a.analog[f] < Deadband[f]

\* What an entry keeps of its last report: PublishedWithinDeadband of `inner`.
Kept(k) ==
  reported[k] # None =>
    inner[k].battery # None /\ Alike(inner[k].battery, reported[k])

\* Reports that do not differ significantly are alike.
LEMMA InsignificantAlike ==
  ASSUME NEW a \in Readings, NEW b \in Readings, ~Significant(a, b)
  PROVE  Alike(a, b)
<1>1. \A f \in Fields : /\ a.analog[f] \in Nat /\ b.analog[f] \in Nat
                        /\ Deadband[f] \in Nat
  BY ConstantsAssumption DEF BatteryStatus
<1> QED
  BY <1>1 DEF Significant, AbsDiff, Alike

\* Every operation but a report leaves a battery and its report, or forgets
\* the report.
LEMMA BatteryStays ==
  ASSUME IInv, [Next]_vars, NEW k \in Keys, Kept(k),
         \A b \in Readings : ~UpdateBattery(k, b)
  PROVE  Kept(k)'
<1>1. ASSUME inner'[k].battery = inner[k].battery, reported'[k] = reported[k]
      PROVE  Kept(k)'
  BY <1>1 DEF Kept, Alike
<1>2. ASSUME NEW j \in Keys, Acquire(j) PROVE Kept(k)'
  <2>1. inner'[k].battery = inner[k].battery /\ UNCHANGED reported
    BY <1>2 DEF Acquire, WithRefs, history, IInv, TypeOK
  <2> QED
    BY <1>1, <2>1
<1>3. ASSUME NEW j \in Keys, Release(j) PROVE Kept(k)'
  <2>1. CASE inner[j].refs = 1 /\ j = k
    BY <1>3, <2>1 DEF Release, Unhear, Kept, IInv, TypeOK
  <2>2. CASE inner[j].refs # 1 \/ j # k
    <3>1. inner'[k].battery = inner[k].battery /\ reported'[k] = reported[k]
      BY <1>3, <2>2 DEF Release, Unhear, WithRefs, history, IInv, TypeOK
    <3> QED
      BY <1>1, <3>1
  <2> QED
    BY <2>1, <2>2
<1>4. ASSUME NEW j \in Keys, MarkTraffic(j) PROVE Kept(k)'
  <2>1. inner'[k].battery = inner[k].battery /\ UNCHANGED reported
    BY <1>4 DEF MarkTraffic, Seen, IInv, TypeOK
  <2> QED
    BY <1>1, <2>1
<1>5. ASSUME NEW j \in Keys, NEW b \in Readings, UpdateBattery(j, b)
      PROVE  Kept(k)'
  <2>1. j # k
    BY <1>5
  <2>2. inner'[k] = inner[k] /\ reported'[k] = reported[k]
    BY <1>5, <2>1 DEF UpdateBattery, IInv, TypeOK
  <2> QED
    BY <1>1, <2>2
<1>6. CASE SweeperFire
  <2>1. inner'[k].battery = inner[k].battery /\ UNCHANGED reported
    BY <1>6 DEF SweeperFire, Sweep, Disconnected, history
  <2> QED
    BY <1>1, <2>1
<1>7. CASE NoteResume
  <2>1. inner'[k].battery = inner[k].battery /\ UNCHANGED reported
    BY <1>7 DEF NoteResume
  <2> QED
    BY <1>1, <2>1
<1>8. CASE \/ SweeperArm \/ SweeperNotified \/ Tick \/ MissResume
           \/ \E duration \in 1..MaxAsleep : Suspend(duration)
           \/ UNCHANGED vars
  <2>1. UNCHANGED <<inner, reported>>
    BY <1>8 DEF SweeperArm, SweeperNotified, Tick, MissResume, Suspend,
                devices, history, vars
  <2> QED
    BY <1>1, <2>1
<1> QED
  BY <1>2, <1>3, <1>4, <1>5, <1>6, <1>7, <1>8 DEF Next

\* A report is kept as it is or is like the one that is kept.
LEMMA ReportKept ==
  ASSUME IInv, NEW k \in Keys, NEW b \in Readings, UpdateBattery(k, b)
  PROVE  Kept(k)'
<1>1. reported'[k] = b /\ b # None
  BY ConstantsAssumption DEF UpdateBattery, IInv, TypeOK
<1>2. CASE inner'[k].battery = b
  <2>1. \A f \in Fields : b.analog[f] \in Nat /\ Deadband[f] \in Nat \ {0}
    BY ConstantsAssumption DEF BatteryStatus
  <2>2. Alike(b, b)
    BY <2>1 DEF Alike
  <2> QED
    BY <1>1, <1>2, <2>2 DEF Kept, Alike
<1>3. CASE inner'[k].battery # b
  <2>1. /\ inner[k].battery # None
        /\ ~Significant(inner[k].battery, b)
        /\ inner'[k].battery = inner[k].battery
    BY <1>3 DEF UpdateBattery, Seen, IInv, TypeOK
  <2>2. inner[k].battery \in Readings
    BY <2>1 DEF IInv, TypeOK, Entry, Option
  <2>3. Alike(inner[k].battery, b)
    BY <2>1, <2>2, InsignificantAlike
  <2> QED
    BY <1>1, <2>1, <2>3 DEF Kept, Alike
<1> QED
  BY <1>2, <1>3

(* What clients see is within a deadband of the last report, for any       *)
(* deadbands and any sequence of reports, drops and resumes.               *)
THEOREM DriftCannotHide == Spec => []PublishedWithinDeadband
<1> DEFINE KInv == \A k \in Keys : Kept(k)
<1>1. Init => KInv
  BY DEF Init, Kept
<1>2. IInv /\ KInv /\ [Next]_vars => KInv'
  BY BatteryStays, ReportKept
<1>3. IInv /\ KInv => PublishedWithinDeadband
  <2> SUFFICES ASSUME IInv, KInv, NEW k \in Keys, reported[k] # None
               PROVE  /\ published[k].battery # None
                      /\ Alike(published[k].battery, reported[k])
    BY DEF PublishedWithinDeadband, Alike
  <2>1. published[k] = Snapshot(inner[k]) /\ inner[k] \in Entry
    BY DEF IInv, PublishedIsInner, TypeOK
  <2> QED
    BY <2>1, SnapshotFields DEF Kept
<1> QED
  BY <1>1, <1>2, <1>3, Inductive, PTL DEF Spec

\* Only a significant report changes what is published of a device that is
\* and stays connected.
LEMMA OnlyReportsShow ==
  ASSUME IInv, IInv', [Next]_vars, NEW k \in Keys,
         inner[k].connected, inner'[k].connected, inner[k].battery # None,
         Snapshot(inner'[k]) # Snapshot(inner[k])
  PROVE  \E b \in Readings : /\ Significant(inner[k].battery, b)
                             /\ inner'[k].battery = b
<1>1. inner[k].refs # 0
  BY DEF IInv, TypeOK, Absent
<1>2. ASSUME inner'[k].connected = inner[k].connected,
             inner'[k].battery = inner[k].battery,
             inner'[k].last_updated = inner[k].last_updated,
             inner'[k].refs # 0
      PROVE  FALSE
  <2>1. inner[k].refs \in Nat /\ inner'[k].refs \in Nat
    BY DEF IInv, TypeOK, Entry
  <2>2. (inner'[k].refs > 0) = (inner[k].refs > 0)
    BY <1>1, <1>2, <2>1
  <2> QED
    BY <1>2, <2>2, Zenon DEF Snapshot
<1>3. inner'[k].refs # 0
  BY DEF IInv, TypeOK, Absent
<1>4. ASSUME NEW j \in Keys, Acquire(j) PROVE FALSE
  <2>1. /\ inner'[k].connected = inner[k].connected
        /\ inner'[k].battery = inner[k].battery
        /\ inner'[k].last_updated = inner[k].last_updated
    BY <1>4 DEF Acquire, WithRefs, IInv, TypeOK
  <2> QED
    BY <1>2, <1>3, <2>1
<1>5. ASSUME NEW j \in Keys, Release(j) PROVE FALSE
  <2>1. ~(inner[j].refs = 1 /\ j = k)
    BY <1>3, <1>5 DEF Release, Absent, IInv, TypeOK
  <2>2. /\ inner'[k].connected = inner[k].connected
        /\ inner'[k].battery = inner[k].battery
        /\ inner'[k].last_updated = inner[k].last_updated
    BY <1>5, <2>1 DEF Release, WithRefs, IInv, TypeOK
  <2> QED
    BY <1>2, <1>3, <2>2
<1>6. ASSUME NEW j \in Keys, MarkTraffic(j) PROVE FALSE
  <2>1. /\ inner'[k].connected = inner[k].connected
        /\ inner'[k].battery = inner[k].battery
        /\ inner'[k].last_updated = inner[k].last_updated
    BY <1>6 DEF MarkTraffic, Seen, IInv, TypeOK
  <2> QED
    BY <1>2, <1>3, <2>1
<1>7. ASSUME NEW j \in Keys, NEW b \in Readings, UpdateBattery(j, b)
      PROVE  Significant(inner[k].battery, b) /\ inner'[k].battery = b
  <2>1. CASE j # k
    <3>1. inner'[k] = inner[k]
      BY <1>7, <2>1 DEF UpdateBattery, IInv, TypeOK
    <3> QED
      BY <1>2, <1>3, <3>1
  <2>2. CASE j = k /\ ~Significant(inner[k].battery, b)
    <3>1. inner' = [inner EXCEPT ![k] = Seen(inner[k], inner[k].battery,
                                             inner[k].last_updated)]
      BY <1>7, <2>2 DEF UpdateBattery
    <3>2. /\ inner'[k].connected = inner[k].connected
          /\ inner'[k].battery = inner[k].battery
          /\ inner'[k].last_updated = inner[k].last_updated
      BY <3>1 DEF Seen, IInv, TypeOK
    <3> QED
      BY <1>2, <1>3, <3>2
  <2>3. CASE j = k /\ Significant(inner[k].battery, b)
    BY <1>7, <2>3 DEF UpdateBattery, Seen, IInv, TypeOK
  <2> QED
    BY <2>1, <2>2, <2>3
<1>8. CASE SweeperFire
  <2>1. inner'[k] = inner[k]
    BY <1>8 DEF SweeperFire, Sweep, Disconnected
  <2> QED
    BY <1>2, <1>3, <2>1
<1>9. CASE NoteResume
  <2>1. /\ inner'[k].connected = inner[k].connected
        /\ inner'[k].battery = inner[k].battery
        /\ inner'[k].last_updated = inner[k].last_updated
    BY <1>9 DEF NoteResume
  <2> QED
    BY <1>2, <1>3, <2>1
<1>10. CASE \/ SweeperArm \/ SweeperNotified \/ Tick \/ MissResume
            \/ \E duration \in 1..MaxAsleep : Suspend(duration)
            \/ UNCHANGED vars
  <2>1. UNCHANGED inner
    BY <1>10 DEF SweeperArm, SweeperNotified, Tick, MissResume, Suspend,
                 devices, vars
  <2> QED
    BY <1>2, <1>3, <2>1
<1> QED
  BY <1>4, <1>5, <1>6, <1>7, <1>8, <1>9, <1>10 DEF Next

\* A significant report has a level or state of its own or is a full
\* deadband away.
LEMMA SignificantMoves ==
  ASSUME NEW a \in Readings, NEW b \in Readings, Significant(a, b)
  PROVE  \/ a.level # b.level
         \/ a.charge_state # b.charge_state
         \/ \E f \in Fields : \/ b.analog[f] >= a.analog[f] + Deadband[f]
                              \/ a.analog[f] >= b.analog[f] + Deadband[f]
<1>1. \A f \in Fields : /\ a.analog[f] \in Nat /\ b.analog[f] \in Nat
                        /\ Deadband[f] \in Nat
  BY ConstantsAssumption DEF BatteryStatus
<1> QED
  BY <1>1 DEF Significant, AbsDiff

(* No step republishes a connected device's battery or stamp for less than *)
(* a deadband, for any deadbands.                                          *)
THEOREM JitterWakesNobody == Spec => NoJitter
<1> DEFINE Quiet(k, old, new) ==
             old.connected /\ new.connected /\ old.battery # None /\ old # new =>
               /\ new.battery # None
               /\ \/ old.battery.level # new.battery.level
                  \/ old.battery.charge_state # new.battery.charge_state
                  \/ \E f \in Fields :
                       \/ new.battery.analog[f]
                            >= old.battery.analog[f] + Deadband[f]
                       \/ old.battery.analog[f]
                            >= new.battery.analog[f] + Deadband[f]
<1>1. ASSUME IInv, IInv', [Next]_vars, NEW k \in Keys
      PROVE  Quiet(k, published[k], published'[k])
  <2>1. published[k] = Snapshot(inner[k]) /\ published'[k] = Snapshot(inner'[k])
    BY <1>1 DEF IInv, PublishedIsInner, Snapshot
  <2>2. inner[k] \in Entry /\ inner'[k] \in Entry
    BY <1>1 DEF IInv, TypeOK
  <2> SUFFICES ASSUME inner[k].connected, inner'[k].connected,
                      inner[k].battery # None,
                      Snapshot(inner'[k]) # Snapshot(inner[k])
               PROVE  /\ inner'[k].battery # None
                      /\ \/ inner[k].battery.level # inner'[k].battery.level
                         \/ inner[k].battery.charge_state
                              # inner'[k].battery.charge_state
                         \/ \E f \in Fields :
                              \/ inner'[k].battery.analog[f]
                                   >= inner[k].battery.analog[f] + Deadband[f]
                              \/ inner[k].battery.analog[f]
                                   >= inner'[k].battery.analog[f] + Deadband[f]
    BY <2>1, <2>2, SnapshotFields
  <2>3. PICK b \in Readings : /\ Significant(inner[k].battery, b)
                              /\ inner'[k].battery = b
    BY <1>1, OnlyReportsShow
  <2>4. inner[k].battery \in Readings
    BY <2>2 DEF Entry, Option
  <2> QED
    BY <2>3, <2>4, SignificantMoves, ConstantsAssumption
<1>2. IInv /\ IInv' /\ [Next]_vars
        => [\A k \in Keys : Quiet(k, published[k], published'[k])]_vars
  BY <1>1
<1> QED
  BY <1>2, Inductive, PTL DEF Spec, NoJitter
=============================================================================
