-------------------------- MODULE DBusMirrorProofs --------------------------
(***************************************************************************)
(* Safety of DBusMirror for any controllers, levels, clocks and faults.    *)
(*                                                                         *)
(* The invariant follows the mirror task through its pass.  `Paths` says   *)
(* who owns which path, `PassDone` what the pass has mirrored so far of    *)
(* its copy, `Told` what a follower knows; `Counted` pays for every path   *)
(* with a publication, so that the paths of the model never run out.       *)
(***************************************************************************)
EXTENDS DBusMirror, FiniteSetTheorems, TLAPS

\* Keys that the task will serve at a new path, in this pass or the next.
Pending ==
  {k \in Keys : \/ k \in rest /\ present[k] = None
                \/ channel[k] # None /\ (present[k] = None \/ k \in gone)}

Counted == next_index + Cardinality(Pending) <= publishes

\* A mirrored key has a path below `next_index` that was its own from the
\* start, with an object on it; nothing has ever been at the other paths.
Paths ==
  /\ \A k \in Keys :
       present[k] # None => /\ present[k] < next_index
                            /\ served[present[k]] = k
                            /\ objects[present[k]] # None
  /\ \A i \in Indices :
       i >= next_index => /\ served[i] = None
                          /\ objects[i] = None
                          /\ follower.props[i] = None

\* k is served as the pass's copy has it, or the pass has yet to see to it.
Settled(k) ==
  IF snapshots[k] = None
  THEN k \in gone \/ present[k] = None
  ELSE k \in rest \/ (present[k] # None /\ objects[present[k]] = snapshots[k])

PassDone ==
  /\ \A k \in rest : snapshots[k] # None
  /\ \A k \in gone : present[k] # None /\ snapshots[k] = None
  /\ at # "pass" => gone = {}
  /\ at \notin {"pass", "emitting"} => rest = {}
  /\ at \notin {"connecting", "named"} =>
       /\ ~unseen => snapshots = channel
       /\ \A k \in Keys : Settled(k)
  /\ at \in {"announcing", "waiting"} => devices = Indexed

\* A follower has what an object says or what the signal about to be sent
\* corrects.
Knows(i) ==
  objects[i] # None /\ follower.props[i] # None =>
    \/ follower.props[i] = DeviceProps(objects[i])
    \/ at = "emitting" /\ signal.index = i /\ follower.props[i] = signal.old

Told ==
  /\ \A i \in Indices \ lost : Knows(i)
  /\ at = "emitting" => objects[signal.index] # None
  /\ None \notin lost /\ at # "announcing" => follower.devices = devices

IInv == TypeOK /\ Counted /\ Paths /\ PassDone /\ Told

-----------------------------------------------------------------------------
(* Values *)

\* Whole seconds are no more than the stamps they come from.
LEMMA SecondsBounded ==
  ASSUME NEW n \in 0..MaxStamp PROVE n \div PerSecond \in 0..MaxStamp
<1>1. PerSecond \in Nat \ {0} /\ MaxStamp \in Nat
  BY ConstantsAssumption
<1> DEFINE q == n \div PerSecond
<1>2. q \in Nat /\ n = PerSecond * q + (n % PerSecond) /\ n % PerSecond \in Nat
  BY <1>1
<1>3. PerSecond * q <= n
  BY <1>1, <1>2
<1> HIDE DEF q
<1>4. q <= PerSecond * q
  BY <1>1, <1>2
<1>5. q \in 0..MaxStamp
  BY <1>1, <1>2, <1>3, <1>4
<1> QED
  BY <1>5 DEF q

\* What the bus says of a snapshot is well typed.
LEMMA PropsTyped ==
  ASSUME NEW s \in Snapshot PROVE DeviceProps(s) \in Props
<1>1. s.last_updated # None => s.last_updated \div PerSecond \in 0..MaxStamp
  BY SecondsBounded DEF Snapshot, Option
<1> QED
  BY <1>1, ConstantsAssumption DEF Snapshot, Option, DeviceProps, Props

\* So is a cache that a signal changed.
LEMMA AppliedTyped ==
  ASSUME NEW c \in Props, NEW old \in Props, NEW new \in Props
  PROVE  Apply(c, old, new) \in Props
  BY DEF Props, Apply

\* A signal brings a cache that had the old values up to date, and leaves
\* one that has the new ones.
LEMMA AppliedRight ==
  ASSUME NEW c \in Props, NEW old \in Props, NEW new \in Props,
         c = old \/ c = new
  PROVE  Apply(c, old, new) = new
  BY DEF Props, Apply

\* Counting pending keys.
LEMMA PendingCounts ==
  ASSUME NEW S, S \subseteq Keys
  PROVE  IsFiniteSet(S) /\ Cardinality(S) \in Nat
  BY ConstantsAssumption, FS_Subset, FS_CardinalityType

\* The count does not grow without a publication.
LEMMA CountKept ==
  ASSUME TypeOK, Counted, Pending' \subseteq Pending,
         UNCHANGED next_index, publishes' = publishes
  PROVE  Counted'
<1>1. /\ IsFiniteSet(Pending) /\ Cardinality(Pending) \in Nat
      /\ Cardinality(Pending)' \in Nat
  BY PendingCounts DEF Pending
<1>2. Cardinality(Pending)' <= Cardinality(Pending)
  BY <1>1, FS_Subset
<1> QED
  BY <1>1, <1>2 DEF Counted, TypeOK, Indices

-----------------------------------------------------------------------------
(* Steps *)

LEMMA InitInvariant == Init => IInv
<1> SUFFICES ASSUME Init PROVE IInv
  OBVIOUS
<1> USE ConstantsAssumption DEF Init, ProcessStart
<1>1. TypeOK
  <2>1. Nobody \in [Indices -> Option(Snapshot)]
        /\ Nobody \in [Indices -> Option(Props)]
        /\ Nobody \in [Indices -> Option(Keys)]
    BY DEF Nobody, Option
  <2>2. [k \in Keys |-> None] \in [Keys -> Option(Snapshot)]
        /\ [k \in Keys |-> None] \in [Keys -> Option(Indices)]
    BY DEF Option
  <2>3. 0 \in Indices /\ 0 \in 0..MaxPublishes /\ 0 \in 0..MaxStamp
        /\ 0 \in 0..MaxFaults
    BY DEF Indices
  <2>4. [devices |-> {}, props |-> Nobody]
          \in [devices : SUBSET Indices, props : [Indices -> Option(Props)]]
    BY <2>1
  <2> QED
    BY <2>1, <2>2, <2>3, <2>4 DEF TypeOK, Stage
<1>2. Pending = {}
  BY DEF Pending
<1>3. Counted
  BY <1>2, FS_EmptySet DEF Counted
<1>4. Paths
  BY DEF Paths, Nobody
<1>5. PassDone
  BY DEF PassDone
<1>6. Told
  BY DEF Told, Knows, Nobody
<1> QED
  BY <1>1, <1>3, <1>4, <1>5, <1>6 DEF IInv

\* What the registry may publish is well typed and lists at most one key more.
LEMMA Published ==
  ASSUME TypeOK, RegistryNext
  PROVE  /\ channel' \in [Keys -> Option(Snapshot)] /\ wall' \in 0..MaxStamp
         /\ \E k \in Keys \cup {None} : \A j \in Keys :
              channel'[j] # None => channel[j] # None \/ j = k
<1> USE ConstantsAssumption
<1> DEFINE Right == /\ channel' \in [Keys -> Option(Snapshot)]
                    /\ wall' \in 0..MaxStamp
                    /\ \E k \in Keys \cup {None} : \A j \in Keys :
                         channel'[j] # None => channel[j] # None \/ j = k
<1>1. channel \in [Keys -> Option(Snapshot)] /\ wall \in 0..MaxStamp
  BY DEF TypeOK
<1>2. ASSUME NEW k \in Keys, Feed!Acquired(k) PROVE Right
  <2>1. Feed!Device(FALSE, None, None) \in Snapshot
    BY DEF Feed!Device, Snapshot, Option
  <2> QED
    BY <1>1, <1>2, <2>1 DEF Feed!Acquired, Option
<1>3. ASSUME NEW k \in Keys, Feed!Released(k) PROVE Right
  BY <1>1, <1>3 DEF Feed!Released, Option
<1>4. ASSUME NEW k \in Keys, Feed!TrafficMarked(k) PROVE Right
  <2>1. channel[k] \in Snapshot
    BY <1>1, <1>4 DEF Feed!TrafficMarked, Option
  <2>2. Feed!Device(TRUE, channel[k].battery, channel[k].last_updated)
          \in Snapshot
    BY <2>1 DEF Feed!Device, Snapshot
  <2> QED
    BY <1>1, <1>4, <2>2 DEF Feed!TrafficMarked, Option
<1>5. ASSUME NEW k \in Keys, NEW stamp \in wall..MaxStamp,
             NEW level \in Levels, Feed!BatteryUpdated(k, level, stamp)
      PROVE  Right
  <2>1. stamp \in 0..MaxStamp
    BY <1>1
  <2>2. Feed!Device(TRUE, level, stamp) \in Snapshot
    BY <2>1 DEF Feed!Device, Snapshot, Option
  <2> QED
    BY <1>1, <1>5, <2>1, <2>2 DEF Feed!BatteryUpdated, Option
<1>6. ASSUME NEW stamp \in wall..MaxStamp, NEW silent \in SUBSET Keys,
             Feed!Swept(silent, stamp)
      PROVE  Right
  <2>1. stamp \in 0..MaxStamp
    BY <1>1
  <2>2. ASSUME NEW k \in silent
        PROVE  /\ channel[k] # None
               /\ Feed!Device(FALSE, channel[k].battery,
                              IF channel[k].battery = None
                              THEN channel[k].last_updated ELSE stamp)
                    \in Snapshot
    <3>1. channel[k] # None /\ channel[k] \in Snapshot
      BY <1>1, <1>6 DEF Feed!Swept, Option
    <3> QED
      BY <2>1, <3>1 DEF Feed!Device, Snapshot, Option
  <2>3. channel' \in [Keys -> Option(Snapshot)] /\ wall' \in 0..MaxStamp
    BY <1>1, <1>6, <2>1, <2>2 DEF Feed!Swept, Option
  <2>4. \A j \in Keys : channel'[j] # None => channel[j] # None
    BY <1>6, <2>2 DEF Feed!Swept
  <2> QED
    BY <2>3, <2>4
<1> QED
  BY <1>2, <1>3, <1>4, <1>5, <1>6 DEF RegistryNext

\* The registry publishes: the key it lists, if any, is one more to serve.
LEMMA RegistryStep ==
  ASSUME IInv, RegistryNext PROVE IInv'
<1>1. UNCHANGED <<at, snapshots, gone, rest, present, next_index, objects,
                  served, devices, signal, follower, lost, faults>>
      /\ publishes' = publishes + 1 /\ publishes' \in 0..MaxPublishes
      /\ unseen' = TRUE
  BY ConstantsAssumption DEF RegistryNext, pass, tree, IInv, TypeOK
<1>2. TypeOK'
  BY <1>1, Published DEF IInv, TypeOK
<1>3. Counted'
  <2>1. PICK k \in Keys \cup {None} : \A j \in Keys :
          channel'[j] # None => channel[j] # None \/ j = k
    BY Published DEF IInv
  <2>2. Pending' \subseteq Pending \cup {k}
    BY <1>1, <2>1 DEF Pending
  <2>3. /\ IsFiniteSet(Pending) /\ Cardinality(Pending) \in Nat
        /\ Cardinality(Pending)' \in Nat
    BY PendingCounts DEF Pending
  <2>4. /\ IsFiniteSet(Pending \cup {k})
        /\ Cardinality(Pending \cup {k}) \in Nat
        /\ Cardinality(Pending \cup {k}) <= Cardinality(Pending) + 1
    BY <2>3, FS_AddElement
  <2>5. Cardinality(Pending)' <= Cardinality(Pending \cup {k})
    BY <2>2, <2>4, FS_Subset
  <2> QED
    BY <1>1, <2>3, <2>4, <2>5 DEF IInv, Counted, TypeOK, Indices
<1>4. Paths'
  BY <1>1 DEF IInv, Paths
<1>5. PassDone'
  BY <1>1 DEF IInv, PassDone, Settled, Indexed
<1>6. Told'
  BY <1>1 DEF IInv, Told, Knows
<1> QED
  BY <1>2, <1>3, <1>4, <1>5, <1>6 DEF IInv

\* A pass begins.
LEMMA BeginPassStep ==
  ASSUME IInv, BeginPass, at \in {"named", "waiting"},
         UNCHANGED <<registry, tree, devices, signal, follower, lost, faults>>
  PROVE  IInv'
<1>1. UNCHANGED <<channel, wall, publishes, present, next_index, objects,
                  served, devices, signal, follower, lost, faults>>
  BY DEF registry, tree
<1>2. /\ at' = "pass" /\ snapshots' = channel /\ unseen' = FALSE
      /\ gone' = {k \in Keys : present[k] # None /\ channel[k] = None}
      /\ rest' = {k \in Keys : channel[k] # None}
  BY DEF BeginPass
<1>3. TypeOK'
  BY <1>1, <1>2 DEF IInv, TypeOK, Stage
<1>4. Counted'
  <2>1. Pending' \subseteq Pending
    BY <1>1, <1>2 DEF Pending
  <2> QED
    BY <1>1, <2>1, CountKept DEF IInv
<1>5. Paths'
  BY <1>1 DEF IInv, Paths
<1>6. PassDone'
  BY <1>1, <1>2 DEF PassDone, Settled
<1>7. Told'
  BY <1>1, <1>2 DEF IInv, Told, Knows
<1> QED
  BY <1>3, <1>4, <1>5, <1>6, <1>7 DEF IInv

LEMMA ConnectStep ==
  ASSUME IInv, Connect PROVE IInv'
<1>1. /\ at = "connecting" /\ at' = "named"
      /\ UNCHANGED <<channel, unseen, snapshots, gone, rest, present,
                     next_index, objects, devices, signal, follower, served,
                     lost, wall, publishes, faults>>
  BY DEF Connect, registry, pass, tree
<1>2. TypeOK'
  BY <1>1 DEF IInv, TypeOK, Stage
<1>3. Counted' /\ Paths'
  BY <1>1 DEF IInv, Counted, Pending, Paths
<1>4. PassDone' /\ Told'
  BY <1>1 DEF IInv, PassDone, Told, Knows
<1> QED
  BY <1>2, <1>3, <1>4 DEF IInv

\* A departed key loses its path; its object may stay behind.
LEMMA RemoveGoneStep ==
  ASSUME IInv, NEW k \in Keys, RemoveGone(k) PROVE IInv'
<1>1. /\ at = "pass" /\ k \in gone /\ gone' = gone \ {k}
      /\ present' = [present EXCEPT ![k] = None]
      /\ UNCHANGED <<channel, unseen, at, snapshots, rest, next_index,
                     devices, signal, follower, served, lost, wall, publishes>>
  BY DEF RemoveGone, registry
<1>2. present[k] # None /\ snapshots[k] = None
  BY <1>1 DEF IInv, PassDone
<1>3. \A i \in Indices : objects'[i] # objects[i] => i = present[k]
      /\ objects'[i] = None
  BY <1>1 DEF RemoveGone, IInv, TypeOK
<1>4. /\ objects' \in [Indices -> Option(Snapshot)] /\ faults' \in 0..MaxFaults
      /\ present' \in [Keys -> Option(Indices)]
  BY <1>1, ConstantsAssumption
  DEF RemoveGone, Fault, IInv, TypeOK, Option
<1>5. TypeOK'
  BY <1>1, <1>4 DEF IInv, TypeOK
<1>6. Counted'
  <2>1. k \notin rest
    BY <1>2 DEF IInv, PassDone
  <2>2. Pending' \subseteq Pending
    BY <1>1, <2>1 DEF Pending, IInv, TypeOK
  <2> QED
    BY <1>1, <2>2, CountKept DEF IInv
<1>7. ASSUME NEW j \in Keys, present'[j] # None
      PROVE  /\ present'[j] = present[j] /\ present[j] \in Indices
             /\ present[j] # present[k]
  BY <1>1, <1>2, <1>7 DEF IInv, TypeOK, Paths, Option
<1>8. Paths'
  <2>1. \A j \in Keys : present'[j] # None =>
          objects'[present[j]] = objects[present[j]]
    BY <1>3, <1>7
  <2> QED
    BY <1>1, <1>3, <1>7, <2>1 DEF IInv, Paths
<1>9. PassDone'
  <2>1. ASSUME NEW j \in Keys PROVE Settled(j)'
    <3>1. CASE j = k
      BY <1>1, <1>2, <3>1 DEF Settled, IInv, TypeOK
    <3>2. CASE j # k
      BY <1>1, <1>3, <1>7, <3>2 DEF Settled, IInv, PassDone, TypeOK
    <3> QED
      BY <3>1, <3>2
  <2> QED
    BY <1>1, <2>1 DEF IInv, PassDone, TypeOK
<1>10. Told'
  BY <1>1, <1>3 DEF IInv, Told, Knows
<1> QED
  BY <1>5, <1>6, <1>8, <1>9, <1>10 DEF IInv

\* Nobody else's path is i.
LEMMA OwnPath ==
  ASSUME IInv, NEW k \in Keys, NEW j \in Keys, present[k] # None, j # k
  PROVE  present[j] # present[k]
  BY DEF IInv, Paths

\* A served key takes its new snapshot.
LEMMA UpdateDeviceStep ==
  ASSUME IInv, NEW k \in Keys, UpdateDevice(k) PROVE IInv'
<1> DEFINE i == present[k]
<1>1. /\ at = "pass" /\ gone = {} /\ k \in rest /\ i # None
      /\ rest' = rest \ {k}
      /\ objects' = [objects EXCEPT ![i] = snapshots[k]]
      /\ UNCHANGED <<channel, unseen, snapshots, gone, present, next_index,
                     devices, follower, served, lost, wall, publishes, faults>>
  BY DEF UpdateDevice, registry
<1>2. /\ i \in Indices /\ i < next_index
      /\ objects[i] \in Snapshot /\ objects[i] # None
      /\ snapshots[k] \in Snapshot /\ snapshots[k] # None
  BY <1>1 DEF IInv, TypeOK, Paths, PassDone, Option
<1>3. \/ /\ DeviceProps(objects[i]) = DeviceProps(snapshots[k])
         /\ at' = "pass" /\ UNCHANGED signal
      \/ /\ at' = "emitting"
         /\ signal' = [index |-> i, old |-> DeviceProps(objects[i])]
  BY <1>1 DEF UpdateDevice
<1>4. TypeOK'
  <2>1. DeviceProps(objects[i]) \in Props
    BY <1>2, PropsTyped
  <2>2. objects' \in [Indices -> Option(Snapshot)]
    BY <1>1, <1>2 DEF IInv, TypeOK, Option
  <2>3. /\ at' \in Stage
        /\ IF at' = "emitting" THEN signal' \in [index : Indices, old : Props]
                               ELSE signal' = None
    BY <1>1, <1>2, <1>3, <2>1 DEF IInv, TypeOK, Stage
  <2> QED
    BY <1>1, <2>2, <2>3 DEF IInv, TypeOK
<1>5. Counted'
  <2>1. Pending' \subseteq Pending
    BY <1>1 DEF Pending
  <2> QED
    BY <1>1, <2>1, CountKept DEF IInv
<1>6. /\ objects'[i] = snapshots[k]
      /\ \A j \in Indices : j # i => objects'[j] = objects[j]
  BY <1>1, <1>2 DEF IInv, TypeOK
<1>7. Paths'
  <2>1. \A j \in Keys : present[j] # None => /\ present[j] \in Indices
                                            /\ objects'[present[j]] # None
    BY <1>2, <1>6 DEF IInv, TypeOK, Paths, Option
  <2>2. \A j \in Indices : j >= next_index => j # i
    BY <1>2 DEF Indices, IInv, TypeOK
  <2> QED
    BY <1>1, <1>6, <2>1, <2>2 DEF IInv, Paths
<1>8. PassDone'
  <2>1. ASSUME NEW j \in Keys PROVE Settled(j)'
    <3>1. CASE j = k
      BY <1>1, <1>2, <1>6, <3>1 DEF Settled
    <3>2. CASE j # k
      <4>1. present[j] # None => present[j] \in Indices /\ present[j] # i
        BY <1>1, <3>2, OwnPath DEF IInv, TypeOK, Option
      <4>2. Settled(j)
        BY <1>1 DEF IInv, PassDone
      <4> QED
        BY <1>1, <1>6, <3>2, <4>1, <4>2 DEF Settled
    <3> QED
      BY <3>1, <3>2
  <2> QED
    BY <1>1, <1>3, <2>1 DEF IInv, PassDone
<1>9. Told'
  <2>1. ASSUME NEW j \in Indices \ lost PROVE Knows(j)'
    <3>1. Knows(j) /\ signal = None
      BY <1>1 DEF IInv, Told, TypeOK
    <3>2. CASE j = i
      BY <1>1, <1>2, <1>3, <1>6, <3>1, <3>2 DEF Knows
    <3>3. CASE j # i
      BY <1>1, <1>6, <3>1, <3>3 DEF Knows
    <3> QED
      BY <3>2, <3>3
  <2>2. at' = "emitting" => objects'[signal'.index] # None
    BY <1>2, <1>3, <1>6
  <2> QED
    BY <1>1, <1>3, <2>1, <2>2 DEF IInv, Told
<1> QED
  BY <1>4, <1>5, <1>7, <1>8, <1>9 DEF IInv

\* A new key gets the next path, which one of its publications has paid for.
LEMMA AddDeviceStep ==
  ASSUME IInv, NEW k \in Keys, AddDevice(k) PROVE IInv'
<1> DEFINE i == next_index
<1>1. /\ at = "pass" /\ gone = {} /\ k \in rest /\ present[k] = None
      /\ rest' = rest \ {k} /\ next_index' = i + 1
      /\ objects' = [objects EXCEPT ![i] = snapshots[k]]
      /\ present' = [present EXCEPT ![k] = i]
      /\ served' = [served EXCEPT ![i] = IF @ = None THEN k ELSE @]
      /\ UNCHANGED <<channel, unseen, at, snapshots, gone, devices, signal,
                     follower, lost, wall, publishes, faults>>
  BY DEF AddDevice, registry
<1>2. i \in Nat /\ publishes \in Nat /\ publishes <= MaxPublishes
  BY ConstantsAssumption DEF IInv, TypeOK, Indices
<1>3. /\ IsFiniteSet(Pending) /\ Cardinality(Pending) \in Nat
      /\ Cardinality(Pending)' \in Nat
  BY PendingCounts DEF Pending
<1>4. k \in Pending /\ Pending' \subseteq Pending \ {k}
  BY <1>1, <1>2, ConstantsAssumption DEF Pending, IInv, TypeOK
<1>5. Cardinality(Pending)' + 1 <= Cardinality(Pending)
  <2>1. /\ IsFiniteSet(Pending \ {k})
        /\ Cardinality(Pending \ {k}) = Cardinality(Pending) - 1
    BY <1>3, <1>4, FS_RemoveElement
  <2>2. Cardinality(Pending)' <= Cardinality(Pending \ {k})
    BY <1>4, <2>1, FS_Subset
  <2> QED
    BY <1>3, <2>1, <2>2
<1>6. Counted' /\ i + 1 \in Indices
  BY <1>1, <1>2, <1>3, <1>5, ConstantsAssumption DEF IInv, Counted, Indices
<1>7. i \in Indices /\ snapshots[k] \in Snapshot /\ snapshots[k] # None
  BY <1>1, <1>2, <1>6, ConstantsAssumption
  DEF IInv, TypeOK, PassDone, Option, Indices
<1>8. served[i] = None /\ objects[i] = None /\ follower.props[i] = None
  BY <1>2, <1>7 DEF IInv, Paths
<1>9. TypeOK'
  <2>1. /\ objects' \in [Indices -> Option(Snapshot)]
        /\ served' \in [Indices -> Option(Keys)]
        /\ present' \in [Keys -> Option(Indices)]
    BY <1>1, <1>7, <1>8 DEF IInv, TypeOK, Option
  <2> QED
    BY <1>1, <1>6, <2>1 DEF IInv, TypeOK
<1>10. /\ objects'[i] = snapshots[k] /\ served'[i] = k /\ present'[k] = i
       /\ \A j \in Indices : j # i => /\ objects'[j] = objects[j]
                                      /\ served'[j] = served[j]
       /\ \A j \in Keys : j # k => present'[j] = present[j]
  BY <1>1, <1>7, <1>8 DEF IInv, TypeOK
<1>11. ASSUME NEW j \in Keys, present[j] # None
       PROVE  present[j] \in Indices /\ present[j] # i /\ present[j] < i + 1
  BY <1>2, <1>11 DEF IInv, TypeOK, Paths, Option, Indices
<1>12. Paths'
  <2>1. ASSUME NEW j \in Keys, present'[j] # None
        PROVE  /\ present'[j] < i + 1 /\ served'[present'[j]] = j
               /\ objects'[present'[j]] # None
    <3>1. CASE j = k
      BY <1>2, <1>7, <1>10, <3>1
    <3>2. CASE j # k
      BY <1>10, <1>11, <2>1, <3>2 DEF IInv, Paths
    <3> QED
      BY <3>1, <3>2
  <2>2. \A j \in Indices : j >= i + 1 => j # i /\ j >= i
    BY <1>2 DEF Indices
  <2> QED
    BY <1>1, <1>10, <2>1, <2>2 DEF IInv, Paths
<1>13. PassDone'
  <2>1. ASSUME NEW j \in Keys PROVE Settled(j)'
    <3>1. CASE j = k
      BY <1>1, <1>2, <1>7, <1>10, <3>1, ConstantsAssumption DEF Settled
    <3>2. CASE j # k
      <4>1. Settled(j)
        BY <1>1 DEF IInv, PassDone
      <4> QED
        BY <1>1, <1>10, <1>11, <3>2, <4>1 DEF Settled
    <3> QED
      BY <3>1, <3>2
  <2> QED
    BY <1>1, <2>1 DEF IInv, PassDone
<1>14. Told'
  BY <1>1, <1>8, <1>10 DEF IInv, Told, Knows
<1> QED
  BY <1>6, <1>9, <1>12, <1>13, <1>14 DEF IInv

\* The signal of one object is sent, or lost.
LEMMA EmitChangesStep ==
  ASSUME IInv, EmitChanges PROVE IInv'
<1> DEFINE i == signal.index
           heard == Apply(follower.props[i], signal.old,
                          DeviceProps(objects[i]))
<1>1. /\ at = "emitting" /\ at' = "pass" /\ signal' = None
      /\ UNCHANGED <<channel, unseen, snapshots, gone, rest, present,
                     next_index, objects, devices, served, wall, publishes>>
  BY DEF EmitChanges, registry, pass, tree
<1>2. \/ /\ follower' = IF follower.props[i] = None THEN follower
                        ELSE [follower EXCEPT !.props[i] = heard]
         /\ UNCHANGED <<lost, faults>>
      \/ /\ Fault /\ lost' = lost \cup {i} /\ UNCHANGED follower
  BY DEF EmitChanges
<1>3. /\ i \in Indices /\ signal.old \in Props
      /\ objects[i] \in Snapshot /\ objects[i] # None
  BY <1>1 DEF IInv, TypeOK, Told, Option
<1>4. DeviceProps(objects[i]) \in Props
  BY <1>3, PropsTyped
<1>5. follower.props[i] # None => follower.props[i] \in Props /\ heard \in Props
  BY <1>3, <1>4, AppliedTyped DEF IInv, TypeOK, Option
<1> HIDE DEF heard
<1>6. TypeOK'
  <2>1. /\ follower' \in [devices : SUBSET Indices,
                          props : [Indices -> Option(Props)]]
        /\ lost' \subseteq Option(Indices) /\ faults' \in 0..MaxFaults
    BY <1>2, <1>3, <1>5, ConstantsAssumption
    DEF Fault, IInv, TypeOK, Option
  <2> QED
    BY <1>1, <2>1 DEF IInv, TypeOK, Stage
<1>7. /\ follower'.devices = follower.devices
      /\ \A j \in Indices : j # i => follower'.props[j] = follower.props[j]
      /\ follower.props[i] = None => follower'.props[i] = None
  BY <1>2, <1>3 DEF IInv, TypeOK
<1>8. Counted'
  <2>1. Pending' \subseteq Pending
    BY <1>1 DEF Pending
  <2> QED
    BY <1>1, <2>1, CountKept DEF IInv
<1>9. Paths'
  <2>1. \A j \in Indices : follower.props[j] = None => follower'.props[j] = None
    BY <1>7
  <2> QED
    BY <1>1, <2>1 DEF IInv, Paths
<1>10. PassDone'
  BY <1>1 DEF IInv, PassDone, Settled
<1>11. Told'
  <2>1. ASSUME NEW j \in Indices \ lost' PROVE Knows(j)'
    <3>1. j \in Indices \ lost /\ Knows(j)
      BY <1>2, <2>1 DEF IInv, Told
    <3>2. CASE j # i
      BY <1>1, <1>7, <3>1, <3>2 DEF Knows
    <3>3. CASE j = i
      <4>1. follower.props[i] # None =>
              /\ heard = DeviceProps(objects[i])
              /\ follower'.props[i] = heard
        <5>1. ASSUME follower.props[i] # None
              PROVE  \/ follower.props[i] = signal.old
                     \/ follower.props[i] = DeviceProps(objects[i])
          BY <1>3, <3>1, <3>3, <5>1 DEF Knows
        <5>2. follower.props[i] # None => heard = DeviceProps(objects[i])
          BY <1>3, <1>4, <1>5, <5>1, AppliedRight DEF heard
        <5> QED
          BY <1>2, <1>3, <2>1, <3>3, <5>2 DEF IInv, TypeOK
      <4> QED
        BY <1>1, <1>7, <3>3, <4>1 DEF Knows
    <3> QED
      BY <3>2, <3>3
  <2>2. None \notin lost' => None \notin lost
    BY <1>2
  <2> QED
    BY <1>1, <1>7, <2>1, <2>2 DEF IInv, Told
<1> QED
  BY <1>6, <1>8, <1>9, <1>10, <1>11 DEF IInv

\* The pass ends: the list is that of the mirrored keys.
LEMMA ListDevicesStep ==
  ASSUME IInv, ListDevices PROVE IInv'
<1>1. /\ at = "pass" /\ gone = {} /\ rest = {} /\ devices' = Indexed
      /\ at' = IF devices = Indexed THEN "waiting" ELSE "announcing"
      /\ UNCHANGED <<channel, unseen, snapshots, gone, rest, present,
                     next_index, objects, signal, follower, served, lost, wall,
                     publishes, faults>>
  BY DEF ListDevices, registry, pass, tree
<1>2. TypeOK'
  <2>1. Indexed \subseteq Indices
    BY DEF Indexed, IInv, TypeOK, Option
  <2> QED
    BY <1>1, <2>1 DEF IInv, TypeOK, Stage
<1>3. Counted' /\ Paths'
  BY <1>1 DEF IInv, Counted, Pending, Paths
<1>4. PassDone'
  BY <1>1 DEF IInv, PassDone, Settled, Indexed
<1>5. Told'
  BY <1>1 DEF IInv, Told, Knows
<1> QED
  BY <1>2, <1>3, <1>4, <1>5 DEF IInv

\* The list is announced, or its signal lost.
LEMMA AnnounceDevicesStep ==
  ASSUME IInv, AnnounceDevices PROVE IInv'
<1>1. /\ at = "announcing" /\ at' = "waiting"
      /\ UNCHANGED <<channel, unseen, snapshots, gone, rest, present,
                     next_index, objects, served, devices, signal, wall,
                     publishes>>
  BY DEF AnnounceDevices, registry, pass, tree
<1>2. \/ /\ follower' = [follower EXCEPT !.devices = devices]
         /\ lost' = lost \ {None} /\ UNCHANGED faults
      \/ /\ Fault /\ lost' = lost \cup {None} /\ UNCHANGED follower
  BY DEF AnnounceDevices
<1>3. TypeOK'
  <2>1. /\ follower' \in [devices : SUBSET Indices,
                          props : [Indices -> Option(Props)]]
        /\ lost' \subseteq Option(Indices) /\ faults' \in 0..MaxFaults
    BY <1>2, ConstantsAssumption DEF Fault, IInv, TypeOK, Option
  <2> QED
    BY <1>1, <2>1 DEF IInv, TypeOK, Stage
<1>4. follower'.props = follower.props
  BY <1>2 DEF IInv, TypeOK
<1>5. Counted' /\ Paths'
  BY <1>1, <1>4 DEF IInv, Counted, Pending, Paths
<1>6. PassDone'
  BY <1>1 DEF IInv, PassDone, Settled, Indexed
<1>7. Told'
  <2>1. \A i \in Indices : i \notin lost' => i \notin lost
    BY <1>2, ConstantsAssumption DEF Indices
  <2>2. None \notin lost' => follower'.devices = devices
    BY <1>2 DEF IInv, TypeOK
  <2> QED
    BY <1>1, <1>4, <2>1, <2>2 DEF IInv, Told, Knows
<1> QED
  BY <1>3, <1>5, <1>6, <1>7 DEF IInv

\* A follower reads an object as it is now.
LEMMA FollowStep ==
  ASSUME IInv, NEW i \in Indices, Follow(i) PROVE IInv'
<1>1. /\ objects[i] # None /\ follower.props[i] = None
      /\ follower' = [follower EXCEPT !.props[i] = DeviceProps(objects[i])]
      /\ UNCHANGED <<channel, unseen, at, snapshots, gone, rest, present,
                     next_index, objects, served, devices, signal, lost, wall,
                     publishes, faults>>
  BY DEF Follow, registry, pass, tree
<1>2. DeviceProps(objects[i]) \in Props
  BY <1>1, PropsTyped DEF IInv, TypeOK, Option
<1>3. TypeOK'
  <2>1. follower' \in [devices : SUBSET Indices,
                       props : [Indices -> Option(Props)]]
    BY <1>1, <1>2 DEF IInv, TypeOK, Option
  <2> QED
    BY <1>1, <2>1 DEF IInv, TypeOK
<1>4. /\ follower'.devices = follower.devices
      /\ follower'.props[i] = DeviceProps(objects[i])
      /\ \A j \in Indices : j # i => follower'.props[j] = follower.props[j]
  BY <1>1 DEF IInv, TypeOK
<1>5. Counted'
  BY <1>1 DEF IInv, Counted, Pending
<1>6. Paths'
  BY <1>1, <1>4 DEF IInv, Paths
<1>7. PassDone'
  BY <1>1 DEF IInv, PassDone, Settled, Indexed
<1>8. Told'
  BY <1>1, <1>4 DEF IInv, Told, Knows
<1> QED
  BY <1>3, <1>5, <1>6, <1>7, <1>8 DEF IInv

\* A new process knows nothing, and the clients forget what they read.
LEMMA RestartStep ==
  ASSUME IInv, Restart PROVE IInv'
<1> USE ConstantsAssumption DEF Restart
<1>1. TypeOK'
  <2>1. Nobody \in [Indices -> Option(Snapshot)]
        /\ Nobody \in [Indices -> Option(Props)]
        /\ Nobody \in [Indices -> Option(Keys)]
    BY DEF Nobody, Option
  <2>2. [k \in Keys |-> None] \in [Keys -> Option(Snapshot)]
        /\ [k \in Keys |-> None] \in [Keys -> Option(Indices)]
    BY DEF Option
  <2>3. 0 \in Indices /\ faults' \in 0..MaxFaults
    BY DEF Indices, Fault, IInv, TypeOK
  <2>4. [devices |-> {}, props |-> Nobody]
          \in [devices : SUBSET Indices, props : [Indices -> Option(Props)]]
    BY <2>1
  <2> QED
    BY <2>1, <2>2, <2>3, <2>4 DEF IInv, TypeOK, Stage
<1>2. Counted'
  <2>1. Pending' = {}
    BY DEF Pending
  <2> QED
    BY <2>1, FS_EmptySet DEF Counted, IInv, TypeOK
<1>3. Paths'
  BY DEF Paths, Nobody
<1>4. PassDone'
  BY DEF PassDone
<1>5. Told'
  BY DEF Told, Knows, Nobody
<1> QED
  BY <1>1, <1>2, <1>3, <1>4, <1>5 DEF IInv

LEMMA StutterStep ==
  ASSUME IInv, UNCHANGED vars PROVE IInv'
<1>1. TypeOK'
  BY DEF vars, IInv, TypeOK
<1>2. Counted' /\ Paths'
  BY DEF vars, IInv, Counted, Pending, Paths
<1>3. PassDone' /\ Told'
  BY DEF vars, IInv, PassDone, Settled, Indexed, Told, Knows
<1> QED
  BY <1>1, <1>2, <1>3 DEF IInv

LEMMA StepInvariant == IInv /\ [Next]_vars => IInv'
<1> SUFFICES ASSUME IInv, [Next]_vars PROVE IInv'
  OBVIOUS
<1>1. CASE RegistryNext
  BY <1>1, RegistryStep
<1>2. CASE Connect
  BY <1>2, ConnectStep
<1>3. CASE FirstPass \/ Wake
  BY <1>3, BeginPassStep DEF FirstPass, Wake
<1>4. ASSUME NEW k \in Keys, RemoveGone(k) \/ UpdateDevice(k) \/ AddDevice(k)
      PROVE  IInv'
  BY <1>4, RemoveGoneStep, UpdateDeviceStep, AddDeviceStep
<1>5. CASE EmitChanges
  BY <1>5, EmitChangesStep
<1>6. CASE ListDevices
  BY <1>6, ListDevicesStep
<1>7. CASE AnnounceDevices
  BY <1>7, AnnounceDevicesStep
<1>8. CASE Restart
  BY <1>8, RestartStep
<1>9. ASSUME NEW i \in Indices, Follow(i) PROVE IInv'
  BY <1>9, FollowStep
<1>10. CASE UNCHANGED vars
  BY <1>10, StutterStep
<1> QED
  BY <1>1, <1>2, <1>3, <1>4, <1>5, <1>6, <1>7, <1>8, <1>9, <1>10
  DEF Next, MirrorNext

LEMMA Inductive == Spec => []IInv
<1> QED
  BY InitInvariant, StepInvariant, PTL DEF Spec

-----------------------------------------------------------------------------
(* Theorems *)

(* dbus.rs:186-286: every variable of the mirror keeps its type; `devN`    *)
(* indices never outrun the publications that called for them.             *)
THEOREM TypeCorrect == Spec => []TypeOK
<1>1. IInv => TypeOK
  BY DEF IInv
<1> QED
  BY <1>1, Inductive, PTL

(* dbus.rs:209-211: within one process no path is ever served for a second *)
(* controller, whatever comes, leaves and fails to be removed.             *)
THEOREM PathsStayTheirs == Spec => []PathsNeverReused
<1>1. IInv => PathsNeverReused
  BY DEF IInv, Paths, PathsNeverReused
<1> QED
  BY <1>1, Inductive, PTL

(* dbus.rs:214-284: wherever in a pass a publication falls, the task does  *)
(* not wait for the next one before the bus shows it.                      *)
THEOREM NothingSleptOn == Spec => []MirroredWhenIdle
<1>1. ASSUME IInv, at = "waiting", ~unseen PROVE Mirrors
  <2>1. snapshots = channel /\ gone = {} /\ rest = {} /\ devices = Indexed
    BY <1>1 DEF IInv, PassDone
  <2>2. \A k \in Keys : Settled(k)
    BY <1>1 DEF IInv, PassDone
  <2> QED
    BY <2>1, <2>2 DEF Settled, Mirrors
<1>2. IInv => MirroredWhenIdle
  BY <1>1 DEF MirroredWhenIdle
<1> QED
  BY <1>2, Inductive, PTL

(* README.md:75, dbus.rs:160-183: a client that reads an object once and   *)
(* applies its signals is never behind, unless a signal was lost.          *)
THEOREM FollowersKnow == Spec => []FollowersInSync
<1>1. ASSUME IInv, NEW i \in Indices \ lost,
             objects[i] # None, follower.props[i] # None,
             ~(at = "emitting" /\ signal.index = i)
      PROVE  follower.props[i] = DeviceProps(objects[i])
  BY <1>1 DEF IInv, Told, Knows
<1>2. ASSUME IInv, None \notin lost, at # "announcing"
      PROVE  follower.devices = devices
  BY <1>2 DEF IInv, Told
<1>3. IInv => FollowersInSync
  BY <1>1, <1>2 DEF FollowersInSync
<1> QED
  BY <1>3, Inductive, PTL

(* dbus.rs:255-282: Devices never lists a path with no object behind it.   *)
THEOREM ListedIsServed == Spec => ServedBeforeListed
<1>1. ASSUME IInv, [Next]_vars, NEW i \in devices' \ devices
      PROVE  objects'[i] # None
  <2>1. ListDevices
    <3>1. CASE Restart
      BY <1>1, <3>1 DEF Restart
    <3>2. ASSUME UNCHANGED devices PROVE FALSE
      BY <1>1, <3>2
    <3> QED
      BY <1>1, <3>1, <3>2
      DEF Next, MirrorNext, RegistryNext, Connect, FirstPass, Wake, RemoveGone,
          UpdateDevice, AddDevice, EmitChanges, AnnounceDevices, Follow, vars
  <2>2. i \in Indexed /\ UNCHANGED objects
    BY <1>1, <2>1 DEF ListDevices, tree
  <2> QED
    BY <1>1, <2>2 DEF Indexed, IInv, Paths
<1>2. IInv /\ [Next]_vars => [\A i \in devices' \ devices : objects'[i] # None]_vars
  BY <1>1
<1> QED
  BY <1>2, Inductive, PTL DEF Spec, ServedBeforeListed
=============================================================================
