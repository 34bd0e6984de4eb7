----------------------------- MODULE DBusMirror -----------------------------
(***************************************************************************)
(* The D-Bus service of steambatteryd (daemon/src/dbus.rs): one task that  *)
(* mirrors the registry's watch channel into bus objects, one `devN` per   *)
(* controller, and signals every property that changes.                    *)
(*                                                                         *)
(* A pass of the loop awaits the object server and the bus many times; at  *)
(* each of these points the registry may publish again and clients may     *)
(* read.  The channel keeps only its latest value, so what the task works  *)
(* from is a copy that may be stale, and it may see several publications   *)
(* as one, a controller that left and came back included.                  *)
(*                                                                         *)
(* Bus clients are represented by one follower (README: `All properties    *)
(* emit PropertiesChanged`): it reads an object whenever it likes, keeps   *)
(* what it read and from then on applies the signals.                      *)
(***************************************************************************)
EXTENDS Naturals, FiniteSets

CONSTANTS
  Keys,         \* logical controllers
  Levels,       \* battery levels that are reported
  None,         \* Option::None
  PerSecond,    \* stamps (SystemTime) per second of LastUpdated
  MaxPublishes, \* bound: publications of the registry
  MaxStamp,     \* bound: the wall clock
  MaxFaults     \* bound: failed bus calls

LevelUnknown == 255

ASSUME ConstantsAssumption ==
  /\ IsFiniteSet(Keys)
  /\ Levels \subseteq 0..100
  /\ None \notin Keys \cup Nat
  /\ PerSecond \in Nat \ {0}
  /\ MaxPublishes \in Nat /\ MaxStamp \in Nat /\ MaxFaults \in Nat

VARIABLES
  channel,    \* the watch channel's value, None for an unlisted key
  unseen,     \* `rx` has not seen the latest publication
  at,         \* where the task is: see Stage
  snapshots,  \* the pass's clone of the channel's value
  gone,       \* keys the pass has still to remove
  rest,       \* keys of `snapshots` it has still to mirror
  present,    \* `present`: the devN index of each mirrored key
  next_index, \* `next_index`
  objects,    \* the object server's Device at each devN, None if none
  devices,    \* the root object's Devices, as indices
  signal,     \* the PropertiesChanged being emitted: index and old values
  follower,   \* what the follower believes: of Devices and of each devN
  served,     \* history: the first key each path was served for
  lost,       \* history: objects (None: the root) with a signal that failed
  wall,       \* the wall clock
  publishes,  \* publications so far
  faults      \* faults so far

registry == <<channel, wall, publishes>>
pass == <<snapshots, gone, rest>>
tree == <<present, next_index, objects, served>>
vars == <<channel, unseen, at, snapshots, gone, rest, present, next_index,
          objects, devices, signal, follower, served, lost, wall, publishes,
          faults>>

-----------------------------------------------------------------------------
(* Values *)

Option(S) == S \cup {None}

\* A device is added only after a publication of its own.
Indices == 0..MaxPublishes

\* state::DeviceSnapshot; a battery report is reduced to its level.
Snapshot == [connected : BOOLEAN, battery : Option(Levels),
             last_updated : Option(0..MaxStamp)]

\* dbus::device_props: the wire values, whole seconds and defaults.
DeviceProps(s) ==
  [Connected |-> s.connected,
   BatteryLevel |-> IF s.battery = None THEN LevelUnknown ELSE s.battery,
   LastUpdated |-> IF s.last_updated = None THEN 0
                   ELSE s.last_updated \div PerSecond]

Props == [Connected : BOOLEAN, BatteryLevel : Levels \cup {LevelUnknown},
          LastUpdated : 0..MaxStamp]

(* The task connects, has its name but no receiver yet (named), is in a    *)
(* pass, emits a Device signal (emitting) or the Devices one (announcing), *)
(* or waits for the channel.                                               *)
Stage == {"connecting", "named", "pass", "emitting", "announcing", "waiting"}

Indexed == {present[k] : k \in {j \in Keys : present[j] # None}}

Fault == faults < MaxFaults /\ faults' = faults + 1

-----------------------------------------------------------------------------
(* The registry, as the channel sees it: state::Registry::publish *)

Feed == INSTANCE Channel WITH Reports <- Levels

(* A publication is any the registry may make (Channel); send_replace      *)
(* marks the channel changed, whatever the value.                          *)
RegistryNext ==
  /\ publishes < MaxPublishes
  /\ publishes' = publishes + 1
  /\ unseen' = TRUE
  /\ \/ \E k \in Keys :
          \/ Feed!Acquired(k) \/ Feed!Released(k) \/ Feed!TrafficMarked(k)
          \/ \E stamp \in wall..MaxStamp, level \in Levels :
               Feed!BatteryUpdated(k, level, stamp)
     \/ \E stamp \in wall..MaxStamp, silent \in SUBSET Keys :
          Feed!Swept(silent, stamp)
  /\ UNCHANGED <<at, pass, tree, devices, signal, follower, lost, faults>>

-----------------------------------------------------------------------------
(* The mirror task: dbus::run *)

\* The bus name is acquired, with the root object already in place.
Connect ==
  /\ at = "connecting"
  /\ at' = "named"
  /\ UNCHANGED <<registry, unseen, pass, tree, devices, signal, follower,
                 lost, faults>>

\* The top of the loop: clone the channel's value and mark it seen.
BeginPass ==
  /\ at' = "pass"
  /\ snapshots' = channel
  /\ unseen' = FALSE
  /\ gone' = {k \in Keys : present[k] # None /\ channel[k] = None}
  /\ rest' = {k \in Keys : channel[k] # None}

FirstPass ==
  /\ at = "named"
  /\ BeginPass
  /\ UNCHANGED <<registry, tree, devices, signal, follower, lost, faults>>

\* `rx.changed()` completes.
Wake ==
  /\ at = "waiting"
  /\ unseen
  /\ BeginPass
  /\ UNCHANGED <<registry, tree, devices, signal, follower, lost, faults>>

\* One key of `gone`; a removal that fails is only logged.
RemoveGone(k) ==
  /\ at = "pass"
  /\ k \in gone
  /\ gone' = gone \ {k}
  /\ present' = [present EXCEPT ![k] = None]
  /\ \/ objects' = [objects EXCEPT ![present[k]] = None] /\ UNCHANGED faults
     \/ Fault /\ UNCHANGED objects
  /\ UNCHANGED <<registry, unseen, at, snapshots, rest, next_index, devices,
                 signal, follower, served, lost>>

\* A key already served: its object takes the new snapshot.
UpdateDevice(k) ==
  LET i == present[k] IN
  /\ at = "pass" /\ gone = {}
  /\ k \in rest /\ i # None
  /\ rest' = rest \ {k}
  /\ objects' = [objects EXCEPT ![i] = snapshots[k]]
  /\ IF DeviceProps(objects[i]) = DeviceProps(snapshots[k])
     THEN UNCHANGED <<at, signal>>
     ELSE /\ at' = "emitting"
          /\ signal' = [index |-> i, old |-> DeviceProps(objects[i])]
  /\ UNCHANGED <<registry, unseen, snapshots, gone, present, next_index,
                 devices, follower, served, lost, faults>>

\* Mutant of AddDevice: the lowest free index is taken again.
AddDeviceReusing(k) ==
  /\ at = "pass" /\ gone = {}
  /\ k \in rest /\ present[k] = None
  /\ rest' = rest \ {k}
  /\ \E i \in Indices \ Indexed :
       /\ \A j \in Indices \ Indexed : i <= j
       /\ objects' = [objects EXCEPT ![i] = snapshots[k]]
       /\ present' = [present EXCEPT ![k] = i]
       /\ served' = [served EXCEPT ![i] = IF @ = None THEN k ELSE @]
  /\ UNCHANGED <<registry, unseen, at, snapshots, gone, next_index, devices,
                 signal, follower, lost, faults>>

\* Mutant of AddDevice: an object that could not be added counts as present.
AddDeviceRegardless(k) ==
  /\ at = "pass" /\ gone = {}
  /\ k \in rest /\ present[k] = None
  /\ rest' = rest \ {k}
  /\ next_index' = next_index + 1
  /\ present' = [present EXCEPT ![k] = next_index]
  /\ UNCHANGED <<registry, unseen, at, snapshots, gone, objects, devices,
                 signal, follower, served, lost, faults>>

\* A new key: an object of its own at a path never used before.
AddDevice(k) ==
  /\ at = "pass" /\ gone = {}
  /\ k \in rest /\ present[k] = None
  /\ rest' = rest \ {k}
  /\ next_index' = next_index + 1
  /\ objects' = [objects EXCEPT ![next_index] = snapshots[k]]
  /\ present' = [present EXCEPT ![k] = next_index]
  /\ served' = [served EXCEPT ![next_index] = IF @ = None THEN k ELSE @]
  /\ UNCHANGED <<registry, unseen, at, snapshots, gone, devices, signal,
                 follower, lost, faults>>

\* Mutant of Apply: a change of LastUpdated alone is not sent along.
ApplyWithoutStamp(cached, old, new) ==
  [p \in DOMAIN cached |->
     IF p # "LastUpdated" /\ old[p] # new[p] THEN new[p] ELSE cached[p]]

\* dbus::emit_changes: the new values of the properties that differ.
Apply(cached, old, new) ==
  [p \in DOMAIN cached |-> IF old[p] # new[p] THEN new[p] ELSE cached[p]]

\* The follower takes a signal only of an object it has read.
EmitChanges ==
  /\ at = "emitting"
  /\ at' = "pass"
  /\ signal' = None
  /\ LET i == signal.index
         heard == Apply(follower.props[i], signal.old, DeviceProps(objects[i]))
     IN
     \/ /\ follower' = IF follower.props[i] = None THEN follower
                       ELSE [follower EXCEPT !.props[i] = heard]
        /\ UNCHANGED <<lost, faults>>
     \/ /\ Fault
        /\ lost' = lost \cup {i}
        /\ UNCHANGED follower
  /\ UNCHANGED <<registry, unseen, pass, tree, devices>>

\* Mutant of ListDevices: the channel is marked seen after the pass.
ListDevicesMarkingSeen ==
  /\ at = "pass" /\ gone = {} /\ rest = {}
  /\ devices' = Indexed
  /\ at' = IF devices = Indexed THEN "waiting" ELSE "announcing"
  /\ unseen' = FALSE
  /\ UNCHANGED <<registry, pass, tree, signal, follower, lost, faults>>

\* The pass ends with the device list, which is signalled if it changed.
ListDevices ==
  /\ at = "pass" /\ gone = {} /\ rest = {}
  /\ devices' = Indexed
  /\ at' = IF devices = Indexed THEN "waiting" ELSE "announcing"
  /\ UNCHANGED <<registry, unseen, pass, tree, signal, follower, lost,
                 faults>>

AnnounceDevices ==
  /\ at = "announcing"
  /\ at' = "waiting"
  /\ \/ /\ follower' = [follower EXCEPT !.devices = devices]
        /\ lost' = lost \ {None}
        /\ UNCHANGED faults
     \/ /\ Fault
        /\ lost' = lost \cup {None}
        /\ UNCHANGED follower
  /\ UNCHANGED <<registry, unseen, pass, tree, devices, signal>>

-----------------------------------------------------------------------------
(* The follower *)

Nobody == [i \in Indices |-> None]

\* It reads all properties of an object (GetAll).
Follow(i) ==
  /\ objects[i] # None
  /\ follower.props[i] = None
  /\ follower' = [follower EXCEPT !.props[i] = DeviceProps(objects[i])]
  /\ UNCHANGED <<registry, unseen, at, pass, tree, devices, signal, lost,
                 faults>>

-----------------------------------------------------------------------------
(* The bus is lost or refuses a call made with `?`, and systemd starts     *)
(* the daemon again                                                        *)

ProcessStart ==
  /\ channel = [k \in Keys |-> None]
  /\ unseen = FALSE
  /\ at = "connecting"
  /\ snapshots = [k \in Keys |-> None]
  /\ gone = {} /\ rest = {}
  /\ present = [k \in Keys |-> None]
  /\ next_index = 0
  /\ objects = Nobody
  /\ devices = {}
  /\ signal = None
  /\ follower = [devices |-> {}, props |-> Nobody]
  /\ served = Nobody
  /\ lost = {}

\* Paths start again at dev0, so a follower must forget all it has read.
Restart ==
  /\ Fault
  /\ channel' = [k \in Keys |-> None]
  /\ unseen' = FALSE
  /\ at' = "connecting"
  /\ snapshots' = [k \in Keys |-> None]
  /\ gone' = {} /\ rest' = {}
  /\ present' = [k \in Keys |-> None]
  /\ next_index' = 0
  /\ objects' = Nobody
  /\ devices' = {}
  /\ signal' = None
  /\ follower' = [devices |-> {}, props |-> Nobody]
  /\ served' = Nobody
  /\ lost' = {}
  /\ UNCHANGED <<wall, publishes>>

-----------------------------------------------------------------------------
(* Specification *)

Init == ProcessStart /\ wall = 0 /\ publishes = 0 /\ faults = 0

MirrorNext ==
  \/ Connect \/ FirstPass \/ Wake
  \/ \E k \in Keys : RemoveGone(k) \/ UpdateDevice(k) \/ AddDevice(k)
  \/ EmitChanges \/ ListDevices \/ AnnounceDevices

Next == RegistryNext \/ MirrorNext \/ Restart \/ \E i \in Indices : Follow(i)

Spec == Init /\ [][Next]_vars

-----------------------------------------------------------------------------
(* Properties *)

TypeOK ==
  /\ channel \in [Keys -> Option(Snapshot)]
  /\ unseen \in BOOLEAN
  /\ at \in Stage
  /\ snapshots \in [Keys -> Option(Snapshot)]
  /\ gone \subseteq Keys /\ rest \subseteq Keys
  /\ present \in [Keys -> Option(Indices)]
  /\ next_index \in Indices
  /\ objects \in [Indices -> Option(Snapshot)]
  /\ devices \subseteq Indices
  /\ IF at = "emitting" THEN signal \in [index : Indices, old : Props]
                        ELSE signal = None
  /\ follower \in [devices : SUBSET Indices,
                   props : [Indices -> Option(Props)]]
  /\ served \in [Indices -> Option(Keys)]
  /\ lost \subseteq Option(Indices)
  /\ wall \in 0..MaxStamp
  /\ publishes \in 0..MaxPublishes
  /\ faults \in 0..MaxFaults

\* Devices and the objects it lists are exactly what the registry published.
Mirrors ==
  /\ \A k \in Keys :
       IF channel[k] = None
       THEN present[k] = None
       ELSE present[k] # None /\ objects[present[k]] = channel[k]
  /\ devices = Indexed

(* dbus.rs:214-284: the task never goes to sleep on a publication it has   *)
(* not mirrored, wherever in a pass the publication fell.                  *)
MirroredWhenIdle == at = "waiting" /\ ~unseen => Mirrors

(* dbus.rs:209-211: within one process a path is never served for a second *)
(* controller, over any sequence of arrivals and departures.               *)
PathsNeverReused ==
  \A k \in Keys : present[k] # None => served[present[k]] = k

(* README.md:75, dbus.rs:160-183: whoever has read an object and applies   *)
(* its signals knows every property, except while a signal is under way or *)
(* after one could not be sent; likewise for Devices.                      *)
FollowersInSync ==
  /\ \A i \in Indices \ lost :
       /\ objects[i] # None /\ follower.props[i] # None
       /\ ~(at = "emitting" /\ signal.index = i)
       => follower.props[i] = DeviceProps(objects[i])
  /\ None \notin lost /\ at # "announcing" => follower.devices = devices

(* dbus.rs:255-282: an object is on the bus before Devices lists it, so a  *)
(* client that reacts to the list finds every new device.                  *)
ServedBeforeListed ==
  [][\A i \in devices' \ devices : objects'[i] # None]_vars
=============================================================================
