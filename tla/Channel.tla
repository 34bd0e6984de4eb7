------------------------------ MODULE Channel -------------------------------
(***************************************************************************)
(* What the registry promises whoever holds a receiver of its watch        *)
(* channel (daemon/src/state.rs, Registry::subscribe): how the list of     *)
(* devices may change from one publication to the next.                    *)
(*                                                                         *)
(* Readers, references, staleness, deadbands and suspends are not visible  *)
(* here; Registry implements this module, and DBusMirror is checked        *)
(* against every registry that does.                                       *)
(***************************************************************************)
EXTENDS Naturals

CONSTANTS
  Keys,     \* logical controllers
  Reports,  \* battery reports
  None      \* Option::None

VARIABLES
  channel,  \* the published snapshots, None for an unlisted key
  wall      \* the wall clock, SystemTime::now()

\* state::DeviceSnapshot
Device(connected, battery, last_updated) ==
  [connected |-> connected, battery |-> battery,
   last_updated |-> last_updated]

\* A controller appears, and nothing is known of it.
Acquired(k) ==
  /\ channel[k] = None
  /\ channel' = [channel EXCEPT ![k] = Device(FALSE, None, None)]
  /\ UNCHANGED wall

\* Its last node is gone, and so is all that was known of it.
Released(k) ==
  /\ channel[k] # None
  /\ channel' = [channel EXCEPT ![k] = None]
  /\ UNCHANGED wall

\* It is heard again: what was known of it stands, with its old time.
TrafficMarked(k) ==
  /\ channel[k] # None /\ ~channel[k].connected
  /\ channel' = [channel EXCEPT ![k] =
                   Device(TRUE, channel[k].battery, channel[k].last_updated)]
  /\ UNCHANGED wall

\* It reports something worth showing.
BatteryUpdated(k, report, stamp) ==
  /\ channel[k] # None
  /\ ~channel[k].connected \/ channel[k].battery # report
  /\ channel' = [channel EXCEPT ![k] = Device(TRUE, report, stamp)]
  /\ stamp >= wall /\ wall' = stamp

\* Some have fallen silent together: they are disconnected, and what was
\* known of them is kept and stamped.
Swept(silent, stamp) ==
  /\ silent # {}
  /\ \A k \in silent : channel[k] # None /\ channel[k].connected
  /\ channel' = [k \in Keys |->
                   IF k \notin silent THEN channel[k]
                   ELSE Device(FALSE, channel[k].battery,
                               IF channel[k].battery = None
                               THEN channel[k].last_updated ELSE stamp)]
  /\ stamp >= wall /\ wall' = stamp

Init == channel = [k \in Keys |-> None] /\ wall \in Nat

Next ==
  \/ \E k \in Keys :
       \/ Acquired(k) \/ Released(k) \/ TrafficMarked(k)
       \/ \E report \in Reports : BatteryUpdated(k, report, wall)
  \/ \E silent \in SUBSET Keys : Swept(silent, wall)
  \/ wall' \in Nat /\ wall' > wall /\ UNCHANGED channel

Spec == Init /\ [][Next]_<<channel, wall>>
=============================================================================
