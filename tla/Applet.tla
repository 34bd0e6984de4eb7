------------------------------- MODULE Applet -------------------------------
(***************************************************************************)
(* The applet's D-Bus client (applet/src/dbus.rs) against the service it   *)
(* watches, module DBusMirror.                                             *)
(*                                                                         *)
(* The client keeps zbus proxies whose property caches are filled by the   *)
(* first read and from then on changed by PropertiesChanged signals only.  *)
(* A signal also wakes the client, which sleeps 300 ms, drops the other    *)
(* signals that woke it and reads everything again, from the caches where  *)
(* it can.  The connection delivers a message to the client's streams and  *)
(* to the caches; a cache applies it when its own task runs.               *)
(*                                                                         *)
(* A proxy is made before it is first read and kept if that read fails.    *)
(* Its cache is populated once: what failed stays failed for as long as    *)
(* the proxy is kept (zbus 5.16).  A device's proxy is kept while it is    *)
(* listed and the owner of the bus name stays, the daemon's proxy as long  *)
(* as the connection.  The properties of one device are read in one step.  *)
(***************************************************************************)
EXTENDS DBusMirror, Sequences

ASSUME CachesAssumption ==
  /\ None \notin Props \cup [Indices -> Option(Props)]
  /\ \A indices \in SUBSET Indices : indices # None

VARIABLES
  inbox,         \* messages on their way to the client, oldest first
  unapplied,     \* signals delivered and not applied by the caches yet
  signalled,     \* `props_stream` holds a message
  owner_changes, \* messages held by `name_stream`
  client,        \* where `watch` is: see ClientStage
  list,          \* cached Devices of the daemon proxy
  cache,         \* cached properties of the device proxies
  failed,        \* proxies whose first read failed (None: the daemon's)
  todo,          \* devices the fetch has still to read
  out,           \* `out`: the devices it has read
  window,        \* Window::state and `last_sent`, None when unreachable
  turnover       \* history: the daemon came or went on this connection

mirror == <<channel, unseen, at, snapshots, gone, rest, present, next_index,
            objects, devices, signal, follower, served, lost, wall,
            publishes>>
streams == <<inbox, unapplied, signalled, owner_changes>>
caches == <<list, cache, failed>>
fetch == <<todo, out>>
appletVars == <<mirror, faults, streams, client, caches, fetch, window,
                turnover>>

\* In `watch`: fetching the list or its devices, selecting, or sleeping
\* before a refetch; or not connected: not started, or sleeping before the
\* next `watch`.
ClientStage == {"fetching", "reading", "waiting", "settling", "retrying"}

(* A PropertiesChanged of a device or of the root, or a NameOwnerChanged.  *)
(* A signal sent before its cache was filled is not `fresh`: the cache has *)
(* newer values and passes it over.                                        *)
Message ==
  [kind : {"device"}, index : Indices, old : Props, new : Props,
   devices : {{}}, fresh : BOOLEAN]
  \cup [kind : {"root"}, index : {None}, old : {None}, new : {None},
        devices : SUBSET Indices, fresh : BOOLEAN]
  \cup [kind : {"owner"}, index : {None}, old : {None}, new : {None},
        devices : {{}}, fresh : {TRUE}]

DeviceSignal(i, old, new) ==
  [kind |-> "device", index |-> i, old |-> old, new |-> new,
   devices |-> {}, fresh |-> TRUE]

DevicesSignal(indices) ==
  [kind |-> "root", index |-> None, old |-> None, new |-> None,
   devices |-> indices, fresh |-> TRUE]

OwnerChange ==
  [kind |-> "owner", index |-> None, old |-> None, new |-> None,
   devices |-> {}, fresh |-> TRUE]

-----------------------------------------------------------------------------
(* What the bus sends the client *)

Post(message) ==
  inbox' = IF client = "retrying" THEN inbox ELSE Append(inbox, message)

UnlessFailed(message) ==
  IF faults' = faults THEN Post(message) ELSE UNCHANGED inbox

\* The bus name gets or loses its owner.
OwnerMoves ==
  /\ Post(OwnerChange)
  /\ turnover' = (client # "retrying")

DaemonStep ==
  /\ \/ Connect /\ OwnerMoves
     \/ /\ EmitChanges
        /\ UnlessFailed(DeviceSignal(signal.index, signal.old,
                                     DeviceProps(objects[signal.index])))
        /\ UNCHANGED turnover
     \/ /\ AnnounceDevices
        /\ UnlessFailed(DevicesSignal(devices))
        /\ UNCHANGED turnover
     \/ /\ \/ FirstPass \/ Wake \/ ListDevices
           \/ \E k \in Keys : RemoveGone(k) \/ UpdateDevice(k) \/ AddDevice(k)
        /\ UNCHANGED <<inbox, turnover>>
  /\ UNCHANGED <<unapplied, signalled, owner_changes, client, caches,
                 fetch, window>>

\* Losing its name is announced if the daemon had it.
DaemonRestart ==
  /\ Restart
  /\ IF at = "connecting" THEN UNCHANGED <<inbox, turnover>> ELSE OwnerMoves
  /\ UNCHANGED <<unapplied, signalled, owner_changes, client, caches,
                 fetch, window>>

Publishes ==
  /\ RegistryNext
  /\ UNCHANGED <<streams, client, caches, fetch, window, turnover>>

-----------------------------------------------------------------------------
(* The connection and the property caches (zbus) *)

\* A message reaches the streams of the client and of the caches.
Deliver ==
  /\ inbox # <<>>
  /\ inbox' = Tail(inbox)
  /\ IF Head(inbox).kind = "owner"
     THEN /\ owner_changes' = owner_changes + 1
          /\ UNCHANGED <<unapplied, signalled>>
     ELSE /\ signalled' = TRUE
          /\ unapplied' = IF Head(inbox).fresh
                          THEN Append(unapplied, Head(inbox)) ELSE unapplied
          /\ UNCHANGED owner_changes
  /\ UNCHANGED <<mirror, faults, client, caches, fetch, window, turnover>>

\* A cache's task applies a signal; one that is not filled has no task, and
\* one that failed to be filled has none any more.
ApplySignal ==
  /\ unapplied # <<>>
  /\ unapplied' = Tail(unapplied)
  /\ LET m == Head(unapplied) IN
     \/ ~m.fresh /\ UNCHANGED <<list, cache>>
     \/ /\ m.fresh /\ m.kind = "root"
        /\ list' = IF list = None THEN None ELSE m.devices
        /\ UNCHANGED cache
     \/ /\ m.fresh /\ m.kind = "device"
        /\ cache' = [cache EXCEPT ![m.index] =
                       IF @ = None THEN None ELSE Apply(@, m.old, m.new)]
        /\ UNCHANGED list
  /\ UNCHANGED <<mirror, faults, inbox, signalled, owner_changes, client,
                 failed, fetch, window, turnover>>

\* What was sent about an object before its cache was filled is stale.
Stale(messages, kind, i) ==
  [n \in DOMAIN messages |->
     IF messages[n].kind = kind /\ messages[n].index = i
     THEN [messages[n] EXCEPT !.fresh = FALSE] ELSE messages[n]]

PassOver(kind, i) ==
  /\ inbox' = Stale(inbox, kind, i)
  /\ unapplied' = Stale(unapplied, kind, i)

Uncached == [i \in Indices |-> None]

-----------------------------------------------------------------------------
(* fetch_state *)

\* `proxies.retain`: proxies of unlisted devices go, with their caches.
Retain(indices) ==
  /\ cache' = [i \in Indices |-> IF i \in indices THEN cache[i] ELSE None]
  /\ failed' = failed \cap indices
  /\ todo' = indices
  /\ out' = Uncached
  /\ client' = "reading"

(* `daemon.devices()`, from the cache or filling it.  The daemon is not    *)
(* reachable until it has its name, and not for a proxy that has tried     *)
(* before.                                                                 *)
FetchList ==
  /\ client = "fetching"
  /\ \/ /\ list # None
        /\ Retain(list)
        /\ UNCHANGED <<list, inbox, unapplied, window>>
     \/ /\ list = None /\ None \notin failed /\ at # "connecting"
        /\ list' = devices
        /\ PassOver("root", None)
        /\ Retain(devices)
        /\ UNCHANGED window
     \/ /\ list = None
        /\ None \in failed \/ at = "connecting"
        /\ failed' = failed \cup {None}
        /\ window' = None
        /\ client' = "waiting"
        /\ UNCHANGED <<list, cache, fetch, inbox, unapplied>>
  /\ UNCHANGED <<mirror, faults, signalled, owner_changes, turnover>>

\* The first read of a device's properties succeeds.
Fill(i) ==
  /\ cache[i] = None /\ i \notin failed /\ objects[i] # None
  /\ cache' = [cache EXCEPT ![i] = DeviceProps(objects[i])]
  /\ out' = [out EXCEPT ![i] = DeviceProps(objects[i])]
  /\ PassOver("device", i)
  /\ UNCHANGED failed

\* They are cached.
Reread(i) ==
  /\ cache[i] # None
  /\ out' = [out EXCEPT ![i] = cache[i]]
  /\ UNCHANGED <<cache, failed, inbox, unapplied>>

\* There is no such object, or there was none at the first read.
Unreadable(i) == cache[i] = None /\ (i \in failed \/ objects[i] = None)

\* Mutant of FetchDevice: one device that vanished fails the whole fetch.
FetchDeviceOrFail(i) ==
  /\ client = "reading"
  /\ i \in todo
  /\ \/ /\ Reread(i) \/ Fill(i)
        /\ todo' = todo \ {i}
        /\ UNCHANGED <<client, window>>
     \/ /\ Unreadable(i)
        /\ failed' = failed \cup {i}
        /\ todo' = {} /\ out' = Uncached
        /\ window' = None /\ client' = "waiting"
        /\ UNCHANGED <<cache, inbox, unapplied>>
  /\ UNCHANGED <<mirror, faults, signalled, owner_changes, list, turnover>>

\* fetch_device; a device that cannot be read is skipped.
FetchDevice(i) ==
  /\ client = "reading"
  /\ i \in todo
  /\ todo' = todo \ {i}
  /\ \/ Reread(i)
     \/ Fill(i)
     \/ /\ Unreadable(i)
        /\ failed' = failed \cup {i}
        /\ UNCHANGED <<cache, out, inbox, unapplied>>
  /\ UNCHANGED <<mirror, faults, signalled, owner_changes, client, list,
                 window, turnover>>

\* The state is sent to the window if it is news.
Send ==
  /\ client = "reading" /\ todo = {}
  /\ window' = out
  /\ out' = Uncached
  /\ client' = "waiting"
  /\ UNCHANGED <<mirror, faults, streams, caches, todo, turnover>>

-----------------------------------------------------------------------------
(* watch and subscription *)

\* A signal wakes the client; it sleeps before it does anything about it.
WakeOnSignal ==
  /\ client = "waiting"
  /\ signalled
  /\ client' = "settling"
  /\ UNCHANGED <<mirror, faults, inbox, unapplied, signalled, owner_changes,
                 caches, fetch, window, turnover>>

\* Mutant of Settle: owner changes are coalesced away too.
SettleDroppingOwners ==
  /\ client = "settling"
  /\ unapplied = <<>>
  /\ signalled' = FALSE /\ owner_changes' = 0
  /\ client' = "fetching"
  /\ UNCHANGED <<mirror, faults, inbox, unapplied, caches, fetch, window,
                 turnover>>

\* The 300 ms are over, which are there to let the caches apply the signals
\* that were delivered; what else is in the stream is dropped.
Settle ==
  /\ client = "settling"
  /\ unapplied = <<>>
  /\ signalled' = FALSE
  /\ client' = "fetching"
  /\ UNCHANGED <<mirror, faults, inbox, unapplied, owner_changes, caches,
                 fetch, window, turnover>>

\* Mutant of WakeOnOwner: the proxies and their caches are kept.
WakeOnOwnerKeepingProxies ==
  /\ client = "waiting"
  /\ owner_changes > 0
  /\ owner_changes' = owner_changes - 1
  /\ client' = "fetching"
  /\ UNCHANGED <<mirror, faults, inbox, unapplied, signalled, caches,
                 fetch, window, turnover>>

\* The daemon came or went: the device proxies go with their caches, the
\* daemon's proxy stays.
WakeOnOwner ==
  /\ client = "waiting"
  /\ owner_changes > 0
  /\ owner_changes' = owner_changes - 1
  /\ cache' = Uncached /\ failed' = failed \cap {None}
  /\ client' = "fetching"
  /\ UNCHANGED <<mirror, faults, inbox, unapplied, signalled, list, fetch,
                 window, turnover>>

\* Five minutes without a message.
Fallback ==
  /\ client = "waiting"
  /\ ~signalled /\ owner_changes = 0
  /\ client' = "fetching"
  /\ UNCHANGED <<mirror, faults, streams, caches, fetch, window, turnover>>

\* The client's connection dies: its streams end (Ok) or a call fails.
BusLost ==
  /\ client # "retrying"
  /\ Fault
  /\ client' = "retrying"
  /\ inbox' = <<>> /\ unapplied' = <<>>
  /\ signalled' = FALSE /\ owner_changes' = 0
  /\ list' = None /\ cache' = Uncached /\ failed' = {}
  /\ turnover' = FALSE
  /\ todo' = {} /\ out' = Uncached
  /\ window' \in {window, None}
  /\ UNCHANGED mirror

\* A new connection, with new proxies, subscribed before the first fetch.
Reconnect ==
  /\ client = "retrying"
  /\ client' = "fetching"
  /\ UNCHANGED <<mirror, faults, streams, caches, fetch, window, turnover>>

-----------------------------------------------------------------------------
(* Specification *)

\* The applet may start long after the daemon, or before it.
AppletInit ==
  /\ Init
  /\ inbox = <<>> /\ unapplied = <<>>
  /\ signalled = FALSE /\ owner_changes = 0
  /\ client = "retrying"
  /\ list = None /\ cache = Uncached /\ failed = {}
  /\ todo = {} /\ out = Uncached
  /\ window = None
  /\ turnover = FALSE

ClientNext ==
  \/ FetchList \/ Send
  \/ \E i \in Indices : FetchDevice(i)
  \/ WakeOnSignal \/ Settle \/ WakeOnOwner
  \/ Reconnect

AppletNext ==
  \/ Publishes \/ DaemonStep \/ DaemonRestart
  \/ Deliver \/ ApplySignal
  \/ ClientNext \/ Fallback \/ BusLost

AppletSpec == AppletInit /\ [][AppletNext]_appletVars

\* No fairness of the fallback: signals alone must do.
AppletFairSpec ==
  /\ AppletSpec
  /\ WF_appletVars(DaemonStep)
  /\ WF_appletVars(Deliver) /\ WF_appletVars(ApplySignal)
  /\ WF_appletVars(ClientNext)

-----------------------------------------------------------------------------
(* Properties *)

ClientTypeOK ==
  /\ inbox \in Seq(Message) /\ unapplied \in Seq(Message)
  /\ signalled \in BOOLEAN
  /\ owner_changes \in Nat
  /\ client \in ClientStage
  /\ list \in Option(SUBSET Indices)
  /\ cache \in [Indices -> Option(Props)]
  /\ failed \subseteq Option(Indices)
  /\ turnover \in BOOLEAN
  /\ todo \subseteq Indices
  /\ out \in [Indices -> Option(Props)]
  /\ window \in Option([Indices -> Option(Props)])
  /\ client # "reading" => todo = {} /\ out = Uncached

\* What the bus serves, as the window shows it.
Served ==
  [i \in Indices |-> IF i \in devices /\ objects[i] # None
                     THEN DeviceProps(objects[i]) ELSE None]

\* What of it a client can show whose proxies have failed.
Readable ==
  IF None \in failed THEN None
  ELSE [i \in Indices |-> IF i \in failed THEN None ELSE Served[i]]

\* Nothing is under way to the client, and it is in its `select!`.
ClientIdle ==
  /\ client = "waiting"
  /\ inbox = <<>> /\ unapplied = <<>>
  /\ ~signalled /\ owner_changes = 0

(* applet dbus.rs:89-91, 160-172: an idle client shows exactly what an     *)
(* idle daemon serves and its proxies can read: over signals that arrive   *)
(* in the middle of a fetch or of the sleep, devices that come and go, and *)
(* daemons that restart and serve other devices at the same paths, no      *)
(* stale value survives and nothing but a failed proxy hides a device.     *)
ShowsWhatIsServed ==
  ClientIdle /\ at = "waiting" /\ lost = {} => window = Readable

(* applet dbus.rs:114-117, daemon dbus.rs:209-211: a device that is        *)
(* skipped has vanished.  The proxy never recovers, which does no harm     *)
(* because the daemon serves a device before it lists it and never takes a *)
(* path again.  It takes a daemon that comes or goes while the client is   *)
(* connected for a failed proxy to hide something.                         *)
SkipsOnlyVanished ==
  ~turnover => /\ None \in failed => at = "connecting"
               /\ \A i \in failed \ {None} : objects[i] = None

(* applet dbus.rs:114-116: the window is told that the daemon is down only *)
(* when it is (or the client's own bus is), never because a device         *)
(* vanished in the middle of a fetch.                                      *)
NeverFalselyDown ==
  [][window # None /\ window' = None =>
       at = "connecting" \/ client' = "retrying"]_appletVars

(* applet dbus.rs:70 as it stands: `None` = daemon not reachable on the    *)
(* bus.  An idle client shows a daemon as down if and only if it is.       *)
NoneIsUnreachable == ClientIdle => (window = None <=> at = "connecting")

(* dbus.rs:186-187, applet dbus.rs:123-124, 173-175: once registry and     *)
(* faults are quiet the bus shows exactly the registry's devices and the   *)
(* window what the bus shows of them to its proxies, without the 5 minute  *)
(* fallback.                                                               *)
ShowsEventually ==
  <>[](/\ at = "waiting" /\ Mirrors
       /\ lost # {} \/ window = Readable)
=============================================================================
