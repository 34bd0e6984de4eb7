# A verification of steambattery

steambattery reads the battery telemetry of Steam Controllers (2nd generation)
from their hidraw nodes and offers it on the session bus. `steambatteryd`
(`src/daemon`) finds the nodes with udev, runs one reader task per node, keeps
a registry of logical controllers and mirrors the registry into D-Bus objects;
a COSMIC panel applet (`src/applet`) shows what those objects say. This
directory holds TLA+ models of that program, the TLC configurations that check
them and proofs checked by TLAPS.

    hidraw ──reads── reader tasks ──acquire/release/mark/update──▶ Registry
      ▲                 ▲   │ end reports                          │  ▲
      │ uevents         │   ▼                                watch │  │ sweep
    monitor thread ──events──▶ main loop / Supervisor     channel  │  sweeper
                               ▲ rescan                            ▼
    logind ──▶ suspend watcher ┴── note_resume ─▶ Registry    dbus::run ──▶ applet

## Inventory

| Component | Source | State | Operations | Talks to |
|---|---|---|---|---|
| Supervisor | `daemon/src/main.rs` | `readers` by devnode, `retries`, `generations` | `adopt`, `forget`, `on_done`, `fire_due_retries`, the select loop | readers (spawn, abort, end-report channel), monitor (event channel), suspend watcher (capacity-1 channel), D-Bus task (its end) |
| Discovery, monitor | `daemon/src/discovery.rs` | netlink socket | `scan`, `classify`, `monitor_blocking` on its own thread | main loop, by a channel of 16 |
| Reader | `daemon/src/reader.rs` | descriptor, error count, last mark, `ReleaseGuard` | open, drain, mark, report, end | Registry; Supervisor, by a channel of 16 |
| Registry | `daemon/src/state.rs` | entries with `refs`, `connected`, `battery`, `last_updated`, `last_seen`; watch channel; `sweep_notify` | `acquire`, `release`, `mark_traffic`, `update_battery`, `sweep`, `next_deadline`, `note_resume` | D-Bus task (watch), sweeper (notify) |
| Sweeper | `daemon/src/main.rs` | the pending deadline | arm, be notified, fire | Registry |
| Suspend watcher | `daemon/src/suspend.rs` | bus connection, backoff | `watch`, `run` | logind, Registry, main loop |
| D-Bus service | `daemon/src/dbus.rs` | `present`, `next_index`, the served objects, `Devices` | one pass per change of the watch channel | Registry (watch), bus clients |
| Protocol | `daemon/src/protocol.rs` | none | `parse`, `classify` | reader |
| Interface | `interface/src/lib.rs` | none | `ChargeState` conversions, proxies | daemon, applet |
| Applet client | `applet/src/dbus.rs` | device proxies and zbus property caches, `last_sent` | `fetch_state`, `watch`, `subscription` | D-Bus service |
| Applet window | `applet/src/window.rs` | `state`, `popup` | `update`, `primary`, `battery_icon` | applet client |
| Packaging | `nix/module.nix`, `flake.nix` | | restart policy of the user service | systemd |
| Reference copy | `battery_app.rs` | | another project's applet; nothing builds it | |

What is hard here, and what each component has to get right:

* **Supervisor.** Hotplug events, scans, due retries and end reports of one
  devnode are queued in different places and handled in any order; a reader
  ends, reports and is noticed at three different moments. Right means: one
  live reader per devnode, no retry beside a reader, no entry that nobody will
  ever clear, exact reference counts over aborts, no present device forgotten,
  and every failed device tried again for ever.
* **Registry and sweeper.** Staleness is measured on a clock that stands still
  in a suspend, stamps on one that does not; the sweeper sleeps on a deadline
  that others move. Right means: `Connected` is dropped after enough silence,
  never before and never much later, a resume shortens the wait, and what
  clients see is what the map holds, up to the deadbands.
* **D-Bus service.** A pass works on a copy across many awaits. Right means:
  no publication is slept on, a path never changes its controller, and signals
  suffice to keep a client's cache correct.
* **Suspend watcher.** Lost signals, backoff. Right means: a resume signalled
  while it is subscribed is always handled, the gaps in which one is lost are
  short, and giving up is for a bus that has really gone.
* **Reader.** Drain sleep, mark throttle, kernel queue and error budget. Right
  means: traffic is marked often enough for both windows of the registry,
  nothing is dropped by waiting, and errors neither spin nor end it early.
* **Applet client.** Caches, coalescing, daemon restarts. Right means: what is
  shown eventually is what the daemon serves, a proxy that failed hides nothing
  that is there, and a stopped daemon is shown as stopped. The last two do not
  hold whenever the daemon comes or goes under a connected applet (Applet,
  below).
* **Protocol, interface, window.** The same eight values cross a packed struct,
  a parser, getters, a list of changed properties, the client's labels and an
  icon; popup commands and popup events cross each other. Right means: every
  value arrives, signals say what getters say, and applet and compositor agree
  on the popup.

`PROJECT.json` lists the hazards one by one, at their lines, with the
properties that are about them.

## Modules

| Module | Models | Extends | Checked by | Proofs |
|---|---|---|---|---|
| `Ownership` | abstract: one owner per devnode | | as a property | `SupervisorProofs`, `RetryingProofs` |
| `Channel` | abstract: what the registry promises its subscribers | | through `DBusMirror` | `RegistryProofs` |
| `Supervisor` | main loop, Supervisor, monitor thread, reader life cycle, restarts | | `supervisor`, `supervisor_missed` | `SupervisorProofs` |
| `Retrying` | retry delays and the retry timer, against time | | `retrying` | `RetryingProofs` |
| `Registry` | registry, sweeper, resume, against time | | `registry`, `registry_stamp` | `RegistryProofs` |
| `Reader` | reader tasks and kernel queues, against time | `Registry` | `reader`, `reader_leftover` | `ReaderProofs` |
| `SuspendWatch` | the watcher's connections and its ping, against time | | `suspend` | `SuspendWatchProofs` |
| `DBusMirror` | D-Bus service and what its signals tell a client | uses `Channel` | `dbus` | `DBusMirrorProofs` |
| `Applet` | the applet's client | `DBusMirror` | `applet`, `applet_reachable` | `AppletProofs` |
| `Wire` | bytes to properties to labels, operators only | | through `Panel` | through `PanelProofs` |
| `Panel` | the applet's window, popup and timer | `Wire` | `panel` | `PanelProofs` |

`MCRegistry`, `MCReader`, `MCDBusMirror` and `MCPanel` hold the finite values
of the runs. Operators called `Mutant of X` in the modules are altered copies of
definition X, each a plausible slip in the code; `PROJECT.json` names the
property that notices it. They take no part in the specifications.

How they fit together:

    Supervisor ─┐                                   ┌─ Panel (Wire)
                ├─implements─▶ Ownership            │
    Retrying ───┘                                 Applet
                                                    │ extends
    Reader ─implements─▶ Registry ─implements─▶ Channel ◀─uses─ DBusMirror

`Reader` extends `Registry` and implements it, `Registry` implements `Channel`,
and the publications of `DBusMirror` are the steps of `Channel`: what is checked
and proved of the service therefore holds under every registry that keeps the
promise, and the registry under its real readers keeps it. `Panel` takes the
lists of devices that the client may send it as its inputs.

### Supervisor

| TLA+ | code |
|---|---|
| `readers`, `retries`, `generations` | the fields of `Supervisor`; generation 0 stands for a missing map entry |
| `tasks` | the reader task of each generation: spawned, reading (guard held), sending its report, aborting (aborted, not dropped yet), finished |
| `events`, `done`, `resume` | the three channels into the select loop |
| `plugged`, `uevents`, `monitor` | the kernel's devices, the netlink socket, the monitor thread |
| `refs` | `Entry::refs` |
| `Adopt`, `Forget`, `OnDone`/`Retire`, `FireRetry` | the methods of `Supervisor` |
| `InitialScan`, `HandleEvent`, `HandleDone`, `HandleResume` | the boot sequence and the arms of `select!` |
| `AdoptScanned` | one turn of `for node in nodes { adopt }`; `Yielded` keeps everything on the runtime's one thread out of that loop, which has no await |
| `Open`, `OpenFail`, `ReadGone`, `ReadFail`, `SendDone`, `DropAborted` | the reader task between awaits |
| `Restart` | a process that ends with an error and its successor, which `nix/module.nix` starts whatever the rate |

The monitor thread and the world interleave with everything; the main loop and
the reader tasks share one thread, so each stretch between awaits is a step.
Time is left out: a scheduled retry may fire at any moment and whether a failed
reader had run long enough to start over with its attempts is a free choice.
`Retrying` has both against time.

`unheard` records the devnodes the code promises nothing for: those that changed
after the initial scan while the monitor thread was not listening, and those
whose uevent the kernel dropped because the socket overran (a fault). Their
next event or a resume rescan brings them back. `NothingStranded` and
`Converges` exempt them, and `supervisor_missed` shows that without the first
exemption the promise of `main.rs:259` does not hold. A ctrl-C exit is clean,
is not followed by a restart, and is left out.

`Owner(d)` maps the supervisor's state to `Ownership`: who looks after a
devnode, after how many failures in a row.

### Retrying

`Delay` is the arithmetic of `on_done` (`RETRY_BASE` doubled up to `RETRY_CAP`,
`RETRY_SLOW` after `RETRY_FAST_ATTEMPTS`), `retries` holds the time each retry
has left, and `FireDueRetries` serves all that are due, as the one timer of the select
loop does. A device can be present without being openable (seat ACLs), fail
before or after `HEALTHY_RUN`, and leave with the report of its reader on the
way. Attempts past the fast phase are alike and are counted no further.
Everything is relative, so time has no end and the run needs no bound on it.
`Owner(d)` maps this state to `Ownership` too.

### Registry

`inner` is the map (an entry without refs is no entry), `published` the watch
channel's value, `permit` the stored permit of `sweep_notify`, `sweeper` the
sweeper task at its await. `now` is the monotonic clock and `now + asleep` the
wall clock. Every operation holds the lock and is one step. A tick of time
passes only when the sweeper has nothing to do at once, and a timer that
expires in a tick is served in that tick or the next; hence the `+ 1` in the
properties about time. `heard`, `heardWall`, `reported` and `rewound` are
history variables, read only by properties. The wall clock being set, by NTP or
by hand, is not modelled.

### Reader

`reader` is the task of each node at its awaits (readiness, the drain sleep),
`queue` the reports the kernel holds for it. A drain has no await, so while one
node is draining nothing else runs; `ReadReport`, `WouldBlock` and `ReadError`
are the outcomes of one `read`, `Handle` the mark throttle and the update,
`End` the drop of the `ReleaseGuard`. tokio's cached readiness is the field
`ready`: only a read that would block clears it, so an error leaves it set and
the next pass starts without waiting. The constant assumption `RetunedTogether`
is the `const` assertion at `state.rs:35-39`.

### SuspendWatch

`at` is where `run` and `watch` are, `signals` the stream of PrepareForSleep,
`ping` the channel of capacity 1 to the main loop. The bus comes and goes, a
connection is lost with signals still in the stream, the machine sleeps and
wakes. `heard`, `noted` and `scanned` follow each resume from the bus to
`note_resume` and to the rescan; `missing` and `patience` are clocks of the
properties. `Delays` and `Pauses` are what the backoff of `run` comes to after so
many failures, as recursive functions. The run has the code's own constants in
units of 5 s.

### DBusMirror

`channel` and `unseen` are the watch channel and its receiver; `snapshots`,
`gone` and `rest` are the pass under way; `objects` and `devices` what the bus
serves. One action per stretch between awaits: `RemoveGone`, `UpdateDevice` and
`EmitChanges`, `AddDevice`, `ListDevices` and `AnnounceDevices`. Publications,
readers and failures fall anywhere in between. `DeviceProps` converts a
snapshot to wire values (defaults for a missing report, whole seconds), so that
two different snapshots may have equal properties and then cause no signal. The
follower is any client that read an object at some moment and applies its
signals. Telemetry is one field here; `Wire` has them all.

### Applet

Every step of the daemon that sends a signal or changes the owner of the bus
name also puts a message into `inbox`, which is delivered in order. Delivery
puts a signal into `props_stream` (`signalled`: a flag suffices, since the
client takes one message and then drains the rest) and into `unapplied`, from
where the property caches apply it when their tasks run. `client` follows
`watch`: `FetchList`, `FetchDevice` and `Send` are `fetch_state` and the
hand-over to the window, `WakeOnSignal` and `Settle` the 300 ms sleep and the
drain, `WakeOnOwner` the daemon coming or going, `Fallback` the five-minute
timer, `BusLost` and `Reconnect` the outer loop of `subscription`.

zbus is not part of the repository. That a cache is filled by the first read, is
changed by signals only and survives the daemon is what the comments of
`applet/src/dbus.rs` (85-87, 167-170) say of it. What the model adds to that is
external knowledge of zbus 5.16.0, the version in `Cargo.lock`: a cache passes
over signals sent before it was filled, and it is populated once, so that a
proxy whose first read failed answers every later one with that failure. The
code keeps such proxies: a `DeviceProxy` is inserted before it is read (line
109) and stays while its path is listed (98) and the owner of the name does
(171); the daemon's is made once per connection (127). `failed` holds the
proxies whose first read failed, `None` standing for the daemon's. The service
has no D-Bus activation file, so a read of a daemon that is not there fails
rather than starting one. The applet begins in `"retrying"`: it may connect long
after the daemon has started, or before.

`turnover` is a history variable: the daemon came or went while the client was
connected. Until then a failed proxy hides nothing (`SkipsOnlyVanished`): the
daemon serves before it lists and takes no path twice, so what could not be read
once is gone for good, and an unreachable daemon has not come yet. After it, two
things are hidden. An applet that connected before the daemon shows it as
unreachable for as long as that connection lasts (`NoneIsUnreachable`, below). And after
a restart the client reads the old list, which outlives the daemon: a device of
the new one at such a path that is not served yet when it is read stays hidden
until it is unlisted or the owner changes again. `ShowsWhatIsServed` says
exactly what is shown then, by `Readable`.

The sleep of 300 ms is there to `let the proxy property caches apply the same
signals` (`applet/src/dbus.rs:160-163`), and `Settle` takes its word for it: the
sleep ends with every delivered signal applied. zbus takes microseconds to apply
one, but nothing in the repository could make it do so: a signal that arrives in
the last of them is drained and could be applied after the next read, and then
that value would not be shown before the next signal or the fallback. The
properties of one device are read in one step; a mixture of old and new ones
would be followed by another fetch.

### Wire and Panel

`Wire` has only operators: `ParseBatteryReport` and `Classify`
(`protocol.rs`), the `ChargeState` conversions (`interface/src/lib.rs`), what a
report, a liveness mark and a sweep do to a snapshot (`state.rs`), the getters
and, separately as in the code, the list that changes are computed from
(`dbus.rs`), and what the client makes of the properties (`DeviceInfo`,
`LevelLabel`, `Charging`). `Encode` is the controller's packed struct.

`Panel` is `window.rs`: `Update` on each of its messages, the popup, the timer
subscription that exists while a popup is open, `Primary`, `BatteryIcon`,
`PanelLabel` and `Interesting`. Commands reach the compositor late and in order;
it may close a popup on its own and says so later, and may or may not say so of
one it was told to close. Each state message is computed through `Wire` from
what some controllers have sent: a status report with any padding, then perhaps
something else, then perhaps silence; and from an earlier read of the client and
the signals since. `told` and `rendered` are history variables.

## Runs

| Run | Question | Instance | Distinct states |
|---|---|---|---|
| `supervisor` | one owner, exact counts, nothing stranded, `Ownership` implemented, everything present read in the end | 2 devnodes of 1 controller, channels of capacity 1, 6 spawns, 3 world events, 1 fault | 278 k |
| `supervisor_missed` | `main.rs:259`, `so nothing is missed` | 1 devnode, 1 event | violated |
| `retrying` | how late, and how often, a failed device is tried | 2 devnodes; delays 1, 2, 3, then 5, healthy after 4; no bound on time | 404 k |
| `registry` | staleness, resumes, publishing, deadbands, stamps | 2 keys, window 2, grace 1, deadband 2 over readings 0..2, 1 tick of sleep, 5 instants | 1.17 M |
| `registry_stamp` | `LastUpdated` of a disconnected device | 1 key, up to 5 ticks of sleep | violated |
| `reader` | marks, queue, errors | 1 node, window 5, grace 4, drain sleep 1, mark interval 2, queue of 2, 2 failed reads, budget of 2 errors | 2.92 M |
| `reader_leftover` | `state.rs:25-27`, death in a suspend | the same, longer, no faults | violated |
| `suspend` | backoff, giving up, resumes | the code's constants, 2 sleeps of the machine; no bound on time | 696 k |
| `dbus` | mirroring, paths, signals | 2 keys, 2 levels, 5 publications, stamps of 2 in seconds of 2, 2 faults | 2.81 M |
| `applet` | what an applet shows and skips, and that it catches up | 1 key, 3 publications, 1 fault, one stamp | 494 k |
| `applet_reachable` | `applet/src/dbus.rs:70`, `None` and only then unreachable | 1 key, 1 publication, 1 fault | violated |
| `panel` | popup, timer, icon, every value of a report | 3 popups, 2 messages waiting, 18 controllers in 23 lists | 105 k |

Deadlock is checked in `retrying`, `suspend` and `panel`, whose systems never
stop. The other worlds are bounded, and once their budgets are used up a system
at rest (all tasks parked) has nothing left to do.

Why the bounds suffice.

* `supervisor`: `Converges` has one fault, so its retries stay in the fast phase;
  the slow one is `retrying`'s. The conflicts are among an entry, a retry, a queued report, a
  queued event and an aborting task of one devnode, and between two devnodes of
  one controller; six spawns let a reader fail, be retried, be removed and be
  replaced, and a channel of capacity 1 is full after one message, so blocked
  senders occur all the time. The safety properties are proved for any bounds.
* `retrying`: three fast attempts suffice for a delay that doubles, one that is
  capped and the slow one; the second device moves the shared timer.
* `registry`: two devices make the sweeper's choice of the earliest deadline
  matter, the clock holds two full windows with a resume inside, and readings of
  0..2 drift past a deadband of 2 in steps within it. One reference per
  controller; shared ones are covered by the proofs, as is everything longer.
* `reader`: the window holds a mark interval, a drain sleep, a suspend and the
  resume with its grace, which is just what `RetunedTogether` demands; two
  errors in a row end the reader and one does not.
* `suspend`: nothing is scaled. Two sleeps are enough for a resume to come
  during the rescan of another.
* `dbus`: five publications let a key arrive, leave, return and change during
  one pass while the other moves too; two faults lose a signal and fail a
  removal, or restart the daemon in between.
* `applet`: three publications and a fault let a path be served by the next
  daemon with other values, which is what stale caches are about, or lose a
  signal or the client's connection. Paths of one process differ although there
  is one key: it may leave and return. The daemon's first start costs no fault,
  so it falls anywhere around the applet's; a proxy then fails for want of the
  daemon, of a device that left, or of one that a new daemon has yet to serve.
  One stamp is enough: values that are old or new differ in `Connected` and level.
* `panel`: one popup, its successor and a late message of either are all that
  can conflict, and a third shows that nothing adds up; levels stand at the
  edges of the icon's rounding, at 0, 100 and 254, charge codes around the named
  ones, all words of a report differ and the bytes of each word too.

Symmetry (over keys) is used in `registry` and `dbus`, whose properties are
invariants and action properties that treat keys alike.

Four runs show disagreements between the code and its comments, recorded under
`findings`. `supervisor_missed`: the monitor thread starts before the initial
scan, but nothing waits for it to listen, so a device plugged just after the
scan can be missed until its next event or a resume. `registry_stamp`: the
stamp of a disconnected device is the time of the sweep, which after a suspend
is later than the values were last known good by the length of the suspend.
`applet_reachable`: the daemon's proxy is made once per connection, so an applet
that connects before the daemon shows it as unreachable although it has been
woken for it; and filled in time, the same proxy shows a stopped daemon as one
without controllers.
`reader_leftover`: reports queued before a suspend are read after it and count
as traffic; if the resume was noted first, a controller that died in the sleep
is shown for a whole `STALE_AFTER` instead of `RESUME_GRACE`.

### Fairness

`Supervisor`: weak fairness for every step of the monitor thread, of the
select loop and of each reader task that needs no fault. Tokio polls ready
tasks in turn; `select!` picks among ready arms at random and every arm's
readiness persists (a queued message, an expired timer), so none is passed over
for ever. Firing a retry is fair because its timer expires. Failing is never
fair, and neither is anything the world does. `Converges` has the form `<>[]`:
budgets make the world and the faults stop, and from then on the system must
settle.

`Applet`: weak fairness of the daemon, of delivery, of the caches and of the
client, each a sequential task, and none of the fallback, so that the run shows
that signals suffice; a timer of five minutes only fires while no message is
ready.

`SuspendWatch`: weak fairness of the watcher's steps and of the rescan, and
`[]<><<Tick>>_vars`, which says that time goes on: a machine that sleeps is
woken in the end, and only so much happens in a tick. Nothing is asked of the
bus. `Retrying`, `Registry` and `Reader` need no fairness: what is ready runs
before the next tick, so lateness is a matter of safety there.

## Refinements

* `Supervisor` and `Retrying` implement `Ownership`, checked by TLC
  (`ImplementsOwnership` in `supervisor` and `retrying`) and proved
  (`SupervisorImplementsOwnership`, `RetryingImplementsOwnership`). A devnode never has two owners, a retry comes from a reader only, and
  the count of failures goes from one to the next, over restarts too.
* `Registry` implements `Channel`, proved (`RegistryImplementsChannel`):
  deadbands, references, time and the sweeper are invisible to subscribers.
* `Reader` implements `Registry`, proved (`ReaderImplementsRegistry`). So the
  registry's theorems hold under real readers (`ConnectedUnderReaders`), and
  readers feed the channel (`ReadersFeedTheChannel`).
* `DBusMirror` takes its publications from `Channel`, by `INSTANCE`.

## Proofs

All for every value of the constants, from the named assumptions of the modules
only (capacities are positive, `None` is no value of the type it is added to,
the grace is shorter than the window, deadbands are positive, constants retuned
together, delays grow from base to cap to slow, no device reads as `None`). In
particular for any number of devnodes, controllers, spawns,
faults, popups and ticks, with no bound of the runs in the way.

**`SupervisorProofs`**: `TypeOK`, `SingleOwner`, `EntryHasOwner`,
`RetryExcludesReader`, `RefsCountGuards`. None is inductive alone. The invariant
is `TypeOK /\ Ledger`, where `Ledger` adds: generations not spawned yet have no
task and occur nowhere (`Unborn`), an entry names a task of its own devnode
(`EntryNamesOwnTask`), and a queued report is from a finished task and agrees
with it (`ReportIsFinal`). The argument: an entry is replaced only when vacant,
so the task a report comes from is either still named by its entry, and then the
report clears it, or has been superseded, and then the generations differ. The
counts are proved with a lemma about the cardinality of the guards of a key when
one task changes.

Then `NothingStranded`. What the supervisor believes of a devnode lags the world
by what is under way, and `Hearing` says what that is good for meanwhile: the
last word under way (scan, event, uevent) is true; with no removal under way
nothing false is believed; with no add under way either all that is true is
believed; a reader whose device went has that removal announced. A quiet
supervisor has nothing under way, so belief and world agree. Last, every step is
a step of `Ownership` or leaves the mapped variable alone:
`RetryExcludesReader` makes the mapping unambiguous, and each operation moves
the owner of one devnode.

**`RetryingProofs`**: both properties of the run `retrying` about time, and
`Ownership`. `Attended` says that a present device has a reader or a retry and
never both, `Accounted` that the attempt a retry carries is one more than the
retries made since the last healthy run, and `Timed` keeps two balances: the
wait that is left, with the time the device could have been read, is at most the
delay (`RecoversInTime`), and with the time since it was last tried at least
that (`QuietWhenBroken`). The provers know nothing of `^`; that `RETRY_BASE`
doubled n times is a natural number at all is from the library's theorem that a
set of n elements has 2^n subsets.

**`SuspendWatchProofs`**: all safety properties of the run `suspend`. `BackedOff`
says that what has been waited since the last healthy connection, with what is
left of the pause, is at least `Pauses` of the failures so far: nothing but the
whole backoff stops the watcher. `Missed` bounds the time without it by the
pause, and the pause by `Gap`. `Alternate` says that in the stream a resume
follows each suspend, and `Counted` reads off from its first signal and its
length how many resumes are yet to be noted; with `Pinged` (one ping stands for
all that are noted and not rescanned) that gives `ResumesAreHandledInTime`: when
time passes, every resume heard has had its rescan. It is the safety half of
`ResumesAreHandled`. `Delays` and `Pauses` are recursive functions, of which the
provers know nothing until one is shown to exist: `NatSetInduction`, from the
library's theorem about least elements, is induction with a set in the place of
a predicate, and `Recursion` builds with it the function that follows a step.

**`RegistryProofs`**: all properties of the run `registry`, and `Channel`. The
invariant `IInv` gives each key a `Sound` part: a connected entry's `last_seen`
is exactly the instant it was last heard or, when a resume has been handled
since, the earlier of that and the first such resume's cutoff; its deadline has
not passed by more than a tick; the sweeper is armed for it; and the stamp of a
retained battery is no earlier than the last report. That `last_seen` is known
exactly gives both that a deadline is never missed and that none is early. The
deadbands have an invariant of their own, `Kept`: what an entry stores is the
last report or is like it, since each report is compared with what is stored
and not with the report before it.

**`ReaderProofs`**: the refinement, and all properties of the run `reader`.
`GivesUpSlowly` is from a measure: with c errors in a row, c drain sleeps have
passed or are due since the first (`Paced`). `NoSpinning` and `NothingDropped`
are from `Calm`: a node that has drained in a tick drains still, has nothing to
do, or sleeps past the tick, and a good reader's queue is no longer than its
sleep has lasted. `HeardInTime` is from `Waiting`: a queued sign of life is read
by `Due`, which each tick and each failed read may move only so far; that the
history of a controller is not cleared under a running reader takes
`RefsAreReaders`, the references being exactly the open nodes.
`AliveStaysConnected` is from `Sending`: the first drain of a node that has begun
to send comes within a sleep and may find only what an overflowing queue kept,
the second finds a sign of life, and from then on each drain leaves its
controller heard within a mark interval; a drop takes more silence than that
(`SilenceOnly`). Two of them need relations between the constants, as
assumptions: `QueueCap > DrainSleep` for `NothingDropped`, which the comment of
`DRAIN_SLEEP` states (63 reports at 266 Hz last longer than 200 ms), and
`DrainSleep <= MarkInterval` for `AliveStaysConnected`, which the values give
(200 ms and 1 s) and the code nowhere asserts.

**`DBusMirrorProofs`**: all properties of the run `dbus`. `Paths` says who owns
which path and that nothing has ever been at those not handed out; `PassDone`
what the pass has mirrored of its copy so far, and that the copy is the channel
unless a publication is unseen; `Told` what a follower knows; `Counted` pays for
every path with a publication, so that the model's paths never run out.

**`AppletProofs`**: the safety properties of the run `applet`, on top of the
mirror's invariant. A cache lags the bus by the signals still on their way;
`Leads` says that these, applied one after the other, lead from the one to the
other, and `Chain` that for each device they lead from the client's cache to
what is served, or to what the signal about to be sent corrects. A signal sent
takes the chain on at its end, one delivered or applied at its start, and a cache
filled by a read starts anew since it passes over what was sent before. A chain
is claimed only while no owner change is under way, as paths of two daemons may
coincide; `Behind` says that no cache holds a path that is yet to be handed out.
The list's cache survives the daemon, and `Unlisted` is the time in which that
does no harm: a new daemon announces its first list unless it serves nothing.
`Shown` says that the fetch under way, and the window after it, have what the
caches have unless a signal waits to wake the client, `Missed` that only a failed
proxy leaves a listed device out, and `Failing` that such a proxy has no values
and, if it is the daemon's, that there is no list and nothing in the window.
`SkipsOnlyVanished` is from `Unturned`: as long as one daemon has been met, every
path that the client has listed, is to read, or will hear of has been handed out
already, and an object that was absent from such a path once is absent for good.

**`PanelProofs`**: all properties of the run `panel`. The popup's invariant is about the order of the commands on
their way: ids are used once, before a popup that comes all earlier ones go,
none is shown again after it was destroyed, an announced end is true. The ages:
`rendered + timer <= Period` while a popup is open. The data: the parser undoes
the encoding for every status and every padding (`U16Le` of a packed word,
fields at their offsets), every code survives `ChargeState` and `AsU8`, and the
list that signals are computed from equals the getters for every snapshot. From
`PanelAssumption`: what a controller sends after its status is no status, and a
level is never 255, which the bus uses for unknown. `PanelMatchesPopup` takes
that a list with a matching device has a first one, the least index by
`WFMin`, and the arithmetic of the icon's steps, which end within a level's
range whatever the level.

Every invariant and action property of a passing run, and both refinements that
a run checks, are stated by a theorem. Only model-checked is liveness, which is
out of the prover's reach with the fairness it rests on: `Converges`,
`StopsWithoutBus`, `ResumesAreHandled` and `ShowsEventually`. The type
invariants of `Retrying`, `SuspendWatch`, `Reader`, `DBusMirror` and `Applet`
belong to no run and are proved.

## Not modelled

* The sysfs walk of `classify` (`discovery.rs:47-107`): which attribute gives a
  controller its key depends on what real hardware says there, which the
  repository does not hold. Every model takes the key of a node as given.
* The text rows of the popup (`device_details`), layout and glyphs; they keep no
  state and no property is about them.
* Clock adjustments, logging, the ctrl-C exit.
* `battery_app.rs`, another project's applet that nothing builds; packaging,
  except for the restart policy, which is `Restart` in `Supervisor`.

## What is left

In order of weight: the way back of a devnode whose uevent was lost, by a resume
rescan, as a liveness property of its own; and the identity of controllers in
discovery, should its rules be documented.
