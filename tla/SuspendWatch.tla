---------------------------- MODULE SuspendWatch ----------------------------
(***************************************************************************)
(* The suspend watcher of steambatteryd (daemon/src/suspend.rs): its loop  *)
(* of connections to the system bus, the signals it hears on one, and the  *)
(* capacity-1 channel to the rescan of the main loop.                      *)
(*                                                                         *)
(* Time is counted in ticks of the monotonic clock, which stands still     *)
(* while the machine sleeps; every duration is relative.  What is ready to *)
(* run runs before the next tick.                                          *)
(***************************************************************************)
EXTENDS Integers, Sequences

CONSTANTS
  Base,         \* RECONNECT_BASE, in ticks
  Cap,          \* RECONNECT_CAP
  Healthy,      \* HEALTHY_CONNECTION
  MaxFailures,  \* MAX_QUICK_FAILURES
  MaxSleeps     \* bound: how often the machine sleeps

ASSUME ConstantsAssumption ==
  /\ Base \in Nat \ {0} /\ Cap \in Nat /\ Base <= Cap
  /\ Healthy \in Nat \ {0}
  /\ MaxFailures \in Nat \ {0}
  /\ MaxSleeps \in Nat

VARIABLES
  at,        \* where `run` is: connecting, watching, noted (resume noted, not
             \* pinged yet), pausing or stopped
  delay,     \* `delay`
  failures,  \* `quick_failures`
  elapsed,   \* `started.elapsed()`, up to Healthy
  pause,     \* what is left of the sleep between two connections
  ping,      \* the resume channel holds its one ping
  reachable, \* the system bus accepts connections
  broken,    \* the connection is lost: the stream ends once it is drained
  signals,   \* PrepareForSleep signals in the stream
  asleep,    \* the machine sleeps
  sleeps,    \* how often it has
  heard,     \* history: resumes signalled to the watcher
  noted,     \* history: of those, the ones in the liveness horizon
  scanned,   \* history: of those, the ones followed by a rescan
  missing,   \* history: time the bus has been reachable and not watched
  patience   \* history: time since the start or the last healthy connection

backoff == <<delay, failures>>
bus == <<reachable, broken, signals>>
machine == <<asleep, sleeps>>
handled == <<heard, noted, scanned>>
clocks == <<missing, patience>>
vars == <<at, backoff, elapsed, pause, ping, bus, machine, handled, clocks>>

Min(a, b) == IF a <= b THEN a ELSE b

Subscribed == at \in {"watching", "noted"} /\ ~broken

-----------------------------------------------------------------------------
(* suspend::run *)

\* Mutant of Backoff: quick failures add up over the daemon's lifetime.
BackoffForLife ==
  /\ failures' = failures + 1
  /\ delay' = IF elapsed >= Healthy THEN Base ELSE delay

\* Mutant of Backoff: a healthy connection does not reset the delay.
BackoffRatcheting ==
  /\ delay' = delay
  /\ failures' = IF elapsed >= Healthy THEN 0 ELSE failures + 1

\* Mutant of Backoff: connections that fail are not counted.
BackoffOfStreams ==
  IF elapsed >= Healthy THEN delay' = Base /\ failures' = 0
  ELSE /\ delay' = delay
       /\ failures' = IF at = "watching" THEN failures + 1 ELSE failures

\* `watch` has returned: reset after a healthy connection, else count.
Backoff ==
  IF elapsed >= Healthy THEN delay' = Base /\ failures' = 0
  ELSE delay' = delay /\ failures' = failures + 1

Pause ==
  /\ Backoff
  /\ at' = IF failures' >= MaxFailures THEN "stopped" ELSE "pausing"
  /\ pause' = IF failures' >= MaxFailures THEN 0 ELSE delay'
  /\ patience' = IF elapsed >= Healthy THEN 0 ELSE patience
  /\ elapsed' = 0
  /\ UNCHANGED <<ping, machine, handled, missing>>

\* Connection::system and receive_prepare_for_sleep, answered at once.
Connect ==
  /\ ~asleep /\ at = "connecting"
  /\ \/ /\ reachable
        /\ at' = "watching"
        /\ broken' = FALSE /\ signals' = <<>>
        /\ missing' = 0
        /\ UNCHANGED <<backoff, elapsed, pause, ping, reachable, machine,
                       handled, patience>>
     \/ ~reachable /\ Pause /\ UNCHANGED bus

\* The stream yields what it holds before it ends.
EndStream ==
  /\ ~asleep /\ at = "watching"
  /\ broken /\ signals = <<>>
  /\ Pause
  /\ UNCHANGED bus

Doubled(d) == Min(d * 2, Cap)

Reconnect ==
  /\ at = "pausing" /\ pause = 0
  /\ at' = "connecting" /\ elapsed' = 0
  /\ delay' = Doubled(delay)
  /\ UNCHANGED pause

Wake ==
  /\ ~asleep /\ Reconnect
  /\ UNCHANGED <<failures, ping, bus, machine, handled, clocks>>

-----------------------------------------------------------------------------
(* suspend::watch and the resume arm of the main loop *)

HearSleep ==
  /\ ~asleep /\ at = "watching"
  /\ signals # <<>> /\ Head(signals) = "sleep"
  /\ signals' = Tail(signals)
  /\ UNCHANGED <<at, backoff, elapsed, pause, ping, reachable, broken,
                 machine, handled, clocks>>

\* Registry::note_resume
HearResume ==
  /\ ~asleep /\ at = "watching"
  /\ signals # <<>> /\ Head(signals) = "resume"
  /\ signals' = Tail(signals)
  /\ at' = "noted"
  /\ noted' = noted + 1
  /\ UNCHANGED <<backoff, elapsed, pause, ping, reachable, broken, machine,
                 heard, scanned, clocks>>

\* Mutant of TrySend: a ping that empties the full channel.
TrySendToggling == ping' = ~ping

\* try_send: when the channel is full, its one ping is enough.
TrySend == ping' = TRUE

Ping ==
  /\ ~asleep /\ at = "noted"
  /\ at' = "watching"
  /\ TrySend
  /\ UNCHANGED <<backoff, elapsed, pause, bus, machine, handled, clocks>>

\* The main loop takes the ping and scans.
Rescan ==
  /\ ~asleep /\ ping
  /\ ping' = FALSE
  /\ scanned' = noted
  /\ UNCHANGED <<at, backoff, elapsed, pause, bus, machine, heard, noted,
                 clocks>>

-----------------------------------------------------------------------------
(* The bus, the machine and time *)

LoseBus ==
  /\ ~asleep /\ reachable
  /\ reachable' = FALSE /\ broken' = TRUE
  /\ missing' = 0
  /\ UNCHANGED <<at, backoff, elapsed, pause, ping, signals, machine,
                 handled, patience>>

RestoreBus ==
  /\ ~asleep /\ ~reachable
  /\ reachable' = TRUE
  /\ UNCHANGED <<at, backoff, elapsed, pause, ping, broken, signals, machine,
                 handled, clocks>>

\* logind's signals are not replayed to those who were not there.
Emit(signal) == signals' = IF Subscribed THEN Append(signals, signal)
                           ELSE signals

FallAsleep ==
  /\ ~asleep /\ sleeps < MaxSleeps
  /\ asleep' = TRUE /\ sleeps' = sleeps + 1
  /\ Emit("sleep")
  /\ UNCHANGED <<at, backoff, elapsed, pause, ping, reachable, broken,
                 handled, clocks>>

Resume ==
  /\ asleep
  /\ asleep' = FALSE
  /\ Emit("resume")
  /\ heard' = IF Subscribed THEN heard + 1 ELSE heard
  /\ UNCHANGED <<at, backoff, elapsed, pause, ping, reachable, broken, sleeps,
                 noted, scanned, clocks>>

UpTo(limit, n) == IF n < limit THEN n + 1 ELSE n

Settled ==
  /\ ~asleep /\ ~ping
  /\ \/ at = "stopped"
     \/ at = "pausing" /\ pause > 0
     \/ at = "watching" /\ ~broken /\ signals = <<>>

\* The delay after n failures in a row, and the pauses between them.
Delays[n \in Nat] == IF n = 0 THEN Base ELSE Doubled(Delays[n - 1])
Pauses[n \in Nat] == IF n <= 1 THEN 0 ELSE Pauses[n - 1] + Delays[n - 2]

Tick ==
  /\ Settled
  /\ elapsed' = IF at = "watching" THEN UpTo(Healthy, elapsed) ELSE 0
  /\ pause' = IF at = "pausing" THEN pause - 1 ELSE 0
  /\ missing' = IF reachable /\ ~Subscribed THEN UpTo(Cap + 1, missing) ELSE 0
  /\ patience' = UpTo(Pauses[MaxFailures], patience)
  /\ UNCHANGED <<at, backoff, ping, bus, machine, handled>>

-----------------------------------------------------------------------------
(* Specification *)

Init ==
  /\ at = "connecting"
  /\ delay = Base /\ failures = 0 /\ elapsed = 0 /\ pause = 0
  /\ ping = FALSE
  /\ reachable \in BOOLEAN /\ broken = FALSE /\ signals = <<>>
  /\ asleep = FALSE /\ sleeps = 0
  /\ heard = 0 /\ noted = 0 /\ scanned = 0
  /\ missing = 0 /\ patience = 0

Next ==
  \/ Connect \/ EndStream \/ Wake
  \/ HearSleep \/ HearResume \/ Ping \/ Rescan
  \/ LoseBus \/ RestoreBus \/ FallAsleep \/ Resume \/ Tick

Spec == Init /\ [][Next]_vars

(* Time passes: a machine that sleeps is woken, and only so much happens   *)
(* in a tick.  Tasks that can run are run and timers expire; nothing is    *)
(* asked of the bus.                                                       *)
FairSpec ==
  /\ Spec
  /\ []<><<Tick>>_vars
  /\ WF_vars(Connect) /\ WF_vars(EndStream) /\ WF_vars(Wake)
  /\ WF_vars(HearSleep) /\ WF_vars(HearResume) /\ WF_vars(Ping)
  /\ WF_vars(Rescan) /\ WF_vars(Resume)

-----------------------------------------------------------------------------
(* Properties *)

TypeOK ==
  /\ at \in {"connecting", "watching", "noted", "pausing", "stopped"}
  /\ delay \in Base..Cap /\ failures \in 0..MaxFailures
  /\ elapsed \in 0..Healthy /\ pause \in 0..Cap
  /\ ping \in BOOLEAN /\ reachable \in BOOLEAN /\ broken \in BOOLEAN
  /\ signals \in Seq({"sleep", "resume"}) /\ Len(signals) <= 2 * MaxSleeps
  /\ asleep \in BOOLEAN /\ sleeps \in 0..MaxSleeps
  /\ scanned \in 0..MaxSleeps /\ noted \in scanned..MaxSleeps
  /\ heard \in noted..MaxSleeps
  /\ missing \in 0..Cap + 1 /\ patience \in 0..Pauses[MaxFailures]

(* suspend.rs:26-36: the watcher stops for good only when logind has not   *)
(* been reachable for long through the whole backoff, counted from the     *)
(* last healthy connection and never over the lifetime of the daemon.      *)
StopsOnlyAfterBackoff ==
  at = "stopped" => patience = Pauses[MaxFailures]

(* suspend.rs:19-31: unless it has stopped, the watcher is back on a bus   *)
(* that is there again within RECONNECT_CAP, and within RECONNECT_BASE     *)
(* after a healthy connection: the gap in which a resume is lost.          *)
ReconnectsInTime ==
  at # "stopped" => missing <= IF failures = 0 THEN Base ELSE Cap

(* suspend.rs:33-36: without a bus the watcher stops in the end, instead   *)
(* of one connect attempt every minute for ever.                           *)
StopsWithoutBus == <>[](~reachable) => <>(at = "stopped")

(* suspend.rs:59-65 and main.rs:252-254: every resume that is signalled    *)
(* while the watcher is subscribed rewinds the liveness horizon and is     *)
(* followed by a rescan, with a single ping, even when resumes come        *)
(* during the rescan and when the connection is lost in between.           *)
ResumesAreHandled == []<>(heard = scanned)
=============================================================================
