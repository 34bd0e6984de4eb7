------------------------------ MODULE Retrying ------------------------------
(***************************************************************************)
(* When steambatteryd tries a failed device again (daemon/src/main.rs):    *)
(* the delays of `on_done`, the attempts carried from spawn to spawn, the  *)
(* healthy run that forgives them and the one timer of the select loop,    *)
(* against time.  Supervisor has the same operations without time.         *)
(*                                                                         *)
(* Time is counted in ticks and every duration is relative, so there is no *)
(* end of time.  What is ready to run runs before the next tick; a timer   *)
(* that expires in a tick is served in that tick or the next.              *)
(***************************************************************************)
EXTENDS Integers

CONSTANTS
  Devnodes,      \* hidraw device nodes
  None,          \* no retry
  Base,          \* RETRY_BASE, in ticks
  Cap,           \* RETRY_CAP
  FastAttempts,  \* RETRY_FAST_ATTEMPTS
  Slow,          \* RETRY_SLOW
  HealthyRun     \* HEALTHY_RUN

ASSUME ConstantsAssumption ==
  /\ None \notin [attempt : Nat, wait : Int]
  /\ Base \in Nat \ {0} /\ Cap \in Nat /\ Base <= Cap
  /\ FastAttempts \in Nat \ {0}
  /\ Slow \in Nat /\ Cap <= Slow
  /\ HealthyRun \in Nat \ {0}

VARIABLES
  link,      \* the device: present, leaving (gone, not yet announced), absent
  openable,  \* its node may be opened: seat ACLs, driver
  reader,    \* Supervisor::readers and the task of each: see Reader
  retries,   \* Supervisor::retries, the remaining time instead of `at`
  ready,     \* history: how long it could have been read but was not, since
             \* fresh evidence of it
  rested,    \* history: time since it was last opened or tried
  tries,     \* history: retries since fresh evidence or a healthy run
  healthy    \* history: its last failure ended a healthy run

device == <<link, openable>>
vars == <<link, openable, reader, retries, ready, rested, tries, healthy>>

\* One past the fast phase: beyond it all attempts are alike.
MaxAttempt == FastAttempts + 1
More(attempt) == IF attempt < MaxAttempt THEN attempt + 1 ELSE attempt
UpTo(limit, n) == IF n < limit THEN n + 1 ELSE n

(* The map entry and its task: none, spawned (not polled yet), reading,    *)
(* failed or gone (ended, its report not handled yet).                     *)
Reader == [at : {"none", "spawned", "reading", "failed", "gone"},
           attempt : 0..MaxAttempt, ran : 0..HealthyRun]
NoReader == [at |-> "none", attempt |-> 0, ran |-> 0]

Become(d, at) == [reader EXCEPT ![d] = [@ EXCEPT !.at = at]]

\* No task runs or has a report waiting.
Settled == \A d \in Devnodes : reader[d].at \in {"none", "reading"}

CanBeRead(d) == link[d] = "present" /\ openable[d]

-----------------------------------------------------------------------------
(* The delays *)

Min(a, b) == IF a <= b THEN a ELSE b

Delay(failures) ==
  IF failures > FastAttempts THEN Slow
  ELSE Min(Base * 2 ^ (failures - 1), Cap)

-----------------------------------------------------------------------------
(* The Supervisor's operations *)

Spawned(attempt) == [at |-> "spawned", attempt |-> attempt, ran |-> 0]

\* Mutant of Adopt: pending retries survive the fresh evidence.
AdoptKeepingRetries(d) ==
  /\ \/ /\ reader[d].at \in {"none", "failed", "gone"}
        /\ reader' = [reader EXCEPT ![d] = Spawned(0)]
        /\ tries' = [tries EXCEPT ![d] = 0]
        /\ healthy' = [healthy EXCEPT ![d] = FALSE]
        /\ ready' = [ready EXCEPT ![d] = 0]
     \/ /\ reader[d].at # "none"
        /\ UNCHANGED <<reader, tries, healthy, ready>>
  /\ UNCHANGED <<retries, rested>>

\* Supervisor::adopt; a task that has ended may or may not have finished.
Adopt(d) ==
  /\ retries' = [retries EXCEPT ![d] = None]
  /\ \/ /\ reader[d].at \in {"none", "failed", "gone"}
        /\ reader' = [reader EXCEPT ![d] = Spawned(0)]
        /\ tries' = [tries EXCEPT ![d] = 0]
        /\ healthy' = [healthy EXCEPT ![d] = FALSE]
        /\ ready' = [ready EXCEPT ![d] = 0]
     \/ /\ reader[d].at # "none"
        /\ UNCHANGED <<reader, tries, healthy, ready>>
  /\ UNCHANGED rested

\* A controller appears, and the monitor announces it.
Appear(d) ==
  /\ link[d] = "absent"
  /\ link' = [link EXCEPT ![d] = "present"]
  /\ Adopt(d)
  /\ UNCHANGED openable

\* A `change` event or the rescan after a resume finds it.
FindAgain(d) ==
  /\ link[d] = "present"
  /\ Adopt(d)
  /\ UNCHANGED device

Leave(d) ==
  /\ link[d] = "present"
  /\ link' = [link EXCEPT ![d] = "leaving"]
  /\ ready' = [ready EXCEPT ![d] = 0]
  /\ UNCHANGED <<openable, reader, retries, rested, tries, healthy>>

\* Supervisor::forget
Forget(d) ==
  /\ link[d] = "leaving"
  /\ link' = [link EXCEPT ![d] = "absent"]
  /\ reader' = [reader EXCEPT ![d] = NoReader]
  /\ retries' = [retries EXCEPT ![d] = None]
  /\ tries' = [tries EXCEPT ![d] = 0]
  /\ healthy' = [healthy EXCEPT ![d] = FALSE]
  /\ UNCHANGED <<openable, ready, rested>>

\* Mutant of Failures: failures add up over the device's lifetime.
FailuresForLife(r) == More(r.attempt)

Failures(r) == IF r.ran >= HealthyRun THEN 1 ELSE More(r.attempt)

Scheduled(failures) == [attempt |-> failures, wait |-> Delay(failures)]

\* Supervisor::on_done with the report of the tracked reader.
OnDone(d) ==
  /\ reader[d].at \in {"failed", "gone"}
  /\ reader' = [reader EXCEPT ![d] = NoReader]
  /\ IF reader[d].at = "gone" THEN UNCHANGED retries
     ELSE retries' = [retries EXCEPT ![d] = Scheduled(Failures(reader[d]))]
  /\ healthy' = [healthy EXCEPT ![d] = reader[d].ran >= HealthyRun]
  /\ tries' = [tries EXCEPT ![d] = IF reader[d].ran >= HealthyRun THEN 0
                                   ELSE @]
  /\ UNCHANGED <<device, ready, rested>>

Due == {d \in Devnodes : retries[d] # None /\ retries[d].wait <= 0}

\* Mutant of FireDueRetries: the attempts are not carried over.
FireDueRetriesAfresh ==
  /\ Due # {}
  /\ reader' = [d \in Devnodes |-> IF d \in Due THEN Spawned(0) ELSE reader[d]]
  /\ retries' = [d \in Devnodes |-> IF d \in Due THEN None ELSE retries[d]]

\* Supervisor::fire_due_retries, when the timer of `next_retry` expires.
FireDueRetries ==
  /\ Due # {}
  /\ reader' = [d \in Devnodes |->
                  IF d \in Due /\ reader[d].at \in {"none", "failed", "gone"}
                  THEN Spawned(retries[d].attempt) ELSE reader[d]]
  /\ retries' = [d \in Devnodes |-> IF d \in Due THEN None ELSE retries[d]]

TimerArm ==
  /\ FireDueRetries
  /\ tries' = [d \in Devnodes |-> IF d \in Due THEN UpTo(MaxAttempt, tries[d])
                                  ELSE tries[d]]
  /\ rested' = [d \in Devnodes |-> IF d \in Due THEN 0 ELSE rested[d]]
  /\ UNCHANGED <<device, ready, healthy>>

-----------------------------------------------------------------------------
(* The tasks and the world *)

\* File::open succeeds or fails at once.
Open(d) ==
  /\ reader[d].at = "spawned"
  /\ reader' = Become(d, IF CanBeRead(d) THEN "reading" ELSE "failed")
  /\ ready' = [ready EXCEPT ![d] = IF CanBeRead(d) THEN 0 ELSE @]
  /\ rested' = [rested EXCEPT ![d] = 0]
  /\ healthy' = [healthy EXCEPT ![d] = @ /\ CanBeRead(d)]
  /\ UNCHANGED <<device, retries, tries>>

\* The device stops answering or is gone.
Fail(d) ==
  /\ reader[d].at = "reading"
  /\ reader' = Become(d, "failed")
  /\ rested' = [rested EXCEPT ![d] = 0]
  /\ UNCHANGED <<device, retries, ready, tries, healthy>>

End(d) ==
  /\ reader[d].at = "reading" /\ link[d] # "present"
  /\ reader' = Become(d, "gone")
  /\ UNCHANGED <<device, retries, ready, rested, tries, healthy>>

\* logind grants or revokes the node, without any event.
SetAcl(d) ==
  /\ openable' = [openable EXCEPT ![d] = ~@]
  /\ ready' = [ready EXCEPT ![d] = 0]
  /\ UNCHANGED <<link, reader, retries, rested, tries, healthy>>

Tick ==
  /\ Settled
  /\ \A d \in Devnodes : retries[d] # None => retries[d].wait >= 0
  /\ retries' = [d \in Devnodes |->
                   IF retries[d] = None THEN None
                   ELSE [retries[d] EXCEPT !.wait = @ - 1]]
  /\ reader' = [d \in Devnodes |->
                  IF reader[d].at = "none" THEN NoReader
                  ELSE [reader[d] EXCEPT !.ran = UpTo(HealthyRun, @)]]
  /\ ready' = [d \in Devnodes |->
                 IF CanBeRead(d) /\ reader[d].at # "reading"
                 THEN UpTo(Slow + 2, ready[d]) ELSE 0]
  /\ rested' = [d \in Devnodes |-> UpTo(Slow, rested[d])]
  /\ UNCHANGED <<device, tries, healthy>>

-----------------------------------------------------------------------------
(* Specification *)

Init ==
  /\ link = [d \in Devnodes |-> "absent"]
  /\ openable \in [Devnodes -> BOOLEAN]
  /\ reader = [d \in Devnodes |-> NoReader]
  /\ retries = [d \in Devnodes |-> None]
  /\ ready = [d \in Devnodes |-> 0]
  /\ rested = [d \in Devnodes |-> 0]
  /\ tries = [d \in Devnodes |-> 0]
  /\ healthy = [d \in Devnodes |-> FALSE]

Next ==
  \/ TimerArm \/ Tick
  \/ \E d \in Devnodes :
       \/ Appear(d) \/ FindAgain(d) \/ Leave(d) \/ Forget(d) \/ OnDone(d)
       \/ Open(d) \/ Fail(d) \/ End(d) \/ SetAcl(d)

Spec == Init /\ [][Next]_vars

-----------------------------------------------------------------------------
(* Properties *)

TypeOK ==
  /\ link \in [Devnodes -> {"present", "leaving", "absent"}]
  /\ openable \in [Devnodes -> BOOLEAN]
  /\ reader \in [Devnodes -> Reader]
  /\ retries \in [Devnodes -> [attempt : 1..MaxAttempt, wait : -1..Slow]
                                \cup {None}]
  /\ ready \in [Devnodes -> 0..Slow + 2]
  /\ rested \in [Devnodes -> 0..Slow]
  /\ tries \in [Devnodes -> 0..MaxAttempt]
  /\ healthy \in [Devnodes -> BOOLEAN]

(* main.rs:27-40: a present device that may be opened is being read again  *)
(* RETRY_BASE after a healthy run, RETRY_CAP in the fast phase and         *)
(* RETRY_SLOW at the latest, whenever its permissions arrived and whatever *)
(* other devices, events and retries are going on.                         *)
RecoversInTime ==
  \A d \in Devnodes :
    ready[d] <= 1 + IF healthy[d] THEN Base
                    ELSE IF tries[d] < FastAttempts THEN Cap
                    ELSE Slow

(* main.rs:27-34: one wakeup per RETRY_SLOW is the entire cost of a device *)
(* that is present and broken, once the fast attempts are used up; reading *)
(* for less than HEALTHY_RUN does not buy new ones.                        *)
QuietWhenBroken ==
  [][\A d \in Devnodes :
       /\ retries[d] # None /\ reader[d].at = "none"
       /\ reader'[d].at = "spawned" /\ tries'[d] # 0
       /\ tries[d] >= FastAttempts
       => rested[d] >= Slow]_vars

\* Who looks after d: its entry, its retry or nobody.
Owner(d) ==
  IF retries[d] = None
  THEN IF reader[d].at = "none" THEN [by |-> "nobody", failures |-> 0]
       ELSE [by |-> "reader", failures |-> reader[d].attempt]
  ELSE IF reader[d].at = "none"
       THEN [by |-> "retry", failures |-> retries[d].attempt]
       ELSE [by |-> "both", failures |-> 0]

Owners == INSTANCE Ownership WITH MaxFailures <- MaxAttempt,
                                  own <- [d \in Devnodes |-> Owner(d)]

(* main.rs:73-76: also against time, one owner looks after each devnode.   *)
ImplementsOwnership == Owners!Spec
=============================================================================
