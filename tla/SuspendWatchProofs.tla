------------------------- MODULE SuspendWatchProofs -------------------------
(***************************************************************************)
(* SuspendWatch for any delays, limits and number of suspends.             *)
(*                                                                         *)
(* Two accounts are kept.  What the watcher has waited since its last      *)
(* healthy connection, with what is left of its pause, is never less than  *)
(* the backoff asks for after that many failures: so nothing but the whole *)
(* backoff stops it.  And the signals in its stream alternate, so that the *)
(* resumes it has yet to note can be read off their number and the first.  *)
(***************************************************************************)
EXTENDS SuspendWatch, SequenceTheorems, WellFoundedInduction, TLAPS

-----------------------------------------------------------------------------
(* Recursion over the naturals *)

\* Induction, for a set in the place of a predicate.
LEMMA NatSetInduction ==
  ASSUME NEW S, 0 \in S, \A n \in Nat : n \in S => n + 1 \in S
  PROVE  Nat \subseteq S
<1> DEFINE Less == {p \in Nat \X Nat : p[1] < p[2]}
<1> SUFFICES ASSUME Nat \ S # {} PROVE FALSE
  OBVIOUS
<1>1. IsWellFoundedOn(Less, Nat)
  BY NatLessThanWellFounded DEF OpToRel
<1>2. PICK m \in Nat \ S : \A k \in Nat \ S : <<k, m>> \notin Less
  <2>1. Nat \ S \subseteq Nat
     OBVIOUS
  <2> HIDE DEF Less
  <2> QED
    BY <1>1, <2>1, WFMin, Zenon
<1>3. m # 0 /\ m - 1 \in Nat
  OBVIOUS
<1>4. <<m - 1, m>> \in Less
  BY <1>3
<1>5. m - 1 \in S
  BY <1>2, <1>3, <1>4
<1> QED
  BY <1>3, <1>5

\* The functions on 0..n that begin with v0 and go on by step.
Upto(n, V, v0, step) ==
  {g \in [0..n -> V] :
     /\ g[0] = v0
     /\ \A k \in 0..n : k + 1 \in 0..n => g[k + 1] = step[k][g[k]]}

\* The function on Nat that does.
Follows(f, V, v0, step) ==
  /\ f \in [Nat -> V] /\ f[0] = v0
  /\ \A n \in Nat : f[n + 1] = step[n][f[n]]

\* There is one.
LEMMA Recursion ==
  ASSUME NEW V, NEW v0 \in V, NEW step \in [Nat -> [V -> V]]
  PROVE  \E f : Follows(f, V, v0, step)
<1> DEFINE U(n) == Upto(n, V, v0, step)
           Some == {n \in Nat : U(n) # {}}
           Same == {k \in Nat : \A m, n \in Nat : \A g \in U(m), h \in U(n) :
                                  k <= m /\ k <= n => g[k] = h[k]}
<1>1. Nat \subseteq Some
  <2>1. 0 \in Some
    <3>1. [i \in 0..0 |-> v0] \in U(0)
      BY DEF Upto
    <3> QED
      BY <3>1
  <2>2. ASSUME NEW n \in Nat, n \in Some PROVE n + 1 \in Some
    <3>1. PICK g : g \in U(n)
      BY <2>2
    <3> DEFINE h == [i \in 0..n + 1 |-> IF i = n + 1 THEN step[n][g[n]]
                                         ELSE g[i]]
    <3>2. h \in U(n + 1)
      BY <3>1 DEF Upto
    <3> HIDE DEF h
    <3> QED
      BY <3>2
  <2> QED
    BY <2>1, <2>2, NatSetInduction
<1>2. Nat \subseteq Same
  <2>1. 0 \in Same
    BY DEF Upto
  <2>2. ASSUME NEW k \in Nat, k \in Same PROVE k + 1 \in Same
    <3> SUFFICES ASSUME NEW m \in Nat, NEW n \in Nat,
                        NEW g \in U(m), NEW h \in U(n),
                        k + 1 <= m, k + 1 <= n
                 PROVE  g[k + 1] = h[k + 1]
      OBVIOUS
    <3>1. g[k] = h[k]
      BY <2>2
    <3> QED
      BY <3>1 DEF Upto
  <2> QED
    BY <2>1, <2>2, NatSetInduction
<1> DEFINE At(n) == CHOOSE g : g \in U(n)
           f == [n \in Nat |-> At(n)[n]]
<1>3. \A n \in Nat : At(n) \in U(n)
  BY <1>1
<1>4. f \in [Nat -> V] /\ f[0] = v0
  <2>1. \A n \in Nat : At(n) \in [0..n -> V] /\ At(n)[0] = v0
    BY <1>3 DEF Upto
  <2> HIDE DEF At
  <2> QED
    BY <2>1
<1>5. ASSUME NEW n \in Nat PROVE f[n + 1] = step[n][f[n]]
  <2>1. At(n + 1)[n] = At(n)[n]
    BY <1>2, <1>3
  <2>2. At(n + 1)[n + 1] = step[n][At(n + 1)[n]]
    <3>1. At(n + 1) \in U(n + 1)
      BY <1>3
    <3> HIDE DEF At
    <3> QED
      BY <3>1 DEF Upto
  <2> QED
    BY <2>1, <2>2
<1>6. Follows(f, V, v0, step)
  BY <1>4, <1>5 DEF Follows
<1> QED
  BY <1>6

-----------------------------------------------------------------------------
(* The delays *)

LEMMA DoubledDelay ==
  ASSUME NEW d \in Base..Cap
  PROVE  /\ Doubled(d) \in Base..Cap /\ Doubled(d) \in Int
         /\ \A e \in Base..Cap : e <= d => Doubled(e) <= Doubled(d)
  BY ConstantsAssumption DEF Doubled, Min

\* Delays satisfies its equations and stays between the two delays.
LEMMA DelaysBounded ==
  /\ Delays \in [Nat -> Base..Cap]
  /\ Delays[0] = Base
  /\ \A n \in Nat : Delays[n + 1] = Doubled(Delays[n])
<1> DEFINE V == Base..Cap
           step == [n \in Nat |-> [v \in V |-> Doubled(v)]]
<1>1. step \in [Nat -> [V -> V]] /\ Base \in V
  BY DoubledDelay, ConstantsAssumption
<1>2. PICK f : Follows(f, V, Base, step)
  <2> HIDE DEF V, step
  <2> QED
    BY <1>1, Recursion
<1>3. f = [n \in Nat |-> IF n = 0 THEN Base ELSE Doubled(f[n - 1])]
  <2>1. ASSUME NEW n \in Nat, n # 0 PROVE f[n] = Doubled(f[n - 1])
    <3>1. n - 1 \in Nat /\ (n - 1) + 1 = n
      BY <2>1
    <3> QED
      BY <1>2, <3>1 DEF Follows
  <2> QED
    BY <1>2, <2>1 DEF Follows
<1>4. Delays = [n \in Nat |-> IF n = 0 THEN Base ELSE Doubled(Delays[n - 1])]
  BY <1>3 DEF Delays
<1>5. Delays \in [Nat -> V]
  <2> DEFINE S == {n \in Nat : Delays[n] \in V}
  <2>1. 0 \in S
    BY <1>4, ConstantsAssumption
  <2>2. ASSUME NEW n \in Nat, n \in S PROVE n + 1 \in S
    <3>1. Delays[n + 1] = Doubled(Delays[n])
      BY <1>4
    <3> QED
      BY <2>2, <3>1, DoubledDelay
  <2>3. Nat \subseteq S
    BY <2>1, <2>2, NatSetInduction
  <2> QED
    BY <1>4, <2>3
<1>6. Delays[0] = Base
  BY <1>4
<1>7. ASSUME NEW n \in Nat PROVE Delays[n + 1] = Doubled(Delays[n])
  <2>1. n + 1 \in Nat /\ n + 1 # 0 /\ (n + 1) - 1 = n
    OBVIOUS
  <2>2. Delays[n + 1] = Doubled(Delays[(n + 1) - 1])
    BY <1>4, <2>1
  <2> QED
    BY <2>1, <2>2
<1> QED
  BY <1>5, <1>6, <1>7

\* Pauses satisfies its equations and grows.
LEMMA PausesGrow ==
  /\ Pauses \in [Nat -> Nat]
  /\ Pauses[1] = 0
  /\ \A n \in Nat \ {0} : Pauses[n + 1] = Pauses[n] + Delays[n - 1]
  /\ \A m, n \in Nat : m <= n => Pauses[m] <= Pauses[n]
<1> DEFINE step == [n \in Nat |-> [v \in Nat |->
                      IF n = 0 THEN 0 ELSE v + Delays[n - 1]]]
<1>1. \A n \in Nat : Delays[n] \in Nat
  BY DelaysBounded, ConstantsAssumption
<1>2. step \in [Nat -> [Nat -> Nat]]
  BY <1>1
<1>3. PICK f : Follows(f, Nat, 0, step)
  <2> HIDE DEF step
  <2> QED
    BY <1>2, Recursion
<1>4. f = [n \in Nat |-> IF n <= 1 THEN 0 ELSE f[n - 1] + Delays[n - 2]]
  <2>1. ASSUME NEW n \in Nat, n > 1 PROVE f[n] = f[n - 1] + Delays[n - 2]
    <3>1. n - 1 \in Nat /\ (n - 1) + 1 = n /\ (n - 1) - 1 = n - 2
      BY <2>1
    <3>2. f[n] = step[n - 1][f[n - 1]] /\ f[n - 1] \in Nat
      BY <1>3, <3>1 DEF Follows
    <3> QED
      BY <2>1, <3>1, <3>2
  <2>2. f[0] = 0 /\ f[1] = 0 /\ f \in [Nat -> Nat]
    <3>1. f[0] = 0 /\ f[0 + 1] = step[0][f[0]] /\ f \in [Nat -> Nat]
      BY <1>3 DEF Follows
    <3> QED
      BY <3>1
  <2>3. ASSUME NEW n \in Nat
        PROVE  f[n] = IF n <= 1 THEN 0 ELSE f[n - 1] + Delays[n - 2]
    <3>1. n <= 1 => n = 0 \/ n = 1
      OBVIOUS
    <3> QED
      BY <2>1, <2>2, <3>1
  <2> QED
    BY <2>2, <2>3
<1>5. Pauses = [n \in Nat |-> IF n <= 1 THEN 0
                              ELSE Pauses[n - 1] + Delays[n - 2]]
  BY <1>4 DEF Pauses
<1>6. ASSUME NEW n \in Nat \ {0}
      PROVE  Pauses[n + 1] = Pauses[n] + Delays[n - 1]
  <2>1. n + 1 \in Nat /\ ~(n + 1 <= 1) /\ (n + 1) - 1 = n
        /\ (n + 1) - 2 = n - 1
    OBVIOUS
  <2>2. Pauses[n + 1] = Pauses[(n + 1) - 1] + Delays[(n + 1) - 2]
    BY <1>5, <2>1
  <2> QED
    BY <2>1, <2>2
<1>7. Pauses \in [Nat -> Nat]
  <2> DEFINE S == {n \in Nat : Pauses[n] \in Nat}
  <2>1. 0 \in S /\ 1 \in S
    BY <1>5
  <2>2. ASSUME NEW n \in Nat, n \in S PROVE n + 1 \in S
    <3>1. CASE n = 0
      BY <2>1, <3>1
    <3>2. CASE n # 0
      <4>1. Pauses[n + 1] = Pauses[n] + Delays[n - 1] /\ n - 1 \in Nat
        BY <1>6, <3>2
      <4>2. Pauses[n] \in Nat /\ Delays[n - 1] \in Nat
        BY <1>1, <2>2, <4>1
      <4> QED
        BY <4>1, <4>2
    <3> QED
      BY <3>1, <3>2
  <2>3. Nat \subseteq S
    BY <2>1, <2>2, NatSetInduction
  <2> QED
    BY <1>5, <2>3
<1>8. Pauses[0] = 0 /\ Pauses[1] = 0
  BY <1>5
<1>9. ASSUME NEW m \in Nat, NEW n \in Nat, m <= n
      PROVE  Pauses[m] <= Pauses[n]
  <2> DEFINE S == {k \in Nat : m <= k => Pauses[m] <= Pauses[k]}
  <2>1. 0 \in S
    BY <1>7
  <2>2. ASSUME NEW k \in Nat, k \in S PROVE k + 1 \in S
    <3>1. Pauses[k] <= Pauses[k + 1]
      <4>1. CASE k = 0
        BY <1>8, <4>1
      <4>2. CASE k # 0
        <5>1. Pauses[k + 1] = Pauses[k] + Delays[k - 1]
              /\ Delays[k - 1] \in Nat
          BY <1>1, <1>6, <4>2
        <5> QED
          BY <1>7, <5>1
      <4> QED
        BY <4>1, <4>2
    <3>2. m <= k + 1 => m <= k \/ m = k + 1
      OBVIOUS
    <3> QED
      BY <1>7, <2>2, <3>1, <3>2
  <2>3. Nat \subseteq S
    BY <2>1, <2>2, NatSetInduction
  <2> QED
    BY <1>9, <2>3
<1> QED
  BY <1>6, <1>7, <1>8, <1>9

-----------------------------------------------------------------------------
(* The inductive invariant *)

\* What has been waited since the last healthy connection, with what is left
\* of the pause, is all that the backoff asks for so far.
BackedOff ==
  /\ at # "stopped" => failures < MaxFailures
  /\ at \in {"connecting", "watching", "noted"} =>
       patience >= Pauses[failures + 1] /\ delay >= Delays[failures]
  /\ at = "pausing" =>
       /\ patience + pause >= Pauses[failures + 1]
       /\ delay >= IF failures = 0 THEN Base ELSE Delays[failures - 1]
  /\ at = "stopped" => patience = Pauses[MaxFailures]

\* How long the bus may be there and not be watched.
Gap == IF failures = 0 THEN Base ELSE Cap

\* The time the bus has been missed does not outrun the pause.
Missed ==
  /\ ~reachable \/ at \in {"watching", "noted"} => missing = 0
  /\ at # "pausing" => pause = 0
  /\ at # "stopped" => missing + pause <= Gap

\* A sleep was signalled and its resume is yet to come.
Halfway == asleep /\ Subscribed

\* Signals alternate, and the last resume has been signalled.
Alternate ==
  /\ at \notin {"watching", "noted"} => signals = <<>>
  /\ \A i \in 1..Len(signals) - 1 : signals[i] # signals[i + 1]
  /\ signals # <<>> => (signals[Len(signals)] = "sleep" <=> Halfway)
  /\ Halfway => signals # <<>>

One(b) == IF b THEN 1 ELSE 0

\* The resumes in the stream are those that are heard and not noted.
Counted ==
  /\ 2 * (heard - noted) =
       Len(signals) + One(signals # <<>> /\ signals[1] = "resume")
         - One(Halfway)
  /\ heard + One(asleep) <= sleeps
  /\ Len(signals) + One(asleep) <= 2 * sleeps

\* What is noted and not rescanned has its ping.
Pinged == ping \/ at = "noted" \/ scanned = noted

IInv == TypeOK /\ BackedOff /\ Missed /\ Alternate /\ Counted /\ Pinged

LEMMA InitHolds == Init => IInv
<1> SUFFICES ASSUME Init PROVE IInv
  OBVIOUS
<1>1. Pauses[MaxFailures] \in Nat /\ Pauses[1] = 0 /\ Delays[0] = Base
  BY PausesGrow, DelaysBounded, ConstantsAssumption
<1>2. TypeOK
  <2>1. signals \in Seq({"sleep", "resume"}) /\ Len(signals) = 0
    BY DEF Init
  <2>2. 0 <= 2 * MaxSleeps
    BY ConstantsAssumption
  <2>3. scanned \in 0..MaxSleeps /\ noted \in scanned..MaxSleeps
        /\ heard \in noted..MaxSleeps /\ sleeps \in 0..MaxSleeps
    BY ConstantsAssumption DEF Init
  <2>4. /\ delay \in Base..Cap /\ failures \in 0..MaxFailures
        /\ elapsed \in 0..Healthy /\ pause \in 0..Cap
        /\ missing \in 0..Cap + 1 /\ patience \in 0..Pauses[MaxFailures]
    BY <1>1, ConstantsAssumption DEF Init
  <2> QED
    BY <2>1, <2>2, <2>3, <2>4 DEF Init, TypeOK
<1>3. BackedOff /\ Missed
  BY <1>1, ConstantsAssumption DEF Init, BackedOff, Missed, Gap
<1>4. Alternate /\ Counted /\ Pinged
  BY ConstantsAssumption
     DEF Init, Alternate, Counted, Pinged, Halfway, Subscribed, One
<1> QED
  BY <1>2, <1>3, <1>4 DEF IInv

-----------------------------------------------------------------------------
(* The backoff *)

\* The type of what the backoff, the pauses and time are about.
ClockTypes ==
  /\ delay \in Base..Cap /\ failures \in 0..MaxFailures
  /\ elapsed \in 0..Healthy /\ pause \in 0..Cap
  /\ missing \in 0..Cap + 1 /\ patience \in 0..Pauses[MaxFailures]

LEMMA LimitedUp ==
  ASSUME NEW limit \in Nat, NEW n \in 0..limit
  PROVE  /\ UpTo(limit, n) \in 0..limit /\ UpTo(limit, n) <= n + 1
         /\ UpTo(limit, n) >= n
         /\ UpTo(limit, n) = n + 1 \/ UpTo(limit, n) = limit
  BY DEF UpTo

\* What the pauses are, where the invariant looks at them.
LEMMA PausesSoFar ==
  ASSUME NEW n \in Nat, n < MaxFailures
  PROVE  /\ Pauses[n + 1] \in 0..Pauses[MaxFailures]
         /\ Pauses[MaxFailures] \in Nat
         /\ Pauses[n + 2] = Pauses[n + 1] + Delays[n]
         /\ Delays[n] \in Base..Cap
<1>1. n + 1 <= MaxFailures /\ n + 1 \in Nat /\ MaxFailures \in Nat
  BY ConstantsAssumption
<1>2. n + 1 \in Nat \ {0} /\ (n + 1) + 1 = n + 2 /\ (n + 1) - 1 = n
  OBVIOUS
<1>3. Pauses[(n + 1) + 1] = Pauses[n + 1] + Delays[(n + 1) - 1]
  BY <1>2, PausesGrow
<1>4. /\ Pauses[n + 1] \in Nat /\ Pauses[MaxFailures] \in Nat
      /\ Pauses[n + 1] <= Pauses[MaxFailures]
  BY <1>1, PausesGrow
<1> QED
  BY <1>2, <1>3, <1>4, DelaysBounded

\* The invariant as far as it is about the clocks.
ClocksOK == ClockTypes /\ BackedOff /\ Missed

\* `watch` returns, from connecting or watching, with nothing missed.
LEMMA PauseClocks ==
  ASSUME ClocksOK, Pause, at \in {"connecting", "watching"}, missing = 0
  PROVE  ClocksOK'
<1> USE DEF ClocksOK
<1>1. /\ failures \in Nat /\ failures < MaxFailures
      /\ patience >= Pauses[failures + 1] /\ delay >= Delays[failures]
      /\ delay \in Base..Cap /\ patience \in 0..Pauses[MaxFailures]
      /\ Base \in Nat \ {0} /\ Cap \in Nat /\ Base <= Cap
      /\ MaxFailures \in Nat \ {0} /\ Healthy \in Nat \ {0}
  BY ConstantsAssumption DEF ClockTypes, BackedOff
<1>2. CASE elapsed >= Healthy
  <2>1. /\ delay' = Base /\ failures' = 0 /\ patience' = 0 /\ elapsed' = 0
        /\ missing' = 0 /\ at' = "pausing" /\ pause' = Base
    BY <1>1, <1>2 DEF Pause, Backoff
  <2>2. Pauses[MaxFailures] \in Nat /\ Pauses[1] = 0
    BY <1>1, PausesGrow
  <2>3. ClockTypes'
    BY <1>1, <2>1, <2>2 DEF ClockTypes
  <2>4. BackedOff'
    BY <1>1, <2>1, <2>2 DEF BackedOff
  <2>5. Missed'
    BY <1>1, <2>1 DEF Missed, Gap
  <2> QED
    BY <2>3, <2>4, <2>5
<1>3. CASE ~(elapsed >= Healthy)
  <2>1. /\ delay' = delay /\ failures' = failures + 1 /\ patience' = patience
        /\ elapsed' = 0 /\ missing' = 0
        /\ failures + 1 < MaxFailures => at' = "pausing" /\ pause' = delay
        /\ failures + 1 >= MaxFailures => at' = "stopped" /\ pause' = 0
    BY <1>1, <1>3 DEF Pause, Backoff
  <2>2. /\ Pauses[failures + 1] \in Nat /\ Pauses[MaxFailures] \in Nat
        /\ Pauses[failures + 2] = Pauses[failures + 1] + Delays[failures]
        /\ Delays[failures] \in Base..Cap
    BY <1>1, PausesSoFar
  <2>3. ClockTypes'
    BY <1>1, <2>1, <2>2 DEF ClockTypes
  <2>4. BackedOff'
    <3>1. CASE failures + 1 < MaxFailures
      <4>1. failures' # 0 /\ failures' - 1 = failures
            /\ failures' + 1 = failures + 2
        BY <1>1, <2>1
      <4>2. patience' + pause' >= Pauses[failures' + 1]
        BY <1>1, <2>1, <2>2, <3>1, <4>1
      <4>3. delay' >= Delays[failures' - 1]
        BY <1>1, <2>1, <4>1
      <4> QED
        BY <2>1, <3>1, <4>1, <4>2, <4>3 DEF BackedOff
    <3>2. CASE failures + 1 >= MaxFailures
      <4>1. failures + 1 = MaxFailures
        BY <1>1, <3>2
      <4>2. patience = Pauses[MaxFailures]
        BY <1>1, <2>2, <4>1
      <4> QED
        BY <2>1, <3>2, <4>2 DEF BackedOff
    <3> QED
      BY <1>1, <3>1, <3>2
  <2>5. Missed'
    BY <1>1, <2>1 DEF Missed, Gap
  <2> QED
    BY <2>3, <2>4, <2>5
<1> QED
  BY <1>2, <1>3

LEMMA ConnectClocks ==
  ASSUME ClocksOK, Connect
  PROVE  ClocksOK'
<1>1. CASE reachable /\ at' = "watching"
  BY <1>1, ConstantsAssumption
     DEF Connect, ClocksOK, ClockTypes, BackedOff, Missed, Gap, backoff
<1>2. CASE ~reachable /\ Pause /\ UNCHANGED bus
  <2>1. missing = 0 /\ at = "connecting"
    BY <1>2 DEF Connect, ClocksOK, Missed
  <2> QED
    BY <1>2, <2>1, PauseClocks
<1> QED
  BY <1>1, <1>2 DEF Connect

LEMMA EndStreamClocks ==
  ASSUME ClocksOK, EndStream
  PROVE  ClocksOK'
<1>1. missing = 0 /\ at = "watching"
  BY DEF EndStream, ClocksOK, Missed
<1> QED
  BY <1>1, PauseClocks DEF EndStream

LEMMA WakeClocks ==
  ASSUME ClocksOK, Wake
  PROVE  ClocksOK'
<1> USE DEF ClocksOK
<1>1. /\ at = "pausing" /\ pause = 0 /\ at' = "connecting" /\ elapsed' = 0
      /\ delay' = Doubled(delay)
      /\ UNCHANGED <<pause, failures, reachable, missing, patience>>
  BY DEF Wake, Reconnect, bus, clocks
<1>2. /\ failures \in Nat /\ failures < MaxFailures
      /\ patience >= Pauses[failures + 1]
      /\ delay \in Base..Cap /\ Base \in Base..Cap
      /\ delay >= IF failures = 0 THEN Base ELSE Delays[failures - 1]
  <2>1. /\ patience + pause >= Pauses[failures + 1]
        /\ patience \in Nat
    BY <1>1, PausesGrow, ConstantsAssumption DEF ClockTypes, BackedOff
  <2> QED
    BY <1>1, <2>1, ConstantsAssumption DEF ClockTypes, BackedOff
<1>3. Doubled(delay) \in Base..Cap /\ Doubled(delay) \in Int
  BY <1>2, DoubledDelay
<1>4. Doubled(delay) >= Delays[failures]
  <2>1. CASE failures = 0
    BY <1>3, <2>1, DelaysBounded, ConstantsAssumption
  <2>2. CASE failures # 0
    <3>1. failures - 1 \in Nat /\ (failures - 1) + 1 = failures
      BY <1>2, <2>2
    <3>2. Delays[failures - 1] \in Base..Cap
          /\ Delays[failures] = Doubled(Delays[failures - 1])
      BY <3>1, DelaysBounded
    <3>3. Delays[failures - 1] <= delay
      BY <1>2, <2>2, <3>2, ConstantsAssumption
    <3>4. Doubled(Delays[failures - 1]) <= Doubled(delay)
      BY <1>2, <3>2, <3>3, DoubledDelay
    <3>5. Delays[failures] \in Int
      BY <1>2, DelaysBounded
    <3> QED
      BY <1>3, <3>2, <3>4, <3>5
  <2> QED
    BY <2>1, <2>2
<1>5. ClockTypes'
  BY <1>1, <1>3, ConstantsAssumption DEF ClockTypes
<1>6. BackedOff'
  BY <1>1, <1>2, <1>4 DEF BackedOff
<1>7. Missed'
  BY <1>1 DEF Missed, Gap
<1> QED
  BY <1>5, <1>6, <1>7

LEMMA TickClocks ==
  ASSUME ClocksOK, Tick
  PROVE  ClocksOK'
<1> USE DEF ClocksOK
<1>1. /\ UNCHANGED <<at, delay, failures, reachable>>
      /\ elapsed' = IF at = "watching" THEN UpTo(Healthy, elapsed) ELSE 0
      /\ pause' = IF at = "pausing" THEN pause - 1 ELSE 0
      /\ missing' = IF reachable /\ ~Subscribed THEN UpTo(Cap + 1, missing)
                    ELSE 0
      /\ patience' = UpTo(Pauses[MaxFailures], patience)
      /\ \/ at = "stopped"
         \/ at = "pausing" /\ pause > 0
         \/ at = "watching" /\ Subscribed
  BY DEF Tick, Settled, Subscribed, backoff, bus
<1>2. /\ Pauses[MaxFailures] \in Nat /\ failures \in Nat
      /\ Base \in Nat \ {0} /\ Cap \in Nat /\ Base <= Cap
      /\ Healthy \in Nat /\ Cap + 1 \in Nat
  BY PausesGrow, ConstantsAssumption DEF ClockTypes
<1>3. /\ patience' \in 0..Pauses[MaxFailures] /\ patience' >= patience
      /\ patience' = patience + 1 \/ patience' = Pauses[MaxFailures]
  BY <1>1, <1>2, LimitedUp DEF ClockTypes
<1>4. missing' \in 0..Cap + 1 /\ missing' <= missing + 1
  <2>1. missing \in 0..Cap + 1
    BY DEF ClockTypes
  <2>2. UpTo(Cap + 1, missing) \in 0..Cap + 1
        /\ UpTo(Cap + 1, missing) <= missing + 1
    BY <1>2, <2>1, LimitedUp
  <2> QED
    BY <1>1, <1>2, <2>1, <2>2
<1>5. elapsed' \in 0..Healthy
  BY <1>1, <1>2, LimitedUp DEF ClockTypes
<1>6. pause' \in 0..Cap
  BY <1>1, <1>2 DEF ClockTypes
<1>7. ClockTypes'
  BY <1>1, <1>3, <1>4, <1>5, <1>6 DEF ClockTypes
<1>8. BackedOff'
  <2>1. failures < MaxFailures =>
          Pauses[failures + 1] \in 0..Pauses[MaxFailures]
    BY <1>2, PausesSoFar
  <2>2. patience \in Nat /\ pause \in Nat
    BY <1>2 DEF ClockTypes
  <2>3. CASE at = "stopped"
    BY <1>1, <1>2, <1>3, <2>2, <2>3 DEF BackedOff
  <2>4. CASE at = "watching"
    <3>1. patience >= Pauses[failures + 1] /\ delay >= Delays[failures]
          /\ failures < MaxFailures
      BY <2>4 DEF BackedOff
    <3>2. patience' >= Pauses[failures + 1]
      BY <1>2, <1>3, <2>1, <2>2, <3>1
    <3> QED
      BY <1>1, <2>4, <3>1, <3>2 DEF BackedOff
  <2>5. CASE at = "pausing" /\ pause > 0
    <3>1. /\ patience + pause >= Pauses[failures + 1]
          /\ failures < MaxFailures
          /\ delay >= IF failures = 0 THEN Base ELSE Delays[failures - 1]
      BY <2>5 DEF BackedOff
    <3>2. patience' + pause' >= Pauses[failures + 1]
      BY <1>1, <1>2, <1>3, <2>1, <2>2, <2>5, <3>1
    <3> QED
      BY <1>1, <2>5, <3>1, <3>2 DEF BackedOff
  <2> QED
    BY <1>1, <2>3, <2>4, <2>5
<1>9. Missed'
  <2>1. missing \in Nat /\ pause \in Nat
    BY <1>2 DEF ClockTypes
  <2> QED
    BY <1>1, <1>2, <1>4, <2>1 DEF Missed, Gap
<1> QED
  BY <1>7, <1>8, <1>9

\* Nothing else is about the clocks, but a lost bus is not missed.
LEMMA OtherClocks ==
  ASSUME ClocksOK,
         \/ HearSleep \/ HearResume \/ Ping \/ Rescan \/ LoseBus \/ RestoreBus
         \/ FallAsleep \/ Resume \/ UNCHANGED vars
  PROVE  ClocksOK'
<1>1. /\ UNCHANGED <<delay, failures, elapsed, pause, patience>>
      /\ missing' = missing \/ (missing' = 0 /\ ~reachable')
  BY DEF HearSleep, HearResume, Ping, Rescan, LoseBus, RestoreBus, FallAsleep,
         Resume, backoff, clocks, vars
<1>2. \/ at' = at
      \/ at' \in {"watching", "noted"} /\ at \in {"watching", "noted"}
  BY DEF HearSleep, HearResume, Ping, Rescan, LoseBus, RestoreBus, FallAsleep,
         Resume, vars
<1>3. missing' = 0 \/ (missing' = missing /\ reachable')
  BY DEF HearSleep, HearResume, Ping, Rescan, LoseBus, RestoreBus, FallAsleep,
         Resume, bus, clocks, vars, ClocksOK, Missed
<1>4. ClockTypes'
  BY <1>1, ConstantsAssumption DEF ClocksOK, ClockTypes
<1>5. BackedOff'
  BY <1>1, <1>2 DEF ClocksOK, BackedOff
<1>6. Missed'
  BY <1>1, <1>2, <1>3, ConstantsAssumption
     DEF ClocksOK, ClockTypes, Missed, Gap
<1> QED
  BY <1>4, <1>5, <1>6 DEF ClocksOK

LEMMA ClocksStep ==
  ASSUME ClocksOK, [Next]_vars
  PROVE  ClocksOK'
  BY ConnectClocks, EndStreamClocks, WakeClocks, TickClocks, OtherClocks
     DEF Next

-----------------------------------------------------------------------------
(* The stream *)

StreamTypes ==
  /\ at \in {"connecting", "watching", "noted", "pausing", "stopped"}
  /\ ping \in BOOLEAN /\ reachable \in BOOLEAN /\ broken \in BOOLEAN
  /\ signals \in Seq({"sleep", "resume"})
  /\ asleep \in BOOLEAN /\ sleeps \in 0..MaxSleeps
  /\ heard \in Nat /\ noted \in Nat /\ scanned \in 0..noted

\* The invariant as far as it is about the stream and what follows from it.
StreamOK == StreamTypes /\ Alternate /\ Counted /\ Pinged

\* The counts bound the history and the stream.
LEMMA StreamBounded ==
  ASSUME ClockTypes, StreamOK
  PROVE  TypeOK
<1>1. /\ signals \in Seq({"sleep", "resume"}) /\ Len(signals) \in Nat
      /\ sleeps \in 0..MaxSleeps /\ MaxSleeps \in Nat
      /\ heard \in Nat /\ noted \in Nat /\ scanned \in 0..noted
  BY ConstantsAssumption DEF StreamOK, StreamTypes
<1>2. Halfway => Len(signals) >= 1
  BY <1>1 DEF StreamOK, Alternate
<1>3. noted <= heard
  BY <1>1, <1>2 DEF StreamOK, Counted, One
<1>4. heard <= sleeps /\ Len(signals) <= 2 * sleeps
  BY <1>1 DEF StreamOK, Counted, One
<1>5. Len(signals) <= 2 * MaxSleeps
  BY <1>1, <1>4
<1> QED
  BY <1>1, <1>3, <1>4, <1>5 DEF TypeOK, ClockTypes, StreamOK, StreamTypes

\* The stream is left as it is, subscribed or not.
LEMMA StreamStands ==
  ASSUME Alternate, Counted,
         UNCHANGED <<signals, asleep, sleeps, heard, noted>>,
         Halfway' <=> Halfway,
         at' \notin {"watching", "noted"} => signals = <<>>
  PROVE  Alternate' /\ Counted'
  BY DEF Alternate, Counted, One

\* A signal leaves the stream.
LEMMA SignalLeaves ==
  ASSUME StreamTypes, Alternate, signals # <<>>, signals' = Tail(signals),
         ~Halfway, ~Halfway', at \in {"watching", "noted"},
         at' \in {"watching", "noted"}
  PROVE  /\ Alternate' /\ signals' \in Seq({"sleep", "resume"})
         /\ Len(signals') = Len(signals) - 1
         /\ signals[1] = "sleep" => signals' # <<>> /\ signals'[1] = "resume"
         /\ signals[1] = "resume" =>
              signals' = <<>> \/ signals'[1] = "sleep"
<1>1. signals \in Seq({"sleep", "resume"}) /\ Len(signals) \in Nat \ {0}
  BY DEF StreamTypes
<1>2. /\ signals' \in Seq({"sleep", "resume"})
      /\ Len(signals') = Len(signals) - 1
      /\ \A i \in 1..Len(signals') : signals'[i] = signals[i + 1]
  BY <1>1
<1>3. \A i \in 1..Len(signals) : signals[i] \in {"sleep", "resume"}
  BY <1>1
<1>4. \A i \in 1..Len(signals) - 1 : signals[i] # signals[i + 1]
  BY DEF Alternate
<1>5. signals[Len(signals)] = "resume"
  BY <1>1, <1>3 DEF Alternate
<1>6. signals' # <<>> => Len(signals') >= 1
  BY <1>2
<1>7. Alternate'
  <2>1. \A i \in 1..Len(signals') - 1 : signals'[i] # signals'[i + 1]
    <3>1. ASSUME NEW i \in 1..Len(signals') - 1
          PROVE  signals'[i] # signals'[i + 1]
      <4>1. /\ i + 1 \in 1..Len(signals) - 1
            /\ signals'[i] = signals[i + 1]
            /\ signals'[i + 1] = signals[(i + 1) + 1]
        BY <1>1, <1>2
      <4> QED
        BY <1>4, <4>1
    <3> QED
      BY <3>1
  <2>2. signals' # <<>> => signals'[Len(signals')] = "resume"
    BY <1>1, <1>2, <1>5, <1>6
  <2> QED
    BY <2>1, <2>2 DEF Alternate
<1>8. signals' # <<>> => signals'[1] = signals[2] /\ signals[1] # signals[2]
      /\ signals[2] \in {"sleep", "resume"}
  BY <1>1, <1>2, <1>3, <1>4, <1>6
<1>9. signals' = <<>> => signals[1] = "resume"
  <2>1. ASSUME signals' = <<>> PROVE Len(signals) = 1
    <3>1. Len(signals') = 0
      BY <1>2, <2>1, EmptySeq
    <3> QED
      BY <1>1, <1>2, <3>1
  <2> QED
    BY <1>5, <2>1
<1> QED
  BY <1>2, <1>7, <1>8, <1>9

\* A signal comes: to a subscriber it is the next in turn.
LEMMA SignalComes ==
  ASSUME StreamTypes, Alternate, Subscribed,
         NEW signal \in {"sleep", "resume"},
         signals' = Append(signals, signal), UNCHANGED <<at, broken>>,
         Halfway <=> signal = "resume", Halfway' <=> signal = "sleep"
  PROVE  /\ Alternate' /\ signals' \in Seq({"sleep", "resume"})
         /\ Len(signals') = Len(signals) + 1 /\ signals' # <<>>
         /\ signals'[1] = IF signals = <<>> THEN signal ELSE signals[1]
         /\ signals = <<>> => signal = "sleep"
<1>1. signals \in Seq({"sleep", "resume"}) /\ Len(signals) \in Nat
  BY DEF StreamTypes
<1>2. /\ signals' \in Seq({"sleep", "resume"})
      /\ Len(signals') = Len(signals) + 1
      /\ \A i \in 1..Len(signals) : signals'[i] = signals[i]
      /\ signals'[Len(signals) + 1] = signal
  BY <1>1
<1>3. signals' # <<>>
  BY <1>1, <1>2
<1>4. signals # <<>> =>
        /\ Len(signals) >= 1
        /\ signals[Len(signals)] = IF Halfway THEN "sleep" ELSE "resume"
  <2>1. signals # <<>> => Len(signals) >= 1
    BY <1>1
  <2>2. signals # <<>> => signals[Len(signals)] \in {"sleep", "resume"}
    BY <1>1, <2>1
  <2> QED
    BY <2>1, <2>2 DEF Alternate
<1>5. Alternate'
  <2>1. ASSUME NEW i \in 1..Len(signals') - 1
        PROVE  signals'[i] # signals'[i + 1]
    <3>1. CASE i = Len(signals)
      <4>1. signals # <<>> /\ signals'[i] = signals[Len(signals)]
            /\ signals'[i + 1] = signal
        BY <1>1, <1>2, <2>1, <3>1
      <4> QED
        BY <1>4, <4>1
    <3>2. CASE i # Len(signals)
      <4>1. /\ i \in 1..Len(signals) - 1
            /\ signals'[i] = signals[i] /\ signals'[i + 1] = signals[i + 1]
        BY <1>1, <1>2, <2>1, <3>2
      <4> QED
        BY <4>1 DEF Alternate
    <3> QED
      BY <3>1, <3>2
  <2>2. signals'[Len(signals')] = signal
    BY <1>2
  <2>3. at' \in {"watching", "noted"}
    BY DEF Subscribed
  <2> QED
    BY <1>3, <2>1, <2>2, <2>3 DEF Alternate
<1>6. signals'[1] = IF signals = <<>> THEN signal ELSE signals[1]
  BY <1>1, <1>2, <1>4
<1>7. signals = <<>> => signal = "sleep"
  BY DEF Alternate
<1> QED
  BY <1>2, <1>3, <1>5, <1>6, <1>7

LEMMA HearSleepStream ==
  ASSUME StreamOK, HearSleep
  PROVE  StreamOK'
<1> USE DEF StreamOK
<1>1. /\ ~Halfway /\ ~Halfway' /\ signals # <<>> /\ signals[1] = "sleep"
      /\ signals' = Tail(signals) /\ at = "watching"
      /\ UNCHANGED <<at, ping, reachable, broken, asleep, sleeps, heard, noted,
                     scanned>>
  BY DEF HearSleep, Halfway, machine, handled
<1>2. /\ Alternate' /\ signals' \in Seq({"sleep", "resume"})
      /\ Len(signals') = Len(signals) - 1
      /\ signals' # <<>> /\ signals'[1] = "resume"
  BY <1>1, SignalLeaves
<1>3. Len(signals) \in Nat /\ heard \in Nat /\ noted \in Nat /\ sleeps \in Nat
      /\ asleep \in BOOLEAN
  BY DEF StreamTypes
<1>4. Counted'
  BY <1>1, <1>2, <1>3 DEF Counted, One
<1>5. StreamTypes' /\ Pinged'
  BY <1>1, <1>2 DEF StreamTypes, Pinged
<1> QED
  BY <1>2, <1>4, <1>5

LEMMA HearResumeStream ==
  ASSUME StreamOK, HearResume
  PROVE  StreamOK'
<1> USE DEF StreamOK
<1>1. /\ ~Halfway /\ ~Halfway' /\ signals # <<>> /\ signals[1] = "resume"
      /\ signals' = Tail(signals) /\ at = "watching" /\ at' = "noted"
      /\ noted' = noted + 1
      /\ UNCHANGED <<ping, reachable, broken, asleep, sleeps, heard, scanned>>
  BY DEF HearResume, Halfway, machine
<1>2. /\ Alternate' /\ signals' \in Seq({"sleep", "resume"})
      /\ Len(signals') = Len(signals) - 1
      /\ signals' = <<>> \/ signals'[1] = "sleep"
  BY <1>1, SignalLeaves
<1>3. Len(signals) \in Nat /\ heard \in Nat /\ noted \in Nat /\ sleeps \in Nat
      /\ asleep \in BOOLEAN /\ scanned \in 0..noted
  BY DEF StreamTypes
<1>4. Counted'
  BY <1>1, <1>2, <1>3 DEF Counted, One
<1>5. StreamTypes' /\ Pinged'
  BY <1>1, <1>2, <1>3 DEF StreamTypes, Pinged
<1> QED
  BY <1>2, <1>4, <1>5

LEMMA FallAsleepStream ==
  ASSUME StreamOK, FallAsleep
  PROVE  StreamOK'
<1> USE DEF StreamOK
<1>1. /\ ~asleep /\ asleep' = TRUE /\ sleeps' = sleeps + 1
      /\ sleeps < MaxSleeps
      /\ UNCHANGED <<at, ping, reachable, broken, heard, noted, scanned>>
      /\ signals' = IF Subscribed THEN Append(signals, "sleep") ELSE signals
      /\ ~Halfway /\ (Halfway' <=> Subscribed)
  BY DEF FallAsleep, Emit, Halfway, handled, Subscribed
<1>2. Len(signals) \in Nat /\ heard \in Nat /\ noted \in Nat
      /\ sleeps \in Nat /\ MaxSleeps \in Nat
  BY ConstantsAssumption DEF StreamTypes
<1>3. CASE Subscribed
  <2>1. /\ Alternate' /\ signals' \in Seq({"sleep", "resume"})
        /\ Len(signals') = Len(signals) + 1 /\ signals' # <<>>
        /\ signals'[1] = IF signals = <<>> THEN "sleep" ELSE signals[1]
    BY <1>1, <1>3, SignalComes
  <2>2. Counted'
    BY <1>1, <1>2, <1>3, <2>1 DEF Counted, One
  <2>3. StreamTypes' /\ Pinged'
    BY <1>1, <1>2, <2>1 DEF StreamTypes, Pinged
  <2> QED
    BY <2>1, <2>2, <2>3
<1>4. CASE ~Subscribed
  <2>1. Alternate'
    BY <1>1, <1>4 DEF Alternate
  <2>2. Counted'
    BY <1>1, <1>2, <1>4 DEF Counted, One
  <2>3. StreamTypes' /\ Pinged'
    BY <1>1, <1>2, <1>4 DEF StreamTypes, Pinged
  <2> QED
    BY <2>1, <2>2, <2>3
<1> QED
  BY <1>3, <1>4

LEMMA ResumeStream ==
  ASSUME StreamOK, Resume
  PROVE  StreamOK'
<1> USE DEF StreamOK
<1>1. /\ asleep /\ asleep' = FALSE
      /\ UNCHANGED <<at, ping, reachable, broken, sleeps, noted, scanned>>
      /\ signals' = IF Subscribed THEN Append(signals, "resume") ELSE signals
      /\ heard' = IF Subscribed THEN heard + 1 ELSE heard
      /\ (Halfway <=> Subscribed) /\ ~Halfway'
  BY DEF Resume, Emit, Halfway, Subscribed
<1>2. Len(signals) \in Nat /\ heard \in Nat /\ noted \in Nat
      /\ sleeps \in Nat
  BY DEF StreamTypes
<1>3. CASE Subscribed
  <2>1. /\ Alternate' /\ signals' \in Seq({"sleep", "resume"})
        /\ Len(signals') = Len(signals) + 1 /\ signals' # <<>>
        /\ signals'[1] = IF signals = <<>> THEN "resume" ELSE signals[1]
        /\ signals # <<>>
    BY <1>1, <1>3, SignalComes
  <2>2. Counted'
    BY <1>1, <1>2, <1>3, <2>1 DEF Counted, One
  <2>3. heard' = heard + 1
    BY <1>1, <1>3
  <2>4. StreamTypes'
    <3>1. heard' \in Nat
      BY <1>2, <2>3
    <3>2. asleep' \in BOOLEAN
      BY <1>1
    <3> QED
      BY <1>1, <2>1, <3>1, <3>2 DEF StreamTypes
  <2>5. Pinged'
    BY <1>1 DEF Pinged
  <2> QED
    BY <2>1, <2>2, <2>4, <2>5
<1>4. CASE ~Subscribed
  <2>1. Alternate'
    BY <1>1, <1>4 DEF Alternate
  <2>2. Counted'
    BY <1>1, <1>2, <1>4 DEF Counted, One
  <2>3. StreamTypes' /\ Pinged'
    BY <1>1, <1>2, <1>4 DEF StreamTypes, Pinged
  <2> QED
    BY <2>1, <2>2, <2>3
<1> QED
  BY <1>3, <1>4

\* The others do not signal; a connection ends with nothing in its stream.
LEMMA OtherStream ==
  ASSUME StreamOK,
         \/ Connect \/ EndStream \/ Wake \/ Ping \/ Rescan \/ LoseBus
         \/ RestoreBus \/ Tick \/ UNCHANGED vars
  PROVE  StreamOK'
<1> USE DEF StreamOK
<1>1. UNCHANGED <<asleep, sleeps, heard, noted>>
  BY DEF Connect, EndStream, Wake, Ping, Rescan, LoseBus, RestoreBus, Tick,
         Pause, machine, handled, clocks, vars
<1>2. UNCHANGED signals
  BY DEF Connect, EndStream, Wake, Ping, Rescan, LoseBus, RestoreBus, Tick,
         Pause, bus, clocks, vars, Alternate
<1>3. Halfway' <=> Halfway
  BY <1>1
     DEF Connect, EndStream, Wake, Ping, Rescan, LoseBus, RestoreBus, Tick,
         Settled, Pause, bus, vars, Halfway, Subscribed
<1>4. at' \notin {"watching", "noted"} => signals = <<>>
  BY DEF Connect, EndStream, Wake, Reconnect, Ping, Rescan, LoseBus,
         RestoreBus, Tick, Pause, vars, Alternate
<1>5. Alternate' /\ Counted'
  BY <1>1, <1>2, <1>3, <1>4, StreamStands
<1>6. /\ at' \in {"connecting", "watching", "noted", "pausing", "stopped"}
      /\ ping' \in BOOLEAN /\ reachable' \in BOOLEAN /\ broken' \in BOOLEAN
      /\ scanned' \in {scanned, noted}
  BY DEF Connect, EndStream, Wake, Reconnect, Ping, TrySend, Rescan, LoseBus,
         RestoreBus, Tick, Pause, bus, handled, vars, StreamTypes
<1>7. StreamTypes'
  BY <1>1, <1>2, <1>6 DEF StreamTypes
<1>8. Pinged'
  BY <1>1 DEF Connect, EndStream, Wake, Reconnect, Ping, TrySend, Rescan,
         LoseBus, RestoreBus, Tick, Pause, handled, vars, Pinged
<1> QED
  BY <1>5, <1>7, <1>8

LEMMA StreamStep ==
  ASSUME StreamOK, [Next]_vars
  PROVE  StreamOK'
  BY HearSleepStream, HearResumeStream, FallAsleepStream, ResumeStream,
     OtherStream
     DEF Next

-----------------------------------------------------------------------------
(* The theorems *)

LEMMA Parts == IInv <=> ClocksOK /\ StreamOK
<1>1. IInv => StreamTypes /\ ClockTypes
  BY ConstantsAssumption DEF IInv, TypeOK, StreamTypes, ClockTypes
<1> QED
  BY <1>1, StreamBounded DEF IInv, ClocksOK, StreamOK

LEMMA AlwaysIInv == Spec => []IInv
<1>1. IInv /\ [Next]_vars => IInv'
  <2> SUFFICES ASSUME IInv, [Next]_vars PROVE IInv'
    OBVIOUS
  <2>1. ClocksOK' /\ StreamOK'
    BY Parts, ClocksStep, StreamStep
  <2>2. TypeOK'
    BY <2>1, StreamBounded, PTL DEF ClocksOK
  <2> QED
    BY <2>1, <2>2 DEF IInv, ClocksOK, StreamOK
<1> QED
  BY InitHolds, <1>1, PTL DEF Spec

(* The watcher's state is always well typed; its stream never holds more   *)
(* than the two signals of each sleep (suspend.rs:50-97).                  *)
THEOREM TypeCorrect == Spec => []TypeOK
  BY AlwaysIInv, PTL DEF IInv

(* suspend.rs:26-36: for any backoff, the watcher stops for good only      *)
(* when it has waited through the whole of it since the last healthy       *)
(* connection.                                                             *)
THEOREM StoppingIsEarned == Spec => []StopsOnlyAfterBackoff
<1>1. IInv => StopsOnlyAfterBackoff
  BY DEF IInv, BackedOff, StopsOnlyAfterBackoff
<1> QED
  BY <1>1, AlwaysIInv, PTL

(* suspend.rs:19-31: a bus that is there again is watched again within the *)
(* longest delay, and within the shortest after a healthy connection.      *)
THEOREM GapsAreShort == Spec => []ReconnectsInTime
<1>1. IInv => ReconnectsInTime
  BY ConstantsAssumption
     DEF IInv, TypeOK, Missed, Gap, ReconnectsInTime
<1> QED
  BY <1>1, AlwaysIInv, PTL

\* Time only passes when every resume that was heard is noted and rescanned.
HandledInTime == Settled => heard = scanned

(* suspend.rs:59-65 and main.rs:252-254: no tick separates a resume that   *)
(* the watcher hears from its rescan, however the resumes and the pings    *)
(* interleave: the safety half of ResumesAreHandled.                       *)
THEOREM ResumesAreHandledInTime == Spec => []HandledInTime
<1>1. ASSUME IInv, Settled PROVE heard = scanned
  <2>1. ~asleep /\ ~ping /\ at # "noted" /\ signals = <<>>
    BY <1>1 DEF IInv, Settled, Alternate
  <2>2. 2 * (heard - noted) = 0 /\ scanned = noted
    BY <1>1, <2>1 DEF IInv, Counted, One, Halfway, Pinged
  <2>3. heard \in Nat /\ noted \in Nat
    BY <1>1, Parts DEF StreamOK, StreamTypes
  <2> QED
    BY <2>2, <2>3
<1> QED
  BY <1>1, AlwaysIInv, PTL DEF HandledInTime
=============================================================================
