--------------------------- MODULE RetryingProofs ---------------------------
(***************************************************************************)
(* Retrying for any devnodes and any delays: a device that can be read is  *)
(* read in time, a broken one is left alone for RETRY_SLOW, and one owner  *)
(* looks after each devnode.                                               *)
(*                                                                         *)
(* The argument is one of accounting.  A retry that waits has exactly one  *)
(* failure more behind it than the device has seen retries, and what is    *)
(* left of its wait, together with the time that has passed since it could *)
(* be read, is at most its delay; together with the time since the device  *)
(* was last tried it is at least that.                                     *)
(***************************************************************************)
EXTENDS Retrying, FiniteSetTheorems, TLAPS

-----------------------------------------------------------------------------
(* The delays *)

\* A power of two counts the subsets of a set.
LEMMA PowersOfTwo ==
  /\ \A n \in Nat : 2 ^ n \in Nat
  /\ 2 ^ 0 = 1
<1>1. ASSUME NEW n \in Nat PROVE 2 ^ n \in Nat
  <2>1. IsFiniteSet(1..n) /\ Cardinality(1..n) = n
    BY FS_Interval
  <2>2. IsFiniteSet(SUBSET (1..n)) /\ Cardinality(SUBSET (1..n)) = 2 ^ n
    BY <2>1, FS_SUBSET
  <2> QED
    BY <2>2, FS_CardinalityType
<1>2. 2 ^ 0 = 1
  <2>1. IsFiniteSet({}) /\ Cardinality({}) = 0
    BY FS_EmptySet
  <2>2. Cardinality(SUBSET {}) = 2 ^ 0
    BY <2>1, FS_SUBSET
  <2>3. SUBSET {} = {{}} /\ Cardinality({{}}) = 1
    BY FS_Singleton
  <2> QED
    BY <2>2, <2>3
<1> QED
  BY <1>1, <1>2

LEMMA LimitedUp ==
  ASSUME NEW limit \in Nat, NEW n \in 0..limit
  PROVE  UpTo(limit, n) \in 0..limit /\ UpTo(limit, n) <= n + 1
  BY DEF UpTo

LEMMA OneMore ==
  ASSUME NEW n \in 0..MaxAttempt
  PROVE  /\ More(n) \in 1..MaxAttempt
         /\ More(n) = UpTo(MaxAttempt, n)
         /\ More(n) \in {n + 1} \/ (n = MaxAttempt /\ More(n) = n)
         /\ n < FastAttempts <=> More(n) <= FastAttempts
  BY ConstantsAssumption DEF More, UpTo, MaxAttempt

(* main.rs:27-34, 157-165: the first retry comes after RETRY_BASE, one of  *)
(* the fast phase within RETRY_CAP, every later one after RETRY_SLOW.      *)
LEMMA Delays ==
  ASSUME NEW n \in 1..MaxAttempt
  PROVE  /\ Delay(n) \in 0..Slow
         /\ Delay(1) = Base
         /\ n <= FastAttempts => Delay(n) <= Cap
         /\ n > FastAttempts => Delay(n) = Slow
<1>1. 2 ^ (n - 1) \in Nat /\ 2 ^ 0 = 1
  BY PowersOfTwo
<1>2. Base * 2 ^ (n - 1) \in Nat
  BY <1>1, ConstantsAssumption
<1>3. Delay(1) = Base
  BY <1>1, ConstantsAssumption DEF Delay, Min
<1> QED
  BY <1>2, <1>3, ConstantsAssumption DEF Delay, Min

-----------------------------------------------------------------------------
(* The inductive invariant *)

\* One retry or one reader: who waits is not read, and what is there is
\* looked after.
Attended(d) ==
  /\ retries[d] # None => reader[d].at = "none"
  /\ link[d] = "present" =>
       reader[d].at # "gone" /\ (reader[d].at = "none" => retries[d] # None)
  /\ link[d] = "absent" => reader[d] = NoReader /\ retries[d] = None
  /\ reader[d].at = "none" => reader[d] = NoReader

\* The attempts are the retries that have been made, and one more when the
\* next is under way.
Accounted(d) ==
  /\ reader[d].at # "none" => reader[d].attempt = tries[d]
  /\ retries[d] # None => retries[d].attempt = More(tries[d])
  /\ retries[d] # None /\ healthy[d] => tries[d] = 0

\* What may still be waited, after all that has been.
Bound(d) ==
  IF healthy[d] THEN Base ELSE IF tries[d] < FastAttempts THEN Cap ELSE Slow

\* The clocks.
Timed(d) ==
  /\ ready[d] > 0 => CanBeRead(d) /\ reader[d].at \in {"none", "spawned"}
  /\ ready[d] <= 1 + Bound(d)
  /\ retries[d] # None =>
       /\ retries[d].wait <= Delay(retries[d].attempt)
       /\ ready[d] + retries[d].wait <= Delay(retries[d].attempt)
       /\ \/ rested[d] = Slow
          \/ rested[d] + retries[d].wait >= Delay(retries[d].attempt)

Fine(d) == Attended(d) /\ Accounted(d) /\ Timed(d)
IInv == TypeOK /\ \A d \in Devnodes : Fine(d)

\* A pending retry does not wait longer than its device may.
LEMMA WaitIsBound ==
  ASSUME TypeOK, NEW d \in Devnodes, Accounted(d), retries[d] # None
  PROVE  /\ Delay(retries[d].attempt) \in 0..Slow
         /\ Delay(retries[d].attempt) <= Bound(d)
         /\ tries[d] >= FastAttempts => Delay(retries[d].attempt) = Slow
<1>1. tries[d] \in 0..MaxAttempt /\ retries[d].attempt = More(tries[d])
  BY DEF TypeOK, Accounted
<1>2. More(0) = 1
  BY ConstantsAssumption DEF More, MaxAttempt
<1> QED
  BY <1>1, <1>2, OneMore, Delays, ConstantsAssumption DEF Bound, Accounted

\* What an action leaves alone stays fine.
LEMMA Elsewhere ==
  ASSUME NEW d \in Devnodes, Fine(d),
         link'[d] = link[d], openable'[d] = openable[d],
         reader'[d] = reader[d], retries'[d] = retries[d],
         ready'[d] = ready[d], rested'[d] = rested[d],
         tries'[d] = tries[d], healthy'[d] = healthy[d]
  PROVE  Fine(d)'
  BY DEF Fine, Attended, Accounted, Timed, CanBeRead, Bound

\* What is there to be read, and what the state of a devnode can be.
LEMMA FineTypes ==
  ASSUME TypeOK, NEW d \in Devnodes
  PROVE  /\ link[d] \in {"present", "leaving", "absent"}
         /\ openable[d] \in BOOLEAN /\ healthy[d] \in BOOLEAN
         /\ reader[d] \in Reader
         /\ retries[d] # None =>
              /\ retries[d] \in [attempt : 1..MaxAttempt, wait : -1..Slow]
              /\ retries[d].attempt \in 1..MaxAttempt
              /\ retries[d].wait \in -1..Slow
         /\ ready[d] \in 0..Slow + 2 /\ rested[d] \in 0..Slow
         /\ tries[d] \in 0..MaxAttempt
  BY DEF TypeOK

LEMMA RetryTyped ==
  ASSUME NEW n \in 1..MaxAttempt, NEW w \in -1..Slow
  PROVE  [attempt |-> n, wait |-> w] # None
  BY ConstantsAssumption DEF MaxAttempt

LEMMA InitFine == Init => IInv
<1> SUFFICES ASSUME Init PROVE IInv
  OBVIOUS
<1>1. TypeOK
  BY ConstantsAssumption DEF Init, TypeOK, Reader, NoReader, MaxAttempt
<1>2. ASSUME NEW d \in Devnodes PROVE Fine(d)
  BY ConstantsAssumption
     DEF Init, Fine, Attended, Accounted, Timed, Bound, NoReader
<1> QED
  BY <1>1, <1>2 DEF IInv

-----------------------------------------------------------------------------
(* The steps of one devnode *)

\* An action on c that leaves the others alone.
Only(c) ==
  \A d \in Devnodes \ {c} :
    /\ link'[d] = link[d] /\ openable'[d] = openable[d]
    /\ reader'[d] = reader[d] /\ retries'[d] = retries[d]
    /\ ready'[d] = ready[d] /\ rested'[d] = rested[d]
    /\ tries'[d] = tries[d] /\ healthy'[d] = healthy[d]

LEMMA OnlyFine ==
  ASSUME IInv, NEW c \in Devnodes, Only(c), TypeOK', Fine(c)'
  PROVE  IInv'
<1>1. ASSUME NEW d \in Devnodes PROVE Fine(d)'
  <2>1. CASE d = c
    BY <2>1
  <2>2. CASE d # c
    BY <2>2, Elsewhere DEF IInv, Only
  <2> QED
    BY <2>1, <2>2
<1> QED
  BY <1>1 DEF IInv

\* Evidence that a present device is there: a clean record, or the reader
\* that it has already.
LEMMA AdoptFine ==
  ASSUME IInv, NEW c \in Devnodes, Adopt(c), UNCHANGED openable,
         link' = [link EXCEPT ![c] = "present"], link[c] # "leaving"
  PROVE  IInv'
<1> USE DEF IInv
<1>1. Only(c)
  BY DEF Only, Adopt, TypeOK
<1>2. /\ link'[c] = "present" /\ retries'[c] = None
      /\ openable'[c] = openable[c] /\ rested'[c] = rested[c]
  BY DEF Adopt, TypeOK
<1>3. Spawned(0) \in Reader
  BY ConstantsAssumption DEF Spawned, Reader, MaxAttempt
<1>4. TypeOK'
  <2>1. /\ link' \in [Devnodes -> {"present", "leaving", "absent"}]
        /\ retries' \in [Devnodes -> [attempt : 1..MaxAttempt, wait : -1..Slow]
                                        \cup {None}]
    BY DEF Adopt, TypeOK
  <2>2. reader' \in [Devnodes -> Reader]
    BY <1>3 DEF Adopt, TypeOK
  <2>3. /\ ready' \in [Devnodes -> 0..Slow + 2]
        /\ tries' \in [Devnodes -> 0..MaxAttempt]
        /\ healthy' \in [Devnodes -> BOOLEAN]
    <3>1. 0 \in 0..Slow + 2 /\ 0 \in 0..MaxAttempt
      BY ConstantsAssumption DEF MaxAttempt
    <3>2. /\ ready' \in {ready, [ready EXCEPT ![c] = 0]}
          /\ tries' \in {tries, [tries EXCEPT ![c] = 0]}
          /\ healthy' \in {healthy, [healthy EXCEPT ![c] = FALSE]}
      BY DEF Adopt
    <3>3. ready' \in [Devnodes -> 0..Slow + 2]
      BY <3>1, <3>2 DEF TypeOK
    <3>4. tries' \in [Devnodes -> 0..MaxAttempt]
      BY <3>1, <3>2 DEF TypeOK
    <3>5. healthy' \in [Devnodes -> BOOLEAN]
      BY <3>2 DEF TypeOK
    <3> QED
      BY <3>3, <3>4, <3>5
  <2> QED
    BY <2>1, <2>2, <2>3 DEF Adopt, TypeOK
<1>5. CASE /\ reader' = [reader EXCEPT ![c] = Spawned(0)]
           /\ tries' = [tries EXCEPT ![c] = 0]
           /\ healthy' = [healthy EXCEPT ![c] = FALSE]
           /\ ready' = [ready EXCEPT ![c] = 0]
  <2>1. /\ reader'[c] = Spawned(0) /\ tries'[c] = 0 /\ ~healthy'[c]
        /\ ready'[c] = 0
    BY <1>5 DEF TypeOK
  <2>2. Attended(c)'
    BY <1>2, <2>1 DEF Attended, Spawned
  <2>3. Accounted(c)'
    BY <1>2, <2>1 DEF Accounted, Spawned
  <2>4. Timed(c)'
    BY <1>2, <2>1, ConstantsAssumption DEF Timed, Bound
  <2> QED
    BY <1>1, <1>4, <2>2, <2>3, <2>4, OnlyFine DEF Fine
<1>6. CASE reader[c].at # "none" /\ UNCHANGED <<reader, tries, healthy, ready>>
  <2>1. link[c] = "present"
    BY <1>6 DEF Fine, Attended, NoReader, TypeOK
  <2>2. Attended(c)'
    BY <1>2, <1>6, <2>1 DEF Fine, Attended
  <2>3. Accounted(c)'
    BY <1>2, <1>6 DEF Fine, Accounted
  <2>4. Timed(c)'
    BY <1>2, <1>6, <2>1 DEF Fine, Timed, Bound, CanBeRead
  <2> QED
    BY <1>1, <1>4, <2>2, <2>3, <2>4, OnlyFine DEF Fine
<1> QED
  BY <1>5, <1>6 DEF Adopt

LEMMA LeaveFine ==
  ASSUME IInv, NEW c \in Devnodes, Leave(c)
  PROVE  IInv'
<1> USE DEF IInv
<1>1. Only(c)
  BY DEF Only, Leave, TypeOK
<1>2. TypeOK'
  BY ConstantsAssumption DEF Leave, TypeOK
<1>3. link'[c] = "leaving" /\ ready'[c] = 0 /\ link[c] = "present"
  BY DEF Leave, TypeOK
<1>4. UNCHANGED <<openable, reader, retries, rested, tries, healthy>>
  BY DEF Leave
<1>5. Attended(c)' /\ Accounted(c)'
  BY <1>3, <1>4 DEF Fine, Attended, Accounted
<1>6. Timed(c)'
  BY <1>3, <1>4, WaitIsBound, FineTypes, ConstantsAssumption
     DEF Fine, Timed, Bound
<1> QED
  BY <1>1, <1>2, <1>5, <1>6, OnlyFine DEF Fine

LEMMA ForgetFine ==
  ASSUME IInv, NEW c \in Devnodes, Forget(c)
  PROVE  IInv'
<1> USE DEF IInv
<1>1. Only(c)
  BY DEF Only, Forget, TypeOK
<1>2. NoReader \in Reader
  BY ConstantsAssumption DEF NoReader, Reader, MaxAttempt
<1>3. TypeOK'
  BY <1>2, ConstantsAssumption DEF Forget, TypeOK, MaxAttempt
<1>4. /\ link'[c] = "absent" /\ reader'[c] = NoReader /\ retries'[c] = None
      /\ tries'[c] = 0 /\ ~healthy'[c] /\ ready'[c] = ready[c]
  BY DEF Forget, TypeOK
<1>5. ready[c] = 0
  BY FineTypes DEF Forget, Fine, Timed, CanBeRead
<1>6. Attended(c)' /\ Accounted(c)'
  BY <1>4 DEF Attended, Accounted, NoReader
<1>7. Timed(c)'
  BY <1>4, <1>5, ConstantsAssumption DEF Timed, Bound
<1> QED
  BY <1>1, <1>3, <1>6, <1>7, OnlyFine DEF Fine

\* A failure becomes a retry that waits for the delay of its attempt.
LEMMA OnDoneFine ==
  ASSUME IInv, NEW c \in Devnodes, OnDone(c)
  PROVE  IInv'
<1> USE DEF IInv
<1> DEFINE n == Failures(reader[c])
           ran == reader[c].ran >= HealthyRun
<1>1. Only(c)
  BY DEF Only, OnDone, TypeOK, device
<1>2. /\ reader[c] \in Reader /\ reader[c].attempt \in 0..MaxAttempt
      /\ reader[c].attempt = tries[c] /\ retries[c] = None
      /\ ready[c] = 0 /\ rested[c] \in 0..Slow
  <2>1. reader[c] \in Reader
    BY DEF TypeOK
  <2> QED
    BY <2>1, FineTypes DEF OnDone, Fine, Attended, Accounted, Timed, Reader
<1>3. n \in 1..MaxAttempt /\ n = IF ran THEN 1 ELSE More(tries[c])
  BY <1>2, OneMore, ConstantsAssumption DEF Failures, MaxAttempt
<1>4. Delay(n) \in 0..Slow
  BY <1>3, Delays
<1>5. Scheduled(n) \in [attempt : 1..MaxAttempt, wait : -1..Slow]
  BY <1>3, <1>4 DEF Scheduled
<1>6. NoReader \in Reader
  BY ConstantsAssumption DEF NoReader, Reader, MaxAttempt
<1> HIDE DEF n
<1>7. TypeOK'
  <2>1. reader' \in [Devnodes -> Reader]
    BY <1>6 DEF OnDone, TypeOK
  <2>2. retries' \in [Devnodes -> [attempt : 1..MaxAttempt, wait : -1..Slow]
                                    \cup {None}]
    BY <1>5 DEF OnDone, TypeOK, n
  <2>3. /\ healthy' \in [Devnodes -> BOOLEAN]
        /\ tries' \in [Devnodes -> 0..MaxAttempt]
    BY ConstantsAssumption DEF OnDone, TypeOK, MaxAttempt
  <2> QED
    BY <2>1, <2>2, <2>3 DEF OnDone, TypeOK, device
<1>8. /\ reader'[c] = NoReader /\ ready'[c] = 0 /\ rested'[c] = rested[c]
      /\ healthy'[c] = ran /\ tries'[c] = IF ran THEN 0 ELSE tries[c]
      /\ link'[c] = link[c]
  BY <1>2 DEF OnDone, TypeOK, device
<1>9. CASE reader[c].at = "gone"
  <2>1. retries'[c] = None /\ link[c] # "present"
    BY <1>2, <1>9 DEF OnDone, Fine, Attended
  <2>2. Attended(c)' /\ Accounted(c)'
    BY <1>8, <2>1 DEF Attended, Accounted, NoReader
  <2>3. Timed(c)'
    BY <1>8, <2>1, ConstantsAssumption DEF Timed, Bound
  <2> QED
    BY <1>1, <1>7, <2>2, <2>3, OnlyFine DEF Fine
<1>10. CASE reader[c].at = "failed"
  <2>1. /\ retries'[c] = Scheduled(n) /\ link[c] # "absent"
    BY <1>10 DEF OnDone, TypeOK, Fine, Attended, NoReader, n
  <2>2. /\ retries'[c].attempt = n /\ retries'[c].wait = Delay(n)
        /\ retries'[c] # None
    BY <1>3, <1>4, <2>1, RetryTyped DEF Scheduled
  <2>3. More(0) = 1
    BY ConstantsAssumption DEF More, MaxAttempt
  <2>4. Attended(c)'
    BY <1>8, <2>1, <2>2 DEF Attended, NoReader
  <2>5. Accounted(c)'
    <3> HIDE DEF ran
    <3>1. CASE ran
      BY <1>3, <1>8, <2>2, <2>3, <3>1 DEF Accounted, NoReader
    <3>2. CASE ~ran
      BY <1>3, <1>8, <2>2, <3>2 DEF Accounted, NoReader
    <3> QED
      BY <3>1, <3>2
  <2>6. Timed(c)'
    BY <1>2, <1>4, <1>8, <2>2, ConstantsAssumption DEF Timed, Bound
  <2> QED
    BY <1>1, <1>7, <2>4, <2>5, <2>6, OnlyFine DEF Fine
<1> QED
  BY <1>9, <1>10 DEF OnDone

\* A retry that is due becomes a reader, and its record goes with it.
LEMMA TimerFine ==
  ASSUME IInv, TimerArm
  PROVE  IInv'
<1> USE DEF IInv
<1> DEFINE Fired == [d \in Devnodes |-> Spawned(retries[d].attempt)]
<1>1. \A d \in Due :
        d \in Devnodes /\ retries[d] # None /\ retries[d].wait <= 0
  BY DEF Due
<1>2. ASSUME NEW d \in Due
      PROVE  /\ d \in Devnodes
             /\ reader'[d] = Spawned(retries[d].attempt) /\ retries'[d] = None
             /\ tries'[d] = UpTo(MaxAttempt, tries[d]) /\ rested'[d] = 0
             /\ retries[d].attempt \in 1..MaxAttempt
             /\ retries[d].attempt = UpTo(MaxAttempt, tries[d])
  <2>1. d \in Devnodes /\ reader[d].at = "none"
    BY <1>1 DEF Fine, Attended
  <2>2. retries[d].attempt \in 1..MaxAttempt /\ tries[d] \in 0..MaxAttempt
    BY <1>1, <2>1, FineTypes
  <2>3. retries[d].attempt = UpTo(MaxAttempt, tries[d])
    BY <1>1, <2>1, <2>2, OneMore DEF Fine, Accounted
  <2> QED
    BY <2>1, <2>2, <2>3 DEF TimerArm, FireDueRetries
<1>3. ASSUME NEW d \in Devnodes \ Due
      PROVE  /\ reader'[d] = reader[d] /\ retries'[d] = retries[d]
             /\ tries'[d] = tries[d] /\ rested'[d] = rested[d]
  BY DEF TimerArm, FireDueRetries
<1>4. UNCHANGED <<link, openable, ready, healthy>>
  BY DEF TimerArm, device
<1>5. ASSUME NEW d \in Due PROVE Fine(d)'
  <2>1. Spawned(retries[d].attempt).at = "spawned"
        /\ Spawned(retries[d].attempt).attempt = retries[d].attempt
    BY DEF Spawned
  <2>2. Attended(d)'
    BY <1>1, <1>2, <1>4, <2>1 DEF Attended, Fine
  <2>3. Accounted(d)'
    BY <1>2, <2>1 DEF Accounted
  <2>4. Timed(d)'
    <3>1. tries[d] \in 0..MaxAttempt /\ tries'[d] >= tries[d]
      BY <1>2, FineTypes, ConstantsAssumption DEF UpTo, MaxAttempt
    <3>2. Bound(d)' >= Bound(d) /\ Bound(d) \in Int /\ Bound(d)' \in Int
      BY <1>2, <1>4, <3>1, ConstantsAssumption DEF Bound, UpTo, MaxAttempt
    <3>3. ready'[d] <= 1 + Bound(d)'
      BY <1>2, <1>4, <3>2, FineTypes DEF Fine, Timed
    <3>4. ready'[d] > 0 => CanBeRead(d)'
      BY <1>2, <1>4 DEF Fine, Timed, CanBeRead
    <3> QED
      BY <1>2, <2>1, <3>3, <3>4 DEF Timed
  <2> QED
    BY <2>2, <2>3, <2>4 DEF Fine
<1>6. ASSUME NEW d \in Devnodes \ Due PROVE Fine(d)'
  BY <1>3, <1>4, Elsewhere
<1>7. TypeOK'
  <2>1. ASSUME NEW d \in Devnodes
        PROVE  /\ reader'[d] \in Reader
               /\ retries'[d] \in [attempt : 1..MaxAttempt, wait : -1..Slow]
                                     \cup {None}
               /\ tries'[d] \in 0..MaxAttempt /\ rested'[d] \in 0..Slow
    <3>1. CASE d \in Due
      <4>1. /\ 1..MaxAttempt \subseteq 0..MaxAttempt
            /\ 0 \in 0..HealthyRun /\ 0 \in 0..Slow
        BY ConstantsAssumption DEF MaxAttempt
      <4>2. retries[d].attempt \in 0..MaxAttempt
        BY <1>2, <3>1, <4>1
      <4>3. Spawned(retries[d].attempt) \in Reader
        BY <4>1, <4>2 DEF Spawned, Reader
      <4> QED
        BY <1>2, <3>1, <4>1, <4>2, <4>3
    <3>2. CASE d \notin Due
      BY <1>3, <3>2 DEF TypeOK
    <3> QED
      BY <3>1, <3>2
  <2>2. /\ reader' = [d \in Devnodes |-> reader'[d]]
        /\ retries' = [d \in Devnodes |-> retries'[d]]
        /\ tries' = [d \in Devnodes |-> tries'[d]]
        /\ rested' = [d \in Devnodes |-> rested'[d]]
    BY DEF TimerArm, FireDueRetries
  <2> QED
    BY <1>4, <2>1, <2>2 DEF TypeOK
<1> QED
  BY <1>5, <1>6, <1>7

LEMMA OpenFine ==
  ASSUME IInv, NEW c \in Devnodes, Open(c)
  PROVE  IInv'
<1> USE DEF IInv
<1>1. Only(c)
  BY DEF Only, Open, Become, TypeOK, device
<1>2. reader[c] \in Reader /\ reader[c].at = "spawned" /\ retries[c] = None
  BY DEF Open, TypeOK, Fine, Attended
<1>3. PICK at : /\ at = IF CanBeRead(c) THEN "reading" ELSE "failed"
                /\ reader' = Become(c, at)
  BY DEF Open
<1>4. /\ reader'[c] = [reader[c] EXCEPT !.at = at]
      /\ reader'[c].at = at /\ reader'[c].attempt = reader[c].attempt
      /\ reader'[c] \in Reader /\ reader' \in [Devnodes -> Reader]
  BY <1>2, <1>3 DEF Become, Reader, TypeOK
<1>5. /\ ready'[c] = 0 /\ rested'[c] = 0 /\ link'[c] = link[c]
      /\ retries'[c] = None /\ tries'[c] = tries[c]
      /\ healthy'[c] = (healthy[c] /\ CanBeRead(c))
  BY <1>2, FineTypes DEF Open, TypeOK, device, Fine, Timed
<1>6. TypeOK'
  <2>1. /\ ready' \in [Devnodes -> 0..Slow + 2]
        /\ rested' \in [Devnodes -> 0..Slow]
    BY ConstantsAssumption DEF Open, TypeOK
  <2>2. healthy' \in [Devnodes -> BOOLEAN]
    <3>1. CanBeRead(c) \in BOOLEAN
      BY DEF CanBeRead, TypeOK
    <3> QED
      BY <3>1 DEF Open, TypeOK
  <2> QED
    BY <1>4, <2>1, <2>2 DEF Open, TypeOK, device
<1>7. Attended(c)' /\ Accounted(c)'
  BY <1>2, <1>3, <1>4, <1>5 DEF Fine, Attended, Accounted, NoReader
<1>8. Timed(c)'
  BY <1>5, ConstantsAssumption DEF Timed, Bound
<1> QED
  BY <1>1, <1>6, <1>7, <1>8, OnlyFine DEF Fine

\* A reader that ends, in failure or because its device is gone.
LEMMA EndFine ==
  ASSUME IInv, NEW c \in Devnodes, Fail(c) \/ End(c)
  PROVE  IInv'
<1> USE DEF IInv
<1>1. Only(c)
  BY DEF Only, Fail, End, Become, TypeOK, device
<1>2. /\ reader[c] \in Reader /\ reader[c].at = "reading"
      /\ retries[c] = None /\ ready[c] = 0
  BY FineTypes DEF Fail, End, Fine, Attended, Timed
<1>3. PICK at : /\ reader' = Become(c, at)
                /\ at = "failed" \/ (at = "gone" /\ link[c] # "present")
  BY DEF Fail, End
<1>4. /\ reader'[c] = [reader[c] EXCEPT !.at = at]
      /\ reader'[c].at = at /\ reader'[c].attempt = reader[c].attempt
      /\ reader' \in [Devnodes -> Reader]
  BY <1>2, <1>3 DEF Become, Reader, TypeOK
<1>5. UNCHANGED <<link, openable, retries, ready, tries, healthy>>
  BY DEF Fail, End, device
<1>6. TypeOK'
  <2>1. rested' \in [Devnodes -> 0..Slow]
    BY ConstantsAssumption DEF Fail, End, TypeOK
  <2> QED
    BY <1>4, <1>5, <2>1 DEF TypeOK
<1>7. Attended(c)' /\ Accounted(c)'
  BY <1>2, <1>3, <1>4, <1>5 DEF Fine, Attended, Accounted, NoReader
<1>8. Timed(c)'
  BY <1>2, <1>5 DEF Fine, Timed, Bound
<1> QED
  BY <1>1, <1>6, <1>7, <1>8, OnlyFine DEF Fine

LEMMA SetAclFine ==
  ASSUME IInv, NEW c \in Devnodes, SetAcl(c)
  PROVE  IInv'
<1> USE DEF IInv
<1>1. Only(c)
  BY DEF Only, SetAcl, TypeOK
<1>2. TypeOK'
  BY ConstantsAssumption DEF SetAcl, TypeOK
<1>3. /\ ready'[c] = 0
      /\ UNCHANGED <<link, reader, retries, rested, tries, healthy>>
  BY DEF SetAcl, TypeOK
<1>4. Attended(c)' /\ Accounted(c)'
  BY <1>3 DEF Fine, Attended, Accounted
<1>5. Timed(c)'
  BY <1>3, WaitIsBound, FineTypes, ConstantsAssumption DEF Fine, Timed, Bound
<1> QED
  BY <1>1, <1>2, <1>4, <1>5, OnlyFine DEF Fine

-----------------------------------------------------------------------------
(* Time passes *)

LEMMA TickFine ==
  ASSUME IInv, Tick
  PROVE  IInv'
<1> USE DEF IInv
<1>1. UNCHANGED <<link, openable, tries, healthy>>
  BY DEF Tick, device
<1>2. ASSUME NEW d \in Devnodes
      PROVE  /\ reader[d].at \in {"none", "reading"}
             /\ reader'[d] \in Reader /\ reader'[d].at = reader[d].at
             /\ reader'[d].attempt = reader[d].attempt
             /\ reader[d].at = "none" => reader'[d] = NoReader
  <2>1. reader[d].at \in {"none", "reading"} /\ reader[d] \in Reader
    BY DEF Tick, Settled, TypeOK
  <2>2. CASE reader[d].at = "none"
    <3>1. reader'[d] = NoReader
      BY <2>2 DEF Tick
    <3> QED
      BY <2>1, <2>2, <3>1, ConstantsAssumption
         DEF Fine, Attended, NoReader, Reader, MaxAttempt
  <2>3. CASE reader[d].at = "reading"
    <3>1. reader'[d] = [reader[d] EXCEPT !.ran = UpTo(HealthyRun, @)]
      BY <2>3 DEF Tick
    <3>2. UpTo(HealthyRun, reader[d].ran) \in 0..HealthyRun
      BY <2>1, LimitedUp, ConstantsAssumption DEF Reader
    <3> QED
      BY <2>1, <2>3, <3>1, <3>2 DEF Reader
  <2> QED
    BY <2>1, <2>2, <2>3
<1>3. ASSUME NEW d \in Devnodes, retries[d] # None
      PROVE  /\ retries[d].wait \in 0..Slow /\ retries'[d] # None
             /\ retries'[d] \in [attempt : 1..MaxAttempt, wait : -1..Slow]
             /\ retries'[d].attempt = retries[d].attempt
             /\ retries'[d].wait = retries[d].wait - 1
  <2>1. /\ retries[d] \in [attempt : 1..MaxAttempt, wait : -1..Slow]
        /\ retries[d].attempt \in 1..MaxAttempt
        /\ retries[d].wait \in 0..Slow
    BY <1>3, FineTypes, ConstantsAssumption DEF Tick
  <2>2. retries'[d] = [retries[d] EXCEPT !.wait = @ - 1]
    BY <1>3 DEF Tick
  <2>3. /\ retries'[d] = [attempt |-> retries[d].attempt,
                          wait |-> retries[d].wait - 1]
        /\ retries[d].wait - 1 \in -1..Slow
    BY <2>1, <2>2, ConstantsAssumption
  <2>4. retries'[d] # None
    BY <2>1, <2>3, RetryTyped
  <2> QED
    BY <2>1, <2>3, <2>4
<1>4. ASSUME NEW d \in Devnodes, retries[d] = None
      PROVE  retries'[d] = None
  BY <1>4 DEF Tick
<1>5. ASSUME NEW d \in Devnodes
      PROVE  /\ ready'[d] \in 0..Slow + 2 /\ rested'[d] \in 0..Slow
             /\ ready'[d] <= ready[d] + 1
             /\ \/ rested'[d] = Slow
                \/ rested[d] < Slow /\ rested'[d] = rested[d] + 1
             /\ ready'[d] > 0 => CanBeRead(d) /\ reader[d].at = "none"
  <2>1. ready[d] \in 0..Slow + 2 /\ rested[d] \in 0..Slow
    BY FineTypes
  <2>2. UpTo(Slow + 2, ready[d]) \in 0..Slow + 2
        /\ UpTo(Slow + 2, ready[d]) <= ready[d] + 1
    BY <2>1, ConstantsAssumption DEF UpTo
  <2>3. rested'[d] = UpTo(Slow, rested[d])
        /\ ready'[d] = IF CanBeRead(d) /\ reader[d].at # "reading"
                       THEN UpTo(Slow + 2, ready[d]) ELSE 0
    BY DEF Tick
  <2>4. /\ rested'[d] \in 0..Slow
        /\ \/ rested'[d] = Slow
           \/ rested[d] < Slow /\ rested'[d] = rested[d] + 1
    BY <2>1, <2>3, ConstantsAssumption DEF UpTo
  <2> QED
    BY <1>2, <2>1, <2>2, <2>3, <2>4, ConstantsAssumption
<1>6. TypeOK'
  <2>1. /\ reader' = [d \in Devnodes |-> reader'[d]]
        /\ retries' = [d \in Devnodes |-> retries'[d]]
        /\ ready' = [d \in Devnodes |-> ready'[d]]
        /\ rested' = [d \in Devnodes |-> rested'[d]]
    BY DEF Tick
  <2>2. \A d \in Devnodes :
          retries'[d] \in [attempt : 1..MaxAttempt, wait : -1..Slow]
                           \cup {None}
    BY <1>3, <1>4
  <2> QED
    BY <1>1, <1>2, <1>5, <2>1, <2>2 DEF TypeOK
<1>7. ASSUME NEW d \in Devnodes PROVE Fine(d)'
  <2>1. Attended(d)'
    BY <1>1, <1>2, <1>3, <1>4 DEF Fine, Attended, NoReader
  <2>2. Accounted(d)'
    BY <1>1, <1>2, <1>3, <1>4 DEF Fine, Accounted
  <2>3. Bound(d)' = Bound(d) /\ CanBeRead(d)' = CanBeRead(d)
        /\ Bound(d) \in Nat
    BY <1>1, ConstantsAssumption DEF Bound, CanBeRead
  <2>4. ASSUME retries[d] = None PROVE Timed(d)'
    <3>1. ready'[d] = 0
      BY <1>2, <1>5, <2>4 DEF Fine, Attended, CanBeRead
    <3>2. ~(ready'[d] > 0) /\ ready'[d] <= 1 + Bound(d)'
      BY <2>3, <3>1
    <3>3. retries'[d] = None
      BY <1>4, <2>4
    <3> QED
      BY <3>2, <3>3 DEF Timed
  <2>5. ASSUME retries[d] # None PROVE Timed(d)'
    <3> DEFINE D == Delay(retries[d].attempt)
    <3>1. D \in 0..Slow /\ D <= Bound(d)
      BY <2>5, WaitIsBound DEF Fine
    <3>2. /\ retries[d].wait <= D /\ ready[d] + retries[d].wait <= D
          /\ rested[d] = Slow \/ rested[d] + retries[d].wait >= D
      BY <2>5 DEF Fine, Timed
    <3>3. Delay(retries[d].attempt)' = D
      BY <1>3, <2>5 DEF Delay
    <3>4. /\ ready[d] \in Nat /\ rested[d] \in 0..Slow
          /\ retries[d].wait \in 0..Slow
      BY <1>3, <2>5, FineTypes
    <3> HIDE DEF D
    <3>5. ready'[d] <= 1 + Bound(d)
      BY <1>5, <2>3, <3>1, <3>2, <3>4
    <3>6. retries'[d].wait <= D /\ ready'[d] + retries'[d].wait <= D
      BY <1>3, <1>5, <2>5, <3>1, <3>2, <3>4
    <3>7. rested'[d] = Slow \/ rested'[d] + retries'[d].wait >= D
      BY <1>3, <1>5, <2>5, <3>1, <3>2, <3>4, ConstantsAssumption
    <3>8. ready'[d] > 0 => CanBeRead(d)' /\ reader'[d].at = "none"
      BY <1>2, <1>5, <2>3
    <3>9. ready'[d] <= 1 + Bound(d)'
      BY <2>3, <3>5
    <3> QED
      BY <3>3, <3>6, <3>7, <3>8, <3>9 DEF Timed
  <2> QED
    BY <2>1, <2>2, <2>4, <2>5 DEF Fine
<1> QED
  BY <1>6, <1>7

LEMMA StepFine ==
  ASSUME IInv, [Next]_vars
  PROVE  IInv'
<1>1. ASSUME NEW d \in Devnodes, Appear(d) PROVE IInv'
  <2>1. link' = [link EXCEPT ![d] = "present"] /\ link[d] # "leaving"
    BY <1>1 DEF Appear
  <2> QED
    BY <1>1, <2>1, AdoptFine DEF Appear
<1>2. ASSUME NEW d \in Devnodes, FindAgain(d) PROVE IInv'
  <2>1. link' = [link EXCEPT ![d] = "present"] /\ link[d] # "leaving"
    BY <1>2 DEF FindAgain, device, IInv, TypeOK
  <2> QED
    BY <1>2, <2>1, AdoptFine DEF FindAgain, device
<1>3. ASSUME UNCHANGED vars PROVE IInv'
  BY <1>3 DEF IInv, Fine, Attended, Accounted, Timed, CanBeRead, Bound, TypeOK,
     vars
<1> QED
  BY <1>1, <1>2, <1>3, TimerFine, TickFine, LeaveFine, ForgetFine, OnDoneFine,
     OpenFine, EndFine, SetAclFine
  DEF Next

LEMMA AlwaysFine == Spec => []IInv
  BY InitFine, StepFine, PTL DEF Spec

-----------------------------------------------------------------------------
(* The theorems *)

(* main.rs:65-71, 167-181: no retry waits longer than RETRY_SLOW, none is  *)
(* overdue by more than a tick, and attempts count from one.               *)
THEOREM TypeCorrect == Spec => []TypeOK
  BY AlwaysFine, PTL DEF IInv

(* main.rs:27-40: a present device that may be opened is being read again  *)
(* RETRY_BASE after a healthy run, RETRY_CAP in the fast phase and         *)
(* RETRY_SLOW at the latest, for any of these delays and any devices.      *)
THEOREM RecoveryIsInTime == Spec => []RecoversInTime
<1>1. IInv => RecoversInTime
  BY DEF IInv, Fine, Timed, Bound, RecoversInTime
<1> QED
  BY <1>1, AlwaysFine, PTL

\* A spawn that counts as a retry is the timer's.
LEMMA OnlyTimerRetries ==
  ASSUME IInv, [Next]_vars, NEW d \in Devnodes,
         reader[d].at = "none", reader'[d].at = "spawned", tries'[d] # 0
  PROVE  TimerArm /\ d \in Due
<1>1. ASSUME NEW c \in Devnodes, Adopt(c) PROVE FALSE
  <2>1. c = d => tries'[d] = 0
    BY <1>1 DEF Adopt, IInv, TypeOK
  <2>2. c # d => reader'[d] = reader[d]
    BY <1>1 DEF Adopt, IInv, TypeOK
  <2> QED
    BY <2>1, <2>2
<1>2. ASSUME NEW c \in Devnodes,
             Leave(c) \/ Forget(c) \/ OnDone(c) \/ SetAcl(c) \/ Open(c)
               \/ Fail(c) \/ End(c)
      PROVE  FALSE
  <2>1. \/ UNCHANGED reader
        \/ reader' = [reader EXCEPT ![c] = NoReader]
        \/ reader[c].at # "none" /\ \E at : reader' = Become(c, at)
    BY <1>2 DEF Leave, Forget, OnDone, SetAcl, Open, Fail, End
  <2> QED
    BY <2>1 DEF NoReader, Become, IInv, TypeOK
<1>3. ~Tick
  BY DEF Tick, NoReader
<1>4. TimerArm
  BY <1>1, <1>2, <1>3 DEF Next, Appear, FindAgain, vars
<1> QED
  BY <1>4 DEF TimerArm, FireDueRetries

(* main.rs:27-34: once the fast attempts are used up, a device that is     *)
(* present and broken is tried no more than once per RETRY_SLOW.           *)
THEOREM BrokenIsLeftAlone == Spec => QuietWhenBroken
<1>1. ASSUME IInv, [Next]_vars, NEW d \in Devnodes,
             retries[d] # None, reader[d].at = "none",
             reader'[d].at = "spawned", tries'[d] # 0,
             tries[d] >= FastAttempts
      PROVE  rested[d] >= Slow
  <2>1. retries[d].wait <= 0
    BY <1>1, OnlyTimerRetries DEF Due
  <2>2. Delay(retries[d].attempt) = Slow
    BY <1>1, WaitIsBound DEF IInv, Fine
  <2>3. rested[d] = Slow \/ rested[d] + retries[d].wait >= Slow
    BY <1>1, <2>2 DEF IInv, Fine, Timed
  <2>4. rested[d] \in Int /\ retries[d].wait \in Int /\ Slow \in Int
    BY <1>1, FineTypes, ConstantsAssumption DEF IInv
  <2> QED
    BY <2>1, <2>3, <2>4
<1>2. IInv /\ [Next]_vars =>
        [\A d \in Devnodes :
           /\ retries[d] # None /\ reader[d].at = "none"
           /\ reader'[d].at = "spawned" /\ tries'[d] # 0
           /\ tries[d] >= FastAttempts
           => rested[d] >= Slow]_vars
  BY <1>1
<1> QED
  BY <1>2, AlwaysFine, PTL DEF Spec, QuietWhenBroken

-----------------------------------------------------------------------------
(* Retrying implements Ownership *)

\* The mapped variable.
OwnerMap == [d \in Devnodes |-> Owner(d)]

\* One of Ownership's steps for d.
Moves(d) ==
  \/ Owner(d)' = Owner(d)
  \/ Owner(d)' = Owners!Owned("reader", 0)
  \/ Owner(d)' = Owners!Nobody
  \/ /\ Owner(d).by = "reader"
     /\ Owner(d)' = Owners!Owned("retry", Owner(d)'.failures)
     /\ Owners!Counted(Owner(d).failures, Owner(d)'.failures)
  \/ /\ Owner(d).by = "retry"
     /\ Owner(d)' = Owners!Owned("reader", Owner(d).failures)

LEMMA AllMove ==
  ASSUME \A d \in Devnodes : Moves(d)
  PROVE  Owners!Next
  BY DEF Moves, Owners!Next, Owners!Adopted, Owners!Forgotten, Owners!Failed,
         Owners!Retried

\* The owner is that of the entry, or that of the retry.
LEMMA OwnerStands ==
  ASSUME NEW d \in Devnodes, reader'[d].at = "none" <=> reader[d].at = "none",
         reader'[d].attempt = reader[d].attempt,
         retries'[d] = None <=> retries[d] = None,
         retries[d] # None => retries'[d].attempt = retries[d].attempt
  PROVE  Moves(d)
  BY DEF Moves, Owner

LEMMA AdoptMoves ==
  ASSUME IInv, NEW c \in Devnodes, Adopt(c), NEW d \in Devnodes
  PROVE  Moves(d)
<1>1. CASE d # c
  <2>1. reader'[d] = reader[d] /\ retries'[d] = retries[d]
    BY <1>1 DEF Adopt, IInv, TypeOK
  <2> QED
    BY <2>1, OwnerStands
<1>2. CASE d = c /\ reader' = [reader EXCEPT ![c] = Spawned(0)]
  <2>1. retries'[d] = None /\ reader'[d] = Spawned(0)
    BY <1>2 DEF Adopt, IInv, TypeOK
  <2> QED
    BY <2>1 DEF Moves, Owner, Spawned, Owners!Owned
<1>3. CASE d = c /\ reader[c].at # "none" /\ UNCHANGED reader
  <2>1. retries'[d] = None /\ retries[d] = None
    BY <1>3 DEF Adopt, IInv, TypeOK, Fine, Attended
  <2> QED
    BY <1>3, <2>1, OwnerStands
<1> QED
  BY <1>1, <1>2, <1>3 DEF Adopt

LEMMA OnDoneMoves ==
  ASSUME IInv, NEW c \in Devnodes, OnDone(c), NEW d \in Devnodes
  PROVE  Moves(d)
<1>1. CASE d # c
  <2>1. reader'[d] = reader[d] /\ retries'[d] = retries[d]
    BY <1>1 DEF OnDone, IInv, TypeOK
  <2> QED
    BY <2>1, OwnerStands
<1>2. ASSUME d = c
      PROVE  /\ reader'[d] = NoReader /\ retries[d] = None
             /\ reader[d].attempt \in 0..MaxAttempt
             /\ Owner(d) = Owners!Owned("reader", reader[d].attempt)
  <2>1. reader[d] \in Reader
    BY DEF IInv, TypeOK
  <2>2. reader'[d] = NoReader /\ retries[d] = None /\ reader[d].at # "none"
    BY <1>2 DEF OnDone, IInv, TypeOK, Fine, Attended
  <2> QED
    BY <2>1, <2>2 DEF Reader, Owner, Owners!Owned
<1>3. CASE d = c /\ reader[c].at = "gone"
  <2>1. retries'[d] = None
    BY <1>2, <1>3 DEF OnDone
  <2>2. Owner(d)' = Owners!Nobody
    BY <1>2, <1>3, <2>1 DEF Owner, NoReader, Owners!Nobody, Owners!Owned
  <2> QED
    BY <2>2 DEF Moves
<1>4. CASE d = c /\ reader[c].at = "failed"
  <2> DEFINE n == Failures(reader[c])
  <2>1. n \in 1..MaxAttempt
        /\ (n \in {1, reader[c].attempt + 1}
              \/ (reader[c].attempt = MaxAttempt /\ n = reader[c].attempt))
    BY <1>2, <1>4, OneMore, ConstantsAssumption DEF Failures, MaxAttempt
  <2>2. retries'[d] = Scheduled(n)
    BY <1>4 DEF OnDone, IInv, TypeOK
  <2>3. Delay(n) \in -1..Slow
    BY <2>1, Delays, ConstantsAssumption
  <2>4. Scheduled(n) # None /\ Scheduled(n).attempt = n
    BY <2>1, <2>3, RetryTyped DEF Scheduled
  <2> HIDE DEF n
  <2>5. Owner(d)' = Owners!Owned("retry", n)
    BY <1>2, <1>4, <2>2, <2>4 DEF Owner, NoReader, Owners!Owned
  <2>6. Owner(d)'.failures = n /\ Owner(d).failures = reader[d].attempt
        /\ Owner(d).by = "reader"
    BY <1>2, <1>4, <2>5 DEF Owners!Owned
  <2>7. Owners!Counted(Owner(d).failures, Owner(d)'.failures)
    BY <1>4, <2>1, <2>6 DEF Owners!Counted
  <2> QED
    BY <2>5, <2>6, <2>7 DEF Moves
<1> QED
  BY <1>1, <1>3, <1>4 DEF OnDone

LEMMA ForgetMoves ==
  ASSUME IInv, NEW c \in Devnodes, Forget(c), NEW d \in Devnodes
  PROVE  Moves(d)
<1>1. CASE d # c
  <2>1. reader'[d] = reader[d] /\ retries'[d] = retries[d]
    BY <1>1 DEF Forget, IInv, TypeOK
  <2> QED
    BY <2>1, OwnerStands
<1>2. CASE d = c
  <2>1. reader'[d] = NoReader /\ retries'[d] = None
    BY <1>2 DEF Forget, IInv, TypeOK
  <2>2. Owner(d)' = Owners!Nobody
    BY <2>1 DEF Owner, NoReader, Owners!Nobody, Owners!Owned
  <2> QED
    BY <2>2 DEF Moves
<1> QED
  BY <1>1, <1>2

LEMMA TimerMoves ==
  ASSUME IInv, TimerArm, NEW d \in Devnodes
  PROVE  Moves(d)
<1>1. CASE d \notin Due
  <2>1. reader'[d] = reader[d] /\ retries'[d] = retries[d]
    BY <1>1 DEF TimerArm, FireDueRetries
  <2> QED
    BY <2>1, OwnerStands
<1>2. CASE d \in Due
  <2>1. retries[d] # None /\ reader[d].at = "none"
    BY <1>2 DEF Due, IInv, Fine, Attended
  <2>2. reader'[d] = Spawned(retries[d].attempt) /\ retries'[d] = None
    BY <1>2, <2>1 DEF TimerArm, FireDueRetries
  <2>3. Owner(d)' = Owners!Owned("reader", retries[d].attempt)
    BY <2>2 DEF Owner, Spawned, Owners!Owned
  <2>4. Owner(d).by = "retry" /\ Owner(d).failures = retries[d].attempt
    BY <2>1 DEF Owner
  <2> QED
    BY <2>3, <2>4 DEF Moves
<1> QED
  BY <1>1, <1>2

\* A task that opens, fails or ends, and time, change no owner.
LEMMA TaskMoves ==
  ASSUME IInv, NEW c \in Devnodes, Open(c) \/ Fail(c) \/ End(c),
         NEW d \in Devnodes
  PROVE  Moves(d)
<1>1. PICK at \in {"reading", "failed", "gone"} : reader' = Become(c, at)
  BY DEF Open, Fail, End
<1>2. UNCHANGED retries /\ reader[c].at # "none"
  BY DEF Open, Fail, End
<1>3. /\ reader'[d].attempt = reader[d].attempt
      /\ reader'[d].at = "none" <=> reader[d].at = "none"
  <2>1. reader[d] \in Reader /\ reader[c] \in Reader
    BY DEF IInv, TypeOK
  <2> QED
    BY <1>1, <1>2, <2>1 DEF Become, Reader, IInv, TypeOK
<1> QED
  BY <1>2, <1>3, OwnerStands

LEMMA TickMoves ==
  ASSUME IInv, Tick, NEW d \in Devnodes
  PROVE  Moves(d)
<1>1. reader[d] \in Reader /\ (reader[d].at = "none" => reader[d] = NoReader)
  BY DEF IInv, TypeOK, Fine, Attended
<1>2. reader'[d] = IF reader[d].at = "none" THEN NoReader
                   ELSE [reader[d] EXCEPT !.ran = UpTo(HealthyRun, @)]
  BY DEF Tick
<1>3. /\ reader'[d].attempt = reader[d].attempt
      /\ reader'[d].at = "none" <=> reader[d].at = "none"
  BY <1>1, <1>2 DEF Reader, NoReader
<1>4. CASE retries[d] = None
  <2>1. retries'[d] = None
    BY <1>4 DEF Tick
  <2> QED
    BY <1>3, <1>4, <2>1, OwnerStands
<1>5. CASE retries[d] # None
  <2>1. /\ retries[d] \in [attempt : 1..MaxAttempt, wait : -1..Slow]
        /\ retries[d].wait >= 0
    BY <1>5, FineTypes DEF IInv, Tick
  <2>2. /\ retries'[d] = [attempt |-> retries[d].attempt,
                          wait |-> retries[d].wait - 1]
        /\ retries[d].wait - 1 \in -1..Slow
    BY <1>5, <2>1, ConstantsAssumption DEF Tick
  <2>3. retries'[d] # None
    BY <2>1, <2>2, RetryTyped
  <2> QED
    BY <1>3, <1>5, <2>2, <2>3, OwnerStands
<1> QED
  BY <1>4, <1>5

LEMMA OwnersStep ==
  ASSUME IInv, [Next]_vars
  PROVE  [Owners!Next]_OwnerMap
<1>1. ASSUME NEW d \in Devnodes PROVE Moves(d)
  <2>1. CASE UNCHANGED <<reader, retries>>
    BY <2>1, OwnerStands
  <2>2. CASE \E c \in Devnodes : Appear(c) \/ FindAgain(c)
    BY <2>2, AdoptMoves DEF Appear, FindAgain
  <2>3. CASE \E c \in Devnodes : Leave(c) \/ SetAcl(c)
    BY <2>1, <2>3 DEF Leave, SetAcl
  <2>4. CASE \E c \in Devnodes : Forget(c) \/ OnDone(c)
    BY <2>4, ForgetMoves, OnDoneMoves
  <2>5. CASE \E c \in Devnodes : Open(c) \/ Fail(c) \/ End(c)
    BY <2>5, TaskMoves
  <2>6. CASE TimerArm \/ Tick
    BY <2>6, TimerMoves, TickMoves
  <2>7. CASE UNCHANGED vars
    BY <2>1, <2>7 DEF vars
  <2> QED
    BY <2>2, <2>3, <2>4, <2>5, <2>6, <2>7 DEF Next
<1> QED
  BY <1>1, AllMove

(* main.rs:73-76: also against time, for any devnodes and delays, one      *)
(* owner looks after each devnode and hands it on by Ownership's steps.    *)
THEOREM RetryingImplementsOwnership == Spec => ImplementsOwnership
<1>1. Init => Owners!Init
  BY DEF Init, Owner, NoReader, Owners!Init, Owners!Nobody, Owners!Owned
<1> QED
  BY <1>1, OwnersStep, AlwaysFine, PTL
     DEF Spec, ImplementsOwnership, Owners!Spec, OwnerMap
=============================================================================
