---------------------------- MODULE AppletProofs ----------------------------
(***************************************************************************)
(* Safety of Applet for any controllers, publications and faults: what an  *)
(* idle applet shows is what an idle daemon serves.                        *)
(*                                                                         *)
(* A cache lags the bus by the signals still on their way, and `Leads`     *)
(* says that these, applied in order, lead from the one to the other.      *)
(* `Unlisted` allows for a daemon that has not announced any list yet: it  *)
(* serves nothing, and the client's list is its predecessor's.  `Shown`    *)
(* and `Missed` say what the fetch under way, or the window, has of the    *)
(* caches unless a signal will bring the client to fetch again: `Missed`   *)
(* that only a failed proxy leaves a listed device out, and `Failing` what *)
(* a failed proxy leaves.  `Unturned` is why a proxy that failed has       *)
(* nothing to read ever after: as long as the client has met one daemon,   *)
(* every path it knows has been taken and none is taken twice.             *)
(***************************************************************************)
EXTENDS Applet, DBusMirrorProofs, SequenceTheorems

-----------------------------------------------------------------------------
(* The inductive invariant *)

(* The messages of q, each a step in R from what it finds to what it       *)
(* leaves, lead from a to b.                                               *)
Leads(R, q, a, b) ==
  \E v : /\ v[0] = a /\ v[Len(q)] = b
         /\ \A n \in 1..Len(q) : <<q[n], v[n - 1], v[n]>> \in R

\* What a message does to the cache of device i, and to the cached list.
DeviceSteps(i) ==
  {t \in Message \X Props \X Props :
     IF t[1].fresh /\ t[1].kind = "device" /\ t[1].index = i
     THEN t[2] \in {t[1].old, t[1].new} /\ t[3] = t[1].new
     ELSE t[3] = t[2]}

ListSteps ==
  {t \in Message \X (SUBSET Indices) \X (SUBSET Indices) :
     IF t[1].fresh /\ t[1].kind = "root"
     THEN t[3] = t[1].devices ELSE t[3] = t[2]}

\* The daemon came or went, and the client has not acted on it.
OwnerPending ==
  owner_changes > 0 \/ \E n \in DOMAIN inbox : inbox[n].kind = "owner"

\* A daemon without its name serves nothing, a client without a connection
\* has nothing.
Blank ==
  /\ at \in {"connecting", "named"} => next_index = 0 /\ devices = {}
  /\ client = "retrying" =>
       /\ inbox = <<>> /\ unapplied = <<>>
       /\ ~signalled /\ owner_changes = 0
       /\ list = None /\ cache = Uncached /\ failed = {}

\* Paths not served yet are neither listed nor cached.
Behind ==
  /\ \A i \in devices : i < next_index
  /\ ~OwnerPending => \A i \in Indices : cache[i] # None => i < next_index

\* Where the signals about device i lead: to what it is now, or to what the
\* signal about to be sent changes.
IsNow(i, props) ==
  \/ props = DeviceProps(objects[i])
  \/ at = "emitting" /\ signal.index = i /\ props = signal.old

Chain(i) ==
  \E here, there \in Props :
    /\ Leads(DeviceSteps(i), unapplied, cache[i], here)
    /\ Leads(DeviceSteps(i), inbox, here, there)
    /\ IsNow(i, there)

CachesLead ==
  ~OwnerPending => \A i \in Indices \ lost :
                     cache[i] # None /\ objects[i] # None => Chain(i)

\* The daemon has never announced a list: it serves nothing outside of a
\* pass, and the paths of the pass's new devices are all its own.
Unlisted ==
  /\ devices = {} /\ gone = {}
  /\ \A i \in Indices : i < next_index => i \in Indexed
  /\ at \notin {"pass", "emitting"} => next_index = 0

\* Where the signals about the list lead.
ListIsNow(indices) ==
  indices = devices \/ at = "announcing" \/ None \in lost \/ Unlisted

ListLeads ==
  list # None =>
    \E here, there \in SUBSET Indices :
      /\ Leads(ListSteps, unapplied, list, here)
      /\ Leads(ListSteps, inbox, here, there)
      /\ ListIsNow(there)

\* What is not applied yet will wake the client.
Waking == unapplied # <<>> => signalled

\* The fetch, and the window after it, have what the caches have.
Shown ==
  /\ client = "reading" =>
       list # None /\ \A i \in todo : out[i] = None
  /\ client = "reading" /\ ~signalled =>
       /\ todo \subseteq list
       /\ \A i \in Indices \ todo :
            out[i] = IF i \in list THEN cache[i] ELSE None
  /\ client = "waiting" /\ ~signalled /\ list # None =>
       window = [i \in Indices |-> IF i \in list THEN cache[i] ELSE None]
  /\ client = "waiting" /\ list = None => None \in failed

\* A listed device without properties has a proxy that failed.
Missed ==
  client \in {"reading", "waiting"} /\ ~signalled /\ list # None =>
    \A i \in list \ todo : cache[i] = None => i \in failed

\* A failed proxy has no properties, and without a list nothing is shown.
Failing ==
  /\ None \in failed => list = None /\ window = None /\ client # "reading"
  /\ \A i \in failed \ {None} : cache[i] = None

\* Paths that the daemon has served in its present run.
Used(indices) == \A i \in indices : i < next_index

\* What the client knows of the one daemon it has met: paths taken already,
\* which are served no more if they once were not.
Unturned ==
  ~turnover =>
    /\ None \in failed => at = "connecting"
    /\ list # None => Used(list)
    /\ Used(todo)
    /\ \A n \in DOMAIN inbox : Used(inbox[n].devices)
    /\ \A n \in DOMAIN unapplied : Used(unapplied[n].devices)
    /\ \A i \in failed \ {None} : i < next_index /\ objects[i] = None

AInv ==
  /\ IInv /\ ClientTypeOK
  /\ Blank /\ Behind /\ CachesLead /\ ListLeads
  /\ Waking /\ Shown /\ Missed /\ Failing /\ Unturned

-----------------------------------------------------------------------------
(* Steps in a row *)

LEMMA LeadsNowhere ==
  ASSUME NEW R, NEW q, q = <<>>, NEW a, NEW b
  PROVE  Leads(R, q, a, b) <=> a = b
<1>1. Len(q) = 0 /\ 1..0 = {}
  BY LenProperties, EmptySeq
<1>2. ASSUME Leads(R, q, a, b) PROVE a = b
  BY <1>1, <1>2 DEF Leads
<1>3. ASSUME a = b PROVE Leads(R, q, a, b)
  <2> DEFINE v == [n \in {0} |-> a]
  <2>1. v[0] = a
    OBVIOUS
  <2> HIDE DEF v
  <2> QED
    BY <1>1, <1>3, <2>1 DEF Leads
<1> QED
  BY <1>2, <1>3

\* Messages that change nothing at a lead nowhere from there.
LEMMA LeadsIdle ==
  ASSUME NEW R, NEW a, NEW S, NEW q \in Seq(S),
         \A n \in 1..Len(q) : <<q[n], a, a>> \in R
  PROVE  Leads(R, q, a, a)
<1> DEFINE v == [n \in 0..Len(q) |-> a]
<1>1. Len(q) \in Nat
  BY LenProperties
<1>2. /\ v[0] = a /\ v[Len(q)] = a
      /\ \A n \in 1..Len(q) : v[n - 1] = a /\ v[n] = a
  BY <1>1
<1> HIDE DEF v
<1>3. \A n \in 1..Len(q) : <<q[n], v[n - 1], v[n]>> \in R
  BY <1>2
<1> QED
  BY <1>2, <1>3 DEF Leads

\* Other messages that do what these do.
LEMMA LeadsAlike ==
  ASSUME NEW R, NEW q, NEW r, Len(r) = Len(q), NEW a, NEW b,
         Leads(R, q, a, b),
         \A n \in 1..Len(q) : \A x, y :
           <<q[n], x, y>> \in R => <<r[n], x, y>> \in R
  PROVE  Leads(R, r, a, b)
  BY DEF Leads

\* One more message.
LEMMA LeadsAppend ==
  ASSUME NEW R, NEW S, NEW q \in Seq(S), NEW m \in S, NEW a, NEW b, NEW c,
         Leads(R, q, a, b), <<m, b, c>> \in R
  PROVE  Leads(R, Append(q, m), a, c)
<1> DEFINE l == Len(q)
<1>1. /\ l \in Nat /\ Len(Append(q, m)) = l + 1
      /\ Append(q, m)[l + 1] = m
      /\ \A n \in 1..l : Append(q, m)[n] = q[n]
  BY LenProperties, AppendProperties
<1>2. PICK v : /\ v[0] = a /\ v[l] = b
               /\ \A n \in 1..l : <<q[n], v[n - 1], v[n]>> \in R
  BY DEF Leads
<1> DEFINE w == [n \in 0..(l + 1) |-> IF n = l + 1 THEN c ELSE v[n]]
<1> HIDE DEF l
<1>3. /\ w[0] = a /\ w[l + 1] = c /\ w[l] = b
      /\ \A n \in 1..l : w[n] = v[n] /\ w[n - 1] = v[n - 1]
  BY <1>1, <1>2
<1> HIDE DEF w
<1>4. ASSUME NEW n \in 1..(l + 1)
      PROVE  <<Append(q, m)[n], w[n - 1], w[n]>> \in R
  <2>1. CASE n = l + 1
    <3>1. n - 1 = l
      BY <1>1, <2>1
    <3> QED
      BY <1>1, <1>3, <2>1, <3>1
  <2>2. CASE n \in 1..l
    BY <1>1, <1>2, <1>3, <2>2
  <2> QED
    BY <1>1, <2>1, <2>2
<1> QED
  BY <1>1, <1>3, <1>4 DEF Leads

\* The first message.
LEMMA LeadsTail ==
  ASSUME NEW R, NEW S, NEW q \in Seq(S), q # <<>>, NEW a, NEW b,
         Leads(R, q, a, b)
  PROVE  \E c : <<Head(q), a, c>> \in R /\ Leads(R, Tail(q), c, b)
<1> DEFINE l == Len(q)
<1>1. /\ l \in Nat \ {0} /\ Len(Tail(q)) = l - 1 /\ Head(q) = q[1]
      /\ \A n \in 1..(l - 1) : Tail(q)[n] = q[n + 1]
  BY LenProperties, HeadTailProperties, EmptySeq
<1>2. PICK v : /\ v[0] = a /\ v[l] = b
               /\ \A n \in 1..l : <<q[n], v[n - 1], v[n]>> \in R
  BY DEF Leads
<1> DEFINE w == [n \in 0..(l - 1) |-> v[n + 1]]
<1> HIDE DEF l
<1>3. w[0] = v[1] /\ w[l - 1] = b
  BY <1>1, <1>2
<1>4. ASSUME NEW n \in 1..(l - 1)
      PROVE  <<Tail(q)[n], w[n - 1], w[n]>> \in R
  <2>1. w[n] = v[n + 1] /\ w[n - 1] = v[n] /\ n + 1 \in 1..l
        /\ (n + 1) - 1 = n
    BY <1>1
  <2> QED
    BY <1>1, <1>2, <2>1
<1>5. <<Head(q), a, v[1]>> \in R
  BY <1>1, <1>2
<1> HIDE DEF w
<1>6. Leads(R, Tail(q), v[1], b)
  BY <1>1, <1>3, <1>4 DEF Leads
<1> QED
  BY <1>5, <1>6

-----------------------------------------------------------------------------
(* Messages *)

LEMMA DeviceStepIs ==
  ASSUME NEW i, NEW m, NEW x, NEW y
  PROVE  <<m, x, y>> \in DeviceSteps(i) <=>
           /\ m \in Message /\ x \in Props /\ y \in Props
           /\ IF m.fresh /\ m.kind = "device" /\ m.index = i
              THEN x \in {m.old, m.new} /\ y = m.new ELSE y = x
  BY DEF DeviceSteps

LEMMA ListStepIs ==
  ASSUME NEW m, NEW x, NEW y
  PROVE  <<m, x, y>> \in ListSteps <=>
           /\ m \in Message /\ x \in SUBSET Indices /\ y \in SUBSET Indices
           /\ IF m.fresh /\ m.kind = "root" THEN y = m.devices ELSE y = x
  BY DEF ListSteps

LEMMA MessageNames ==
  ASSUME NEW m \in Message
  PROVE  /\ m.devices \in SUBSET Indices
         /\ m.kind # "root" => m.devices = {}
  BY DEF Message

LEMMA QueuesTyped ==
  ASSUME ClientTypeOK
  PROVE  \A q \in {inbox, unapplied} :
           /\ q \in Seq(Message) /\ Len(q) \in Nat /\ DOMAIN q = 1..Len(q)
           /\ \A n \in 1..Len(q) : q[n] \in Message
           /\ q # <<>> => /\ Head(q) = q[1] /\ Head(q) \in Message
                          /\ Tail(q) \in Seq(Message)
                          /\ 1 \in DOMAIN q
                          /\ \A n \in DOMAIN Tail(q) :
                               n + 1 \in DOMAIN q /\ Tail(q)[n] = q[n + 1]
                          /\ \A n \in DOMAIN q \ {1} :
                               /\ n - 1 \in DOMAIN Tail(q)
                               /\ Tail(q)[n - 1] = q[n]
<1> SUFFICES ASSUME NEW q \in Seq(Message)
    PROVE  /\ q \in Seq(Message) /\ Len(q) \in Nat /\ DOMAIN q = 1..Len(q)
           /\ \A n \in 1..Len(q) : q[n] \in Message
           /\ q # <<>> => /\ Head(q) = q[1] /\ Head(q) \in Message
                          /\ Tail(q) \in Seq(Message)
                          /\ 1 \in DOMAIN q
                          /\ \A n \in DOMAIN Tail(q) :
                               n + 1 \in DOMAIN q /\ Tail(q)[n] = q[n + 1]
                          /\ \A n \in DOMAIN q \ {1} :
                               /\ n - 1 \in DOMAIN Tail(q)
                               /\ Tail(q)[n - 1] = q[n]
  BY DEF ClientTypeOK
<1>1. /\ Len(q) \in Nat /\ DOMAIN q = 1..Len(q)
      /\ \A n \in 1..Len(q) : q[n] \in Message
  BY LenProperties, ElementOfSeq
<1>2. ASSUME q # <<>>
      PROVE  /\ Len(q) # 0 /\ Head(q) = q[1] /\ Tail(q) \in Seq(Message)
             /\ Len(Tail(q)) = Len(q) - 1 /\ DOMAIN Tail(q) = 1..(Len(q) - 1)
             /\ \A n \in 1..(Len(q) - 1) : Tail(q)[n] = q[n + 1]
  BY <1>2, HeadTailProperties, EmptySeq, LenProperties
<1>3. ASSUME q # <<>>, NEW n \in DOMAIN q \ {1}
      PROVE  n - 1 \in DOMAIN Tail(q) /\ Tail(q)[n - 1] = q[n]
  <2>1. n - 1 \in 1..(Len(q) - 1) /\ (n - 1) + 1 = n
    BY <1>1, <1>3
  <2> QED
    BY <1>2, <1>3, <2>1
<1>4. ASSUME q # <<>>, NEW n \in DOMAIN Tail(q)
      PROVE  n + 1 \in DOMAIN q /\ Tail(q)[n] = q[n + 1]
  BY <1>1, <1>2, <1>4
<1>5. q # <<>> => q[1] \in Message /\ 1 \in DOMAIN q
  BY <1>1, <1>2
<1> QED
  BY <1>1, <1>2, <1>3, <1>4, <1>5

\* Messages passed over are the same but for their freshness.
LEMMA StaleIs ==
  ASSUME NEW q \in Seq(Message), NEW kind \in {"device", "root"}, NEW i
  PROVE  /\ Stale(q, kind, i) \in Seq(Message)
         /\ Len(Stale(q, kind, i)) = Len(q)
         /\ DOMAIN Stale(q, kind, i) = DOMAIN q
         /\ \A n \in 1..Len(q) :
              LET m == Stale(q, kind, i)[n] IN
              /\ m \in Message
              /\ m.kind = q[n].kind /\ m.index = q[n].index
              /\ m.old = q[n].old /\ m.new = q[n].new
              /\ m.devices = q[n].devices
              /\ m.fresh <=> q[n].fresh /\ ~(m.kind = kind /\ m.index = i)
<1> DEFINE r == Stale(q, kind, i)
<1>1. Len(q) \in Nat /\ DOMAIN q = 1..Len(q)
      /\ \A n \in 1..Len(q) : q[n] \in Message
  BY LenProperties, ElementOfSeq
<1>2. ASSUME NEW n \in 1..Len(q)
      PROVE  /\ r[n] \in Message
             /\ r[n].kind = q[n].kind /\ r[n].index = q[n].index
             /\ r[n].old = q[n].old /\ r[n].new = q[n].new
             /\ r[n].devices = q[n].devices
             /\ r[n].fresh <=>
                  q[n].fresh /\ ~(r[n].kind = kind /\ r[n].index = i)
  <2>1. PICK m : m = q[n]
    OBVIOUS
  <2>2. m \in Message /\ n \in DOMAIN q
    BY <1>1, <2>1
  <2>3. r[n] = IF m.kind = kind /\ m.index = i
               THEN [m EXCEPT !.fresh = FALSE] ELSE m
    BY <2>1, <2>2 DEF Stale
  <2> HIDE DEF r
  <2>4. CASE m.kind = kind /\ m.index = i
    <3>1. r[n] = [m EXCEPT !.fresh = FALSE] /\ m.kind # "owner"
      BY <2>3, <2>4
    <3>2. /\ r[n] \in Message /\ r[n].kind = m.kind /\ r[n].index = m.index
          /\ r[n].old = m.old /\ r[n].new = m.new
          /\ r[n].devices = m.devices /\ r[n].fresh = FALSE
      BY <2>2, <3>1 DEF Message
    <3> QED
      BY <2>1, <2>4, <3>2
  <2>5. CASE ~(m.kind = kind /\ m.index = i)
    <3>1. r[n] = m
      BY <2>3, <2>5
    <3> QED
      BY <2>1, <2>2, <2>5, <3>1
  <2> QED
    BY <2>4, <2>5
<1>3. r \in [1..Len(q) -> Message]
  BY <1>1, <1>2 DEF Stale
<1> HIDE DEF r
<1>4. r \in Seq(Message) /\ Len(r) = Len(q) /\ DOMAIN r = 1..Len(q)
  BY <1>1, <1>3, SeqDef
<1> QED
  BY <1>1, <1>2, <1>4 DEF r

\* A cache that is filled owes nothing to what was sent before.
LEMMA FilledLeads ==
  ASSUME NEW q \in Seq(Message), NEW i, NEW a \in Props
  PROVE  Leads(DeviceSteps(i), Stale(q, "device", i), a, a)
<1> DEFINE r == Stale(q, "device", i)
<1>1. r \in Seq(Message)
  BY StaleIs
<1>2. ASSUME NEW n \in 1..Len(r) PROVE <<r[n], a, a>> \in DeviceSteps(i)
  BY StaleIs, DeviceStepIs
<1> HIDE DEF r
<1>3. Leads(DeviceSteps(i), r, a, a)
  BY <1>1, <1>2, LeadsIdle
<1> QED
  BY <1>3 DEF r

LEMMA ListFilledLeads ==
  ASSUME NEW q \in Seq(Message), NEW a \in SUBSET Indices
  PROVE  Leads(ListSteps, Stale(q, "root", None), a, a)
<1> DEFINE r == Stale(q, "root", None)
<1>1. r \in Seq(Message)
  BY StaleIs
<1>2. ASSUME NEW n \in 1..Len(r) PROVE <<r[n], a, a>> \in ListSteps
  <2>1. n \in 1..Len(q)
    BY StaleIs
  <2>2. /\ r[n] \in Message
        /\ r[n].fresh => ~(r[n].kind = "root" /\ r[n].index = None)
    BY <2>1, StaleIs
  <2>3. r[n].kind = "root" => r[n].index = None
    BY <2>2 DEF Message
  <2> QED
    BY <2>2, <2>3, ListStepIs
<1> HIDE DEF r
<1>3. Leads(ListSteps, r, a, a)
  BY <1>1, <1>2, LeadsIdle
<1> QED
  BY <1>3 DEF r

\* The other caches go on as before.
LEMMA OthersLead ==
  ASSUME NEW q \in Seq(Message), NEW kind \in {"device", "root"}, NEW i,
         NEW j, kind = "device" => i # j, NEW a, NEW b,
         Leads(DeviceSteps(j), q, a, b)
  PROVE  Leads(DeviceSteps(j), Stale(q, kind, i), a, b)
<1> DEFINE r == Stale(q, kind, i)
<1>1. Len(r) = Len(q)
  BY StaleIs
<1>2. ASSUME NEW n \in 1..Len(q), NEW x, NEW y,
             <<q[n], x, y>> \in DeviceSteps(j)
      PROVE  <<r[n], x, y>> \in DeviceSteps(j)
  BY <1>2, StaleIs, DeviceStepIs
<1> HIDE DEF r
<1>3. Leads(DeviceSteps(j), r, a, b)
  BY <1>1, <1>2, LeadsAlike
<1> QED
  BY <1>3 DEF r

LEMMA ListGoesOn ==
  ASSUME NEW q \in Seq(Message), NEW i, NEW a, NEW b, Leads(ListSteps, q, a, b)
  PROVE  Leads(ListSteps, Stale(q, "device", i), a, b)
<1> DEFINE r == Stale(q, "device", i)
<1>1. Len(r) = Len(q)
  BY StaleIs
<1>2. ASSUME NEW n \in 1..Len(q), NEW x, NEW y, <<q[n], x, y>> \in ListSteps
      PROVE  <<r[n], x, y>> \in ListSteps
  BY <1>2, StaleIs, ListStepIs
<1> HIDE DEF r
<1>3. Leads(ListSteps, r, a, b)
  BY <1>1, <1>2, LeadsAlike
<1> QED
  BY <1>3 DEF r

LEMMA ChainNext ==
  ASSUME NEW i, NEW here \in Props, NEW there \in Props,
         Leads(DeviceSteps(i), unapplied', cache'[i], here),
         Leads(DeviceSteps(i), inbox', here, there), IsNow(i, there)'
  PROVE  Chain(i)'
  BY DEF Chain

\* The chains when neither queues nor caches change.
LEMMA ChainKept ==
  ASSUME NEW i, Chain(i), UNCHANGED <<unapplied, inbox, cache>>,
         \A props \in Props : IsNow(i, props) => IsNow(i, props)'
  PROVE  Chain(i)'
<1>1. PICK here \in Props, there \in Props :
        /\ Leads(DeviceSteps(i), unapplied, cache[i], here)
        /\ Leads(DeviceSteps(i), inbox, here, there)
        /\ IsNow(i, there)
  BY DEF Chain
<1>2. /\ Leads(DeviceSteps(i), unapplied', cache'[i], here)
      /\ Leads(DeviceSteps(i), inbox', here, there)
  BY <1>1
<1> QED
  BY <1>1, <1>2, ChainNext

LEMMA ListNext ==
  ASSUME NEW here \in SUBSET Indices, NEW there \in SUBSET Indices,
         Leads(ListSteps, unapplied', list', here),
         Leads(ListSteps, inbox', here, there), ListIsNow(there)'
  PROVE  ListLeads'
  BY DEF ListLeads

LEMMA ListKept ==
  ASSUME ListLeads, UNCHANGED <<unapplied, inbox, list>>,
         \A indices \in SUBSET Indices :
           ListIsNow(indices) => ListIsNow(indices)'
  PROVE  ListLeads'
<1>1. CASE list = None
  BY <1>1 DEF ListLeads
<1>2. CASE list # None
  <2>1. PICK here \in SUBSET Indices, there \in SUBSET Indices :
          /\ Leads(ListSteps, unapplied, list, here)
          /\ Leads(ListSteps, inbox, here, there)
          /\ ListIsNow(there)
    BY <1>2 DEF ListLeads
  <2>2. /\ Leads(ListSteps, unapplied', list', here)
        /\ Leads(ListSteps, inbox', here, there)
    BY <2>1
  <2> QED
    BY <2>1, <2>2, ListNext
<1> QED
  BY <1>1, <1>2

\* Paths and lists are of their types, and None is none of them.
LEMMA MirrorTyped ==
  ASSUME IInv
  PROVE  /\ Indices \subseteq Nat /\ 0 \in Indices
         /\ None \notin Indices
         /\ next_index \in Indices
         /\ devices \in SUBSET Indices
         /\ present \in [Keys -> Option(Indices)]
         /\ objects \in [Indices -> Option(Snapshot)]
         /\ Indexed \in SUBSET Indices
         /\ \A i \in Indexed : i < next_index
         /\ \A i \in Indices : objects[i] # None =>
              /\ i < next_index
              /\ DeviceProps(objects[i]) \in Props
<1>1. Indices \subseteq Nat /\ 0 \in Indices /\ None \notin Indices
  BY ConstantsAssumption DEF Indices
<1>2. /\ next_index \in Indices /\ devices \in SUBSET Indices
      /\ present \in [Keys -> Option(Indices)]
      /\ objects \in [Indices -> Option(Snapshot)]
  BY DEF IInv, TypeOK
<1>3. Indexed \in SUBSET Indices /\ \A i \in Indexed : i < next_index
  BY <1>2 DEF Indexed, IInv, Paths, Option
<1>4. ASSUME NEW i \in Indices, objects[i] # None
      PROVE  i < next_index /\ DeviceProps(objects[i]) \in Props
  <2>1. objects[i] \in Snapshot
    BY <1>2, <1>4 DEF Option
  <2>2. ~(i >= next_index)
    BY <1>4 DEF IInv, Paths
  <2> QED
    BY <1>1, <1>2, <2>1, <2>2, PropsTyped
<1> QED
  BY <1>1, <1>2, <1>3, <1>4

-----------------------------------------------------------------------------
(* The daemon *)

\* The client's own state.
clientVars == <<unapplied, signalled, owner_changes, client, list, cache,
                failed, todo, out, window>>

\* What the daemon does without a word to the client.
LEMMA QuietStep ==
  ASSUME AInv, UNCHANGED <<clientVars, inbox, turnover>>
  PROVE  /\ ClientTypeOK' /\ Waking' /\ Shown' /\ Missed' /\ Failing'
         /\ OwnerPending' <=> OwnerPending
<1> USE DEF clientVars, AInv
<1>1. ClientTypeOK'
  BY DEF ClientTypeOK
<1>2. Waking' /\ Missed' /\ Failing'
  BY DEF Waking, Missed, Failing
<1>3. OwnerPending' <=> OwnerPending
  BY DEF OwnerPending
<1>4. Shown'
  BY DEF Shown
<1> QED
  BY <1>1, <1>2, <1>3, <1>4

\* Paths stay taken, and one that is served no more is not served again.
LEMMA QuietUnturned ==
  ASSUME AInv, UNCHANGED <<clientVars, inbox, turnover>>,
         at = "connecting" => at' = "connecting",
         \A i \in Indices :
           i < next_index /\ objects[i] = None =>
             i < next_index' /\ objects'[i] = None,
         \A i \in Indices : i < next_index => i < next_index'
  PROVE  Unturned'
<1> SUFFICES ASSUME ~turnover' PROVE Unturned'
  BY DEF Unturned
<1> USE DEF clientVars, AInv
<1>1. /\ \A n \in DOMAIN inbox : inbox[n].devices \subseteq Indices
      /\ \A n \in DOMAIN unapplied : unapplied[n].devices \subseteq Indices
  BY QueuesTyped, MessageNames
<1>2. /\ list # None => list \subseteq Indices
      /\ todo \subseteq Indices /\ failed \ {None} \subseteq Indices
  BY DEF ClientTypeOK, Option
<1>3. \A indices \in SUBSET Indices : Used(indices) => Used(indices)'
  BY DEF Used
<1>4. ~turnover /\ Unturned
  OBVIOUS
<1> QED
  BY <1>1, <1>2, <1>3, <1>4 DEF Unturned, Used

LEMMA QuietChains ==
  ASSUME AInv, UNCHANGED <<clientVars, inbox, turnover>>,
         \A i \in Indices \ lost' :
           cache[i] # None /\ objects'[i] # None /\ ~OwnerPending =>
             /\ i \notin lost /\ objects[i] # None
             /\ \A props \in Props : IsNow(i, props) => IsNow(i, props)'
  PROVE  CachesLead'
<1> USE DEF clientVars, AInv
<1>1. OwnerPending' <=> OwnerPending
  BY DEF OwnerPending
<1> SUFFICES ASSUME ~OwnerPending', NEW i \in Indices \ lost',
                    cache'[i] # None, objects'[i] # None
             PROVE  Chain(i)'
  BY DEF CachesLead
<1>2. Chain(i)
  BY <1>1 DEF CachesLead
<1> QED
  BY <1>1, <1>2, ChainKept

LEMMA PublishesKept ==
  ASSUME AInv, Publishes PROVE AInv'
<1>1. /\ UNCHANGED <<clientVars, inbox, turnover>>
      /\ UNCHANGED <<at, snapshots, gone, rest, present, next_index, objects,
                     served, devices, signal, follower, lost, faults>>
      /\ RegistryNext
  BY DEF Publishes, clientVars, streams, caches, fetch, RegistryNext, pass,
         tree
<1>2. IInv'
  BY <1>1, RegistryStep DEF AInv
<1>3. /\ ClientTypeOK' /\ Waking' /\ Shown' /\ Missed' /\ Failing'
      /\ OwnerPending' <=> OwnerPending
  BY <1>1, QuietStep
<1>4. Indexed' = Indexed
  BY <1>1 DEF Indexed
<1>5. Blank' /\ Behind'
  BY <1>1, <1>3 DEF AInv, Blank, Behind, clientVars
<1>6. CachesLead'
  BY <1>1, QuietChains DEF IsNow
<1>7. ListLeads'
  BY <1>1, <1>4, ListKept DEF AInv, ListIsNow, Unlisted, clientVars
<1>8. Unturned'
  BY <1>1, QuietUnturned
<1> QED
  BY <1>2, <1>3, <1>5, <1>6, <1>7, <1>8 DEF AInv


\* A pass begins: while no list was announced it has nothing to remove.
LEMMA BeginPassKept ==
  ASSUME AInv, FirstPass \/ Wake, UNCHANGED <<clientVars, inbox, turnover>>
  PROVE  AInv'
<1>1. /\ at \in {"named", "waiting"} /\ at' = "pass"
      /\ UNCHANGED <<present, next_index, objects, devices, signal, lost>>
      /\ gone' = {k \in Keys : present[k] # None /\ channel[k] = None}
  BY DEF FirstPass, Wake, BeginPass, registry, tree
<1>2. IInv'
  <2>1. BeginPass /\ UNCHANGED <<registry, tree, devices, signal, follower,
                                 lost, faults>>
    BY DEF FirstPass, Wake
  <2> QED
    BY <1>1, <2>1, BeginPassStep DEF AInv
<1>3. /\ ClientTypeOK' /\ Waking' /\ Shown' /\ Missed' /\ Failing'
      /\ OwnerPending' <=> OwnerPending
  BY <1>1, QuietStep
<1>4. Indexed' = Indexed /\ Indexed \subseteq Indices
      /\ \A k \in Keys : present[k] # None => present[k] \in Indexed
      /\ \A i \in Indexed : i < next_index
  BY <1>1, MirrorTyped DEF Indexed, AInv
<1>5. Unlisted => gone' = {}
  <2>1. ASSUME Unlisted, NEW k \in Keys, present[k] # None PROVE FALSE
    <3>1. next_index = 0 /\ present[k] \in Indices /\ present[k] < next_index
      BY <1>1, <1>4, <2>1 DEF Unlisted
    <3> QED
      BY <3>1, MirrorTyped DEF AInv
  <2> QED
    BY <1>1, <2>1
<1>6. Blank' /\ Behind'
  BY <1>1, <1>3 DEF AInv, Blank, Behind, clientVars
<1>7. CachesLead'
  BY <1>1, QuietChains DEF IsNow
<1>8. ListLeads'
  BY <1>1, <1>4, <1>5, ListKept DEF AInv, ListIsNow, Unlisted, clientVars
<1>9. Unturned'
  BY <1>1, QuietUnturned
<1> QED
  BY <1>2, <1>3, <1>6, <1>7, <1>8, <1>9 DEF AInv

\* A device goes, and a list that named it has been announced.
LEMMA RemoveGoneKept ==
  ASSUME AInv, NEW k \in Keys, RemoveGone(k),
         UNCHANGED <<clientVars, inbox, turnover>>
  PROVE  AInv'
<1>1. /\ at = "pass" /\ k \in gone
      /\ UNCHANGED <<at, next_index, devices, signal, lost>>
  BY DEF RemoveGone, registry
<1>2. IInv'
  BY RemoveGoneStep DEF AInv
<1>3. /\ ClientTypeOK' /\ Waking' /\ Shown' /\ Missed' /\ Failing'
      /\ OwnerPending' <=> OwnerPending
  BY <1>1, QuietStep
<1>4. \A i \in Indices : objects'[i] # None => objects'[i] = objects[i]
  BY MirrorTyped DEF AInv, RemoveGone, registry, Fault
<1>5. Blank' /\ Behind'
  BY <1>1, <1>3 DEF AInv, Blank, Behind, clientVars
<1>6. CachesLead'
  BY <1>1, <1>4, QuietChains DEF IsNow
<1>7. ListLeads'
  BY <1>1, ListKept DEF AInv, ListIsNow, Unlisted, clientVars
<1>8. Unturned'
  BY <1>1, <1>4, QuietUnturned
<1> QED
  BY <1>2, <1>3, <1>5, <1>6, <1>7, <1>8 DEF AInv

\* A device changes, and its signal is about to be sent.
LEMMA UpdateDeviceKept ==
  ASSUME AInv, NEW k \in Keys, UpdateDevice(k),
         UNCHANGED <<clientVars, inbox, turnover>>
  PROVE  AInv'
<1> DEFINE i == present[k]
<1>1. /\ at = "pass" /\ gone = {} /\ k \in Keys /\ i # None
      /\ objects' = [objects EXCEPT ![i] = snapshots[k]]
      /\ UNCHANGED <<gone, present, next_index, devices, lost>>
      /\ IF DeviceProps(objects[i]) = DeviceProps(snapshots[k])
         THEN UNCHANGED <<at, signal>>
         ELSE /\ at' = "emitting"
              /\ signal' = [index |-> i, old |-> DeviceProps(objects[i])]
  BY DEF UpdateDevice
<1>2. IInv'
  BY UpdateDeviceStep DEF AInv
<1>3. /\ ClientTypeOK' /\ Waking' /\ Shown' /\ Missed' /\ Failing'
      /\ OwnerPending' <=> OwnerPending
  BY <1>1, QuietStep
<1>4. i \in Indices /\ objects[i] # None
  BY <1>1, MirrorTyped DEF AInv, IInv, Paths, Option
<1>5. /\ objects'[i] = snapshots[k]
      /\ \A j \in Indices : j # i => objects'[j] = objects[j]
      /\ \A j \in Indices : objects'[j] # None => objects[j] # None
  BY <1>1, <1>4, MirrorTyped DEF AInv
<1> HIDE DEF i
<1>6. Indexed' = Indexed
  BY <1>1 DEF Indexed
<1>7. Blank' /\ Behind'
  BY <1>1, <1>3 DEF AInv, Blank, Behind, clientVars
<1>8. ASSUME NEW j \in Indices, NEW props, IsNow(j, props)
      PROVE  IsNow(j, props)'
  <2>1. props = DeviceProps(objects[j])
    BY <1>1, <1>8 DEF IsNow
  <2>2. CASE j # i
    BY <1>5, <2>1, <2>2 DEF IsNow
  <2>3. CASE j = i
    BY <1>1, <1>5, <2>1, <2>3 DEF IsNow
  <2> QED
    BY <2>2, <2>3
<1>9. CachesLead'
  BY <1>1, <1>5, <1>8, QuietChains
<1>10. ListLeads'
  BY <1>1, <1>6, ListKept DEF AInv, ListIsNow, Unlisted, clientVars
<1>11. Unturned'
  BY <1>1, <1>5, QuietUnturned
<1> QED
  BY <1>2, <1>3, <1>7, <1>9, <1>10, <1>11 DEF AInv


\* A device is added at a path that no cache has and no list names.
LEMMA AddDeviceKept ==
  ASSUME AInv, NEW k \in Keys, AddDevice(k),
         UNCHANGED <<clientVars, inbox, turnover>>
  PROVE  AInv'
<1> DEFINE i == next_index
<1>1. /\ at = "pass" /\ gone = {} /\ k \in Keys /\ present[k] = None
      /\ next_index' = i + 1
      /\ objects' = [objects EXCEPT ![i] = snapshots[k]]
      /\ present' = [present EXCEPT ![k] = i]
      /\ UNCHANGED <<at, gone, devices, signal, lost>>
  BY DEF AddDevice
<1>2. IInv'
  BY AddDeviceStep DEF AInv
<1>3. /\ ClientTypeOK' /\ Waking' /\ Shown' /\ Missed' /\ Failing'
      /\ OwnerPending' <=> OwnerPending
  BY <1>1, QuietStep
<1>4. /\ i \in Indices /\ i \in Nat /\ i # None
      /\ present \in [Keys -> Option(Indices)]
      /\ objects \in [Indices -> Option(Snapshot)]
  BY MirrorTyped DEF AInv
<1>5. \A j \in Indices : j # i => objects'[j] = objects[j]
  BY <1>1, <1>4
<1>6. Indexed' = Indexed \cup {i}
  <2>1. present'[k] = i /\ \A j \in Keys : j # k => present'[j] = present[j]
    BY <1>1, <1>4
  <2> QED
    BY <1>1, <1>4, <2>1 DEF Indexed
<1>7. \A j \in devices : j < i
  BY DEF AInv, Behind
<1>8. ~OwnerPending => cache[i] = None
  <2>1. ~OwnerPending /\ cache[i] # None => i < i
    BY <1>4 DEF AInv, Behind
  <2> QED
    BY <1>4, <2>1
<1> HIDE DEF i
<1>9. \A j \in Indices : j < i => j < i + 1
  BY <1>4, MirrorTyped DEF AInv
<1>10. Blank' /\ Behind'
  <2>1. next_index = i
    BY DEF i
  <2>2. Blank'
    BY <1>1 DEF AInv, Blank, clientVars
  <2>3. devices \subseteq Indices
    BY MirrorTyped DEF AInv
  <2> QED
    BY <1>1, <1>3, <1>9, <2>1, <2>2, <2>3 DEF AInv, Behind, clientVars
<1>11. CachesLead'
  BY <1>1, <1>5, <1>8, QuietChains DEF IsNow
<1>12. Unlisted => Unlisted'
  <2>1. next_index = i
    BY DEF i
  <2>2. \A j \in Indices : j < i + 1 => j < i \/ j = i
    BY <1>4, MirrorTyped DEF AInv
  <2> QED
    BY <1>1, <1>6, <2>1, <2>2 DEF Unlisted
<1>13. ListLeads'
  BY <1>1, <1>12, ListKept DEF AInv, ListIsNow, clientVars
<1>14. Unturned'
  <2>1. next_index = i
    BY DEF i
  <2>2. \A j \in Indices : j < i => j # i
    BY MirrorTyped DEF AInv
  <2> QED
    BY <1>1, <1>5, <1>9, <2>1, <2>2, QuietUnturned
<1> QED
  BY <1>2, <1>3, <1>10, <1>11, <1>13, <1>14 DEF AInv

\* The pass ends: if the list changed, it is about to be announced.
LEMMA ListDevicesKept ==
  ASSUME AInv, ListDevices, UNCHANGED <<clientVars, inbox, turnover>>
  PROVE  AInv'
<1>1. /\ at = "pass" /\ gone = {} /\ devices' = Indexed
      /\ at' = IF devices = Indexed THEN "waiting" ELSE "announcing"
      /\ UNCHANGED <<gone, present, next_index, objects, signal, lost>>
  BY DEF ListDevices, registry, pass, tree
<1>2. IInv'
  BY ListDevicesStep DEF AInv
<1>3. /\ ClientTypeOK' /\ Waking' /\ Shown' /\ Missed' /\ Failing'
      /\ OwnerPending' <=> OwnerPending
  BY <1>1, QuietStep
<1>4. Indexed' = Indexed /\ \A i \in Indexed : i < next_index
  BY <1>1, MirrorTyped DEF Indexed, AInv
<1>5. at' = "announcing" \/ devices' = devices
  BY <1>1
<1>6. Blank' /\ Behind'
  BY <1>1, <1>3, <1>4 DEF AInv, Blank, Behind, clientVars
<1>7. CachesLead'
  BY <1>1, QuietChains DEF IsNow
<1>8. ListLeads'
  <2>1. Unlisted /\ devices = Indexed => Unlisted'
    <3>1. ASSUME Unlisted, devices = Indexed PROVE next_index = 0
      <4>1. ~(0 < next_index)
        BY <3>1, MirrorTyped DEF AInv, Unlisted
      <4> QED
        BY <4>1, MirrorTyped DEF AInv
    <3> QED
      BY <1>1, <1>4, <3>1 DEF Unlisted
  <2> QED
    BY <1>1, <1>5, <2>1, ListKept DEF AInv, ListIsNow, clientVars
<1>9. Unturned'
  BY <1>1, QuietUnturned
<1> QED
  BY <1>2, <1>3, <1>6, <1>7, <1>8, <1>9 DEF AInv

-----------------------------------------------------------------------------
(* What the daemon sends *)

\* One more message in the client's queue.
LEMMA PostTyped ==
  ASSUME AInv, NEW m \in Message, Post(m), UNCHANGED clientVars,
         turnover' \in BOOLEAN
  PROVE  /\ ClientTypeOK' /\ Waking' /\ Shown' /\ Missed' /\ Failing'
         /\ client # "retrying" =>
              /\ inbox' = Append(inbox, m) /\ inbox' # <<>>
              /\ \A n \in DOMAIN inbox : n \in DOMAIN inbox'
                                         /\ inbox'[n] = inbox[n]
              /\ Len(inbox) + 1 \in DOMAIN inbox'
              /\ inbox'[Len(inbox) + 1] = m
              /\ DOMAIN inbox' = DOMAIN inbox \cup {Len(inbox) + 1}
         /\ client = "retrying" => UNCHANGED inbox
<1> USE DEF AInv
<1>1. inbox \in Seq(Message) /\ Len(inbox) \in Nat
      /\ DOMAIN inbox = 1..Len(inbox)
  BY QueuesTyped
<1>2. /\ Append(inbox, m) \in Seq(Message)
      /\ Len(Append(inbox, m)) = Len(inbox) + 1
      /\ Append(inbox, m)[Len(inbox) + 1] = m
      /\ \A n \in 1..Len(inbox) : Append(inbox, m)[n] = inbox[n]
  BY <1>1, AppendProperties
<1>3. DOMAIN Append(inbox, m) = 1..(Len(inbox) + 1) /\ Append(inbox, m) # <<>>
  BY <1>1, <1>2, LenProperties, EmptySeq
<1>4. inbox' \in Seq(Message)
  BY <1>1, <1>2 DEF Post
<1>5. /\ ClientTypeOK' /\ Waking'
      /\ Shown' /\ Missed' /\ Failing'
  BY <1>4 DEF clientVars, ClientTypeOK, Waking, Shown, Missed, Failing
<1>6. 1..(Len(inbox) + 1) = 1..Len(inbox) \cup {Len(inbox) + 1}
  BY <1>1
<1> QED
  BY <1>1, <1>2, <1>3, <1>5, <1>6 DEF Post

\* The client is told that the daemon came or went, unless it has no
\* connection to hear it on.
LEMMA OwnerPosted ==
  ASSUME AInv, Post(OwnerChange), UNCHANGED clientVars, turnover' \in BOOLEAN
  PROVE  /\ ClientTypeOK' /\ Waking'
         /\ OwnerPending' \/ client = "retrying"
         /\ OwnerPending => OwnerPending'
         /\ client = "retrying" => UNCHANGED inbox
<1>1. OwnerChange \in Message
  BY DEF OwnerChange, Message
<1> QED
  BY <1>1, PostTyped DEF OwnerPending, OwnerChange, clientVars


LEMMA SentChain ==
  ASSUME AInv, NEW m \in Message, inbox' = Append(inbox, m),
         UNCHANGED clientVars, NEW i,
         NEW here \in Props, NEW there \in Props, NEW next \in Props,
         Leads(DeviceSteps(i), unapplied, cache[i], here),
         Leads(DeviceSteps(i), inbox, here, there),
         <<m, there, next>> \in DeviceSteps(i), IsNow(i, next)'
  PROVE  Chain(i)'
<1>1. inbox \in Seq(Message)
  BY DEF AInv, ClientTypeOK
<1>2. Leads(DeviceSteps(i), inbox', here, next)
  BY <1>1, LeadsAppend
<1>3. Leads(DeviceSteps(i), unapplied', cache'[i], here)
  BY DEF clientVars
<1> QED
  BY <1>2, <1>3, ChainNext

LEMMA SentList ==
  ASSUME AInv, NEW m \in Message, inbox' = Append(inbox, m),
         UNCHANGED clientVars,
         NEW here \in SUBSET Indices, NEW there \in SUBSET Indices,
         NEW next \in SUBSET Indices,
         Leads(ListSteps, unapplied, list, here),
         Leads(ListSteps, inbox, here, there),
         <<m, there, next>> \in ListSteps, ListIsNow(next)'
  PROVE  ListLeads'
<1>1. inbox \in Seq(Message)
  BY DEF AInv, ClientTypeOK
<1>2. Leads(ListSteps, inbox', here, next)
  BY <1>1, LeadsAppend
<1>3. Leads(ListSteps, unapplied', list', here)
  BY DEF clientVars
<1> QED
  BY <1>2, <1>3, ListNext

LEMMA SentUnturned ==
  ASSUME AInv, NEW m \in Message, Post(m), client # "retrying",
         UNCHANGED <<clientVars, turnover, next_index, objects>>,
         at \in {"emitting", "announcing"}, Used(m.devices)
  PROVE  Unturned'
<1> SUFFICES ASSUME ~turnover' PROVE Unturned'
  BY DEF Unturned
<1>1. Unturned /\ ~turnover /\ turnover' \in BOOLEAN /\ at # "connecting"
  BY DEF AInv, ClientTypeOK
<1>2. \A n \in DOMAIN inbox' :
        \/ inbox'[n] = m
        \/ n \in DOMAIN inbox /\ inbox'[n] = inbox[n]
  BY <1>1, PostTyped
<1> QED
  BY <1>1, <1>2 DEF Unturned, Used, clientVars

\* Without a connection the client has nothing that could be wrong.
LEMMA RetryingKept ==
  ASSUME AInv, client = "retrying", UNCHANGED <<clientVars, inbox>>,
         Blank', \A i \in devices' : i < next_index',
         turnover' \in BOOLEAN
  PROVE  /\ ClientTypeOK' /\ Waking' /\ Shown' /\ Missed' /\ Failing'
         /\ Behind' /\ CachesLead' /\ ListLeads' /\ Unturned'
<1> USE DEF clientVars, AInv
<1>1. ClientTypeOK' /\ Waking'
  BY DEF ClientTypeOK, Waking
<1>2. /\ list' = None /\ client' = "retrying" /\ failed' = {} /\ todo' = {}
      /\ inbox' = <<>> /\ unapplied' = <<>>
      /\ \A i \in Indices : cache'[i] = None
  BY DEF Blank, Uncached, ClientTypeOK
<1>3. Shown' /\ Missed' /\ Failing'
  BY <1>2 DEF Shown, Missed, Failing
<1>4. DOMAIN <<>> = {}
  OBVIOUS
<1>5. Unturned'
  BY <1>2, <1>4 DEF Unturned, Used
<1> QED
  BY <1>1, <1>2, <1>3, <1>5 DEF Behind, CachesLead, ListLeads

\* The daemon came or went.
LEMMA OwnerKept ==
  ASSUME AInv, OwnerMoves, UNCHANGED clientVars,
         IInv', Blank', \A i \in devices' : i < next_index',
         \A indices \in SUBSET Indices :
           ListIsNow(indices) => ListIsNow(indices)'
  PROVE  AInv'
<1>1. CASE client = "retrying"
  <2>1. UNCHANGED <<clientVars, inbox>> /\ turnover' = FALSE
    BY <1>1 DEF OwnerMoves, Post
  <2> QED
    BY <1>1, <2>1, RetryingKept DEF AInv
<1>2. CASE client # "retrying"
  <2>1. ClientTypeOK' /\ Waking' /\ OwnerPending'
    BY <1>2, OwnerPosted DEF OwnerMoves
  <2>2. Shown' /\ Missed' /\ Failing'
    BY DEF AInv, Shown, Missed, Failing, clientVars
  <2>3. ListLeads'
    <3>1. CASE list = None
      BY <3>1 DEF ListLeads, clientVars
    <3>2. CASE list # None
      <4>1. PICK here \in SUBSET Indices, there \in SUBSET Indices :
              /\ Leads(ListSteps, unapplied, list, here)
              /\ Leads(ListSteps, inbox, here, there)
              /\ ListIsNow(there)
        BY <3>2 DEF AInv, ListLeads
      <4>2. OwnerChange \in Message
            /\ <<OwnerChange, there, there>> \in ListSteps
        BY ListStepIs DEF OwnerChange, Message
      <4>3. inbox' = Append(inbox, OwnerChange)
        BY <1>2 DEF OwnerMoves, Post
      <4> QED
        BY <4>1, <4>2, <4>3, SentList
    <3> QED
      BY <3>1, <3>2
  <2>4. Unturned'
    BY <1>2 DEF OwnerMoves, Unturned
  <2> QED
    BY <2>1, <2>2, <2>3, <2>4 DEF AInv, Behind, CachesLead
<1> QED
  BY <1>1, <1>2

LEMMA ConnectKept ==
  ASSUME AInv, Connect, OwnerMoves, UNCHANGED clientVars PROVE AInv'
<1>1. /\ at = "connecting" /\ at' = "named"
      /\ UNCHANGED <<gone, present, next_index, objects, devices, lost>>
  BY DEF Connect, registry, pass, tree
<1>2. IInv'
  BY ConnectStep DEF AInv
<1>3. Blank'
  <2>1. client = "retrying" => inbox' = inbox
    BY DEF OwnerMoves, Post
  <2> QED
    BY <1>1, <2>1 DEF AInv, Blank, clientVars
<1>4. \A i \in devices' : i < next_index'
  BY <1>1 DEF AInv, Behind
<1>5. Indexed' = Indexed
  BY <1>1 DEF Indexed
<1>6. \A indices : ListIsNow(indices) => ListIsNow(indices)'
  BY <1>1, <1>5 DEF ListIsNow, Unlisted
<1> QED
  BY <1>2, <1>3, <1>4, <1>6, OwnerKept

\* A daemon that starts again serves nothing, and has listed nothing.
LEMMA DaemonRestartKept ==
  ASSUME AInv, DaemonRestart PROVE AInv'
<1>1. /\ at' = "connecting" /\ next_index' = 0 /\ devices' = {} /\ gone' = {}
      /\ objects' = Nobody /\ present' = [k \in Keys |-> None]
      /\ UNCHANGED clientVars /\ Restart
  BY DEF DaemonRestart, Restart, clientVars, caches, fetch
<1>2. IInv'
  BY <1>1, RestartStep DEF AInv
<1>3. \A i \in Indices : objects'[i] = None /\ ~(i < 0)
  BY <1>1, MirrorTyped DEF AInv, Nobody
<1>4. Unlisted'
  BY <1>1, <1>3 DEF Unlisted
<1>5. CASE at = "connecting"
  <2>1. UNCHANGED <<inbox, turnover>>
    BY <1>5 DEF DaemonRestart
  <2>2. /\ ClientTypeOK' /\ Waking' /\ Shown' /\ Missed' /\ Failing'
        /\ OwnerPending' <=> OwnerPending
    BY <1>1, <2>1, QuietStep
  <2>3. Blank' /\ Behind'
    BY <1>1, <1>5, <2>1, <2>2 DEF AInv, Blank, Behind, clientVars
  <2>4. CachesLead'
    BY <1>3 DEF CachesLead
  <2>5. ListLeads'
    BY <1>1, <1>4, <2>1, ListKept DEF AInv, ListIsNow, clientVars
  <2>6. Unturned'
    <3>1. next_index = 0
      BY <1>5 DEF AInv, Blank
    <3> QED
      BY <1>1, <1>3, <2>1, <3>1, QuietUnturned
  <2> QED
    BY <1>2, <2>2, <2>3, <2>4, <2>5, <2>6 DEF AInv
<1>6. CASE at # "connecting"
  <2>1. OwnerMoves
    BY <1>6 DEF DaemonRestart
  <2>2. Blank'
    <3>1. client = "retrying" => inbox' = inbox
      BY <2>1 DEF OwnerMoves, Post
    <3> QED
      BY <1>1, <3>1 DEF AInv, Blank, clientVars
  <2>3. \A indices : ListIsNow(indices)'
    BY <1>4 DEF ListIsNow
  <2> QED
    BY <1>1, <1>2, <2>1, <2>2, <2>3, OwnerKept
<1> QED
  BY <1>5, <1>6


\* The signal of device i is sent, or lost.
LEMMA EmitChangesKept ==
  ASSUME AInv, EmitChanges, UNCHANGED <<clientVars, turnover>>,
         UnlessFailed(DeviceSignal(signal.index, signal.old,
                                   DeviceProps(objects[signal.index])))
  PROVE  AInv'
<1> DEFINE i == signal.index
           new == DeviceProps(objects[i])
           m == DeviceSignal(i, signal.old, new)
<1>1. /\ at = "emitting" /\ at' = "pass"
      /\ UNCHANGED <<gone, present, next_index, objects, devices>>
      /\ \/ UNCHANGED <<lost, faults>>
         \/ faults' # faults /\ lost' = lost \cup {i}
  <2>1. faults \in Nat
    BY ConstantsAssumption DEF AInv, IInv, TypeOK
  <2> QED
    BY <2>1 DEF EmitChanges, Fault, registry, pass, tree
<1>2. IInv'
  BY EmitChangesStep DEF AInv
<1>3. /\ i \in Indices /\ signal.old \in Props /\ new \in Props
      /\ objects[i] # None
  BY <1>1, MirrorTyped DEF AInv, IInv, TypeOK, Told
<1>4. UnlessFailed(m)
  OBVIOUS
<1>5. /\ m \in Message /\ m.fresh /\ m.kind = "device" /\ m.index = i
      /\ m.old = signal.old /\ m.new = new
  BY <1>3 DEF DeviceSignal, Message
<1>6. \A j, props : IsNow(j, props) =>
        \/ props = DeviceProps(objects[j])
        \/ j = i /\ props = signal.old
  BY DEF IsNow
<1> HIDE DEF i, new, m
<1>7. Indexed' = Indexed
  BY <1>1 DEF Indexed
<1>8. \A indices : ListIsNow(indices) => ListIsNow(indices)'
  BY <1>1, <1>3, <1>7, MirrorTyped DEF AInv, ListIsNow, Unlisted
<1>9. /\ new = DeviceProps(objects[i]) /\ new = DeviceProps(objects'[i])
      /\ \A j : DeviceProps(objects'[j]) = DeviceProps(objects[j])
  BY <1>1 DEF new, i
<1>10. CASE faults' # faults
  <2>1. UNCHANGED inbox /\ lost' = lost \cup {i}
    BY <1>1, <1>4, <1>10 DEF UnlessFailed
  <2>2. /\ ClientTypeOK' /\ Waking' /\ Shown' /\ Missed' /\ Failing'
        /\ OwnerPending' <=> OwnerPending
    BY <1>1, <2>1, QuietStep
  <2>3. Blank' /\ Behind'
    BY <1>1, <2>1, <2>2 DEF AInv, Blank, Behind, clientVars
  <2>4. CachesLead'
    <3>1. ASSUME NEW j \in Indices \ lost', NEW props \in Props,
                 IsNow(j, props)
          PROVE  IsNow(j, props)'
      BY <1>6, <1>9, <2>1, <3>1 DEF IsNow
    <3> QED
      BY <1>1, <2>1, <3>1, QuietChains
  <2>5. ListLeads'
    BY <1>8, <2>1, ListKept DEF AInv, clientVars
  <2>6. Unturned'
    BY <1>1, <2>1, QuietUnturned
  <2> QED
    BY <1>2, <2>2, <2>3, <2>4, <2>5, <2>6 DEF AInv
<1>11. CASE faults' = faults /\ client = "retrying"
  <2>1. UNCHANGED inbox
    BY <1>4, <1>11 DEF UnlessFailed, Post
  <2>2. Blank' /\ \A j \in devices' : j < next_index'
    BY <1>1, <2>1 DEF AInv, Blank, Behind, clientVars
  <2>3. turnover' \in BOOLEAN
    BY DEF AInv, ClientTypeOK
  <2> QED
    BY <1>2, <1>11, <2>1, <2>2, <2>3, RetryingKept DEF AInv
<1>12. CASE faults' = faults /\ client # "retrying"
  <2>1. Post(m) /\ inbox' = Append(inbox, m) /\ UNCHANGED lost
    BY <1>1, <1>4, <1>12 DEF UnlessFailed, Post
  <2>2. ClientTypeOK' /\ Waking' /\ Shown' /\ Missed' /\ Failing'
    <3>1. turnover' \in BOOLEAN
      BY DEF AInv, ClientTypeOK
    <3> QED
      BY <1>5, <1>12, <2>1, <3>1, PostTyped
  <2>3. OwnerPending' <=> OwnerPending
    <3>1. turnover' \in BOOLEAN
      BY DEF AInv, ClientTypeOK
    <3> QED
      BY <1>5, <1>12, <2>1, <3>1, PostTyped DEF OwnerPending, clientVars
  <2>4. Used(m.devices)
    BY <1>5, MessageNames DEF AInv, Behind, Used
  <2>5. Blank' /\ Behind'
    BY <1>1, <1>12, <2>3 DEF AInv, Blank, Behind, clientVars
  <2>6. CachesLead'
    <3> SUFFICES ASSUME ~OwnerPending', NEW j \in Indices \ lost',
                        cache'[j] # None, objects'[j] # None
                 PROVE  Chain(j)'
      BY DEF CachesLead
    <3>1. Chain(j)
      BY <1>1, <2>1, <2>3 DEF AInv, CachesLead, clientVars
    <3>2. PICK here \in Props, there \in Props :
            /\ Leads(DeviceSteps(j), unapplied, cache[j], here)
            /\ Leads(DeviceSteps(j), inbox, here, there)
            /\ IsNow(j, there)
      BY <3>1 DEF Chain
    <3>3. CASE j = i
      <4>1. there \in {m.old, m.new}
        BY <1>5, <1>6, <1>9, <3>2, <3>3 DEF new
      <4>2. PICK next \in Props : next = new
        BY <1>3
      <4>3. <<m, there, next>> \in DeviceSteps(j)
        BY <1>5, <3>3, <4>1, <4>2, DeviceStepIs
      <4>4. IsNow(j, next)'
        BY <1>9, <3>3, <4>2 DEF IsNow
      <4> QED
        BY <1>5, <2>1, <3>2, <4>3, <4>4, SentChain
    <3>4. CASE j # i
      <4>1. <<m, there, there>> \in DeviceSteps(j)
        BY <1>5, <3>4, DeviceStepIs
      <4>2. IsNow(j, there)'
        BY <1>6, <1>9, <3>2, <3>4 DEF IsNow
      <4> QED
        BY <1>5, <2>1, <3>2, <4>1, <4>2, SentChain
    <3> QED
      BY <3>3, <3>4
  <2>7. ListLeads'
    <3>1. CASE list = None
      BY <3>1 DEF ListLeads, clientVars
    <3>2. CASE list # None
      <4>1. PICK here \in SUBSET Indices, there \in SUBSET Indices :
              /\ Leads(ListSteps, unapplied, list, here)
              /\ Leads(ListSteps, inbox, here, there)
              /\ ListIsNow(there)
        BY <3>2 DEF AInv, ListLeads
      <4>2. <<m, there, there>> \in ListSteps
        BY <1>5, ListStepIs
      <4> QED
        BY <1>5, <1>8, <2>1, <4>1, <4>2, SentList
    <3> QED
      BY <3>1, <3>2
  <2>8. Unturned'
    BY <1>1, <1>5, <1>12, <2>1, <2>4, SentUnturned
  <2> QED
    BY <1>2, <2>2, <2>5, <2>6, <2>7, <2>8 DEF AInv
<1> QED
  BY <1>10, <1>11, <1>12

\* The list is sent, or lost.
LEMMA AnnounceDevicesKept ==
  ASSUME AInv, AnnounceDevices, UNCHANGED <<clientVars, turnover>>,
         UnlessFailed(DevicesSignal(devices))
  PROVE  AInv'
<1> DEFINE m == DevicesSignal(devices)
<1>1. /\ at = "announcing" /\ at' = "waiting"
      /\ UNCHANGED <<gone, present, next_index, objects, devices>>
      /\ \/ lost' = lost \ {None} /\ UNCHANGED faults
         \/ faults' # faults /\ lost' = lost \cup {None}
  <2>1. faults \in Nat
    BY ConstantsAssumption DEF AInv, IInv, TypeOK
  <2> QED
    BY <2>1 DEF AnnounceDevices, Fault, registry, pass, tree
<1>2. IInv'
  BY AnnounceDevicesStep DEF AInv
<1>3. UnlessFailed(m)
  OBVIOUS
<1>4. /\ m \in Message /\ m.fresh /\ m.kind = "root" /\ m.devices = devices
      /\ devices \in SUBSET Indices
  BY MirrorTyped DEF AInv, DevicesSignal, Message
<1> HIDE DEF m
<1>5. Indices \ lost' = Indices \ lost
  BY <1>1, MirrorTyped DEF AInv
<1>6. \A j, props : IsNow(j, props) => IsNow(j, props)'
  BY <1>1 DEF IsNow
<1>7. CASE faults' # faults
  <2>1. UNCHANGED inbox /\ None \in lost'
    BY <1>1, <1>3, <1>7 DEF UnlessFailed
  <2>2. /\ ClientTypeOK' /\ Waking' /\ Shown' /\ Missed' /\ Failing'
        /\ OwnerPending' <=> OwnerPending
    BY <1>1, <2>1, QuietStep
  <2>3. Blank' /\ Behind'
    BY <1>1, <2>1, <2>2 DEF AInv, Blank, Behind, clientVars
  <2>4. CachesLead'
    BY <1>1, <1>5, <1>6, <2>1, QuietChains
  <2>5. ListLeads'
    BY <2>1, ListKept DEF AInv, ListIsNow, clientVars
  <2>6. Unturned'
    BY <1>1, <2>1, QuietUnturned
  <2> QED
    BY <1>2, <2>2, <2>3, <2>4, <2>5, <2>6 DEF AInv
<1>8. CASE faults' = faults /\ client = "retrying"
  <2>1. UNCHANGED inbox
    BY <1>3, <1>8 DEF UnlessFailed, Post
  <2>2. Blank' /\ \A j \in devices' : j < next_index'
    BY <1>1, <2>1 DEF AInv, Blank, Behind, clientVars
  <2>3. turnover' \in BOOLEAN
    BY DEF AInv, ClientTypeOK
  <2> QED
    BY <1>2, <1>8, <2>1, <2>2, <2>3, RetryingKept DEF AInv
<1>9. CASE faults' = faults /\ client # "retrying"
  <2>1. Post(m) /\ inbox' = Append(inbox, m)
    BY <1>3, <1>9 DEF UnlessFailed, Post
  <2>2. ClientTypeOK' /\ Waking' /\ Shown' /\ Missed' /\ Failing'
    <3>1. turnover' \in BOOLEAN
      BY DEF AInv, ClientTypeOK
    <3> QED
      BY <1>4, <1>9, <2>1, <3>1, PostTyped
  <2>3. OwnerPending' <=> OwnerPending
    <3>1. turnover' \in BOOLEAN
      BY DEF AInv, ClientTypeOK
    <3> QED
      BY <1>4, <1>9, <2>1, <3>1, PostTyped DEF OwnerPending, clientVars
  <2>4. Used(m.devices)
    BY <1>4, MessageNames DEF AInv, Behind, Used
  <2>5. Blank' /\ Behind'
    BY <1>1, <1>9, <2>3 DEF AInv, Blank, Behind, clientVars
  <2>6. CachesLead'
    <3> SUFFICES ASSUME ~OwnerPending', NEW j \in Indices \ lost',
                        cache'[j] # None, objects'[j] # None
                 PROVE  Chain(j)'
      BY DEF CachesLead
    <3>1. Chain(j)
      BY <1>1, <1>5, <2>3 DEF AInv, CachesLead, clientVars
    <3>2. PICK here \in Props, there \in Props :
            /\ Leads(DeviceSteps(j), unapplied, cache[j], here)
            /\ Leads(DeviceSteps(j), inbox, here, there)
            /\ IsNow(j, there)
      BY <3>1 DEF Chain
    <3>3. <<m, there, there>> \in DeviceSteps(j)
      BY <1>4, DeviceStepIs
    <3> QED
      BY <1>4, <1>6, <2>1, <3>2, <3>3, SentChain
  <2>7. ListLeads'
    <3>1. CASE list = None
      BY <3>1 DEF ListLeads, clientVars
    <3>2. CASE list # None
      <4>1. PICK here \in SUBSET Indices, there \in SUBSET Indices :
              /\ Leads(ListSteps, unapplied, list, here)
              /\ Leads(ListSteps, inbox, here, there)
        BY <3>2 DEF AInv, ListLeads
      <4>2. PICK next \in SUBSET Indices : next = devices
        BY <1>4
      <4>3. <<m, there, next>> \in ListSteps
        BY <1>4, <4>2, ListStepIs
      <4>4. ListIsNow(next)'
        BY <1>1, <4>2 DEF ListIsNow
      <4> QED
        BY <1>4, <2>1, <4>1, <4>3, <4>4, SentList
    <3> QED
      BY <3>1, <3>2
  <2>8. Unturned'
    BY <1>1, <1>4, <1>9, <2>1, <2>4, SentUnturned
  <2> QED
    BY <1>2, <2>2, <2>5, <2>6, <2>7, <2>8 DEF AInv
<1> QED
  BY <1>7, <1>8, <1>9

LEMMA DaemonStepKept ==
  ASSUME AInv, DaemonStep PROVE AInv'
<1>1. UNCHANGED clientVars
  BY DEF DaemonStep, clientVars, caches, fetch
<1>2. CASE Connect /\ OwnerMoves
  BY <1>1, <1>2, ConnectKept
<1>3. CASE /\ EmitChanges
           /\ UnlessFailed(DeviceSignal(signal.index, signal.old,
                                        DeviceProps(objects[signal.index])))
           /\ UNCHANGED turnover
  BY <1>1, <1>3, EmitChangesKept
<1>4. CASE AnnounceDevices /\ UnlessFailed(DevicesSignal(devices))
           /\ UNCHANGED turnover
  BY <1>1, <1>4, AnnounceDevicesKept
<1>5. ASSUME UNCHANGED <<inbox, turnover>>, FirstPass \/ Wake \/ ListDevices
      PROVE  AInv'
  BY <1>1, <1>5, BeginPassKept, ListDevicesKept
<1>6. ASSUME UNCHANGED <<inbox, turnover>>, NEW k \in Keys,
             RemoveGone(k) \/ UpdateDevice(k) \/ AddDevice(k)
      PROVE  AInv'
  BY <1>1, <1>6, RemoveGoneKept, UpdateDeviceKept, AddDeviceKept
<1> QED
  BY <1>2, <1>3, <1>4, <1>5, <1>6 DEF DaemonStep


-----------------------------------------------------------------------------
(* The connection and the caches *)

\* What the client does by itself changes nothing of the daemon's.
LEMMA MirrorKept ==
  ASSUME AInv, UNCHANGED <<mirror, faults>>
  PROVE  /\ IInv'
         /\ \A i \in devices' : i < next_index'
         /\ \A i, props : IsNow(i, props) => IsNow(i, props)'
         /\ \A indices : ListIsNow(indices) => ListIsNow(indices)'
         /\ UNCHANGED <<at, gone, present, next_index, objects, devices,
                        signal, lost, Indexed>>
<1>1. UNCHANGED vars
  BY DEF mirror, vars
<1>2. IInv'
  BY <1>1, StutterStep DEF AInv
<1>3. UNCHANGED <<at, gone, present, next_index, objects, devices, signal,
                  lost, Indexed>>
  BY <1>1 DEF vars, Indexed
<1>4. \A i \in devices' : i < next_index'
  BY <1>3 DEF AInv, Behind
<1>5. \A indices : ListIsNow(indices) => ListIsNow(indices)'
  BY <1>3 DEF ListIsNow, Unlisted
<1>6. \A i, props : IsNow(i, props) => IsNow(i, props)'
  BY <1>3 DEF IsNow
<1> QED
  BY <1>2, <1>3, <1>4, <1>5, <1>6

LEMMA DeliverKept ==
  ASSUME AInv, Deliver PROVE AInv'
<1> DEFINE m == Head(inbox)
<1>1. /\ inbox # <<>> /\ inbox' = Tail(inbox)
      /\ UNCHANGED <<mirror, faults, client, list, cache, failed, todo, out,
                     window, turnover>>
  BY DEF Deliver, caches, fetch
<1>2. IF m.kind = "owner"
      THEN /\ owner_changes' = owner_changes + 1
           /\ UNCHANGED <<unapplied, signalled>>
      ELSE /\ signalled' = TRUE
           /\ unapplied' = IF m.fresh THEN Append(unapplied, m) ELSE unapplied
           /\ UNCHANGED owner_changes
  BY DEF Deliver
<1>3. /\ inbox \in Seq(Message) /\ unapplied \in Seq(Message)
      /\ m = inbox[1] /\ m \in Message /\ Tail(inbox) \in Seq(Message)
      /\ 1 \in DOMAIN inbox
      /\ \A n \in DOMAIN Tail(inbox) :
           n + 1 \in DOMAIN inbox /\ Tail(inbox)[n] = inbox[n + 1]
      /\ \A n \in DOMAIN inbox \ {1} :
           n - 1 \in DOMAIN Tail(inbox) /\ Tail(inbox)[n - 1] = inbox[n]
  BY <1>1, QueuesTyped DEF AInv
<1> HIDE DEF m
<1>4. client # "retrying"
  BY <1>1 DEF AInv, Blank
<1>5. /\ UNCHANGED <<at, gone, present, next_index, objects, devices, lost>>
      /\ IInv' /\ \A i \in devices' : i < next_index'
      /\ \A i, props : IsNow(i, props) => IsNow(i, props)'
      /\ \A indices : ListIsNow(indices) => ListIsNow(indices)'
  BY <1>1, MirrorKept
<1>6. Blank'
  BY <1>1, <1>4, <1>5 DEF AInv, Blank
<1>7. \A a, b, c : <<m, a, b>> \in DeviceSteps(c) /\ ~m.fresh => a = b
  BY DeviceStepIs
<1>8. \A a, b : <<m, a, b>> \in ListSteps /\ ~m.fresh => a = b
  BY ListStepIs
<1>9. Failing'
  BY <1>1 DEF AInv, Failing
<1>10. Unturned'
  <2> SUFFICES ASSUME ~turnover' PROVE Unturned'
    BY DEF Unturned
  <2>1. Unturned /\ ~turnover
    BY <1>1 DEF AInv
  <2>2. \A n \in DOMAIN inbox' : Used(inbox'[n].devices)
    BY <1>1, <1>3, <2>1 DEF Unturned
  <2>3. \A n \in DOMAIN unapplied' : Used(unapplied'[n].devices)
    <3>1. Used(m.devices)
      BY <1>3, <2>1 DEF Unturned
    <3>2. ASSUME NEW n \in DOMAIN Append(unapplied, m)
          PROVE  Used(Append(unapplied, m)[n].devices)
      BY <1>3, <2>1, <3>1, AppendProperties, LenProperties DEF Unturned
    <3> QED
      BY <1>2, <2>1, <3>2 DEF Unturned
  <2> QED
    BY <1>1, <1>5, <2>1, <2>2, <2>3 DEF Unturned, Used
<1>11. CASE m.kind = "owner"
  <2>1. /\ owner_changes' = owner_changes + 1
        /\ UNCHANGED <<unapplied, signalled>>
    BY <1>2, <1>11
  <2>2. ClientTypeOK' /\ OwnerPending'
    BY <1>1, <1>3, <2>1 DEF AInv, ClientTypeOK, OwnerPending
  <2>3. Waking'
    BY <2>1 DEF AInv, Waking
  <2>4. Shown' /\ Missed'
    BY <1>1, <2>1 DEF AInv, Shown, Missed
  <2>5. ListLeads'
    <3>1. CASE list = None
      BY <1>1, <3>1 DEF ListLeads
    <3>2. CASE list # None
      <4>1. PICK here \in SUBSET Indices, there \in SUBSET Indices :
              /\ Leads(ListSteps, unapplied, list, here)
              /\ Leads(ListSteps, inbox, here, there)
              /\ ListIsNow(there)
        BY <3>2 DEF AInv, ListLeads
      <4>2. PICK c : <<m, here, c>> \in ListSteps
                     /\ Leads(ListSteps, Tail(inbox), c, there)
        BY <1>1, <1>3, <4>1, LeadsTail DEF m
      <4>3. c = here
        BY <1>11, <4>2, ListStepIs
      <4>4. /\ Leads(ListSteps, unapplied', list', here)
            /\ Leads(ListSteps, inbox', here, there)
        BY <1>1, <2>1, <4>1, <4>2, <4>3
      <4>5. ListIsNow(there)'
        BY <1>5, <4>1
      <4> QED
        BY <4>4, <4>5, ListNext
    <3> QED
      BY <3>1, <3>2
  <2> QED
    BY <1>5, <1>6, <1>9, <1>10, <2>2, <2>3, <2>4, <2>5
    DEF AInv, Behind, CachesLead
<1>12. CASE m.kind # "owner"
  <2>1. /\ signalled' = TRUE
        /\ unapplied' = IF m.fresh THEN Append(unapplied, m) ELSE unapplied
        /\ UNCHANGED owner_changes
    BY <1>2, <1>12
  <2>2. ClientTypeOK'
    <3>1. unapplied' \in Seq(Message)
      BY <1>3, <2>1, AppendProperties
    <3> QED
      BY <1>1, <1>3, <2>1, <3>1 DEF AInv, ClientTypeOK
  <2>3. OwnerPending' <=> OwnerPending
    <3>1. ASSUME NEW n \in DOMAIN inbox, inbox[n].kind = "owner"
          PROVE  n - 1 \in DOMAIN inbox' /\ inbox'[n - 1].kind = "owner"
      BY <1>1, <1>3, <1>12, <3>1
    <3>2. ASSUME NEW n \in DOMAIN inbox', inbox'[n].kind = "owner"
          PROVE  n + 1 \in DOMAIN inbox /\ inbox[n + 1].kind = "owner"
      BY <1>1, <1>3, <3>2
    <3> QED
      BY <2>1, <3>1, <3>2 DEF OwnerPending
  <2>4. Waking' /\ Missed'
    BY <2>1 DEF Waking, Missed
  <2>5. Shown'
    BY <1>1, <2>1 DEF AInv, Shown
  <2>6. Behind'
    BY <1>1, <1>5, <2>3 DEF AInv, Behind
  <2>7. ASSUME NEW R, NEW a, NEW here, NEW c,
               Leads(R, unapplied, a, here), <<m, here, c>> \in R,
               ~m.fresh => here = c
        PROVE  Leads(R, unapplied', a, c)
    <3>1. CASE m.fresh
      BY <1>3, <2>1, <2>7, <3>1, LeadsAppend
    <3>2. CASE ~m.fresh
      BY <2>1, <2>7, <3>2
    <3> QED
      BY <3>1, <3>2
  <2>8. CachesLead'
    <3> SUFFICES ASSUME ~OwnerPending', NEW i \in Indices \ lost',
                        cache'[i] # None, objects'[i] # None
                 PROVE  Chain(i)'
      BY DEF CachesLead
    <3>1. Chain(i)
      BY <1>1, <1>5, <2>3 DEF AInv, CachesLead
    <3>2. PICK here \in Props, there \in Props :
            /\ Leads(DeviceSteps(i), unapplied, cache[i], here)
            /\ Leads(DeviceSteps(i), inbox, here, there)
            /\ IsNow(i, there)
      BY <3>1 DEF Chain
    <3>3. PICK c : <<m, here, c>> \in DeviceSteps(i)
                   /\ Leads(DeviceSteps(i), Tail(inbox), c, there)
      BY <1>1, <1>3, <3>2, LeadsTail DEF m
    <3>4. c \in Props
      BY <3>3, DeviceStepIs
    <3>5. Leads(DeviceSteps(i), unapplied', cache'[i], c)
      BY <1>1, <1>7, <2>7, <3>2, <3>3
    <3>6. Leads(DeviceSteps(i), inbox', c, there) /\ IsNow(i, there)'
      BY <1>1, <1>5, <3>2, <3>3
    <3> QED
      BY <3>4, <3>5, <3>6, ChainNext
  <2>9. ListLeads'
    <3>1. CASE list = None
      BY <1>1, <3>1 DEF ListLeads
    <3>2. CASE list # None
      <4>1. PICK here \in SUBSET Indices, there \in SUBSET Indices :
              /\ Leads(ListSteps, unapplied, list, here)
              /\ Leads(ListSteps, inbox, here, there)
              /\ ListIsNow(there)
        BY <3>2 DEF AInv, ListLeads
      <4>2. PICK c : <<m, here, c>> \in ListSteps
                     /\ Leads(ListSteps, Tail(inbox), c, there)
        BY <1>1, <1>3, <4>1, LeadsTail DEF m
      <4>3. c \in SUBSET Indices
        BY <4>2, ListStepIs
      <4>4. Leads(ListSteps, unapplied', list', c)
        BY <1>1, <1>8, <2>7, <4>1, <4>2
      <4>5. Leads(ListSteps, inbox', c, there) /\ ListIsNow(there)'
        BY <1>1, <1>5, <4>1, <4>2
      <4> QED
        BY <4>3, <4>4, <4>5, ListNext
    <3> QED
      BY <3>1, <3>2
  <2> QED
    BY <1>5, <1>6, <1>9, <1>10, <2>2, <2>4, <2>5, <2>6, <2>8, <2>9 DEF AInv
<1> QED
  BY <1>11, <1>12


LEMMA ApplySignalKept ==
  ASSUME AInv, ApplySignal PROVE AInv'
<1> DEFINE m == Head(unapplied)
<1>1. /\ unapplied # <<>> /\ unapplied' = Tail(unapplied)
      /\ UNCHANGED <<mirror, faults, inbox, signalled, owner_changes, client,
                     failed, todo, out, window, turnover>>
      /\ \/ ~m.fresh /\ UNCHANGED <<list, cache>>
         \/ /\ m.fresh /\ m.kind = "root"
            /\ list' = IF list = None THEN None ELSE m.devices
            /\ UNCHANGED cache
         \/ /\ m.fresh /\ m.kind = "device"
            /\ cache' = [cache EXCEPT ![m.index] =
                           IF @ = None THEN None ELSE Apply(@, m.old, m.new)]
            /\ UNCHANGED list
  BY DEF ApplySignal, caches, fetch
<1>2. unapplied \in Seq(Message) /\ m \in Message
      /\ Tail(unapplied) \in Seq(Message)
  BY <1>1, QueuesTyped DEF AInv
<1>3. cache \in [Indices -> Option(Props)] /\ list \in Option(SUBSET Indices)
  BY DEF AInv, ClientTypeOK
<1> HIDE DEF m
<1>4. /\ m.kind = "device" => m.index \in Indices /\ m.old \in Props
                              /\ m.new \in Props
      /\ m.kind = "root" => m.devices \in SUBSET Indices
  BY <1>2 DEF Message
<1>5. /\ UNCHANGED <<at, gone, present, next_index, objects, devices, lost>>
      /\ IInv' /\ \A i \in devices' : i < next_index'
      /\ \A i, props : IsNow(i, props) => IsNow(i, props)'
      /\ \A indices : ListIsNow(indices) => ListIsNow(indices)'
  BY <1>1, MirrorKept
<1>6. signalled /\ client # "retrying"
  BY <1>1 DEF AInv, Waking, Blank
<1>7. /\ list' \in Option(SUBSET Indices)
      /\ list' = None <=> list = None
  BY <1>1, <1>3, <1>4, CachesAssumption DEF Option
<1>8. ASSUME NEW i \in Indices
      PROVE  cache'[i] = IF m.fresh /\ m.kind = "device" /\ m.index = i
                         THEN IF cache[i] = None THEN None
                              ELSE Apply(cache[i], m.old, m.new)
                         ELSE cache[i]
  BY <1>1, <1>3, <1>4
<1>9. cache' \in [Indices -> Option(Props)]
      /\ \A i \in Indices : cache'[i] # None => cache[i] # None
  <2>1. ASSUME NEW i \in Indices
        PROVE  /\ cache'[i] \in Option(Props)
               /\ cache'[i] # None => cache[i] # None
    <3>1. CASE cache[i] = None
      BY <1>8, <3>1 DEF Option
    <3>2. CASE cache[i] # None
      <4>1. cache[i] \in Props
        BY <1>3, <3>2 DEF Option
      <4> QED
        BY <1>4, <1>8, <3>2, <4>1, AppliedTyped DEF Option
    <3> QED
      BY <3>1, <3>2
  <2>2. cache' = [i \in Indices |-> cache'[i]]
    BY <1>1, <1>3
  <2> QED
    BY <2>1, <2>2
<1>10. ClientTypeOK'
  BY <1>1, <1>2, <1>7, <1>9 DEF AInv, ClientTypeOK, Uncached
<1>11. OwnerPending' <=> OwnerPending
  BY <1>1 DEF OwnerPending
<1>12. Blank' /\ Behind'
  BY <1>1, <1>5, <1>6, <1>9, <1>11 DEF AInv, Blank, Behind
<1>13. Waking' /\ Missed'
  BY <1>1, <1>6 DEF Waking, Missed
<1>14. Shown' /\ Failing'
  <2>1. failed \ {None} \subseteq Indices
    BY DEF AInv, ClientTypeOK, Option
  <2> QED
    BY <1>1, <1>6, <1>7, <1>9, <2>1 DEF AInv, Shown, Failing
<1>15. CachesLead'
  <2> SUFFICES ASSUME ~OwnerPending', NEW i \in Indices \ lost',
                      cache'[i] # None, objects'[i] # None
               PROVE  Chain(i)'
    BY DEF CachesLead
  <2>1. Chain(i) /\ cache[i] # None
    BY <1>5, <1>9, <1>11 DEF AInv, CachesLead
  <2>2. PICK here \in Props, there \in Props :
          /\ Leads(DeviceSteps(i), unapplied, cache[i], here)
          /\ Leads(DeviceSteps(i), inbox, here, there)
          /\ IsNow(i, there)
    BY <2>1 DEF Chain
  <2>3. PICK c : <<m, cache[i], c>> \in DeviceSteps(i)
                 /\ Leads(DeviceSteps(i), Tail(unapplied), c, here)
    BY <1>1, <1>2, <2>2, LeadsTail DEF m
  <2>4. cache'[i] = c
    <3>1. CASE m.fresh /\ m.kind = "device" /\ m.index = i
      <4>1. cache[i] \in Props /\ cache[i] \in {m.old, m.new} /\ c = m.new
        BY <2>3, <3>1, DeviceStepIs
      <4> QED
        BY <1>4, <1>8, <2>1, <3>1, <4>1, AppliedRight
    <3>2. CASE ~(m.fresh /\ m.kind = "device" /\ m.index = i)
      BY <1>8, <2>3, <3>2, DeviceStepIs
    <3> QED
      BY <3>1, <3>2
  <2>5. Leads(DeviceSteps(i), unapplied', cache'[i], here)
    BY <1>1, <2>3, <2>4
  <2>6. Leads(DeviceSteps(i), inbox', here, there) /\ IsNow(i, there)'
    BY <1>1, <1>5, <2>2
  <2> QED
    BY <2>5, <2>6, ChainNext
<1>16. ListLeads'
  <2>1. CASE list = None
    BY <1>7, <2>1 DEF ListLeads
  <2>2. CASE list # None
    <3>1. PICK here \in SUBSET Indices, there \in SUBSET Indices :
            /\ Leads(ListSteps, unapplied, list, here)
            /\ Leads(ListSteps, inbox, here, there)
            /\ ListIsNow(there)
      BY <2>2 DEF AInv, ListLeads
    <3>2. PICK c : <<m, list, c>> \in ListSteps
                   /\ Leads(ListSteps, Tail(unapplied), c, here)
      BY <1>1, <1>2, <3>1, LeadsTail DEF m
    <3>3. list' = c
      BY <1>1, <2>2, <3>2, ListStepIs
    <3>4. Leads(ListSteps, unapplied', list', here)
      BY <1>1, <3>2, <3>3
    <3>5. Leads(ListSteps, inbox', here, there) /\ ListIsNow(there)'
      BY <1>1, <1>5, <3>1
    <3> QED
      BY <3>4, <3>5, ListNext
  <2> QED
    BY <2>1, <2>2
<1>17. Unturned'
  <2> SUFFICES ASSUME ~turnover' PROVE Unturned'
    BY DEF Unturned
  <2>1. Unturned /\ ~turnover
    BY <1>1 DEF AInv
  <2>2. \A n \in DOMAIN unapplied' : Used(unapplied'[n].devices)
    BY <1>1, <1>2, <2>1, QueuesTyped DEF AInv, Unturned
  <2>3. Used(m.devices)
    BY <1>1, <2>1, QueuesTyped DEF m, AInv, Unturned
  <2>4. list' # None => Used(list')
    BY <1>1, <2>1, <2>3 DEF Unturned
  <2> QED
    BY <1>1, <1>5, <2>1, <2>2, <2>4 DEF Unturned, Used
<1> QED
  BY <1>5, <1>10, <1>12, <1>13, <1>14, <1>15, <1>16, <1>17 DEF AInv


-----------------------------------------------------------------------------
(* The client *)

LEMMA PassedOver ==
  ASSUME AInv, NEW kind \in {"device", "root"}, NEW i, PassOver(kind, i),
         UNCHANGED owner_changes
  PROVE  /\ inbox' \in Seq(Message) /\ unapplied' \in Seq(Message)
         /\ OwnerPending' <=> OwnerPending
         /\ inbox' # <<>> <=> inbox # <<>>
         /\ unapplied' # <<>> <=> unapplied # <<>>
         /\ Unturned /\ ~turnover =>
              /\ \A n \in DOMAIN inbox' : Used(inbox'[n].devices)
              /\ \A n \in DOMAIN unapplied' : Used(unapplied'[n].devices)
<1>1. inbox \in Seq(Message) /\ unapplied \in Seq(Message)
      /\ inbox' = Stale(inbox, kind, i)
      /\ unapplied' = Stale(unapplied, kind, i)
  BY DEF AInv, ClientTypeOK, PassOver
<1>2. /\ inbox' \in Seq(Message) /\ unapplied' \in Seq(Message)
      /\ Len(inbox') = Len(inbox) /\ Len(unapplied') = Len(unapplied)
      /\ DOMAIN inbox' = DOMAIN inbox /\ DOMAIN unapplied' = DOMAIN unapplied
      /\ \A n \in 1..Len(inbox) : /\ inbox'[n].kind = inbox[n].kind
                                   /\ inbox'[n].devices = inbox[n].devices
      /\ \A n \in 1..Len(unapplied) :
           unapplied'[n].devices = unapplied[n].devices
  BY <1>1, StaleIs
<1>3. DOMAIN inbox = 1..Len(inbox) /\ DOMAIN unapplied = 1..Len(unapplied)
  BY <1>1, LenProperties
<1>4. OwnerPending' <=> OwnerPending
  BY <1>2, <1>3 DEF OwnerPending
<1>5. \A q \in Seq(Message) : q = <<>> <=> Len(q) = 0
  BY EmptySeq
<1>6. Unturned /\ ~turnover =>
        /\ \A n \in DOMAIN inbox' : Used(inbox'[n].devices)
        /\ \A n \in DOMAIN unapplied' : Used(unapplied'[n].devices)
  BY <1>2, <1>3 DEF Unturned
<1> QED
  BY <1>1, <1>2, <1>4, <1>5, <1>6

\* A fetch begins with a list, from the cache or from the daemon.
LEMMA RetainKept ==
  ASSUME AInv, NEW indices \in SUBSET Indices,
         UNCHANGED <<mirror, faults, signalled, owner_changes, window,
                     turnover>>,
         None \notin failed,
         Unturned /\ ~turnover =>
           /\ Used(indices)
           /\ \A n \in DOMAIN inbox' : Used(inbox'[n].devices)
           /\ \A n \in DOMAIN unapplied' : Used(unapplied'[n].devices),
         list' = indices, Retain(indices),
         inbox' \in Seq(Message), unapplied' \in Seq(Message),
         OwnerPending' <=> OwnerPending,
         unapplied' # <<>> => unapplied # <<>>,
         \A i \in Indices : \A a, b :
           /\ Leads(DeviceSteps(i), inbox, a, b)
              => Leads(DeviceSteps(i), inbox', a, b)
           /\ Leads(DeviceSteps(i), unapplied, a, b)
              => Leads(DeviceSteps(i), unapplied', a, b),
         ListLeads'
  PROVE  AInv'
<1>1. /\ cache' = [i \in Indices |-> IF i \in indices THEN cache[i] ELSE None]
      /\ failed' = failed \cap indices
      /\ todo' = indices /\ out' = Uncached /\ client' = "reading"
  BY DEF Retain
<1>2. /\ UNCHANGED <<at, gone, present, next_index, objects, devices, lost>>
      /\ IInv' /\ \A i \in devices' : i < next_index'
      /\ \A i, props : IsNow(i, props) => IsNow(i, props)'
  BY MirrorKept
<1>3. cache \in [Indices -> Option(Props)]
  BY DEF AInv, ClientTypeOK
<1>4. \A i \in Indices : cache'[i] # None => cache'[i] = cache[i]
  BY <1>1
<1>5. ClientTypeOK'
  <2>1. cache' \in [Indices -> Option(Props)]
        /\ out' \in [Indices -> Option(Props)]
    BY <1>1, <1>3 DEF Option, Uncached
  <2> QED
    BY <1>1, <2>1 DEF AInv, ClientTypeOK, ClientStage, Option
<1>6. Blank' /\ Behind'
  BY <1>1, <1>2, <1>4 DEF AInv, Blank, Behind
<1>7. Waking'
  BY DEF AInv, Waking
<1>8. Shown'
  BY <1>1, CachesAssumption DEF Shown, Uncached
<1>9. Missed' /\ Failing'
  <2>1. failed' \ {None} \subseteq Indices
        /\ \A i \in failed' \ {None} : cache[i] = None
    BY <1>1 DEF AInv, ClientTypeOK, Failing, Option
  <2> QED
    BY <1>1, <2>1 DEF Missed, Failing
<1>10. CachesLead'
  <2> SUFFICES ASSUME ~OwnerPending', NEW i \in Indices \ lost',
                      cache'[i] # None, objects'[i] # None
               PROVE  Chain(i)'
    BY DEF CachesLead
  <2>1. Chain(i) /\ cache'[i] = cache[i]
    BY <1>2, <1>4 DEF AInv, CachesLead
  <2>2. PICK here \in Props, there \in Props :
          /\ Leads(DeviceSteps(i), unapplied, cache[i], here)
          /\ Leads(DeviceSteps(i), inbox, here, there)
          /\ IsNow(i, there)
    BY <2>1 DEF Chain
  <2>3. Leads(DeviceSteps(i), unapplied', cache'[i], here)
    BY <2>1, <2>2
  <2>4. Leads(DeviceSteps(i), inbox', here, there) /\ IsNow(i, there)'
    BY <1>2, <2>2
  <2> QED
    BY <2>3, <2>4, ChainNext
<1>11. Unturned'
  <2> SUFFICES ASSUME ~turnover' PROVE Unturned'
    BY DEF Unturned
  <2>1. Unturned /\ ~turnover
    BY DEF AInv
  <2> QED
    BY <1>1, <1>2, <2>1 DEF Unturned, Used
<1> QED
  BY <1>2, <1>5, <1>6, <1>7, <1>8, <1>9, <1>10, <1>11 DEF AInv

LEMMA FetchListKept ==
  ASSUME AInv, FetchList PROVE AInv'
<1>1. /\ client = "fetching"
      /\ UNCHANGED <<mirror, faults, signalled, owner_changes, turnover>>
  BY DEF FetchList
<1>2. inbox \in Seq(Message) /\ unapplied \in Seq(Message)
  BY DEF AInv, ClientTypeOK
<1>3. CASE list # None /\ Retain(list)
           /\ UNCHANGED <<list, inbox, unapplied, window>>
  <2>1. list \in SUBSET Indices
    BY <1>3 DEF AInv, ClientTypeOK, Option
  <2>2. PICK indices \in SUBSET Indices : indices = list
    BY <2>1
  <2>3. Retain(indices) /\ list' = indices
    BY <1>3, <2>2
  <2>4. OwnerPending' <=> OwnerPending
    BY <1>1, <1>3 DEF OwnerPending
  <2>5. ListLeads'
    BY <1>1, <1>3, ListKept, MirrorKept DEF AInv
  <2>6. \A i \in Indices : \A a, b :
          /\ Leads(DeviceSteps(i), inbox, a, b)
             => Leads(DeviceSteps(i), inbox', a, b)
          /\ Leads(DeviceSteps(i), unapplied, a, b)
             => Leads(DeviceSteps(i), unapplied', a, b)
    BY <1>3
  <2>7. None \notin failed
    BY <1>3 DEF AInv, Failing
  <2>8. Unturned /\ ~turnover =>
          /\ Used(indices)
          /\ \A n \in DOMAIN inbox' : Used(inbox'[n].devices)
          /\ \A n \in DOMAIN unapplied' : Used(unapplied'[n].devices)
    BY <1>3, <2>2 DEF Unturned
  <2> QED
    BY <1>1, <1>2, <1>3, <2>3, <2>4, <2>5, <2>6, <2>7, <2>8, RetainKept
<1>4. CASE list = None /\ None \notin failed /\ list' = devices
           /\ PassOver("root", None) /\ Retain(devices) /\ UNCHANGED window
  <2>1. PICK indices \in SUBSET Indices : indices = devices
    BY MirrorTyped DEF AInv
  <2>2. Retain(indices) /\ list' = indices
    BY <1>4, <2>1
  <2>3. /\ inbox' \in Seq(Message) /\ unapplied' \in Seq(Message)
        /\ OwnerPending' <=> OwnerPending
        /\ unapplied' # <<>> <=> unapplied # <<>>
        /\ Unturned /\ ~turnover =>
             /\ \A n \in DOMAIN inbox' : Used(inbox'[n].devices)
             /\ \A n \in DOMAIN unapplied' : Used(unapplied'[n].devices)
    BY <1>1, <1>4, PassedOver
  <2>4. inbox' = Stale(inbox, "root", None)
        /\ unapplied' = Stale(unapplied, "root", None)
    BY <1>4 DEF PassOver
  <2>5. \A i \in Indices : \A a, b :
          /\ Leads(DeviceSteps(i), inbox, a, b)
             => Leads(DeviceSteps(i), inbox', a, b)
          /\ Leads(DeviceSteps(i), unapplied, a, b)
             => Leads(DeviceSteps(i), unapplied', a, b)
    BY <1>2, <2>4, OthersLead
  <2>6. /\ Leads(ListSteps, unapplied', list', indices)
        /\ Leads(ListSteps, inbox', indices, indices)
    BY <1>2, <2>2, <2>4, ListFilledLeads
  <2>7. ListIsNow(indices)'
    BY <1>1, <2>1, MirrorKept DEF ListIsNow
  <2>8. ListLeads'
    BY <2>6, <2>7, ListNext
  <2>9. Used(indices)
    BY <2>1 DEF AInv, Behind, Used
  <2> QED
    BY <1>1, <1>4, <2>2, <2>3, <2>5, <2>8, <2>9, RetainKept
<1>5. CASE /\ list = None
           /\ None \in failed \/ at = "connecting"
           /\ failed' = failed \cup {None}
           /\ window' = None /\ client' = "waiting"
           /\ UNCHANGED <<list, cache, fetch, inbox, unapplied>>
  <2>1. /\ UNCHANGED <<list, cache, todo, out, inbox, unapplied>>
        /\ window' = None /\ client' = "waiting"
        /\ failed' = failed \cup {None}
    BY <1>5 DEF fetch
  <2>2. /\ UNCHANGED <<at, gone, present, next_index, objects, devices, lost>>
        /\ IInv' /\ \A i \in devices' : i < next_index'
        /\ \A i, props : IsNow(i, props) => IsNow(i, props)'
        /\ \A indices : ListIsNow(indices) => ListIsNow(indices)'
    BY <1>1, MirrorKept
  <2>3. OwnerPending' <=> OwnerPending
    BY <1>1, <2>1 DEF OwnerPending
  <2>4. ClientTypeOK'
    BY <1>1, <2>1 DEF AInv, ClientTypeOK, ClientStage, Option, Uncached
  <2>5. Blank' /\ Behind' /\ Waking'
    BY <1>1, <2>1, <2>2, <2>3 DEF AInv, Blank, Behind, Waking
  <2>6. Shown' /\ Missed'
    BY <1>5, <2>1 DEF Shown, Missed
  <2>7. ListLeads'
    BY <2>1, <2>2, ListKept DEF AInv
  <2>8. CachesLead'
    BY <2>1, <2>2, <2>3, ChainKept DEF AInv, CachesLead
  <2>9. Failing'
    BY <1>5, <2>1 DEF AInv, Failing
  <2>10. Unturned'
    <3> SUFFICES ASSUME ~turnover' PROVE Unturned'
      BY DEF Unturned
    <3>1. Unturned /\ ~turnover
      BY <1>1 DEF AInv
    <3>2. at = "connecting"
      BY <1>5, <3>1 DEF Unturned
    <3> QED
      BY <2>1, <2>2, <3>1, <3>2 DEF Unturned, Used
  <2> QED
    BY <2>2, <2>4, <2>5, <2>6, <2>7, <2>8, <2>9, <2>10 DEF AInv
<1> QED
  BY <1>3, <1>4, <1>5 DEF FetchList


LEMMA FetchDeviceKept ==
  ASSUME AInv, NEW i \in Indices, FetchDevice(i) PROVE AInv'
<1>1. /\ client = "reading" /\ i \in todo /\ todo' = todo \ {i}
      /\ UNCHANGED <<mirror, faults, signalled, owner_changes, client, list,
                     window, turnover>>
      /\ \/ Reread(i) \/ Fill(i)
         \/ /\ Unreadable(i) /\ failed' = failed \cup {i}
            /\ UNCHANGED <<cache, out, inbox, unapplied>>
  BY DEF FetchDevice
<1>2. /\ UNCHANGED <<at, gone, present, next_index, objects, devices, lost,
                     Indexed>>
      /\ IInv' /\ \A j \in devices' : j < next_index'
      /\ \A j, props : IsNow(j, props) => IsNow(j, props)'
      /\ \A indices : ListIsNow(indices) => ListIsNow(indices)'
  BY <1>1, MirrorKept
<1>3. /\ inbox \in Seq(Message) /\ unapplied \in Seq(Message)
      /\ cache \in [Indices -> Option(Props)]
      /\ out \in [Indices -> Option(Props)]
      /\ todo \subseteq Indices
      /\ list # None => list \subseteq Indices
  BY DEF AInv, ClientTypeOK, Option
<1>4. /\ list # None /\ \A j \in todo : out[j] = None
      /\ ~signalled => /\ todo \subseteq list
                       /\ \A j \in Indices \ todo :
                            out[j] = IF j \in list THEN cache[j] ELSE None
  BY <1>1 DEF AInv, Shown
<1>5. /\ ~signalled => \A j \in list \ todo : cache[j] = None => j \in failed
      /\ None \notin failed
      /\ \A j \in failed \ {None} : cache[j] = None
      /\ failed \ {None} \subseteq Indices
  BY <1>1, <1>4 DEF AInv, Missed, Failing, ClientTypeOK, Option
<1>6. CASE \/ Reread(i)
           \/ /\ Unreadable(i) /\ failed' = failed \cup {i}
              /\ UNCHANGED <<cache, out, inbox, unapplied>>
  <2>1. /\ UNCHANGED <<cache, inbox, unapplied>>
        /\ \/ /\ cache[i] # None /\ out' = [out EXCEPT ![i] = cache[i]]
              /\ UNCHANGED failed
           \/ /\ cache[i] = None
              /\ i \in failed \/ objects[i] = None
              /\ failed' = failed \cup {i} /\ UNCHANGED out
    BY <1>6 DEF Reread, Unreadable
  <2>2. /\ out' \in [Indices -> Option(Props)] /\ out'[i] = cache[i]
        /\ \A j \in Indices : j # i => out'[j] = out[j]
    BY <1>1, <1>3, <1>4, <2>1
  <2>3. OwnerPending' <=> OwnerPending
    BY <1>1, <2>1 DEF OwnerPending
  <2>4. ClientTypeOK'
    BY <1>1, <2>1, <2>2 DEF AInv, ClientTypeOK, Option
  <2>5. Blank' /\ Behind' /\ Waking'
    BY <1>1, <1>2, <2>1, <2>3 DEF AInv, Blank, Behind, Waking
  <2>6. Shown'
    <3>1. client' = "reading" /\ list' # None
          /\ \A j \in todo' : out'[j] = None
      BY <1>1, <1>3, <1>4, <2>2
    <3>2. ASSUME ~signalled', NEW j \in Indices \ todo'
          PROVE  out'[j] = IF j \in list' THEN cache'[j] ELSE None
      BY <1>1, <1>4, <2>1, <2>2, <3>2
    <3>3. ~signalled' => todo' \subseteq list'
      BY <1>1, <1>4
    <3> QED
      BY <3>1, <3>2, <3>3 DEF Shown
  <2>7. Missed' /\ Failing'
    <3>1. None \notin failed' /\ \A j \in failed' \ {None} : cache[j] = None
      BY <1>5, <2>1, MirrorTyped DEF AInv
    <3>2. /\ failed \subseteq failed'
          /\ cache[i] = None => i \in failed'
      BY <2>1
    <3>3. Missed'
      BY <1>1, <1>4, <1>5, <2>1, <3>2 DEF Missed
    <3> QED
      BY <2>1, <3>1, <3>3 DEF Failing
  <2>8. CachesLead'
    BY <1>2, <2>1, <2>3, ChainKept DEF AInv, CachesLead
  <2>9. ListLeads'
    BY <1>1, <1>2, <2>1, ListKept DEF AInv
  <2>10. Unturned'
    <3> SUFFICES ASSUME ~turnover' PROVE Unturned'
      BY DEF Unturned
    <3>1. Unturned /\ ~turnover
      BY <1>1 DEF AInv
    <3>2. i < next_index /\ (i \in failed => objects[i] = None)
      BY <1>1, <1>3, <3>1, MirrorTyped DEF AInv, Unturned, Used
    <3>3. \A j \in failed' \ {None} : j < next_index /\ objects[j] = None
      BY <1>5, <2>1, <3>1, <3>2 DEF Unturned
    <3>4. None \notin failed'
      BY <1>1, <1>3, <1>5, <2>1, MirrorTyped DEF AInv
    <3> QED
      BY <1>1, <1>2, <2>1, <3>1, <3>3, <3>4 DEF Unturned, Used
  <2> QED
    BY <1>2, <2>4, <2>5, <2>6, <2>7, <2>8, <2>9, <2>10 DEF AInv
<1>7. CASE Fill(i)
  <2>0. cache[i] = None /\ i \notin failed /\ objects[i] # None
        /\ UNCHANGED failed
    BY <1>7 DEF Fill
  <2>1. PICK props \in Props : props = DeviceProps(objects[i])
    BY <2>0, MirrorTyped DEF AInv
  <2>2. /\ cache' = [cache EXCEPT ![i] = props]
        /\ out' = [out EXCEPT ![i] = props]
        /\ PassOver("device", i)
    BY <1>7, <2>1 DEF Fill
  <2>3. /\ inbox' = Stale(inbox, "device", i)
        /\ unapplied' = Stale(unapplied, "device", i)
    BY <2>2 DEF PassOver
  <2>4. /\ inbox' \in Seq(Message) /\ unapplied' \in Seq(Message)
        /\ OwnerPending' <=> OwnerPending
        /\ inbox' # <<>> <=> inbox # <<>>
        /\ unapplied' # <<>> <=> unapplied # <<>>
        /\ Unturned /\ ~turnover =>
             /\ \A n \in DOMAIN inbox' : Used(inbox'[n].devices)
             /\ \A n \in DOMAIN unapplied' : Used(unapplied'[n].devices)
    BY <1>1, <2>2, PassedOver
  <2>5. /\ cache' \in [Indices -> Option(Props)] /\ cache'[i] = props
        /\ out' \in [Indices -> Option(Props)] /\ out'[i] = props
        /\ \A j \in Indices : j # i => cache'[j] = cache[j] /\ out'[j] = out[j]
        /\ props # None
    BY <1>3, <2>2, CachesAssumption DEF Option
  <2>6. ClientTypeOK'
    BY <1>1, <2>0, <2>4, <2>5 DEF AInv, ClientTypeOK
  <2>7. Blank' /\ Waking'
    BY <1>1, <1>2, <2>4 DEF AInv, Blank, Waking
  <2>8. Behind'
    <3>1. i < next_index
      BY <2>0, MirrorTyped DEF AInv
    <3> QED
      BY <1>2, <2>4, <2>5, <3>1 DEF AInv, Behind
  <2>9. Shown'
    <3>1. client' = "reading" /\ list' # None
          /\ \A j \in todo' : out'[j] = None
      BY <1>1, <1>3, <1>4, <2>5
    <3>2. ASSUME ~signalled', NEW j \in Indices \ todo'
          PROVE  out'[j] = IF j \in list' THEN cache'[j] ELSE None
      BY <1>1, <1>4, <2>5, <3>2
    <3>3. ~signalled' => todo' \subseteq list'
      BY <1>1, <1>4
    <3> QED
      BY <3>1, <3>2, <3>3 DEF Shown
  <2>10. Missed' /\ Failing'
    <3>1. Missed'
      BY <1>1, <1>3, <1>4, <1>5, <2>0, <2>5 DEF Missed
    <3> QED
      BY <1>5, <2>0, <2>5, <3>1 DEF Failing
  <2>11. CachesLead'
    <3> SUFFICES ASSUME ~OwnerPending', NEW j \in Indices \ lost',
                        cache'[j] # None, objects'[j] # None
                 PROVE  Chain(j)'
      BY DEF CachesLead
    <3>1. CASE j = i
      <4>1. /\ Leads(DeviceSteps(j), unapplied', cache'[j], props)
            /\ Leads(DeviceSteps(j), inbox', props, props)
        BY <1>3, <2>3, <2>5, <3>1, FilledLeads
      <4>2. IsNow(j, props)'
        BY <1>2, <2>1, <3>1 DEF IsNow
      <4> QED
        BY <4>1, <4>2, ChainNext
    <3>2. CASE j # i
      <4>1. Chain(j) /\ cache'[j] = cache[j]
        BY <1>2, <2>4, <2>5, <3>2 DEF AInv, CachesLead
      <4>2. PICK here \in Props, there \in Props :
              /\ Leads(DeviceSteps(j), unapplied, cache[j], here)
              /\ Leads(DeviceSteps(j), inbox, here, there)
              /\ IsNow(j, there)
        BY <4>1 DEF Chain
      <4>3. Leads(DeviceSteps(j), unapplied', cache'[j], here)
        BY <1>3, <2>3, <3>2, <4>1, <4>2, OthersLead
      <4>4. Leads(DeviceSteps(j), inbox', here, there)
        BY <1>3, <2>3, <3>2, <4>2, OthersLead
      <4>5. IsNow(j, there)'
        BY <1>2, <4>2
      <4> QED
        BY <4>3, <4>4, <4>5, ChainNext
    <3> QED
      BY <3>1, <3>2
  <2>12. ListLeads'
    <3>1. PICK here \in SUBSET Indices, there \in SUBSET Indices :
            /\ Leads(ListSteps, unapplied, list, here)
            /\ Leads(ListSteps, inbox, here, there)
            /\ ListIsNow(there)
      BY <1>4 DEF AInv, ListLeads
    <3>2. /\ Leads(ListSteps, unapplied', list', here)
          /\ Leads(ListSteps, inbox', here, there)
      BY <1>1, <1>3, <2>3, <3>1, ListGoesOn
    <3>3. ListIsNow(there)'
      BY <1>2, <3>1
    <3> QED
      BY <3>2, <3>3, ListNext
  <2>13. Unturned'
    <3> SUFFICES ASSUME ~turnover' PROVE Unturned'
      BY DEF Unturned
    <3>1. Unturned /\ ~turnover
      BY <1>1 DEF AInv
    <3> QED
      BY <1>1, <1>2, <2>0, <2>4, <3>1 DEF Unturned, Used
  <2> QED
    BY <1>2, <2>6, <2>7, <2>8, <2>9, <2>10, <2>11, <2>12,
       <2>13 DEF AInv
<1> QED
  BY <1>1, <1>6, <1>7

\* What the window is sent is what the caches have.
LEMMA SendKept ==
  ASSUME AInv, Send PROVE AInv'
<1>1. /\ client = "reading" /\ todo = {} /\ window' = out /\ out' = Uncached
      /\ client' = "waiting"
      /\ UNCHANGED <<mirror, faults, inbox, unapplied, signalled,
                     owner_changes, list, cache, failed, todo, turnover>>
  BY DEF Send, streams, caches
<1>2. /\ UNCHANGED <<at, gone, present, next_index, objects, devices, lost,
                     Indexed>>
      /\ IInv' /\ \A j \in devices' : j < next_index'
      /\ \A j, props : IsNow(j, props) => IsNow(j, props)'
      /\ \A indices : ListIsNow(indices) => ListIsNow(indices)'
  BY <1>1, MirrorKept
<1>3. OwnerPending' <=> OwnerPending
  BY <1>1 DEF OwnerPending
<1>4. out \in [Indices -> Option(Props)]
  BY DEF AInv, ClientTypeOK
<1>5. ClientTypeOK'
  <2>1. out' \in [Indices -> Option(Props)]
    BY <1>1 DEF Uncached, Option
  <2>2. window' \in Option([Indices -> Option(Props)])
    BY <1>1, <1>4 DEF Option
  <2> QED
    BY <1>1, <2>1, <2>2 DEF AInv, ClientTypeOK, ClientStage
<1>6. Blank' /\ Behind' /\ Waking'
  BY <1>1, <1>2, <1>3 DEF AInv, Blank, Behind, Waking
<1>7. Shown'
  <2>1. list # None
    BY <1>1 DEF AInv, Shown
  <2>2. ~signalled =>
          \A j \in Indices : out[j] = IF j \in list THEN cache[j] ELSE None
    BY <1>1 DEF AInv, Shown
  <2>3. ~signalled =>
          out = [j \in Indices |-> IF j \in list THEN cache[j] ELSE None]
    BY <1>4, <2>2
  <2>4. ~signalled' => window' =
          [j \in Indices |-> IF j \in list' THEN cache'[j] ELSE None]
    BY <1>1, <2>3
  <2>5. client' = "waiting" /\ list' # None
    BY <1>1, <2>1
  <2> QED
    BY <2>4, <2>5 DEF Shown
<1>8. Missed' /\ Failing'
  <2>1. None \notin failed
    BY <1>1 DEF AInv, Failing
  <2> QED
    BY <1>1, <2>1 DEF AInv, Missed, Failing
<1>9. CachesLead'
  BY <1>1, <1>2, <1>3, ChainKept DEF AInv, CachesLead
<1>10. ListLeads'
  BY <1>1, <1>2, ListKept DEF AInv
<1>11. Unturned'
  BY <1>1, <1>2 DEF AInv, Unturned, Used
<1> QED
  BY <1>2, <1>5, <1>6, <1>7, <1>8, <1>9, <1>10, <1>11 DEF AInv


\* It wakes, or begins to fetch: the caches are as they were, or all gone.
LEMMA AwayKept ==
  ASSUME AInv, client # "reading", client' \in {"fetching", "settling"},
         UNCHANGED <<mirror, faults, inbox, unapplied, list, todo, out,
                     window, turnover>>,
         signalled' \in BOOLEAN, owner_changes' \in Nat,
         unapplied # <<>> => signalled',
         \/ UNCHANGED <<cache, failed, owner_changes>>
         \/ cache' = Uncached /\ failed' = failed \cap {None}
  PROVE  AInv'
<1>1. /\ UNCHANGED <<at, gone, present, next_index, objects, devices, lost>>
      /\ IInv' /\ \A j \in devices' : j < next_index'
      /\ \A j, props : IsNow(j, props) => IsNow(j, props)'
      /\ \A indices : ListIsNow(indices) => ListIsNow(indices)'
  BY MirrorKept
<1>2. cache' \in [Indices -> Option(Props)]
  BY DEF AInv, ClientTypeOK, Uncached, Option
<1>3. ClientTypeOK'
  BY <1>2 DEF AInv, ClientTypeOK, ClientStage, Uncached
<1>4. \/ cache' = cache /\ (OwnerPending' <=> OwnerPending)
      \/ \A i \in Indices : cache'[i] = None
  BY DEF OwnerPending, Uncached
<1>5. Blank' /\ Behind' /\ Waking'
  BY <1>1, <1>4 DEF AInv, Blank, Behind, Waking
<1>6. Shown' /\ Missed' /\ Failing'
  <2>1. failed' \subseteq failed /\ failed \ {None} \subseteq Indices
    BY DEF AInv, ClientTypeOK, Option
  <2> QED
    BY <1>4, <2>1 DEF AInv, Shown, Missed, Failing
<1>7. CachesLead'
  BY <1>1, <1>4, ChainKept DEF AInv, CachesLead
<1>8. ListLeads'
  BY <1>1, ListKept DEF AInv
<1>9. Unturned'
  BY <1>1 DEF AInv, Unturned, Used
<1> QED
  BY <1>1, <1>3, <1>5, <1>6, <1>7, <1>8, <1>9 DEF AInv

LEMMA WokenKept ==
  ASSUME AInv, WakeOnSignal \/ Settle \/ WakeOnOwner \/ Fallback \/ Reconnect
  PROVE  AInv'
<1>1. signalled \in BOOLEAN /\ owner_changes \in Nat
      /\ (unapplied # <<>> => signalled)
  BY DEF AInv, ClientTypeOK, Waking
<1>2. CASE WakeOnSignal
  BY <1>1, <1>2, AwayKept DEF WakeOnSignal, caches, fetch
<1>3. CASE Settle
  BY <1>1, <1>3, AwayKept DEF Settle, caches, fetch
<1>4. CASE WakeOnOwner
  <2>1. owner_changes' \in Nat
    BY <1>1, <1>4 DEF WakeOnOwner
  <2> QED
    BY <1>1, <1>4, <2>1, AwayKept DEF WakeOnOwner, fetch
<1>5. CASE Fallback \/ Reconnect
  BY <1>1, <1>5, AwayKept DEF Fallback, Reconnect, streams, caches, fetch
<1> QED
  BY <1>2, <1>3, <1>4, <1>5

\* A client that lost its connection has forgotten everything.
LEMMA BusLostKept ==
  ASSUME AInv, BusLost PROVE AInv'
<1>1. /\ client' = "retrying" /\ inbox' = <<>> /\ unapplied' = <<>>
      /\ signalled' = FALSE /\ owner_changes' = 0
      /\ list' = None /\ cache' = Uncached /\ todo' = {} /\ out' = Uncached
      /\ failed' = {} /\ turnover' = FALSE
      /\ window' \in {window, None}
      /\ faults' \in 0..MaxFaults
      /\ UNCHANGED <<channel, unseen, at, snapshots, gone, rest, present,
                     next_index, objects, devices, signal, follower, served,
                     lost, wall, publishes>>
  BY ConstantsAssumption DEF BusLost, Fault, mirror, AInv, IInv, TypeOK
<1>2. IInv'
  <2>1. TypeOK' /\ Counted' /\ Paths'
    BY <1>1 DEF AInv, IInv, TypeOK, Counted, Pending, Paths
  <2>2. PassDone' /\ Told'
    BY <1>1 DEF AInv, IInv, PassDone, Settled, Indexed, Told, Knows
  <2> QED
    BY <2>1, <2>2 DEF IInv
<1>3. ClientTypeOK'
  <2>1. <<>> \in Seq(Message) /\ Uncached \in [Indices -> Option(Props)]
    BY DEF Uncached, Option
  <2> QED
    BY <1>1, <2>1 DEF AInv, ClientTypeOK, ClientStage, Option, Uncached
<1>4. \A i \in Indices : cache'[i] = None
  BY <1>1 DEF Uncached
<1>5. Blank' /\ Behind'
  BY <1>1, <1>4 DEF AInv, Blank, Behind, Uncached
<1>6. Waking' /\ Shown' /\ Missed' /\ Failing' /\ Unturned'
  BY <1>1 DEF Waking, Shown, Missed, Failing, Unturned, Used
<1>7. CachesLead' /\ ListLeads'
  BY <1>1, <1>4 DEF CachesLead, ListLeads
<1> QED
  BY <1>2, <1>3, <1>5, <1>6, <1>7 DEF AInv

-----------------------------------------------------------------------------
(* The invariant *)

LEMMA AppletInitInvariant == AppletInit => AInv
<1> SUFFICES ASSUME AppletInit PROVE AInv
  OBVIOUS
<1> USE DEF AppletInit
<1>1. IInv
  BY InitInvariant
<1>2. ClientTypeOK
  <2>1. <<>> \in Seq(Message) /\ Uncached \in [Indices -> Option(Props)]
    BY DEF Uncached, Option
  <2> QED
    BY <2>1 DEF ClientTypeOK, ClientStage, Option
<1>3. next_index = 0 /\ devices = {}
  BY DEF Init, ProcessStart
<1>4. Blank /\ Behind
  BY <1>3 DEF Blank, Behind, Uncached
<1>5. CachesLead /\ ListLeads
  BY DEF CachesLead, ListLeads, Uncached
<1>6. Waking /\ Shown /\ Missed /\ Failing /\ Unturned
  BY DEF Waking, Shown, Missed, Failing, Unturned, Used
<1> QED
  BY <1>1, <1>2, <1>4, <1>5, <1>6 DEF AInv

LEMMA AppletStutter ==
  ASSUME AInv, UNCHANGED appletVars PROVE AInv'
<1>1. UNCHANGED <<mirror, faults, clientVars, inbox, turnover>>
  BY DEF appletVars, clientVars, streams, caches, fetch
<1>2. /\ UNCHANGED <<at, gone, present, next_index, objects, devices, lost,
                     Indexed>>
      /\ IInv' /\ \A j \in devices' : j < next_index'
      /\ \A j, props : IsNow(j, props) => IsNow(j, props)'
      /\ \A indices : ListIsNow(indices) => ListIsNow(indices)'
  BY <1>1, MirrorKept
<1>3. /\ ClientTypeOK' /\ Waking' /\ Shown' /\ Missed' /\ Failing'
      /\ OwnerPending' <=> OwnerPending
  BY <1>1, <1>2, QuietStep
<1>4. Blank' /\ Behind'
  BY <1>1, <1>2, <1>3 DEF AInv, Blank, Behind, clientVars
<1>5. CachesLead'
  BY <1>1, <1>2, QuietChains
<1>6. ListLeads'
  BY <1>1, <1>2, ListKept DEF AInv, clientVars
<1>7. Unturned'
  BY <1>1, <1>2, QuietUnturned
<1> QED
  BY <1>2, <1>3, <1>4, <1>5, <1>6, <1>7 DEF AInv

LEMMA AppletStepInvariant == AInv /\ [AppletNext]_appletVars => AInv'
<1> SUFFICES ASSUME AInv, [AppletNext]_appletVars PROVE AInv'
  OBVIOUS
<1>1. CASE Publishes \/ DaemonStep \/ DaemonRestart
  BY <1>1, PublishesKept, DaemonStepKept, DaemonRestartKept
<1>2. CASE Deliver \/ ApplySignal
  BY <1>2, DeliverKept, ApplySignalKept
<1>3. CASE FetchList \/ Send
  BY <1>3, FetchListKept, SendKept
<1>4. ASSUME NEW i \in Indices, FetchDevice(i) PROVE AInv'
  BY <1>4, FetchDeviceKept
<1>5. CASE WakeOnSignal \/ Settle \/ WakeOnOwner \/ Fallback \/ Reconnect
  BY <1>5, WokenKept
<1>6. CASE BusLost
  BY <1>6, BusLostKept
<1>7. CASE UNCHANGED appletVars
  BY <1>7, AppletStutter
<1> QED
  BY <1>1, <1>2, <1>3, <1>4, <1>5, <1>6, <1>7 DEF AppletNext, ClientNext

LEMMA AppletInductive == AppletSpec => []AInv
<1> QED
  BY AppletInitInvariant, AppletStepInvariant, PTL DEF AppletSpec

-----------------------------------------------------------------------------
(* Theorems *)

(* applet dbus.rs:45-178: the client's variables keep their types, and it  *)
(* has a fetch under way only while it reads.                              *)
THEOREM ClientTypeCorrect == AppletSpec => []ClientTypeOK
<1>1. AInv => ClientTypeOK
  BY DEF AInv
<1> QED
  BY <1>1, AppletInductive, PTL

(* applet dbus.rs:89-91, 160-172: whatever signals cross a fetch, whatever *)
(* devices come and go and however often the daemon starts again, an idle  *)
(* client's window has exactly what an idle daemon serves, but for devices *)
(* whose proxies failed, and nothing at all if the daemon's did.           *)
THEOREM IdleShowsServed == AppletSpec => []ShowsWhatIsServed
<1>1. ASSUME AInv, ClientIdle, at = "waiting", lost = {},
             None \notin failed
      PROVE  window = Readable
  <2>1. /\ client = "waiting" /\ inbox = <<>> /\ unapplied = <<>>
        /\ ~signalled /\ owner_changes = 0
    BY <1>1 DEF ClientIdle
  <2>2. ~OwnerPending
    BY <2>1 DEF OwnerPending
  <2>3. /\ list # None
        /\ window = [i \in Indices |-> IF i \in list THEN cache[i] ELSE None]
    BY <1>1, <2>1 DEF AInv, Shown
  <2>4. list = devices \/ Unlisted
    <3>1. PICK here \in SUBSET Indices, there \in SUBSET Indices :
            /\ Leads(ListSteps, unapplied, list, here)
            /\ Leads(ListSteps, inbox, here, there)
            /\ ListIsNow(there)
      BY <1>1, <2>3 DEF AInv, ListLeads
    <3>2. list = here /\ here = there
      BY <2>1, <3>1, LeadsNowhere
    <3> QED
      BY <1>1, <3>1, <3>2 DEF ListIsNow
  <2>5. ASSUME NEW i \in Indices
        PROVE  (IF i \in list THEN cache[i] ELSE None)
                 = IF i \in failed THEN None ELSE Served[i]
    <3>1. Served[i] = IF i \in devices /\ objects[i] # None
                      THEN DeviceProps(objects[i]) ELSE None
      BY DEF Served
    <3>2. CASE i \in failed
      <4>1. cache[i] = None
        BY <1>1, <3>2 DEF AInv, Failing
      <4> QED
        BY <3>2, <4>1
    <3>3. CASE Unlisted
      <4>1. devices = {} /\ next_index = 0 /\ ~(i < 0)
        BY <1>1, <3>3, MirrorTyped DEF AInv, Unlisted
      <4>2. cache[i] = None
        BY <1>1, <2>2, <4>1 DEF AInv, Behind
      <4> QED
        BY <3>1, <4>1, <4>2
    <3>4. CASE list = devices /\ i \notin devices
      BY <3>1, <3>4
    <3>5. CASE list = devices /\ i \in devices /\ i \notin failed
      <4>1. objects[i] # None
        BY <1>1, <3>5 DEF AInv, IInv, PassDone, Paths, Indexed
      <4>2. cache[i] # None
        <5>1. todo = {}
          BY <1>1, <2>1 DEF AInv, ClientTypeOK
        <5> QED
          BY <1>1, <2>1, <2>3, <3>5, <5>1 DEF AInv, Missed
      <4>3. PICK here \in Props, there \in Props :
              /\ Leads(DeviceSteps(i), unapplied, cache[i], here)
              /\ Leads(DeviceSteps(i), inbox, here, there)
              /\ IsNow(i, there)
        BY <1>1, <2>2, <4>1, <4>2 DEF AInv, CachesLead, Chain
      <4>4. cache[i] = here /\ here = there
        BY <2>1, <4>3, LeadsNowhere
      <4> QED
        BY <1>1, <3>1, <3>5, <4>1, <4>3, <4>4 DEF IsNow
    <3> QED
      BY <2>4, <3>3, <3>4, <3>5, <3>2
  <2> QED
    BY <1>1, <2>3, <2>5 DEF Readable
<1>2. ASSUME AInv, None \in failed PROVE window = Readable
  BY <1>2 DEF AInv, Failing, Readable
<1>3. AInv => ShowsWhatIsServed
  BY <1>1, <1>2 DEF ShowsWhatIsServed
<1> QED
  BY <1>3, AppletInductive, PTL

(* applet dbus.rs:114-117, daemon dbus.rs:209-211: a client that has met   *)
(* one daemon only leaves out nothing that is served: skipped devices have *)
(* vanished for good, and a daemon that could not be read is not there.    *)
THEOREM SkippedHaveVanished == AppletSpec => []SkipsOnlyVanished
<1>1. AInv => SkipsOnlyVanished
  BY DEF AInv, Unturned, SkipsOnlyVanished
<1> QED
  BY <1>1, AppletInductive, PTL

(* applet dbus.rs:114-116: a fetch in which devices vanish still yields a  *)
(* list; only a daemon that is down or a lost connection shows as down.    *)
THEOREM DownOnlyWhenDown == AppletSpec => NeverFalselyDown
<1> DEFINE Down == window # None /\ window' = None =>
                     at = "connecting" \/ client' = "retrying"
<1>1. ASSUME AInv, [AppletNext]_appletVars,
             window # None, window' = None,
             at # "connecting", client' # "retrying"
      PROVE  FALSE
  <2>1. out # None
    BY <1>1, CachesAssumption DEF AInv, ClientTypeOK
  <2>2. ~UNCHANGED window
    BY <1>1
  <2>3. CASE Send
    BY <1>1, <2>1, <2>3 DEF Send
  <2>4. CASE FetchList
    BY <1>1, <2>2, <2>4 DEF FetchList, AInv, Failing
  <2>5. CASE BusLost
    BY <1>1, <2>5 DEF BusLost
  <2>6. CASE Publishes \/ DaemonStep \/ DaemonRestart \/ Deliver \/ ApplySignal
    BY <2>2, <2>6
    DEF Publishes, DaemonStep, DaemonRestart, Deliver, ApplySignal
  <2>7. CASE \/ \E i \in Indices : FetchDevice(i)
             \/ WakeOnSignal \/ Settle \/ WakeOnOwner \/ Reconnect \/ Fallback
    BY <2>2, <2>7
    DEF FetchDevice, WakeOnSignal, Settle, WakeOnOwner, Reconnect, Fallback
  <2>8. CASE UNCHANGED appletVars
    BY <2>2, <2>8 DEF appletVars
  <2> QED
    BY <1>1, <2>3, <2>4, <2>5, <2>6, <2>7, <2>8 DEF AppletNext, ClientNext
<1>2. AInv /\ [AppletNext]_appletVars => [Down]_appletVars
  BY <1>1
<1> QED
  BY <1>2, AppletInductive, PTL DEF AppletSpec, NeverFalselyDown
=============================================================================
