-------------------------------- MODULE Panel --------------------------------
(***************************************************************************)
(* The applet's window (applet/src/window.rs): its messages, the popup and *)
(* its timer, and what panel and popup show of the controllers whose       *)
(* reports came through the daemon and the D-Bus client (modules Wire,     *)
(* Registry, DBusMirror and Applet).                                       *)
(*                                                                         *)
(* The toolkit and the compositor are external: `update` handles one       *)
(* message at a time and is followed by a new `view` and `subscription`;   *)
(* popup commands reach the compositor in order and later; the compositor  *)
(* may close a popup on its own, and tells the applet of every popup it    *)
(* has closed on its own, and perhaps of those it was told to close.       *)
(***************************************************************************)
EXTENDS Wire, FiniteSets

CONSTANTS
  Controllers,  \* what controllers may have sent
  Lists,        \* lists of devices, by what their controllers have sent
  MaxPopups,    \* bound: popups opened
  MaxMessages,  \* bound: messages that wait for `update`
  Period        \* the popup's timer: 5 s, in ticks

(* A controller has sent a `status` or None, as hidraw pads it, and then   *)
(* another report, which is no status; after that it may have gone silent. *)
Sent ==
  [status : Status \cup {None}, padding : Seq(Byte), after : Seq(Byte),
   silent : BOOLEAN, stamp : Int]

ASSUME PanelAssumption ==
  /\ Controllers \subseteq Sent
  /\ \A c \in Controllers : Classify(c.after) # "Battery"
  /\ Lists \subseteq Seq(Controllers)
  /\ {MaxPopups, MaxMessages} \subseteq Nat
  /\ Period \in Nat \ {0}
  /\ None \notin Nat /\ None \notin BatteryStatus

VARIABLES
  popup,     \* Window::popup
  state,     \* Window::state, None while the daemon is unreachable
  ids,       \* window ids handed out
  messages,  \* waiting for `update`, oldest first
  commands,  \* popup commands on their way to the compositor
  surfaces,  \* popups on the screen
  timer,     \* time to the next Tick, None without the subscription
  told,      \* history: what the controllers behind `state` have sent
  rendered   \* history: time since the last `view`

screen == <<commands, surfaces>>
shown == <<state, told>>
vars == <<popup, state, ids, messages, commands, surfaces, timer, told,
          rendered>>

TogglePopup == [kind |-> "toggle", id |-> None]
CloseRequested(id) == [kind |-> "close", id |-> id]
Tick == [kind |-> "tick", id |-> None]
StateMessage(s) == [kind |-> "state", id |-> s]

-----------------------------------------------------------------------------
(* What the client sends *)

\* The snapshot of a device, from what its controller has sent.
Snapshot(c) ==
  LET reported == IF c.status = None THEN Unheard
                  ELSE Heard(Unheard, Encode(c.status) \o c.padding, c.stamp)
      heard == Heard(reported, c.after, c.stamp)
  IN IF c.silent /\ heard.connected THEN Swept(heard, c.stamp) ELSE heard

(* The client has read a device's properties at some earlier time and      *)
(* applied the signals since, or has read them just now.                   *)
Fetched(earlier, c) ==
  LET old == Snapshot(earlier)
      new == Snapshot(c)
  IN DeviceInfo(Signalled(Getters(old), DeviceProps(old), DeviceProps(new)))

\* A device is not mistaken for the absence of one.
ASSUME DeviceAssumption ==
  \A earlier, c \in Controllers : Fetched(earlier, c) # None

Arrivals ==
  {[told |-> list, state |-> [i \in DOMAIN list |-> Fetched(c, list[i])]] :
     list \in Lists, c \in Controllers}

Unreachable == [told |-> None, state |-> None]

-----------------------------------------------------------------------------
(* What is shown *)

\* Iterator::find
First(list, Holds(_)) ==
  LET found == {i \in DOMAIN list : Holds(list[i])} IN
  IF found = {} THEN None
  ELSE list[CHOOSE i \in found : \A j \in found : i <= j]

\* Mutant of Primary: the first with battery data.
PrimaryAny(s) == IF s = None THEN None ELSE First(s, HasBatteryData)

Primary(s) ==
  IF s = None THEN None
  ELSE LET live(dev) == dev.connected /\ HasBatteryData(dev) IN
       IF First(s, live) # None THEN First(s, live)
       ELSE First(s, HasBatteryData)

\* The nearest icon step.
Step(level) == (((IF level <= 100 THEN level ELSE 100) + 5) \div 10) * 10

\* battery_icon
BatteryIcon(s) ==
  LET dev == Primary(s) IN
  IF dev = None THEN <<"missing", 0>>
  ELSE IF ~(Charging(dev) \/ dev.charge_state.name = "ChargingDone")
       THEN <<"level", Step(dev.level)>>
  ELSE IF Step(dev.level) = 100 THEN <<"charged", 100>>
  ELSE <<"charging", Step(dev.level)>>

\* The number that `view` puts beside the icon, if any.
PanelLabel(s) == IF Primary(s) = None THEN None ELSE LevelLabel(Primary(s))

\* The devices that `view_window` lists.
Interesting(s) ==
  IF s = None THEN {}
  ELSE {s[i] : i \in {j \in DOMAIN s : s[j].connected \/ HasBatteryData(s[j])}}

-----------------------------------------------------------------------------
(* update, subscription *)

\* Mutant of Subscription: only devices to show are worth a timer.
SubscriptionWithDevices ==
  timer' = IF popup' = None \/ state' = None THEN None
           ELSE IF timer = None THEN Period ELSE timer

\* The timer exists while the popup does; an existing one runs on.
Subscription ==
  timer' = IF popup' = None THEN None
           ELSE IF timer = None THEN Period ELSE timer

OnToggle ==
  IF popup # None
  THEN /\ popup' = None
       /\ commands' = Append(commands, [op |-> "destroy", id |-> popup])
       /\ UNCHANGED ids
  ELSE /\ ids' = ids + 1 /\ popup' = ids + 1
       /\ commands' = Append(commands, [op |-> "get", id |-> ids + 1])

\* Mutant of OnClose: whichever popup was closed, ours is.
OnCloseAny(id) == popup' = None

OnClose(id) == popup' = IF popup = id THEN None ELSE popup

Update ==
  /\ messages # <<>>
  /\ messages' = Tail(messages)
  /\ LET m == Head(messages) IN
     \/ m.kind = "toggle" /\ OnToggle /\ UNCHANGED shown
     \/ m.kind = "close" /\ OnClose(m.id) /\ UNCHANGED <<shown, ids, commands>>
     \/ /\ m.kind = "state" /\ state' = m.id.state /\ told' = m.id.told
        /\ UNCHANGED <<popup, ids, commands>>
     \/ m.kind = "tick" /\ UNCHANGED <<popup, shown, ids, commands>>
  /\ Subscription
  /\ rendered' = 0
  /\ UNCHANGED surfaces

-----------------------------------------------------------------------------
(* User, client, compositor and time *)

Send(m) ==
  /\ Len(messages) < MaxMessages
  /\ messages' = Append(messages, m)

Press ==
  /\ ids + Cardinality({i \in DOMAIN messages : messages[i].kind = "toggle"})
       < MaxPopups
  /\ Send(TogglePopup)
  /\ UNCHANGED <<popup, shown, ids, screen, timer, rendered>>

\* Module Applet's Send; bound: one list waits at a time.
ClientSends(arrival) ==
  /\ \A i \in DOMAIN messages : messages[i].kind # "state"
  /\ Send(StateMessage(arrival))
  /\ UNCHANGED <<popup, shown, ids, screen, timer, rendered>>

Compose ==
  /\ commands # <<>>
  /\ commands' = Tail(commands)
  /\ LET c == Head(commands) IN
     \/ /\ c.op = "get"
        /\ surfaces' = surfaces \cup {c.id}
        /\ UNCHANGED messages
     \/ /\ c.op = "destroy"
        /\ surfaces' = surfaces \ {c.id}
        /\ Send(CloseRequested(c.id)) \/ UNCHANGED messages
  /\ UNCHANGED <<popup, shown, ids, timer, rendered>>

\* A click elsewhere, or the compositor's own reasons.
Dismiss ==
  \E id \in surfaces :
    /\ surfaces' = surfaces \ {id}
    /\ Send(CloseRequested(id))
    /\ UNCHANGED <<popup, shown, ids, commands, timer, rendered>>

Fire ==
  /\ timer = 0
  /\ Send(Tick)
  /\ timer' = Period
  /\ UNCHANGED <<popup, shown, ids, screen, rendered>>

Elapse ==
  /\ messages = <<>> /\ commands = <<>> /\ timer # 0
  /\ timer' = IF timer = None THEN None ELSE timer - 1
  /\ rendered' = IF rendered <= Period THEN rendered + 1 ELSE rendered
  /\ UNCHANGED <<popup, shown, ids, messages, screen>>

-----------------------------------------------------------------------------
(* Specification *)

Init ==
  /\ popup = None /\ state = None /\ told = None /\ ids = 0
  /\ messages = <<>> /\ commands = <<>> /\ surfaces = {}
  /\ timer = None /\ rendered = 0

Next ==
  \/ Update \/ Press \/ Compose \/ Dismiss \/ Fire \/ Elapse
  \/ \E arrival \in Arrivals \cup {Unreachable} : ClientSends(arrival)

Spec == Init /\ [][Next]_vars

-----------------------------------------------------------------------------
(* Properties *)

\* Commands on their way, and an end that the applet is about to hear of.
Ordered(op, id) ==
  \E i \in DOMAIN commands : commands[i].op = op /\ commands[i].id = id

Ended(id) ==
  \E i \in DOMAIN messages : messages[i].kind = "close" /\ messages[i].id = id

(* window.rs:231-251: applet and compositor agree on the popup.  Whatever  *)
(* is on the screen is the one the applet knows, never beside a second     *)
(* one, or is being destroyed: the late news of a popup's end must not     *)
(* cost the next popup its owner.  The one the applet believes in is on    *)
(* the screen, on its way there, or its end on its way to the applet: the  *)
(* next press never closes a popup that nobody sees.                       *)
PopupsAgree ==
  /\ \A a, b \in surfaces : a = b
  /\ \A id \in surfaces : popup = id \/ Ordered("destroy", id)
  /\ popup # None =>
       popup \in surfaces \/ Ordered("get", popup) \/ Ended(popup)

(* window.rs:34-35, 219-226: while the popup is open its ages are never    *)
(* older than the timer's period, whatever the daemon does.                *)
AgesAreFresh == popup # None => rendered <= Period

(* window.rs:39-47, 260-277, 303-327: panel and popup tell one story: the  *)
(* panel's number is that of a device the popup lists, a live one when     *)
(* there is one, and its icon exists and is the nearest to the number.     *)
PanelMatchesPopup ==
  LET label == PanelLabel(state)
      listed == Interesting(state)
      live == {dev \in listed : dev.connected /\ HasBatteryData(dev)}
      icon == BatteryIcon(state) IN
  /\ label = None <=> \A dev \in listed : ~HasBatteryData(dev)
  /\ label # None =>
       /\ \E dev \in IF live = {} THEN listed ELSE live :
            LevelLabel(dev) = label
       /\ icon[2] \in {10 * n : n \in 0..10}
       /\ label <= 100 => icon[2] - label \in -4..5

\* The codes of ChargeState that mean external power is charging.
ChargingCodes == {2, 3}

(* protocol.rs:3-6, 73-81: the applet has every value that a controller    *)
(* put into its report, or knows that there has been none, and has it as   *)
(* connected exactly if it sent something that only a controller that is   *)
(* on sends, and has not been silent since.                                *)
ShowsTheReport ==
  \A i \in IF state = None THEN {} ELSE DOMAIN state :
    LET dev == state[i]
        s == told[i].status
    IN
    /\ dev.connected <=> /\ ~told[i].silent
                         /\ s # None \/ (told[i].after # <<>> /\
                                          told[i].after[1] \in {66, 69})
    /\ IF s = None THEN ~HasBatteryData(dev) /\ dev.last_updated = 0
       ELSE /\ LevelLabel(dev) = s.level
            /\ dev.charge_state = ChargeState(s.code)
            /\ Charging(dev) <=> s.code \in ChargingCodes
            /\ \A f \in Analog : dev[f] = s[f]

(* dbus.rs:134-135: the list that the signals are computed from is in step *)
(* with the getters: what a client has from an earlier read and from       *)
(* signals is what it would get by reading again.                          *)
SignalsMatchGetters ==
  \A i \in IF state = None THEN {} ELSE DOMAIN state :
    state[i] = DeviceInfo(Getters(Snapshot(told[i])))
=============================================================================
