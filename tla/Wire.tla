-------------------------------- MODULE Wire --------------------------------
(***************************************************************************)
(* What a controller's reports become on their way from the hidraw node to *)
(* the applet: classified and parsed (daemon/src/protocol.rs), kept        *)
(* (daemon/src/state.rs), served as D-Bus properties and signalled         *)
(* (daemon/src/dbus.rs), fetched and labelled (interface/src/lib.rs,       *)
(* applet/src/dbus.rs).  Only operators; bytes and numbers as they are.    *)
(***************************************************************************)
EXTENDS Integers, Sequences

CONSTANT None  \* no report, no battery, no time stamp

-----------------------------------------------------------------------------
(* Charge states *)

LEVEL_UNKNOWN == 255

\* The codes 0 to 4 by name.
Named == <<"Reset", "Discharging", "Charging", "SrcValidate",
           "ChargingDone">>

\* impl From<u8> for ChargeState
ChargeState(v) ==
  IF v < Len(Named) THEN [name |-> Named[v + 1], code |-> 0]
  ELSE [name |-> "Unknown", code |-> v]

AsU8(c) ==
  IF c.name = "Unknown" THEN c.code
  ELSE (CHOOSE i \in 1..Len(Named) : Named[i] = c.name) - 1

IsCharging(c) == c.name \in {"Charging", "SrcValidate"}

-----------------------------------------------------------------------------
(* Reports *)

REPORT_CONTROLLER_STATE == 66
REPORT_BATTERY_STATUS == 67
REPORT_CONTROLLER_STATE_BLE == 69
BATTERY_REPORT_LEN == 15

\* u16_le, its offset counted from zero as in the code.
U16Le(buf, off) == buf[off + 1] + 256 * buf[off + 2]

ParseBatteryReport(buf) ==
  IF Len(buf) < BATTERY_REPORT_LEN \/ buf[1] # REPORT_BATTERY_STATUS THEN None
  ELSE [charge_state |-> ChargeState(buf[2]),
        level |-> buf[3],
        battery_voltage |-> U16Le(buf, 3),
        system_voltage |-> U16Le(buf, 5),
        input_voltage |-> U16Le(buf, 7),
        current |-> U16Le(buf, 9),
        input_current |-> U16Le(buf, 11),
        temperature |-> U16Le(buf, 13)]

\* protocol::classify; None when the report means nothing.
Classify(buf) ==
  IF buf = <<>> THEN "None"
  ELSE IF buf[1] = REPORT_BATTERY_STATUS
       THEN IF ParseBatteryReport(buf) = None THEN "None" ELSE "Battery"
  ELSE IF buf[1] \in {REPORT_CONTROLLER_STATE, REPORT_CONTROLLER_STATE_BLE}
       THEN "Liveness"
  ELSE "Other"

Byte == 0..255
Word16 == 0..65535

\* struct BatteryStatus
BatteryStatus ==
  [charge_state : {ChargeState(v) : v \in Byte}, level : Byte,
   battery_voltage : Word16, system_voltage : Word16, input_voltage : Word16,
   current : Word16, input_current : Word16, temperature : Word16]

\* The controller's struct TritonBatteryStatus_t, packed, little-endian.  A
\* level is a percentage: 255 would say that there is none.
Status ==
  [code : Byte, level : Byte \ {LEVEL_UNKNOWN},
   battery_voltage : Word16, system_voltage : Word16, input_voltage : Word16,
   current : Word16, input_current : Word16, temperature : Word16]

Word(n) == <<n % 256, n \div 256>>

Encode(s) ==
  <<REPORT_BATTERY_STATUS, s.code, s.level>>
    \o Word(s.battery_voltage) \o Word(s.system_voltage)
    \o Word(s.input_voltage) \o Word(s.current)
    \o Word(s.input_current) \o Word(s.temperature)

-----------------------------------------------------------------------------
(* What the reader and the registry make of a buffer; which battery        *)
(* reports are inside the deadband is module Registry's matter.            *)

Unheard == [name |-> "controller", connected |-> FALSE, battery |-> None,
            last_updated |-> None]

\* Mutant of Heard: whatever is read is a sign of life.
HeardAnything(snap, buf, now) ==
  IF Classify(buf) = "Battery"
  THEN [snap EXCEPT !.connected = TRUE, !.battery = ParseBatteryReport(buf),
                    !.last_updated = now]
  ELSE [snap EXCEPT !.connected = TRUE]

Heard(snap, buf, now) ==
  CASE Classify(buf) = "Battery" ->
         [snap EXCEPT !.connected = TRUE,
                      !.battery = ParseBatteryReport(buf),
                      !.last_updated = now]
    [] Classify(buf) = "Liveness" -> [snap EXCEPT !.connected = TRUE]
    [] OTHER -> snap

Swept(snap, now) ==
  [snap EXCEPT !.connected = FALSE,
               !.last_updated = IF snap.battery = None THEN @ ELSE now]

-----------------------------------------------------------------------------
(* Properties of the Device interface.  A snapshot has its name, connected *)
(* flag, battery and last_updated, in seconds since 1970 or None.          *)

\* A time before 1970 has no duration since then.
LastUpdatedSecs(snap) ==
  IF snap.last_updated = None \/ snap.last_updated < 0 THEN 0
  ELSE snap.last_updated

Analog == {"battery_voltage", "system_voltage", "input_voltage", "current",
           "input_current", "temperature"}

\* `b.map_or(default, |b| b.field)`
Reading(snap, default, field) ==
  IF snap.battery = None THEN default ELSE snap.battery[field]

\* The getters of the interface, read by a client that asks for them.
Getters(snap) ==
  [p \in {"name", "connected", "charge_state", "level", "last_updated"}
           \cup Analog |->
     CASE p = "name" -> snap.name
       [] p = "connected" -> snap.connected
       [] p = "charge_state" -> IF snap.battery = None THEN 0
                                ELSE AsU8(snap.battery.charge_state)
       [] p = "level" -> Reading(snap, LEVEL_UNKNOWN, "level")
       [] p \in Analog -> Reading(snap, 0, p)
       [] p = "last_updated" -> LastUpdatedSecs(snap)]

Served(name, connected, charge_state, level, analog, last_updated) ==
  [p \in {"name", "connected", "charge_state", "level", "last_updated"}
           \cup Analog |->
     CASE p = "name" -> name
       [] p = "connected" -> connected
       [] p = "charge_state" -> charge_state
       [] p = "level" -> level
       [] p \in Analog -> analog[p]
       [] p = "last_updated" -> last_updated]

\* Mutant of DeviceProps: no report reads as an empty battery.
DevicePropsEmpty(snap) ==
  Served(snap.name, snap.connected,
         IF snap.battery = None THEN 0 ELSE AsU8(snap.battery.charge_state),
         Reading(snap, 0, "level"),
         [p \in Analog |-> Reading(snap, 0, p)], LastUpdatedSecs(snap))

\* device_props, the list `emit_changes` compares.
DeviceProps(snap) ==
  Served(snap.name, snap.connected,
         IF snap.battery = None THEN 0 ELSE AsU8(snap.battery.charge_state),
         Reading(snap, LEVEL_UNKNOWN, "level"),
         [p \in Analog |-> Reading(snap, 0, p)], LastUpdatedSecs(snap))

\* The properties emit_changes signals.
Changes(old, new) == {p \in DOMAIN new : new[p] # old[p]}

\* A client's cache of a device after that signal.
Signalled(cache, old, new) ==
  [p \in DOMAIN cache |-> IF p \in Changes(old, new) THEN new[p]
                          ELSE cache[p]]

-----------------------------------------------------------------------------
(* The applet's view of a device *)

\* fetch_device
DeviceInfo(props) ==
  [props EXCEPT !["charge_state"] = ChargeState(props["charge_state"])]

HasBatteryData(dev) == dev.level # LEVEL_UNKNOWN

Charging(dev) == IsCharging(dev.charge_state)

LevelLabel(dev) == IF HasBatteryData(dev) THEN dev.level ELSE None
=============================================================================
