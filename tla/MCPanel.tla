------------------------------ MODULE MCPanel ------------------------------
(* Finite instances of Panel for TLC. *)
EXTENDS Panel

\* The words of a status all differ, and so do the bytes of each.
Telemetry(code, level, first) ==
  [code |-> code, level |-> level, battery_voltage |-> first,
   system_voltage |-> first + 1, input_voltage |-> 0, current |-> 255,
   input_current |-> 256, temperature |-> 29500]

Silent(c) == [c EXCEPT !.silent = TRUE]

Reported(status) ==
  [status |-> status, padding |-> <<255, 1>>, after |-> <<>>,
   silent |-> FALSE, stamp |-> 7]

\* Every charge state around the named ones with levels at the rounding of
\* the icons, empty, full and out of range, and a clock that is not set.
Low == Reported(Telemetry(1, 44, 3812))
Middle == [Reported(Telemetry(2, 45, 3813)) EXCEPT !.padding = <<>>]
High == Reported(Telemetry(3, 95, 3814))
Full == Reported(Telemetry(4, 100, 3815))
Empty == [Reported(Telemetry(0, 0, 3816)) EXCEPT !.stamp = -1]
Odd == Reported(Telemetry(5, 254, 65534))

\* Controllers that have sent no status: traffic over cable and air, an
\* unknown report, a status that is cut off, nothing.
Only(buf) == [Reported(None) EXCEPT !.after = buf]
Awake == Only([i \in 1..54 |-> 66])
AwakeByAir == Only([i \in 1..46 |-> 69])
Strange == Only([i \in 1..13 |-> 123])
Cut == Only(SubSeq(Encode(Low.status), 1, 14))
Nothing == Only(<<>>)

Telling == {Low, Middle, High, Full, Empty, Odd}
SomeControllers ==
  Telling \cup {Silent(c) : c \in Telling}
    \cup {Awake, AwakeByAir, Strange, Cut, Nothing, Silent(Awake)}

SomeLists ==
  {<<>>} \cup {<<c>> : c \in SomeControllers}
    \cup {<<Silent(Low), Middle>>, <<Awake, Silent(Low)>>,
          <<Silent(Middle), Silent(Low)>>, <<Full, Low>>}
=============================================================================
