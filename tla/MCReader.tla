------------------------------ MODULE MCReader ------------------------------
(* Finite instances of Reader for TLC. *)
EXTENDS Reader

\* A controller with one node, or one with several (USB, Bluetooth).
ToOneKey == [n \in Nodes |-> CHOOSE k \in Keys : TRUE]

\* One report: these runs are about time.
OneReading ==
  {[charge_state |-> 1, level |-> 80, analog |-> [f \in Fields |-> 0]]}

Deadbands == [f \in Fields |-> 1]
=============================================================================
