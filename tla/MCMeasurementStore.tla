------------------------- MODULE MCMeasurementStore -------------------------
(***************************************************************************)
(* Two BLE thermometers, alike, and a 1-Wire one; settings with and        *)
(* without a limit; a payload with room for one device, of the three.      *)
(***************************************************************************)
EXTENDS MeasurementStore

CONSTANTS d1, d2, d3

ASSUME IdsAssumption == DistinctIds

MCBle == {<<d1, "temperature">>, <<d2, "temperature">>}
MCOneWire == {<<d3, "1wire_temperature">>}
MCSettings == {<<0, 0>>, <<3, 2>>}

\* Three devices, one line and one signal each, need more than there is.
MCLineLength ==
  [kind \in {"header", "trailer", "UPTIME", "TEMP", "RH", "MB2BAT", "SIGNAL"} |->
     CASE kind \in {"header", "trailer", "UPTIME"} -> 2
       [] kind = "SIGNAL" -> 4
       [] OTHER -> 1]

Identity == [d \in {d1, d2, d3} |-> d]
Twins == {Identity, [Identity EXCEPT ![d1] = d2, ![d2] = d1]}
=============================================================================
