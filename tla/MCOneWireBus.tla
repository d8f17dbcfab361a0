--------------------------- MODULE MCOneWireBus -----------------------------
(***************************************************************************)
(* Four sensors and a foreign device, whose ROMs of five bits branch at    *)
(* several depths, and room for three.  All sensors' ROMs end in 1: the    *)
(* starts of ROMs filled up with zeros that a short circuit makes the      *)
(* search collect are not among them, as the CRC sees to but for one in    *)
(* 256.                                                                    *)
(***************************************************************************)
EXTENDS OneWireBus

Sensors ==
  {<<0, 1, 1, 0, 1>>, <<0, 1, 0, 1, 1>>, <<1, 0, 0, 0, 1>>, <<1, 1, 1, 1, 1>>}
Foreign == <<1, 0, 1, 0, 0>>
MCDevices == Sensors \cup {Foreign}

ASSUME SensorsAssumption == NoSplices
=============================================================================
