---------------------------- MODULE MCBleScanner ----------------------------
(***************************************************************************)
(* Three sensors, one of them with a random address, and a table for       *)
(* three rows.  The value of the foreign object (a voltage) reads like the *)
(* start of a temperature; flags and another service come before the data. *)
(***************************************************************************)
EXTENDS BleScanner

CONSTANTS a1, a2, a3

MCAddressType == [a \in Addresses |-> IF a = a2 THEN 1 ELSE 0]

Flags == Field(1, <<6>>)
OtherService == Field(ServiceData, <<26, 24, 2, 2>>)
Voltage == Object(12, 514)

Advert(before, kind, objects, short, lost) ==
  [before |-> before, kind |-> kind, objects |-> objects, short |-> short, lost |-> lost]

MCAdverts ==
  LET cold == <<Object(PacketId, 1), Object(Temperature, -500), Object(Humidity, 40000)>>
      foreign == <<Object(Battery, 2), Voltage, Object(Temperature, 258)>>
  IN  { Advert(Flags, "plain", cold, 0, 0),
        Advert(Flags \o OtherService, "trigger", foreign, 0, 0),
        Advert(Flags, "plain", <<Object(Battery, 3), Object(Temperature, 257)>>, 1, 0),
        Advert(Flags, "plain", <<Object(Battery, 3), Object(Temperature, 257)>>, 0, 1),
        Advert(<<>>, "plain", <<Object(PacketId, 3)>>, 0, 0),
        Advert(<<>>, "encrypted", cold, 0, 0),
        Advert(<<>>, "version1", cold, 0, 0) }
=============================================================================
