---------------------------- MODULE OneWireBus ------------------------------
(***************************************************************************)
(* The search for the sensors on one 1-Wire bus: pass after pass, each of  *)
(* which finds one ROM bit by bit, taking another turn than the pass       *)
(* before where devices differ.  Devices come and go between any two bits, *)
(* the wire may be shorted for a while, and writes to the flash stop the   *)
(* core in the middle of a time slot.                                      *)
(*                                                                         *)
(* A ROM has RomBits bits instead of 64.  The family code and the CRC are  *)
(* taken to tell the ROMs of real DS18B20s from all other bit patterns.    *)
(***************************************************************************)
EXTENDS Integers, FiniteSets, FiniteSetsExt, SequencesExt

CONSTANTS
  RomBits,
  BusDevices,  \* the ROMs of all devices that may be on the bus
  Ds18b20s,    \* those of the sensors among them
  Capacity,    \* ONEWIRE_WORKER_DEVICE_LIMIT
  MaxChanges   \* bound on the changes during one search

BitNumbers == 1 .. RomBits
RomCodes == [BitNumbers -> {0, 1}]

ASSUME BusAssumption ==
  /\ RomBits \in Nat \ {0} /\ Capacity \in Nat /\ MaxChanges \in Nat
  /\ BusDevices \subseteq RomCodes /\ Ds18b20s \subseteq BusDevices
  /\ [b \in BitNumbers |-> 0] \notin Ds18b20s   \* its family code is not 0

VARIABLES
  bus,         \* the devices connected
  shorted,     \* the wire is held low
  listening,   \* the devices still taking part in the pass
  step,        \* "pass" (between two passes), "bits" or "done"
  rom, last_discrepancy, last_device, last_zero,
  id_bit_number,
  roms,        \* those found, count of them
  changes,     \* how often the bus has changed during the search
  met          \* the devices that were connected at some time during it

busVars == <<bus, shorted, changes, met>>
passVars == <<listening, last_zero, id_bit_number>>
searchVars == <<busVars, step, rom, last_discrepancy, last_device, passVars, roms>>

NoRom == [b \in BitNumbers |-> 0]

\* onewire_bus_search begins, on any bus.
BusInit ==
  /\ bus \in SUBSET BusDevices /\ shorted \in BOOLEAN /\ changes = 0 /\ met = bus
  /\ step = "pass" /\ rom = NoRom /\ last_discrepancy = 0 /\ last_device = FALSE
  /\ listening = {} /\ last_zero = 0 /\ id_bit_number = 1 /\ roms = <<>>

-----------------------------------------------------------------------------
\* A device that is connected takes part from the next reset on.
Connect(d) ==
  /\ changes < MaxChanges /\ d \notin bus
  /\ bus' = bus \cup {d} /\ met' = met \cup {d} /\ changes' = changes + 1
  /\ UNCHANGED <<shorted, step, rom, last_discrepancy, last_device, passVars, roms>>

Disconnect(d) ==
  /\ changes < MaxChanges /\ d \in bus
  /\ bus' = bus \ {d} /\ listening' = listening \ {d} /\ changes' = changes + 1
  /\ UNCHANGED <<shorted, met, step, rom, last_discrepancy, last_device, last_zero,
                 id_bit_number, roms>>

\* A short circuit begins or ends; the devices take it for a reset.
Short ==
  /\ changes < MaxChanges
  /\ shorted' = ~shorted /\ listening' = {} /\ changes' = changes + 1
  /\ UNCHANGED <<bus, met, step, rom, last_discrepancy, last_device, last_zero,
                 id_bit_number, roms>>

\* Core 1 is stopped by a flash operation of core 0 (storage_backend_write) while
\* it drives the wire low, which the devices take for a reset.
Stall ==
  /\ changes < MaxChanges /\ changes' = changes + 1
  /\ listening' = {}
  /\ UNCHANGED <<bus, shorted, met, step, rom, last_discrepancy, last_device, last_zero,
                 id_bit_number, roms>>

-----------------------------------------------------------------------------
\* onewire_reset sees a presence pulse, or a wire that stays low.
Present == shorted \/ bus # {}

SearchEnds ==
  /\ step' = "done"
  /\ UNCHANGED <<rom, last_discrepancy, last_device, passVars, roms>>

\* The loop of onewire_bus_search up to the command of onewire_search_next.
PassBegins ==
  /\ step = "pass"
  /\ IF Len(roms) < Capacity /\ ~last_device /\ Present
     THEN /\ step' = "bits"
          /\ listening' = IF shorted THEN {} ELSE bus
          /\ id_bit_number' = 1 /\ last_zero' = 0
          /\ UNCHANGED <<rom, last_discrepancy, last_device, roms>>
     ELSE SearchEnds
  /\ UNCHANGED busVars

\* Every device listening pulls the wire low to send a 0: what is read is 1
\* when all of them send 1.
Wire(value) == IF ~shorted /\ \A d \in listening : d[id_bit_number] = value THEN 1 ELSE 0

\* Variant: always takes the turn to 0 before the last discrepancy.
DirectionForgetful(id_bit, cmp_id_bit) ==
  IF id_bit # cmp_id_bit THEN id_bit
  ELSE IF id_bit_number = last_discrepancy THEN 1 ELSE 0

\* Where both are sent: up to the last discrepancy as in the pass before, there
\* the other way, and behind it 0.
Direction(id_bit, cmp_id_bit) ==
  IF id_bit # cmp_id_bit THEN id_bit
  ELSE IF id_bit_number < last_discrepancy THEN rom[id_bit_number]
  ELSE IF id_bit_number = last_discrepancy THEN 1 ELSE 0

\* Variant: any ROM will do.
IsAnyRom(code) == TRUE

\* The CRC is right and the family is that of the DS18B20.
IsDs18b20(code) == code \in Ds18b20s

\* What follows the last bit of a pass: another one if the ROM is a sensor's.
PassEnds(code, zero) ==
  /\ last_discrepancy' = zero
  /\ last_device' = (zero = 0)
  /\ IF IsDs18b20(code) THEN step' = "pass" /\ roms' = Append(roms, code)
                        ELSE step' = "done" /\ UNCHANGED roms

\* One turn of the loop in onewire_search_next: the bit and its complement have
\* been read, a direction is sent, and the devices that differ drop out.
SearchBit(id_bit, cmp_id_bit) ==
  LET direction == Direction(id_bit, cmp_id_bit)
      code == [rom EXCEPT ![id_bit_number] = direction]
      zero == IF id_bit = cmp_id_bit /\ direction = 0 THEN id_bit_number ELSE last_zero
  IN  /\ step = "bits"
      /\ IF id_bit = 1 /\ cmp_id_bit = 1 THEN SearchEnds
         ELSE /\ rom' = code
              /\ listening' = {d \in listening : d[id_bit_number] = direction}
              /\ IF id_bit_number < RomBits
                 THEN /\ id_bit_number' = id_bit_number + 1 /\ last_zero' = zero
                      /\ UNCHANGED <<step, last_discrepancy, last_device, roms>>
                 ELSE /\ PassEnds(code, zero)
                      /\ id_bit_number' = 1 /\ last_zero' = 0

ReadsBit == SearchBit(Wire(1), Wire(0)) /\ UNCHANGED busVars

\* Core 1 is stopped by a flash operation of core 0 before it samples the wire,
\* and reads 1 unless it is shorted: a device holds a 0 for no more than its slot.
ReadsBitLate ==
  /\ ~shorted /\ changes < MaxChanges /\ changes' = changes + 1
  /\ SearchBit(1, Wire(0)) \/ SearchBit(Wire(1), 1)
  /\ UNCHANGED <<bus, shorted, met>>

\* The worker searches this or another bus in its next cycle.
Again ==
  /\ step = "done"
  /\ bus' \in SUBSET BusDevices /\ shorted' \in BOOLEAN /\ changes' = 0 /\ met' = bus'
  /\ step' = "pass" /\ rom' = NoRom /\ last_discrepancy' = 0 /\ last_device' = FALSE
  /\ listening' = {} /\ last_zero' = 0 /\ id_bit_number' = 1 /\ roms' = <<>>

BusNext ==
  \/ \E d \in BusDevices : Connect(d) \/ Disconnect(d)
  \/ Short
  \/ Stall
  \/ PassBegins
  \/ ReadsBit
  \/ ReadsBitLate
  \/ Again

BusSpec == BusInit /\ [][BusNext]_searchVars

-----------------------------------------------------------------------------
\* Types of all the state.
BusTypeOK ==
  /\ bus \subseteq met /\ met \subseteq BusDevices /\ listening \subseteq bus
  /\ shorted \in BOOLEAN /\ changes \in 0 .. MaxChanges
  /\ step \in {"pass", "bits", "done"} /\ rom \in RomCodes
  /\ last_discrepancy \in 0 .. RomBits /\ last_zero \in 0 .. id_bit_number
  /\ last_device \in BOOLEAN /\ id_bit_number \in BitNumbers
  /\ roms \in Seq(Ds18b20s) /\ Len(roms) <= Capacity

Precedes(c, d) ==
  \E b \in BitNumbers : c[b] < d[b] /\ \A a \in 1 .. b - 1 : c[a] = d[a]

\* A search of a bus that is left alone finds the sensors on it, each once, in
\* the order of their ROMs, up to the capacity or to the first device that is
\* no DS18B20, which hides those behind it; a shorted bus has none
\* (onewire_bus_search).
SearchIsComplete ==
  step = "done" /\ changes = 0 =>
    /\ ToSet(roms) \subseteq bus \cap Ds18b20s /\ Len(roms) <= Capacity
    /\ \A i, j \in DOMAIN roms : i < j => Precedes(roms[i], roms[j])
    /\ IF shorted THEN roms = <<>>
       ELSE \A d \in bus \ ToSet(roms) :
              /\ \A i \in DOMAIN roms : Precedes(roms[i], d)
              /\ \/ Len(roms) = Capacity
                 \/ \E e \in bus \ Ds18b20s : e = d \/ Precedes(e, d)

\* What a search makes of the way to d when the wire is shorted after bit n: the
\* turns of the pass before, which found c, up to its last discrepancy l, and zeros.
Splice(d, c, n, l) ==
  [b \in BitNumbers |-> IF b <= n THEN d[b] ELSE IF b < l THEN c[b] ELSE IF b = l THEN 1 ELSE 0]

\* The CRC tells all of these from the ROMs of the sensors (onewire_crc8).
NoSplices ==
  \A d \in BusDevices, c \in Ds18b20s, n \in 0 .. RomBits - 1, l \in 0 .. RomBits :
    (l > 0 => c[l] = 0) /\ Splice(d, c, n, l) \in Ds18b20s => Splice(d, c, n, l) = d

\* Whatever happens to the bus during the search, a ROM is reported only if its
\* sensor was on the bus at some time of it: the bits of two devices never add
\* up to a third (onewire_search_next, onewire_crc8).
FoundIsConnected == ToSet(roms) \subseteq met
=============================================================================
