------------------------------- MODULE BtHome -------------------------------
(***************************************************************************)
(* The parser of advertising data: from the bytes of a report to the       *)
(* readings in it, as BTHome version 2 encodes them.                       *)
(***************************************************************************)
EXTENDS Integers, FiniteSets, SequencesExt

\* The field type of service data, and the UUID of BTHome as it is sent.
ServiceData == 22
BtHomeUuid == <<210, 252>>

little_endian_read_16(data, i) == data[i] + 256 * data[i + 1]

\* The objects the firmware knows, and the bytes of their values.
PacketId == 0
Battery == 1
Temperature == 2
Humidity == 3
KnownObjects == PacketId .. Humidity
Width(id) == IF id \in {PacketId, Battery} THEN 1 ELSE 2

Int16(x) == IF x >= 32768 THEN x - 65536 ELSE x

\* The reading of object id whose value starts at i, before it is scaled.
Reading(id, data, i) ==
  [field |-> id,
   value |-> IF id = Battery THEN data[i]
             ELSE IF id = Temperature THEN Int16(little_endian_read_16(data, i))
             ELSE little_endian_read_16(data, i)]

\* Version 2 and not encrypted.
InfoIsPlain(info) == info \div 32 = 2 /\ info % 2 = 0

\* Variant: goes on behind an object it does not know.
ParseSkippingUnknown(field) ==
  LET from[i \in 4 .. Len(field) + 1] ==
        IF i > Len(field) THEN <<>>
        ELSE IF field[i] \notin KnownObjects THEN from[i + 1]
        ELSE LET next == i + 1 + Width(field[i])
             IN  IF next > Len(field) + 1 THEN <<>>
                 ELSE (IF field[i] = PacketId THEN <<>>
                       ELSE <<Reading(field[i], field, i + 1)>>) \o from[next]
  IN  IF Len(field) < 3 \/ ~InfoIsPlain(field[3]) THEN <<>> ELSE from[4]

\* The readings of a field: UUID, info, objects.  The first object that is cut
\* off or not known ends it, as nothing tells how long that one is.
ble_parse_bthome_v2(field) ==
  LET from[i \in 4 .. Len(field) + 1] ==
        IF i > Len(field) \/ field[i] \notin KnownObjects THEN <<>>
        ELSE LET next == i + 1 + Width(field[i])
             IN  IF next > Len(field) + 1 THEN <<>>
                 ELSE (IF field[i] = PacketId THEN <<>>
                       ELSE <<Reading(field[i], field, i + 1)>>) \o from[next]
  IN  IF Len(field) < 3 \/ ~InfoIsPlain(field[3]) THEN <<>> ELSE from[4]

\* A field is its length, its type and the rest.  The first BTHome field is
\* parsed and no other; a length of 0 or beyond the data ends the search.
ble_parse_bthome_advertising_data(data) ==
  LET length(i) == data[i]
      content(i) == SubSeq(data, i + 2, i + length(i))
      isBtHome(i) == /\ data[i + 1] = ServiceData
                     /\ length(i) >= 3
                     /\ SubSeq(content(i), 1, 2) = BtHomeUuid
      from[i \in 1 .. Len(data) + 1] ==
        IF i > Len(data) THEN <<>>
        ELSE IF length(i) = 0 \/ i + length(i) > Len(data) THEN <<>>
        ELSE IF isBtHome(i) THEN ble_parse_bthome_v2(content(i))
        ELSE from[i + length(i) + 1]
  IN  from[1]

-----------------------------------------------------------------------------
(* What a sensor sends: the fields before its service data, the kind of    *)
(* its data and its objects, each an id and a number.  Of the service data *)
(* and of the packet the last bytes may be missing.                        *)

Info == [plain |-> 64, trigger |-> 68, encrypted |-> 65, version1 |-> 32]

Object(id, value) == [id |-> id, value |-> value]

Encoded(object) ==
  <<object.id>> \o
  IF Width(object.id) = 1 THEN <<object.value>>
  ELSE <<object.value % 256, (object.value % 65536) \div 256>>

Field(type, content) == <<Len(content) + 1, type>> \o content

Content(advert) ==
  BtHomeUuid \o <<Info[advert.kind]>>
    \o FlattenSeq([k \in DOMAIN advert.objects |-> Encoded(advert.objects[k])])

Shortened(content, n) == SubSeq(content, 1, Len(content) - n)

AdvertisingData(advert) ==
  LET field == Field(ServiceData, Shortened(Content(advert), advert.short))
  IN  Shortened(advert.before \o field, advert.lost)

\* The first n objects as readings; the number of a packet is none.
Readings(objects, n) ==
  LET first[k \in 0 .. Len(objects)] ==
        IF k = 0 THEN <<>>
        ELSE IF objects[k].id = PacketId THEN first[k - 1]
        ELSE Append(first[k - 1], [field |-> objects[k].id, value |-> objects[k].value])
  IN  first[n]

\* The objects before the first one that is not whole or not known.
Told(advert) ==
  {k \in DOMAIN advert.objects :
     /\ k < Len(advert.objects) \/ advert.short = 0
     /\ \A j \in 1 .. k : advert.objects[j].id \in KnownObjects}

\* The readings that can be told from it.
Meant(advert) ==
  IF advert.kind \in {"plain", "trigger"} /\ advert.lost = 0
  THEN Readings(advert.objects, Cardinality(Told(advert))) ELSE <<>>

\* The number of an object fits its bytes.
Fits(object) ==
  IF object.id \in {PacketId, Battery} THEN 0 <= object.value /\ object.value <= 255
  ELSE IF object.id = Temperature THEN -32768 <= object.value /\ object.value <= 32767
  ELSE 0 <= object.value /\ object.value <= 65535

\* From a field of other data that starts at p to the next one.
OtherField(data, p, next) ==
  /\ data[p] # 0 /\ next = p + data[p] + 1
  /\ ~ (data[p] >= 3 /\ data[p + 1] = ServiceData /\ <<data[p + 2], data[p + 3]>> = BtHomeUuid)

\* What sensors send: before the service data are whole fields of other data;
\* of the objects no more than the last one is cut, and no more is lost of the
\* packet than the service data.
WellFormed(advert) ==
  LET n == Len(advert.objects)
      end == Len(advert.before) + 1
  IN  /\ advert.kind \in DOMAIN Info
      /\ advert.objects \in Seq([id : Nat, value : Int])
      /\ \A k \in 1 .. n : Fits(advert.objects[k])
      /\ advert.before \in Seq(Nat)
      /\ \E P \in SUBSET (1 .. end) :
           /\ {1, end} \subseteq P
           /\ \A p \in P \ {end} : \E next \in P : OtherField(advert.before, p, next)
      /\ advert.short \in 0 .. (IF n = 0 THEN 0 ELSE Width(advert.objects[n].id))
      /\ advert.lost \in 0 .. Len(Field(ServiceData, Shortened(Content(advert), advert.short)))
=============================================================================
