----------------------------- MODULE BleScanner -----------------------------
(***************************************************************************)
(* The BLE scanner: readings of tracked sensors (their MACs are in the     *)
(* settings) go to the measurement store, and a table has a row for every  *)
(* BTHome sensor heard lately and for every tracked one, heard or not.     *)
(* The advertising reports, the settings and the clean-up in every pass of *)
(* the main loop all run on core 0, one after the other.                   *)
(*                                                                         *)
(* Signal strength and the text of the values are left out.  Times are     *)
(* true times; the firmware sees them modulo Wrap.                         *)
(***************************************************************************)
EXTENDS BtHome, FiniteSetsExt

CONSTANTS
  Addresses,    \* of the sensors in range
  AddressType,  \* public (0) or random (1), for each
  Adverts,      \* what they send
  TableSize,    \* BLE_DEVICE_TABLE_SIZE
  AllowedMax,   \* APP_CONFIG_ALLOWED_MAC_MAX_COUNT
  Expiry,       \* BLE_DEVICE_EXPIRY_MS
  Wrap,         \* modulus of the clock, 2^32 ms
  MaxNow,       \* bound on time
  Free,         \* a row not in use
  NoReport      \* the last step was another one

Slots == 1 .. TableSize
Rows == [address : Addresses, address_type : {0, 1}, selected : BOOLEAN, seen : 0 .. MaxNow]

ASSUME ScannerAssumption ==
  /\ IsFiniteSet(Addresses) /\ AddressType \in [Addresses -> {0, 1}]
  /\ TableSize \in Nat \ {0} /\ AllowedMax \in Nat /\ Expiry \in Nat
  /\ Wrap \in Nat \ {0} /\ MaxNow \in Nat
  /\ Free \notin Rows

\* The adverts are those that sensors send, whole or cut.
ASSUME AdvertsAssumption == \A advert \in Adverts : WellFormed(advert)

VARIABLES
  now,           \* the clock
  table,         \* ble_device_table
  allowed,       \* ble_allowed_macs, in order
  report,        \* the report handled in the last step
  stored         \* the readings that went to measurement_store_add in it

vars == <<now, table, allowed, report, stored>>

Quiet == report' = NoReport /\ stored' = <<>>

Used(t) == {i \in Slots : t[i] # Free}

ble_mac_is_allowed(a) == a \in ToSet(allowed)

\* ble_device_table_find
RowsOf(t, a, type) == {i \in Used(t) : t[i].address = a /\ t[i].address_type = type}

\* A number's place in a set of numbers, and the number in the n-th place.
Rank(S, k) == Cardinality({j \in S : j <= k})
Nth(S, n) == CHOOSE k \in S : Rank(S, k) = n

\* last_seen_ms
LastSeen(row) == row.seen % Wrap

-----------------------------------------------------------------------------
\* Variant: a full table gives up the row heard last.
RowToEvictYoungest ==
  CHOOSE i \in Slots : \A j \in Slots \ {i} : LastSeen(table[j]) <= LastSeen(table[i])

\* The row that was heard from longest ago, the first of them.
RowToEvict ==
  CHOOSE i \in Slots :
    \A j \in Slots \ {i} :
      \/ LastSeen(table[i]) < LastSeen(table[j])
      \/ LastSeen(table[i]) = LastSeen(table[j]) /\ i < j

ble_device_table_update(a) ==
  LET type == AddressType[a]
      same == RowsOf(table, a, type)
      slot == IF same # {} THEN Min(same)
              ELSE IF Used(table) # Slots THEN Min(Slots \ Used(table))
              ELSE RowToEvict
  IN  table' = [table EXCEPT ![slot] =
                  [address |-> a, address_type |-> type,
                   selected |-> ble_mac_is_allowed(a), seen |-> now]]

\* ble_bthome_store_measurement, for all the readings of a report.
\* measurement_store_add always finds a place.
StoredOf(a, readings) == IF ble_mac_is_allowed(a) THEN readings ELSE <<>>

\* The advertising report of ble_packet_handler; one without readings ends
\* before the table.
Report(a, advert) ==
  LET readings == ble_parse_bthome_advertising_data(AdvertisingData(advert))
  IN  /\ stored' = StoredOf(a, readings)
      /\ IF readings = <<>> THEN UNCHANGED table ELSE ble_device_table_update(a)
      /\ report' = [address |-> a, advert |-> advert]
      /\ UNCHANGED <<now, allowed>>

-----------------------------------------------------------------------------
Age(row) == IF now % Wrap >= LastSeen(row) THEN (now % Wrap) - LastSeen(row) ELSE 0

\* The rows that the clean-up leaves.
KeptRows == {i \in Used(table) : table[i].selected \/ Age(table[i]) <= Expiry}

\* Variant: rows move up, and what they leave stays.
PeriodicLeavesTail ==
  LET n == Cardinality(KeptRows)
  IN  /\ table' = [i \in Slots |-> IF i <= n THEN table[Nth(KeptRows, i)] ELSE table[i]]
      /\ Quiet /\ UNCHANGED <<now, allowed>>

\* The rows that stay move up, the others are cleared.
ble_scanner_periodic ==
  LET n == Cardinality(KeptRows)
  IN  /\ table' = [i \in Slots |-> IF i <= n THEN table[Nth(KeptRows, i)] ELSE Free]
      /\ Quiet /\ UNCHANGED <<now, allowed>>

-----------------------------------------------------------------------------
\* The row of a tracked device that has not been heard.
Placeholder(a) == [address |-> a, address_type |-> 0, selected |-> TRUE, seen |-> 0]

\* The addresses that have a row.
Listed == {table[i].address : i \in Used(table)}

\* Variant: forgets to reselect the rows that are there.
ApplyConfigKeepsSelected(macs) ==
  LET missing == {k \in DOMAIN macs : macs[k] \notin Listed}
      rank(i) == Rank(Slots \ Used(table), i)
  IN  /\ allowed' = macs
      /\ table' = [i \in Slots |->
           IF i \in Used(table) THEN table[i]
           ELSE IF rank(i) <= Cardinality(missing) THEN Placeholder(macs[Nth(missing, rank(i))])
           ELSE Free]
      /\ Quiet /\ UNCHANGED now

\* The listed rows are selected anew; the n-th tracked MAC without a row gets
\* the n-th free one, as far as there are any.
ble_scanner_apply_config(macs) ==
  LET missing == {k \in DOMAIN macs : macs[k] \notin Listed}
      rank(i) == Rank(Slots \ Used(table), i)
  IN  /\ allowed' = macs
      /\ table' = [i \in Slots |->
           IF i \in Used(table)
           THEN [table[i] EXCEPT !.selected = table[i].address \in ToSet(macs)]
           ELSE IF rank(i) <= Cardinality(missing) THEN Placeholder(macs[Nth(missing, rank(i))])
           ELSE Free]
      /\ Quiet /\ UNCHANGED now

\* The lists that app_config_set_allowed_mac builds: no MAC twice.
AllowedLists ==
  {macs \in UNION {[1 .. n -> Addresses] : n \in 0 .. AllowedMax} :
     \A i, j \in DOMAIN macs : macs[i] = macs[j] => i = j}

\* ble_scanner_init
Init ==
  /\ now = 0
  /\ table = [i \in Slots |-> Free]
  /\ allowed = <<>>
  /\ report = NoReport /\ stored = <<>>

Tick ==
  /\ now < MaxNow /\ now' = now + 1
  /\ Quiet /\ UNCHANGED <<table, allowed>>

Next ==
  \/ \E a \in Addresses, advert \in Adverts : Report(a, advert)
  \/ ble_scanner_periodic
  \/ \E macs \in AllowedLists : ble_scanner_apply_config(macs)
  \/ Tick

Spec == Init /\ [][Next]_vars

-----------------------------------------------------------------------------
\* What a report adds to the store is what its sensor meant, in its order, as
\* far as it can be told, and only if it is tracked: a foreign object, a cut
\* one or a broken field never makes up a reading or drops one before it.  A
\* report with a reading, and no other, leaves its sensor in the table as just
\* heard (ble_parse_bthome_v2, ble_packet_handler).
ReadingsAreSound ==
  report # NoReport =>
    LET a == report.address
        meant == Meant(report.advert)
        heard == {i \in RowsOf(table, a, AddressType[a]) : table[i].seen = now}
    IN  /\ stored = IF a \in ToSet(allowed) THEN meant ELSE <<>>
        /\ meant # <<>> => heard # {}

\* A device's row, or the one that it was given before it was heard: of type 0
\* although its address is random, it stays beside the row it then gets.
IsHeardAs(row) == row.address_type = AddressType[row.address]
NeverHeard(row) == row.address_type = 0 /\ row.seen = 0

\* At most one row tells what was heard of a device; a second one is that of a
\* tracked device with a random address, from before it was heard, and there is
\* never a third.  The rows in use come first, whatever order rows are given,
\* taken away and moved up in (ble_scanner_periodic).
RowsAreDistinct ==
  /\ \A i, j \in Used(table) :
       table[i].address = table[j].address
         /\ table[i].address_type = table[j].address_type => i = j
  /\ \A i \in Used(table) : IsHeardAs(table[i]) \/ NeverHeard(table[i])
  /\ \A i \in Used(table), j \in Slots : j < i => j \in Used(table)

\* A row is shown as tracked exactly when its MAC is in the settings in force,
\* which they were not when the row was made (ble_scanner_apply_config).
SelectedIsTracked ==
  \A i \in Used(table) : table[i].selected <=> ble_mac_is_allowed(table[i].address)

\* A device loses its row for one of two reasons: it is not tracked and was
\* not heard for longer than the expiry time, or the table was full, it was
\* among those heard longest ago, and the row went to a new device.
LosesRowForAReason ==
  [][ \A i \in Used(table) :
        LET row == table[i]
        IN  RowsOf(table', row.address, row.address_type) = {} =>
              \/ ~row.selected /\ now - row.seen > Expiry
              \/ /\ Used(table) = Slots /\ Used(table') = Slots
                 /\ \A j \in Slots : table'[j].seen >= row.seen ]_vars
=============================================================================
