-------------------------- MODULE BleScannerProofs --------------------------
(***************************************************************************)
(* The table of BLE devices: at most one row tells what was heard of a     *)
(* device, the rows in use come first, a row's flag says whether its MAC   *)
(* is in the settings, and a device loses its row only for a reason.  All  *)
(* three actions that change the table move or add rows at the first free  *)
(* place, so most of the work is in the places of numbers in a set (Rank,  *)
(* Nth).                                                                   *)
(*                                                                         *)
(* The second half is about the parser: of every packet that a sensor may  *)
(* send it tells the readings that the sensor meant.  Its loops are        *)
(* recursive functions.  What they return at each place of the data        *)
(* follows from the places behind it (Downward), what the packet holds     *)
(* from the objects before (Upward).                                       *)
(***************************************************************************)
EXTENDS BleScanner, FiniteSetTheorems, SequenceTheorems, WellFoundedInduction, TLAPS

-----------------------------------------------------------------------------
(* Places in a set of numbers.                                             *)

\* A set of numbers that is not empty has a least element.
LEMMA LeastNumber ==
  ASSUME NEW T, T \subseteq Nat, T # {}
  PROVE  \E x \in T : \A y \in T : x <= y
<1>1. PICK x \in T : \A y \in T : ~(<<y, x>> \in OpToRel(<, Nat))
  BY NatLessThanWellFounded, WFMin
<1>2. ASSUME NEW y \in T PROVE x <= y
  <2>1. <<y, x>> \in Nat \X Nat /\ <<y, x>> \notin OpToRel(<, Nat)
    BY <1>1
  <2> QED BY <2>1 DEF OpToRel
<1> QED BY <1>2

\* Min finds it.
LEMMA MinIsLeast ==
  ASSUME NEW T, T \subseteq Nat, T # {}
  PROVE  Min(T) \in T /\ \A y \in T : Min(T) <= y
  BY LeastNumber DEF Min

\* One number on, the place is the next one if that number is in the set.
RankStep(S, k) == Rank(S, k + 1) = IF k + 1 \in S THEN Rank(S, k) + 1 ELSE Rank(S, k)

\* The place of k counts the numbers up to k.
LEMMA RankIs ==
  ASSUME NEW n \in Nat, NEW S, S \subseteq 1 .. n, NEW k \in Nat
  PROVE  /\ IsFiniteSet(S) /\ Cardinality(S) \in Nat
         /\ Rank(S, k) \in Nat /\ Rank(S, k) <= Cardinality(S)
         /\ Rank(S, 0) = 0 /\ Rank(S, n) = Cardinality(S)
         /\ RankStep(S, k)
<1> DEFINE upTo(i) == {j \in S : j <= i}
<1>0. \A j \in S : j \in Nat /\ 0 < j /\ j <= n
  OBVIOUS
<1>1. IsFiniteSet(S) /\ Cardinality(S) \in Nat
  <2>1. IsFiniteSet(1 .. n) /\ S \in SUBSET (1 .. n)
    BY FS_Interval
  <2> QED BY <2>1, FS_Subset, FS_CardinalityType, Zenon
<1>2. ASSUME NEW i \in Nat
      PROVE  /\ IsFiniteSet(upTo(i)) /\ Cardinality(upTo(i)) \in Nat
             /\ Cardinality(upTo(i)) <= Cardinality(S)
  <2>1. upTo(i) \in SUBSET S
    OBVIOUS
  <2> HIDE DEF upTo
  <2> QED BY <1>1, <2>1, FS_Subset, FS_CardinalityType
<1>3. upTo(0) = {} /\ upTo(n) = S
  <2>1. \A j \in S : ~(j <= 0) /\ j <= n
    BY <1>0
  <2> QED BY <2>1, Zenon
<1>4. ASSUME k + 1 \notin S PROVE upTo(k + 1) = upTo(k)
  <2>1. \A j \in S : j <= k + 1 <=> j <= k
    BY <1>0, <1>4
  <2> QED BY <2>1
<1>5. ASSUME k + 1 \in S PROVE upTo(k + 1) = upTo(k) \cup {k + 1} /\ k + 1 \notin upTo(k)
  <2>1. \A j \in S : j <= k + 1 <=> j <= k \/ j = k + 1
    BY <1>0
  <2>2. ~(k + 1 <= k) /\ k + 1 <= k + 1
    OBVIOUS
  <2> QED BY <1>5, <2>1, <2>2, Zenon
<1>6. \A i : Rank(S, i) = Cardinality(upTo(i))
  BY DEF Rank
<1> HIDE DEF upTo
<1>7. k + 1 \in S => Cardinality(upTo(k + 1)) = Cardinality(upTo(k)) + 1
  BY <1>2, <1>5, FS_AddElement
<1>8. Cardinality(upTo(0)) = 0
  BY <1>3, FS_EmptySet
<1>9. RankStep(S, k)
  BY <1>4, <1>6, <1>7 DEF RankStep
<1> QED BY <1>1, <1>2, <1>3, <1>6, <1>8, <1>9

\* Of two numbers the greater has the later place.
LEMMA RankGrows ==
  ASSUME NEW n \in Nat, NEW S, S \subseteq 1 .. n, NEW k \in Nat, NEW l \in Nat, k <= l
  PROVE  Rank(S, k) <= Rank(S, l) /\ (k < l /\ l \in S => Rank(S, k) < Rank(S, l))
<1> DEFINE upTo(i) == {j \in S : j <= i}
<1>1. IsFiniteSet(S)
  BY RankIs
<1>2. upTo(k) \in SUBSET upTo(l) /\ upTo(l) \in SUBSET S
  <2>1. \A j \in S : j <= k => j <= l
    OBVIOUS
  <2> QED BY <2>1, Zenon
<1>3. k < l /\ l \in S => l \in upTo(l) /\ l \notin upTo(k)
  OBVIOUS
<1>4. \A i : Rank(S, i) = Cardinality(upTo(i))
  BY DEF Rank
<1>5. Rank(S, k) \in Nat /\ Rank(S, l) \in Nat
  BY RankIs
<1> HIDE DEF upTo
<1>6. IsFiniteSet(upTo(l))
  BY <1>1, <1>2, FS_Subset
<1>7. /\ Cardinality(upTo(k)) <= Cardinality(upTo(l))
      /\ Cardinality(upTo(l)) = Cardinality(upTo(k)) => upTo(l) = upTo(k)
  BY <1>2, <1>6, FS_Subset
<1> QED BY <1>3, <1>4, <1>5, <1>7

\* Nth finds the number in the n-th place.
LEMMA NthIs ==
  ASSUME NEW n \in Nat, NEW S, S \subseteq 1 .. n, NEW p \in 1 .. Cardinality(S)
  PROVE  Nth(S, p) \in S /\ Rank(S, Nth(S, p)) = p
<1> DEFINE T == {k \in Nat : p <= Rank(S, k)}
<1>1. ASSUME NEW k \in Nat
      PROVE  Rank(S, k) \in Nat /\ RankStep(S, k)
  BY RankIs
<1>2. Rank(S, 0) = 0 /\ Rank(S, n) = Cardinality(S) /\ Cardinality(S) \in Nat
  BY RankIs
<1>3. n \in T
  BY <1>2
<1>4. PICK x \in T : \A y \in T : x <= y
  BY <1>3, LeastNumber
<1>5. x \in Nat /\ p <= Rank(S, x) /\ x # 0
  BY <1>2
<1>6. PICK w \in Nat : x = w + 1
  BY <1>5
<1>7. ~(p <= Rank(S, w))
  BY <1>4, <1>6
<1>8. x \in S /\ Rank(S, x) = p
  <2>1. Rank(S, w + 1) = IF w + 1 \in S THEN Rank(S, w) + 1 ELSE Rank(S, w)
    BY <1>1 DEF RankStep
  <2>2. Rank(S, w) \in Nat /\ Rank(S, x) \in Nat /\ p \in Nat
    BY <1>1, <1>5
  <2> HIDE DEF T
  <2> QED BY <1>5, <1>6, <1>7, <2>1, <2>2
<1> QED BY <1>8 DEF Nth

\* A number of the set is found in its place.
LEMMA NthOfRank ==
  ASSUME NEW n \in Nat, NEW S, S \subseteq 1 .. n, NEW k \in S
  PROVE  Rank(S, k) \in 1 .. Cardinality(S) /\ Nth(S, Rank(S, k)) = k
<1>1. \A i \in S : i \in Nat /\ 0 < i
  OBVIOUS
<1>2. /\ Rank(S, 0) = 0 /\ Rank(S, k) \in Nat /\ Rank(S, k) <= Cardinality(S)
      /\ Cardinality(S) \in Nat
  BY <1>1, RankIs
<1>3. Rank(S, 0) < Rank(S, k)
  <2>1. 0 \in Nat /\ k \in Nat /\ 0 <= k /\ 0 < k
    BY <1>1
  <2> QED BY <2>1, RankGrows, Zenon
<1>4. Rank(S, k) \in 1 .. Cardinality(S)
  BY <1>2, <1>3
<1>5. PICK i \in S : i = Nth(S, Rank(S, k)) /\ Rank(S, i) = Rank(S, k)
  BY <1>4, NthIs
<1>6. i \in Nat /\ k \in Nat
  BY <1>1
<1>7. ASSUME NEW a \in S, NEW b \in S, a < b PROVE Rank(S, a) # Rank(S, b)
  <2>1. a \in Nat /\ b \in Nat /\ a <= b
    BY <1>1, <1>7
  <2>2. Rank(S, a) < Rank(S, b)
    BY <1>7, <2>1, RankGrows, Zenon
  <2>3. Rank(S, a) \in Nat
    BY <2>1, RankIs
  <2> QED BY <2>2, <2>3
<1> QED BY <1>4, <1>5, <1>6, <1>7

-----------------------------------------------------------------------------
(* The inductive invariant.                                                *)

ScanTypes == now \in 0 .. MaxNow /\ table \in [Slots -> Rows \cup {Free}]

ScanInv == ScanTypes /\ RowsAreDistinct /\ SelectedIsTracked

\* What the constants are.
LEMMA Constants ==
  /\ Slots \subseteq Nat /\ Slots = 1 .. TableSize /\ 1 \in Slots /\ TableSize \in Nat
  /\ MaxNow \in Nat /\ Wrap \in Nat \ {0} /\ Expiry \in Nat
  /\ Free \notin Rows /\ AddressType \in [Addresses -> {0, 1}]
  BY ScannerAssumption DEF Slots

\* A row in use is a row.
LEMMA UsedIsRow ==
  ASSUME ScanTypes
  PROVE  /\ \A i \in Used(table) : i \in Slots /\ table[i] \in Rows
         /\ \A i \in Slots \ Used(table) : table[i] = Free
  BY DEF ScanTypes, Used

\* The row given up when the table is full was heard longest ago, as far as the
\* clock tells.
LEMMA RowToEvictIs ==
  ASSUME ScanTypes, Used(table) = Slots
  PROVE  /\ RowToEvict \in Slots
         /\ \A j \in Slots : LastSeen(table[RowToEvict]) <= LastSeen(table[j])
<1> DEFINE heard(i) == LastSeen(table[i])
           K == {heard(i) : i \in Slots}
<1>1. ASSUME NEW i \in Slots PROVE heard(i) \in Nat
  <2>1. table[i] \in Rows
    BY UsedIsRow
  <2>2. table[i].seen \in Nat
    BY <2>1, Constants DEF Rows
  <2> QED BY <2>2, Constants DEF LastSeen
<1> HIDE DEF heard
<1>2. K \subseteq Nat /\ K # {}
  BY <1>1, Constants
<1>3. PICK v \in K : \A w \in K : v <= w
  BY <1>2, LeastNumber
<1> DEFINE T == {i \in Slots : heard(i) = v}
<1>4. T \subseteq Nat /\ T # {}
  BY Constants
<1>5. PICK i \in T : \A j \in T : i <= j
  BY <1>4, LeastNumber
<1>6. i \in Slots /\ \A j \in Slots : heard(i) <= heard(j)
  BY <1>3
<1>7. ASSUME NEW j \in Slots \ {i}
      PROVE  heard(i) < heard(j) \/ (heard(i) = heard(j) /\ i < j)
  <2>1. heard(i) \in Nat /\ heard(j) \in Nat /\ heard(i) <= heard(j) /\ i \in Nat /\ j \in Nat
    BY <1>1, <1>6, Constants
  <2>2. CASE heard(i) = heard(j)
    <3>1. j \in T
      BY <2>2
    <3>2. i <= j
      BY <1>5, <3>1
    <3> QED BY <2>1, <2>2, <3>2
  <2>3. CASE heard(i) # heard(j)
    BY <2>1, <2>3
  <2> QED BY <2>2, <2>3
<1>8. /\ RowToEvict \in Slots
      /\ \A j \in Slots \ {RowToEvict} :
           \/ heard(RowToEvict) < heard(j)
           \/ heard(RowToEvict) = heard(j) /\ RowToEvict < j
  BY <1>6, <1>7, Zenon DEF RowToEvict, heard
<1>9. ASSUME NEW j \in Slots PROVE heard(RowToEvict) <= heard(j)
  BY <1>1, <1>8
<1> QED BY <1>8, <1>9 DEF heard

\* A report goes to the row of its device, to the first free one or, in a full
\* table, to the one given up.
LEMMA UpdateIs ==
  ASSUME ScanInv, NEW a \in Addresses, ble_device_table_update(a)
  PROVE  \E slot \in Slots, row \in Rows :
           /\ table' = [table EXCEPT ![slot] = row]
           /\ row.address = a /\ row.address_type = AddressType[a] /\ row.seen = now
           /\ row.selected <=> ble_mac_is_allowed(a)
           /\ \/ slot \in RowsOf(table, a, AddressType[a])
              \/ /\ RowsOf(table, a, AddressType[a]) = {}
                 /\ slot \notin Used(table) /\ \A j \in Slots : j < slot => j \in Used(table)
              \/ /\ RowsOf(table, a, AddressType[a]) = {}
                 /\ Used(table) = Slots /\ slot = RowToEvict
<1> DEFINE type == AddressType[a]
           same == RowsOf(table, a, type)
           slot == IF same # {} THEN Min(same)
                   ELSE IF Used(table) # Slots THEN Min(Slots \ Used(table))
                   ELSE RowToEvict
           row == [address |-> a, address_type |-> type,
                   selected |-> ble_mac_is_allowed(a), seen |-> now]
<1>1. table' = [table EXCEPT ![slot] = row]
  BY Zenon DEF ble_device_table_update
<1>2. /\ row \in Rows /\ row.address = a /\ row.address_type = type /\ row.seen = now
      /\ row.selected <=> ble_mac_is_allowed(a)
  <2>1. ble_mac_is_allowed(a) \in BOOLEAN
    BY DEF ble_mac_is_allowed
  <2>2. type \in {0, 1} /\ now \in 0 .. MaxNow
    BY Constants DEF ScanInv, ScanTypes
  <2> HIDE DEF type
  <2> QED BY <2>1, <2>2 DEF Rows
<1> HIDE DEF row
<1>3. Used(table) \subseteq Slots /\ same \subseteq Slots
  BY DEF Used, RowsOf
<1>4. CASE same # {}
  <2>1. slot = Min(same)
    BY <1>4, Zenon
  <2>2. Min(same) \in same
    BY <1>3, <1>4, MinIsLeast, Constants
  <2> HIDE DEF slot
  <2> QED BY <1>1, <1>2, <1>3, <2>1, <2>2
<1>5. CASE same = {} /\ Used(table) # Slots
  <2>1. slot = Min(Slots \ Used(table))
    BY <1>5, Zenon
  <2>2. /\ Min(Slots \ Used(table)) \in Slots \ Used(table)
        /\ \A j \in Slots \ Used(table) : Min(Slots \ Used(table)) <= j
    BY <1>3, <1>5, MinIsLeast, Constants
  <2> HIDE DEF slot
  <2>3. slot \in Slots /\ slot \notin Used(table)
    BY <2>1, <2>2
  <2>4. ASSUME NEW j \in Slots, j < slot PROVE j \in Used(table)
    <3>1. ~(slot <= j)
      BY <2>3, <2>4, Constants
    <3> QED BY <2>1, <2>2, <3>1, Zenon
  <2> QED BY <1>1, <1>2, <1>5, <2>3, <2>4
<1>6. CASE same = {} /\ Used(table) = Slots
  <2>1. slot = RowToEvict
    BY <1>6, Zenon
  <2>2. RowToEvict \in Slots
    BY <1>6, RowToEvictIs DEF ScanInv
  <2> HIDE DEF slot
  <2> QED BY <1>1, <1>2, <1>6, <2>1, <2>2
<1> QED BY <1>4, <1>5, <1>6

\* A report keeps the table in order.
LEMMA ReportKeeps ==
  ASSUME ScanInv, NEW a \in Addresses, ble_device_table_update(a), UNCHANGED <<now, allowed>>
  PROVE  ScanInv'
<1> DEFINE type == AddressType[a]
<1>1. PICK slot \in Slots, row \in Rows :
        /\ table' = [table EXCEPT ![slot] = row]
        /\ row.address = a /\ row.address_type = type
        /\ row.selected <=> ble_mac_is_allowed(a)
        /\ \/ slot \in RowsOf(table, a, type)
           \/ /\ RowsOf(table, a, type) = {}
              /\ slot \notin Used(table) /\ \A j \in Slots : j < slot => j \in Used(table)
           \/ RowsOf(table, a, type) = {} /\ Used(table) = Slots
  BY UpdateIs
<1>2. ScanTypes'
  BY <1>1 DEF ScanInv, ScanTypes
<1>3. table'[slot] = row /\ \A i \in Slots \ {slot} : table'[i] = table[i]
  BY <1>1 DEF ScanInv, ScanTypes
<1>4. Used(table') = Used(table) \cup {slot}
  BY <1>3, Constants DEF Used
<1>5. \A i \in Used(table) \ {slot} : ~(table[i].address = a /\ table[i].address_type = type)
  <2>1. CASE RowsOf(table, a, type) = {}
    BY <2>1 DEF RowsOf
  <2>2. CASE slot \in RowsOf(table, a, type)
    BY <2>2 DEF RowsOf, ScanInv, RowsAreDistinct
  <2> QED BY <1>1, <2>1, <2>2
<1>6. \A i, j \in Used(table') :
        table'[i].address = table'[j].address
          /\ table'[i].address_type = table'[j].address_type => i = j
  <2> SUFFICES ASSUME NEW i \in Used(table'), NEW j \in Used(table'), i # j
               PROVE  ~(/\ table'[i].address = table'[j].address
                        /\ table'[i].address_type = table'[j].address_type)
    OBVIOUS
  <2>1. i \in Slots /\ j \in Slots
    BY DEF Used
  <2>2. CASE i = slot
    <3>1. j \in Used(table) \ {slot} /\ table'[j] = table[j] /\ table'[i] = row
      BY <1>3, <1>4, <2>1, <2>2
    <3> QED BY <1>1, <1>5, <3>1
  <2>3. CASE j = slot
    BY <1>1, <1>3, <1>4, <1>5, <2>1, <2>3
  <2>4. CASE i # slot /\ j # slot
    BY <1>3, <1>4, <2>1, <2>4 DEF ScanInv, RowsAreDistinct
  <2> QED BY <2>2, <2>3, <2>4
<1>7. \A i \in Used(table'), j \in Slots : j < i => j \in Used(table')
  <2>1. slot \in RowsOf(table, a, type) => slot \in Used(table)
    BY DEF RowsOf
  <2>2. ASSUME NEW i \in Used(table'), NEW j \in Slots, j < i PROVE j \in Used(table')
    <3>1. i \in Used(table) \/ i = slot
      BY <1>4
    <3>2. CASE i \in Used(table)
      <4>1. j \in Used(table)
        BY <2>2, <3>2 DEF ScanInv, RowsAreDistinct
      <4> QED BY <1>4, <4>1
    <3>3. CASE i = slot
      <4>1. i \in Used(table) => j \in Used(table)
        BY <2>2 DEF ScanInv, RowsAreDistinct
      <4>2. j \in Used(table)
        BY <1>1, <2>1, <2>2, <3>3, <4>1
      <4> QED BY <1>4, <4>2
    <3> QED BY <3>1, <3>2, <3>3
  <2> QED BY <2>2
<1>8. SelectedIsTracked'
  BY <1>1, <1>3, <1>4 DEF ScanInv, SelectedIsTracked, ble_mac_is_allowed, Used
<1>9. ASSUME NEW i \in Used(table') PROVE IsHeardAs(table'[i]) \/ NeverHeard(table'[i])
  <2>1. CASE i = slot
    BY <1>1, <1>3, <2>1 DEF IsHeardAs
  <2>2. CASE i # slot
    <3>1. i \in Used(table) /\ table'[i] = table[i]
      BY <1>3, <1>4, <2>2 DEF Used
    <3> QED BY <3>1 DEF ScanInv, RowsAreDistinct
  <2> QED BY <2>1, <2>2
<1> QED BY <1>2, <1>6, <1>7, <1>8, <1>9 DEF ScanInv, RowsAreDistinct

\* The clean-up moves the rows that stay to the first places, each to another.
LEMMA PeriodicIs ==
  ASSUME ScanTypes, ble_scanner_periodic
  PROVE  /\ ScanTypes' /\ Used(table') = 1 .. Cardinality(KeptRows)
         /\ KeptRows \subseteq Slots /\ KeptRows \subseteq Used(table)
         /\ Cardinality(KeptRows) \in Nat
         /\ \A i \in Used(table') : /\ i \in Slots /\ Nth(KeptRows, i) \in KeptRows
                                     /\ Rank(KeptRows, Nth(KeptRows, i)) = i
                                     /\ table'[i] = table[Nth(KeptRows, i)]
         /\ \A k \in KeptRows : \E i \in Used(table') : table'[i] = table[k]
<1> DEFINE n == Cardinality(KeptRows)
<1>1. KeptRows \subseteq Slots /\ KeptRows \subseteq 1 .. TableSize /\ KeptRows \subseteq Used(table)
  BY Constants DEF KeptRows, Used
<1>2. n \in Nat /\ n <= TableSize
  <2>1. IsFiniteSet(1 .. TableSize) /\ Cardinality(1 .. TableSize) = TableSize
    BY FS_Interval, ScannerAssumption
  <2>2. n <= Cardinality(1 .. TableSize)
    BY <1>1, <2>1, FS_Subset
  <2> QED BY <1>1, <2>1, <2>2, RankIs, Constants
<1>3. table' = [i \in Slots |-> IF i <= n THEN table[Nth(KeptRows, i)] ELSE Free]
  BY DEF ble_scanner_periodic
<1> HIDE DEF n
<1>4. ASSUME NEW i \in 1 .. n
      PROVE  /\ i \in Slots /\ Nth(KeptRows, i) \in KeptRows
             /\ Rank(KeptRows, Nth(KeptRows, i)) = i
             /\ table'[i] = table[Nth(KeptRows, i)] /\ table'[i] \in Rows
  <2>1. Nth(KeptRows, i) \in KeptRows /\ Rank(KeptRows, Nth(KeptRows, i)) = i
    BY <1>1, NthIs, Constants DEF n
  <2>2. i \in Slots /\ i <= n
    BY <1>2, Constants
  <2>3. table[Nth(KeptRows, i)] \in Rows
    BY <1>1, <2>1, UsedIsRow
  <2> QED BY <1>3, <2>1, <2>2, <2>3
<1>5. ASSUME NEW i \in Slots, i \notin 1 .. n PROVE table'[i] = Free
  <2>1. ~(i <= n)
    BY <1>2, <1>5, Constants
  <2> QED BY <1>3, <2>1
<1>6. Used(table') = 1 .. n
  BY <1>4, <1>5, Constants DEF Used
<1>7. ScanTypes'
  <2>1. \A i \in Slots : table'[i] \in Rows \cup {Free}
    BY <1>4, <1>5
  <2>2. now' = now
    BY DEF ble_scanner_periodic
  <2> QED BY <1>3, <2>1, <2>2 DEF ScanTypes
<1>8. ASSUME NEW k \in KeptRows PROVE \E i \in Used(table') : table'[i] = table[k]
  <2>1. Rank(KeptRows, k) \in 1 .. n /\ Nth(KeptRows, Rank(KeptRows, k)) = k
    BY <1>1, NthOfRank, Constants DEF n
  <2> QED BY <1>4, <1>6, <2>1
<1> QED BY <1>1, <1>2, <1>4, <1>6, <1>7, <1>8 DEF n

\* The clean-up keeps the table in order.
LEMMA PeriodicKeeps ==
  ASSUME ScanInv, ble_scanner_periodic
  PROVE  ScanInv'
<1> DEFINE from(i) == Nth(KeptRows, i)
           n == Cardinality(KeptRows)
<1>1. /\ ScanTypes' /\ Used(table') = 1 .. n /\ n \in Nat
      /\ \A i \in Used(table') : /\ from(i) \in Used(table) /\ Rank(KeptRows, from(i)) = i
                                  /\ table'[i] = table[from(i)]
  BY PeriodicIs DEF ScanInv
<1> HIDE DEF from, n
<1>2. \A i, j \in Used(table') :
        table'[i].address = table'[j].address
          /\ table'[i].address_type = table'[j].address_type => i = j
  <2> SUFFICES ASSUME NEW i \in Used(table'), NEW j \in Used(table'),
                      table'[i].address = table'[j].address,
                      table'[i].address_type = table'[j].address_type
               PROVE  i = j
    OBVIOUS
  <2>1. from(i) = from(j)
    BY <1>1 DEF ScanInv, RowsAreDistinct
  <2> QED BY <1>1, <2>1
<1>3. \A i \in Used(table'), j \in Slots : j < i => j \in Used(table')
  BY <1>1, Constants
<1>4. SelectedIsTracked'
  <2>1. allowed' = allowed
    BY DEF ble_scanner_periodic
  <2> QED BY <1>1, <2>1 DEF ScanInv, SelectedIsTracked, ble_mac_is_allowed
<1>5. \A i \in Used(table') : IsHeardAs(table'[i]) \/ NeverHeard(table'[i])
  BY <1>1 DEF ScanInv, RowsAreDistinct
<1> QED BY <1>1, <1>2, <1>3, <1>4, <1>5 DEF ScanInv, RowsAreDistinct

-----------------------------------------------------------------------------
(* New settings.                                                           *)

\* The MACs of the list that have no row.
Missing(macs) == {k \in DOMAIN macs : macs[k] \notin Listed}
FreeSlots == Slots \ Used(table)
Filled(macs, i) == i \in FreeSlots /\ Rank(FreeSlots, i) <= Cardinality(Missing(macs))
NewMac(macs, i) == macs[Nth(Missing(macs), Rank(FreeSlots, i))]

\* Rows that are there are selected anew; free ones are filled from the first on,
\* each with another MAC that had no row.
LEMMA ApplyIs ==
  ASSUME ScanTypes, NEW macs \in AllowedLists, ble_scanner_apply_config(macs)
  PROVE  /\ now' = now /\ allowed' = macs
         /\ table' = [i \in Slots |->
              IF i \in Used(table)
              THEN [table[i] EXCEPT !.selected = table[i].address \in ToSet(macs)]
              ELSE IF Filled(macs, i) THEN Placeholder(NewMac(macs, i)) ELSE Free]
         /\ \A i \in Slots : Filled(macs, i) =>
              /\ NewMac(macs, i) \in Addresses /\ NewMac(macs, i) \in ToSet(macs)
              /\ NewMac(macs, i) \notin Listed
              /\ \A j \in Slots : Filled(macs, j) /\ NewMac(macs, j) = NewMac(macs, i) => i = j
              /\ \A j \in Slots : j < i /\ j \notin Used(table) => Filled(macs, j)
<1> DEFINE M == Missing(macs)
<1>1. FreeSlots \subseteq 1 .. TableSize /\ FreeSlots \subseteq Slots /\ TableSize \in Nat
  BY Constants DEF FreeSlots
<1>2. PICK n \in Nat : macs \in [1 .. n -> Addresses]
  BY ScannerAssumption DEF AllowedLists
<1>3. \A k, l \in DOMAIN macs : macs[k] = macs[l] => k = l
  BY DEF AllowedLists
<1>4. M \subseteq DOMAIN macs /\ M \subseteq 1 .. n /\ Cardinality(M) \in Nat
  <2>1. M \subseteq DOMAIN macs /\ M \subseteq 1 .. n
    BY <1>2 DEF Missing
  <2> QED BY <2>1, RankIs
<1>5. ASSUME NEW i \in Slots, Filled(macs, i)
      PROVE  /\ Nth(M, Rank(FreeSlots, i)) \in M
             /\ Rank(M, Nth(M, Rank(FreeSlots, i))) = Rank(FreeSlots, i)
             /\ Nth(FreeSlots, Rank(FreeSlots, i)) = i
  <2>1. i \in FreeSlots /\ Rank(FreeSlots, i) <= Cardinality(M)
    BY <1>5 DEF Filled
  <2>2. /\ Rank(FreeSlots, i) \in 1 .. Cardinality(FreeSlots)
        /\ Nth(FreeSlots, Rank(FreeSlots, i)) = i
    BY <1>1, <2>1, NthOfRank
  <2>3. Rank(FreeSlots, i) \in 1 .. Cardinality(M)
    BY <1>4, <2>1, <2>2
  <2> QED BY <1>4, <2>2, <2>3, NthIs
<1>6. /\ now' = now /\ allowed' = macs
      /\ table' = [i \in Slots |->
           IF i \in Used(table)
           THEN [table[i] EXCEPT !.selected = table[i].address \in ToSet(macs)]
           ELSE IF Filled(macs, i) THEN Placeholder(NewMac(macs, i)) ELSE Free]
  <2>1. \A i \in Slots : i \notin Used(table) =>
          (Filled(macs, i) <=> Rank(Slots \ Used(table), i) <= Cardinality(M))
    BY DEF Filled, FreeSlots
  <2> QED BY <2>1 DEF ble_scanner_apply_config, NewMac, Missing, FreeSlots
<1> SUFFICES ASSUME NEW i \in Slots, Filled(macs, i)
             PROVE  /\ NewMac(macs, i) \in Addresses /\ NewMac(macs, i) \in ToSet(macs)
                    /\ NewMac(macs, i) \notin Listed
                    /\ \A j \in Slots : Filled(macs, j) /\ NewMac(macs, j) = NewMac(macs, i) => i = j
                    /\ \A j \in Slots : j < i /\ j \notin Used(table) => Filled(macs, j)
  BY <1>6
<1>7. PICK k \in M : k = Nth(M, Rank(FreeSlots, i)) /\ Rank(M, k) = Rank(FreeSlots, i)
  BY <1>5
<1>8. NewMac(macs, i) = macs[k] /\ k \in DOMAIN macs /\ macs[k] \notin Listed
  BY <1>7 DEF NewMac, Missing
<1>9. macs[k] \in Addresses /\ macs[k] \in ToSet(macs)
  BY <1>2, <1>8 DEF ToSet
<1>10. ASSUME NEW j \in Slots, Filled(macs, j), NewMac(macs, j) = NewMac(macs, i) PROVE i = j
  <2>1. PICK l \in M : l = Nth(M, Rank(FreeSlots, j)) /\ Rank(M, l) = Rank(FreeSlots, j)
    BY <1>5, <1>10
  <2>2. macs[l] = macs[k] /\ l \in DOMAIN macs
    BY <1>8, <1>10, <2>1 DEF NewMac, Missing
  <2>3. Rank(FreeSlots, i) = Rank(FreeSlots, j)
    BY <1>3, <1>7, <1>8, <2>1, <2>2
  <2>4. Nth(FreeSlots, Rank(FreeSlots, i)) = i /\ Nth(FreeSlots, Rank(FreeSlots, j)) = j
    BY <1>5, <1>10
  <2> QED BY <2>3, <2>4
<1>11. ASSUME NEW j \in Slots, j < i, j \notin Used(table) PROVE Filled(macs, j)
  <2>1. i \in FreeSlots /\ j \in FreeSlots /\ i \in Nat /\ j \in Nat /\ j <= i
    BY <1>11, Constants DEF Filled, FreeSlots
  <2>2. Rank(FreeSlots, j) <= Rank(FreeSlots, i)
    BY <1>1, <2>1, RankGrows, Zenon
  <2>3. Rank(FreeSlots, j) \in Nat /\ Rank(FreeSlots, i) \in Nat
    BY <1>1, <2>1, RankIs
  <2>4. Rank(FreeSlots, i) <= Cardinality(M)
    BY DEF Filled
  <2>5. Rank(FreeSlots, j) <= Cardinality(M)
    BY <1>4, <2>2, <2>3, <2>4
  <2> QED BY <2>1, <2>5 DEF Filled
<1> QED BY <1>8, <1>9, <1>10, <1>11

\* New settings keep the table in order.
LEMMA ApplyKeeps ==
  ASSUME ScanInv, NEW macs \in AllowedLists, ble_scanner_apply_config(macs)
  PROVE  ScanInv'
<1> DEFINE F(i) == Filled(macs, i)
           new(i) == NewMac(macs, i)
<1>1. /\ now' = now /\ allowed' = macs
      /\ table' = [i \in Slots |->
           IF i \in Used(table)
           THEN [table[i] EXCEPT !.selected = table[i].address \in ToSet(macs)]
           ELSE IF F(i) THEN Placeholder(new(i)) ELSE Free]
  BY ApplyIs DEF ScanInv
<1>2. \A i \in Slots : F(i) =>
        /\ new(i) \in Addresses /\ new(i) \in ToSet(macs) /\ new(i) \notin Listed
        /\ \A j \in Slots : F(j) /\ new(j) = new(i) => i = j
        /\ \A j \in Slots : j < i /\ j \notin Used(table) => F(j)
  BY ApplyIs DEF ScanInv
<1>3. \A i \in Slots : F(i) => i \notin Used(table)
  BY DEF Filled, FreeSlots
<1> HIDE DEF F, new
<1>4. ASSUME NEW i \in Used(table)
      PROVE  /\ i \in Slots /\ table[i] \in Rows /\ table'[i] \in Rows
             /\ table'[i].address = table[i].address /\ table[i].address \in Listed
             /\ table'[i].address_type = table[i].address_type /\ table'[i].seen = table[i].seen
             /\ table'[i].selected <=> table[i].address \in ToSet(macs)
  <2>1. i \in Slots /\ table[i] \in Rows
    BY UsedIsRow DEF ScanInv
  <2>2. table'[i] = [table[i] EXCEPT !.selected = table[i].address \in ToSet(macs)]
    BY <1>1, <2>1
  <2>3. table[i].address \in Listed
    BY DEF Listed
  <2>4. (table[i].address \in ToSet(macs)) \in BOOLEAN
    OBVIOUS
  <2> QED BY <2>1, <2>2, <2>3, <2>4 DEF Rows
<1>5. ASSUME NEW i \in Slots, F(i)
      PROVE  /\ table'[i] \in Rows /\ table'[i].address = new(i) /\ table'[i].address_type = 0
             /\ table'[i].seen = 0 /\ table'[i].selected
  <2>1. table'[i] = Placeholder(new(i)) /\ new(i) \in Addresses
    BY <1>1, <1>2, <1>3, <1>5
  <2> QED BY <2>1, Constants DEF Placeholder, Rows
<1>6. ASSUME NEW i \in Slots, i \notin Used(table), ~F(i) PROVE table'[i] = Free
  BY <1>1, <1>6
<1>7. Used(table') = Used(table) \cup {i \in Slots : F(i)}
  BY <1>4, <1>5, <1>6, Constants DEF Used
<1>8. ScanTypes'
  <2>1. \A i \in Slots : table'[i] \in Rows \cup {Free}
    BY <1>4, <1>5, <1>6
  <2> QED BY <1>1, <2>1 DEF ScanInv, ScanTypes
<1>9. \A i, j \in Used(table') :
        table'[i].address = table'[j].address
          /\ table'[i].address_type = table'[j].address_type => i = j
  <2> SUFFICES ASSUME NEW i \in Used(table'), NEW j \in Used(table'),
                      table'[i].address = table'[j].address,
                      table'[i].address_type = table'[j].address_type
               PROVE  i = j
    OBVIOUS
  <2>1. CASE i \in Used(table) /\ j \in Used(table)
    BY <1>4, <2>1 DEF ScanInv, RowsAreDistinct
  <2>2. ASSUME NEW k \in Used(table), NEW l \in Slots, F(l) PROVE table'[k].address # table'[l].address
    BY <1>2, <1>4, <1>5, <2>2
  <2>3. CASE (i \in Used(table) /\ j \in Slots /\ F(j)) \/ (j \in Used(table) /\ i \in Slots /\ F(i))
    BY <2>2, <2>3
  <2>4. CASE i \in Slots /\ F(i) /\ j \in Slots /\ F(j)
    <3>1. new(i) = new(j)
      BY <1>5, <2>4
    <3> QED BY <1>2, <2>4, <3>1
  <2> QED BY <1>7, <2>1, <2>2, <2>3, <2>4
<1>10. ASSUME NEW i \in Used(table'), NEW j \in Slots, j < i PROVE j \in Used(table')
  BY <1>2, <1>7, <1>10 DEF ScanInv, RowsAreDistinct
<1>11. SelectedIsTracked'
  <2>1. \A i \in Used(table') : table'[i].selected <=> table'[i].address \in ToSet(macs)
    <3>1. ASSUME NEW i \in Used(table)
          PROVE  table'[i].selected <=> table'[i].address \in ToSet(macs)
      BY <1>4
    <3>2. ASSUME NEW i \in Slots, F(i)
          PROVE  table'[i].selected <=> table'[i].address \in ToSet(macs)
      BY <1>5, <1>2, <3>2
    <3> QED BY <1>7, <3>1, <3>2
  <2> QED BY <1>1, <2>1 DEF SelectedIsTracked, ble_mac_is_allowed
<1>12. ASSUME NEW i \in Used(table') PROVE IsHeardAs(table'[i]) \/ NeverHeard(table'[i])
  <2>1. CASE i \in Used(table)
    <3>1. IsHeardAs(table[i]) \/ NeverHeard(table[i])
      BY <2>1 DEF ScanInv, RowsAreDistinct
    <3> QED BY <1>4, <2>1, <3>1 DEF IsHeardAs, NeverHeard
  <2>2. CASE i \in Slots /\ F(i)
    BY <1>5, <2>2 DEF NeverHeard
  <2> QED BY <1>7, <2>1, <2>2
<1> QED BY <1>8, <1>9, <1>10, <1>11, <1>12 DEF ScanInv, RowsAreDistinct

-----------------------------------------------------------------------------
(* The theorems.                                                           *)

\* The table is empty when the scanner starts.
LEMMA ScanInit == Init => ScanInv
<1> SUFFICES ASSUME Init PROVE ScanInv
  OBVIOUS
<1>1. ScanTypes /\ Used(table) = {}
  BY Constants DEF Init, ScanTypes, Used
<1> QED BY <1>1 DEF ScanInv, RowsAreDistinct, SelectedIsTracked

\* Every step keeps it in order.
LEMMA ScanStep == ScanInv /\ [Next]_vars => ScanInv'
<1> SUFFICES ASSUME ScanInv, [Next]_vars PROVE ScanInv'
  OBVIOUS
<1>1. ASSUME UNCHANGED <<table, allowed>>, now' \in 0 .. MaxNow PROVE ScanInv'
  BY <1>1 DEF ScanInv, ScanTypes, RowsAreDistinct, SelectedIsTracked, ble_mac_is_allowed, Used
<1>2. CASE UNCHANGED vars
  BY <1>1, <1>2 DEF vars, ScanInv, ScanTypes
<1>3. CASE Tick
  <2>1. now' \in 0 .. MaxNow /\ UNCHANGED <<table, allowed>>
    BY <1>3, Constants DEF Tick, ScanInv, ScanTypes
  <2> QED BY <1>1, <2>1
<1>4. ASSUME NEW a \in Addresses, NEW advert \in Adverts, Report(a, advert) PROVE ScanInv'
  <2>1. UNCHANGED <<now, allowed>> /\ (UNCHANGED table \/ ble_device_table_update(a))
    BY <1>4 DEF Report
  <2>2. CASE UNCHANGED table
    BY <1>1, <2>1, <2>2 DEF ScanInv, ScanTypes
  <2> QED BY <2>1, <2>2, ReportKeeps
<1> QED BY <1>2, <1>3, <1>4, PeriodicKeeps, ApplyKeeps DEF Next

\* The invariant holds always.
LEMMA ScanAlways == Spec => []ScanInv
  BY ScanInit, ScanStep, PTL DEF Spec

\* At most one row tells what was heard of a device, a second one is that of a
\* tracked device from before it was heard, and the rows in use come first, for
\* any sizes of the table and of the settings and any reports
\* (ble_device_table_update, ble_scanner_periodic, ble_scanner_apply_config).
THEOREM AlwaysDistinctRows == Spec => []RowsAreDistinct
<1>1. ScanInv => RowsAreDistinct
  BY DEF ScanInv
<1> QED BY <1>1, ScanAlways, PTL

\* A row is shown as tracked exactly when its MAC is in the settings in force
\* (ble_scanner_apply_config).
THEOREM AlwaysSelectedIsTracked == Spec => []SelectedIsTracked
<1>1. ScanInv => SelectedIsTracked
  BY DEF ScanInv
<1> QED BY <1>1, ScanAlways, PTL

-----------------------------------------------------------------------------
(* How a device loses its row.                                             *)

\* No report is from the future.
HeardBefore == \A i \in Used(table) : table[i].seen <= now

\* A row's time is set by a report, to the present.
LEMMA HeardStep == ScanInv /\ HeardBefore /\ [Next]_vars => HeardBefore'
<1> SUFFICES ASSUME ScanInv, HeardBefore, [Next]_vars
             PROVE  \A i \in Used(table') : table'[i].seen <= now'
  BY DEF HeardBefore
<1>1. /\ now \in Nat /\ ScanTypes
      /\ \A i \in Used(table) : i \in Slots /\ table[i] \in Rows /\ table[i].seen \in Nat
  BY UsedIsRow, Constants DEF ScanInv, ScanTypes, Rows
<1>2. CASE UNCHANGED <<now, table>>
  BY <1>2 DEF HeardBefore
<1>3. CASE Tick
  <2>1. \A i \in Used(table) : table[i].seen <= now + 1
    BY <1>1 DEF HeardBefore
  <2> QED BY <1>3, <2>1 DEF Tick
<1>4. CASE ble_scanner_periodic
  <2>1. now' = now
    BY <1>4 DEF ble_scanner_periodic
  <2>2. \A i \in Used(table') : \E k \in Used(table) : table'[i] = table[k]
    BY <1>1, <1>4, PeriodicIs
  <2> QED BY <2>1, <2>2 DEF HeardBefore
<1>5. ASSUME NEW a \in Addresses, NEW advert \in Adverts, Report(a, advert), ble_device_table_update(a)
      PROVE  \A i \in Used(table') : table'[i].seen <= now'
  <2>1. now' = now
    BY <1>5 DEF Report
  <2>2. PICK slot \in Slots, row \in Rows : table' = [table EXCEPT ![slot] = row] /\ row.seen = now
    BY <1>5, UpdateIs
  <2>3. ASSUME NEW i \in Used(table') PROVE table'[i] = row \/ (i \in Used(table) /\ table'[i] = table[i])
    BY <2>2 DEF Used, ScanInv, ScanTypes
  <2>4. now <= now
    BY <1>1
  <2> QED BY <2>1, <2>2, <2>3, <2>4 DEF HeardBefore
<1>6. ASSUME NEW macs \in AllowedLists, ble_scanner_apply_config(macs)
      PROVE  \A i \in Used(table') : table'[i].seen <= now'
  <2>1. /\ now' = now
        /\ table' = [i \in Slots |->
             IF i \in Used(table)
             THEN [table[i] EXCEPT !.selected = table[i].address \in ToSet(macs)]
             ELSE IF Filled(macs, i) THEN Placeholder(NewMac(macs, i)) ELSE Free]
    BY <1>1, <1>6, ApplyIs
  <2>2. ASSUME NEW i \in Used(table') PROVE table'[i].seen <= now
    <3>1. i \in Slots /\ table'[i] # Free
      BY DEF Used
    <3>2. CASE i \in Used(table)
      <4>1. table'[i] = [table[i] EXCEPT !.selected = table[i].address \in ToSet(macs)]
        BY <2>1, <3>1, <3>2
      <4>2. table'[i].seen = table[i].seen
        BY <1>1, <3>2, <4>1 DEF Rows
      <4> QED BY <3>2, <4>2 DEF HeardBefore
    <3>3. CASE i \notin Used(table)
      <4>1. table'[i] = Placeholder(NewMac(macs, i))
        BY <2>1, <3>1, <3>3
      <4> QED BY <1>1, <4>1 DEF Placeholder
    <3> QED BY <3>2, <3>3
  <2> QED BY <2>1, <2>2
<1> QED
  BY <1>2, <1>3, <1>4, <1>5, <1>6 DEF Next, Report, vars

\* The age that the clean-up works out is no more than the true one.
LEMMA AgeIsTrue ==
  ASSUME ScanInv, HeardBefore, NEW i \in Used(table)
  PROVE  Age(table[i]) <= now - table[i].seen
<1> DEFINE s == table[i].seen
<1>1. s \in Nat /\ now \in Nat /\ s <= now /\ Wrap \in Nat \ {0}
  BY UsedIsRow, Constants DEF ScanInv, ScanTypes, HeardBefore, Rows
<1> HIDE DEF s
<1>2. ASSUME NEW w \in Nat \ {0}, NEW x \in Nat, NEW y \in Nat, x <= y
      PROVE  (y % w) - (x % w) <= y - x
  <2>1. PICK p \in Int, r \in 0 .. w - 1 : r = x % w /\ x = w * p + r
    BY <1>2
  <2>2. PICK q \in Int, t \in 0 .. w - 1 : t = y % w /\ y = w * q + t
    BY <1>2
  <2>3. p <= q
    <3>1. ASSUME q + 1 <= p PROVE FALSE
      <4>1. w * (q + 1) <= w * p
        BY <3>1
      <4>2. w * (q + 1) = w * q + w
        OBVIOUS
      <4> QED BY <1>2, <2>1, <2>2, <4>1, <4>2
    <3> QED BY <3>1
  <2>4. w * p <= w * q
    BY <2>3
  <2> QED BY <2>1, <2>2, <2>4
<1>3. (now % Wrap) - (s % Wrap) <= now - s
  BY <1>1, <1>2
<1>4. Age(table[i]) = IF now % Wrap >= s % Wrap THEN (now % Wrap) - (s % Wrap) ELSE 0
  BY DEF Age, LastSeen, s
<1>5. Age(table[i]) <= now - s
  BY <1>1, <1>3, <1>4
<1> QED BY <1>5 DEF s

\* A row that is gone was not tracked and old, or made room for a new device.
LEMMA LostForAReason ==
  ASSUME MaxNow < Wrap, ScanInv, HeardBefore, Next, NEW i \in Used(table),
         RowsOf(table', table[i].address, table[i].address_type) = {}
  PROVE  \/ ~table[i].selected /\ now - table[i].seen > Expiry
         \/ /\ Used(table) = Slots /\ Used(table') = Slots
            /\ \A j \in Slots : table'[j].seen >= table[i].seen
<1>0. /\ ScanTypes /\ now \in Nat /\ i \in Slots /\ table[i] \in Rows
      /\ table[i].seen \in Nat /\ table[i].selected \in BOOLEAN
  BY UsedIsRow, Constants DEF ScanInv, ScanTypes, Rows
<1>1. ASSUME NEW k \in Used(table'), table'[k].address = table[i].address,
             table'[k].address_type = table[i].address_type
      PROVE  FALSE
  BY <1>1 DEF RowsOf
<1>2. CASE UNCHANGED table
  BY <1>1, <1>2
<1>3. CASE ble_scanner_periodic
  <2>1. i \notin KeptRows
    BY <1>0, <1>1, <1>3, PeriodicIs
  <2>2. ~table[i].selected /\ ~(Age(table[i]) <= Expiry)
    BY <2>1 DEF KeptRows
  <2>3. Age(table[i]) <= now - table[i].seen /\ Age(table[i]) \in Int
    <3>1. \A x \in Nat : x % Wrap \in Int
      BY Constants
    <3> QED BY <1>0, <3>1, AgeIsTrue DEF Age, LastSeen
  <2>4. now - table[i].seen > Expiry
    BY <1>0, <2>2, <2>3, Constants
  <2> QED BY <2>2, <2>4
<1>4. ASSUME NEW macs \in AllowedLists, ble_scanner_apply_config(macs) PROVE FALSE
  <2>1. table' = [k \in Slots |->
          IF k \in Used(table)
          THEN [table[k] EXCEPT !.selected = table[k].address \in ToSet(macs)]
          ELSE IF Filled(macs, k) THEN Placeholder(NewMac(macs, k)) ELSE Free]
    BY <1>0, <1>4, ApplyIs
  <2>2. table'[i] = [table[i] EXCEPT !.selected = table[i].address \in ToSet(macs)]
    BY <1>0, <2>1
  <2>3. (table[i].address \in ToSet(macs)) \in BOOLEAN
    OBVIOUS
  <2>4. /\ table'[i] \in Rows /\ table'[i].address = table[i].address
        /\ table'[i].address_type = table[i].address_type
    BY <1>0, <2>2, <2>3 DEF Rows
  <2>5. i \in Used(table')
    BY <1>0, <2>4, Constants DEF Used
  <2> QED BY <1>1, <2>4, <2>5
<1>5. ASSUME NEW a \in Addresses, ble_device_table_update(a)
      PROVE  /\ Used(table) = Slots /\ Used(table') = Slots
             /\ \A j \in Slots : table'[j].seen >= table[i].seen
  <2>1. PICK slot \in Slots, row \in Rows :
          /\ table' = [table EXCEPT ![slot] = row]
          /\ row.address = a /\ row.address_type = AddressType[a] /\ row.seen = now
          /\ \/ slot \in RowsOf(table, a, AddressType[a])
             \/ slot \notin Used(table)
             \/ Used(table) = Slots /\ slot = RowToEvict
    BY <1>5, UpdateIs
  <2>2. table'[slot] = row /\ \A k \in Slots \ {slot} : table'[k] = table[k]
    BY <1>0, <2>1 DEF ScanTypes
  <2>3. \A k \in Used(table) \cup {slot} : k \in Used(table')
    BY <2>1, <2>2, Constants DEF Used
  <2>4. slot = i
    BY <1>0, <1>1, <2>2, <2>3
  <2>5. slot \notin RowsOf(table, a, AddressType[a])
    <3>1. ASSUME slot \in RowsOf(table, a, AddressType[a]) PROVE FALSE
      <4>1. table[i].address = a /\ table[i].address_type = AddressType[a]
        BY <2>4, <3>1 DEF RowsOf
      <4> QED BY <1>1, <2>1, <2>2, <2>3, <2>4, <4>1
    <3> QED BY <3>1
  <2>6. Used(table) = Slots /\ RowToEvict = i
    BY <2>1, <2>4, <2>5
  <2>7. Used(table') = Slots
    BY <2>3, <2>6 DEF Used
  <2>8. ASSUME NEW j \in Slots PROVE table'[j].seen >= table[i].seen
    <3>1. CASE j = slot
      BY <1>0, <2>1, <2>2, <2>4, <3>1 DEF HeardBefore
    <3>2. CASE j # slot
      <4>1. LastSeen(table[i]) <= LastSeen(table[j])
        BY <1>0, <2>6, RowToEvictIs
      <4>2. table[j].seen \in 0 .. MaxNow
        BY <1>0, <2>6, UsedIsRow DEF Rows
      <4>3. table[i].seen \in 0 .. MaxNow
        BY <1>0 DEF Rows
      <4>4. \A x \in 0 .. MaxNow : x % Wrap = x
        BY Constants
      <4>5. table[i].seen <= table[j].seen
        BY <4>1, <4>2, <4>3, <4>4 DEF LastSeen
      <4> QED BY <1>0, <2>2, <3>2, <4>2, <4>5
    <3> QED BY <3>1, <3>2
  <2> QED BY <2>6, <2>7, <2>8
<1> QED
  BY <1>2, <1>3, <1>4, <1>5 DEF Next, Report, Tick

\* As long as the clock has not wrapped, a device loses its row only if it is not
\* tracked and was silent for longer than the expiry time, or to a new device when
\* the table is full and no other was silent for longer (ble_device_table_update,
\* ble_scanner_periodic).
THEOREM AlwaysLosesRowForAReason == MaxNow < Wrap => (Spec => LosesRowForAReason)
<1> SUFFICES ASSUME MaxNow < Wrap PROVE Spec => LosesRowForAReason
  OBVIOUS
<1>1. Init => ScanInv /\ HeardBefore
  BY ScanInit DEF Init, HeardBefore, Used
<1>2. ScanInv /\ HeardBefore /\ [Next]_vars => (ScanInv /\ HeardBefore)'
  BY ScanStep, HeardStep
<1>3. ScanInv /\ HeardBefore /\ Next =>
        \A i \in Used(table) :
          LET row == table[i]
          IN  RowsOf(table', row.address, row.address_type) = {} =>
                \/ ~row.selected /\ now - row.seen > Expiry
                \/ /\ Used(table) = Slots /\ Used(table') = Slots
                   /\ \A j \in Slots : table'[j].seen >= row.seen
  BY LostForAReason
<1> QED
  BY <1>1, <1>2, <1>3, PTL DEF LosesRowForAReason, Spec

-----------------------------------------------------------------------------
(* Induction, over numbers in a set.                                       *)

LEMMA Upward ==
  ASSUME NEW n \in Nat, NEW S, 0 \in S, \A k \in Nat : k < n /\ k \in S => k + 1 \in S
  PROVE  \A k \in 0 .. n : k \in S
<1> DEFINE T == {k \in 0 .. n : k \notin S}
<1>1. SUFFICES ASSUME T # {} PROVE FALSE
  OBVIOUS
<1>2. PICK k \in T : \A j \in T : k <= j
  <2>1. T \subseteq Nat
    OBVIOUS
  <2> HIDE DEF T
  <2> QED
    BY <1>1, <2>1, LeastNumber
<1>3. k \in Nat /\ k # 0 /\ k <= n
  OBVIOUS
<1>4. k - 1 \in 0 .. n /\ ~(k <= k - 1) /\ k - 1 \in Nat /\ k - 1 < n /\ k - 1 + 1 = k
  BY <1>3
<1>5. k - 1 \in S
  BY <1>2, <1>4
<1> QED
  BY <1>4, <1>5

LEMMA Downward ==
  ASSUME NEW m \in Nat, NEW n \in Nat, NEW S, n \in S,
         \A k \in Nat : m <= k /\ k < n /\ k + 1 \in S => k \in S
  PROVE  \A k \in m .. n : k \in S
<1> DEFINE T == {j \in Nat : j <= n - m => n - j \in S}
<1>1. 0 \in T
  OBVIOUS
<1>2. ASSUME NEW j \in Nat, j < n - m, j \in T PROVE j + 1 \in T
  <2>1. n - (j + 1) \in Nat /\ m <= n - (j + 1) /\ n - (j + 1) < n /\ n - (j + 1) + 1 = n - j /\ j <= n - m
    BY <1>2
  <2>2. n - (j + 1) \in S
    BY <1>2, <2>1
  <2> QED
    BY <2>2
<1>3. ASSUME NEW k \in m .. n PROVE k \in S
  <2>1. n - m \in Nat /\ n - k \in 0 .. n - m /\ n - (n - k) = k
    OBVIOUS
  <2> HIDE DEF T
  <2>2. n - k \in T
    BY <1>1, <1>2, <2>1, Upward
  <2> QED
    BY <2>1, <2>2 DEF T
<1> QED
  BY <1>3

-----------------------------------------------------------------------------
(* What the recursive definitions of the parser stand for.                 *)

\* What ble_parse_bthome_v2 finds at i, if g is what it finds further on.
FieldStep(field, g, i) ==
  IF i > Len(field) \/ field[i] \notin KnownObjects THEN <<>>
  ELSE LET next == i + 1 + Width(field[i])
       IN  IF next > Len(field) + 1 THEN <<>>
           ELSE (IF field[i] = PacketId THEN <<>>
                 ELSE <<Reading(field[i], field, i + 1)>>) \o g[next]

FieldFrom(field) == CHOOSE g : g = [i \in 4 .. Len(field) + 1 |-> FieldStep(field, g, i)]

LEMMA FieldFromIs ==
  ASSUME NEW field, Len(field) \in Nat, Len(field) >= 3
  PROVE  /\ \A i \in 4 .. Len(field) + 1 :
              FieldFrom(field)[i] = FieldStep(field, FieldFrom(field), i)
         /\ ble_parse_bthome_v2(field) =
              IF InfoIsPlain(field[3]) THEN FieldFrom(field)[4] ELSE <<>>
<1> DEFINE L == Len(field)
           Solves(g, k) == g = [i \in k .. L + 1 |-> FieldStep(field, g, i)]
           S == {k \in Nat : \E g : Solves(g, k)}
<1>1. L + 2 \in S
  <2> DEFINE g == [i \in L + 2 .. L + 1 |-> FieldStep(field, <<>>, i)]
  <2>1. L + 2 .. L + 1 = {} /\ L + 2 \in Nat
    OBVIOUS
  <2>2. Solves(g, L + 2)
    BY <2>1
  <2> QED
    BY <2>1, <2>2
<1>2. ASSUME NEW k \in Nat, 4 <= k, k < L + 2, k + 1 \in S PROVE k \in S
  <2>1. PICK g : Solves(g, k + 1)
    BY <1>2
  <2> DEFINE h == [i \in k .. L + 1 |-> FieldStep(field, g, i)]
  <2>2. ASSUME NEW i \in k .. L + 1 PROVE FieldStep(field, h, i) = FieldStep(field, g, i)
    <3> DEFINE next == i + 1 + Width(field[i])
    <3>1. CASE i > Len(field) \/ field[i] \notin KnownObjects \/ next > Len(field) + 1
      BY <3>1 DEF FieldStep
    <3>2. CASE ~(i > Len(field) \/ field[i] \notin KnownObjects \/ next > Len(field) + 1)
      <4>1. Width(field[i]) \in {1, 2}
        BY DEF Width
      <4>2. next \in k + 1 .. L + 1 /\ next \in k .. L + 1
        BY <3>2, <4>1
      <4> HIDE DEF next
      <4>3. h[next] = FieldStep(field, g, next) /\ g[next] = FieldStep(field, g, next)
        BY <2>1, <4>2
      <4> QED
        BY <3>2, <4>3 DEF FieldStep, next
    <3> QED
      BY <3>1, <3>2
  <2>3. Solves(h, k)
    <3> HIDE DEF h
    <3>1. h = [i \in k .. L + 1 |-> FieldStep(field, g, i)]
      BY DEF h
    <3> QED
      BY <2>2, <3>1
  <2> QED
    BY <2>3
<1>3. 4 \in S
  <2>1. L + 2 \in Nat /\ 4 \in 4 .. L + 2
    OBVIOUS
  <2> HIDE DEF S, L
  <2> QED
    BY <1>1, <1>2, <2>1, Downward
<1>4. Solves(FieldFrom(field), 4)
  BY <1>3 DEF FieldFrom
<1>5. ble_parse_bthome_v2(field) =
        IF L < 3 \/ ~InfoIsPlain(field[3]) THEN <<>> ELSE FieldFrom(field)[4]
  BY DEF ble_parse_bthome_v2, FieldFrom, FieldStep
<1> QED
  <2> DEFINE F == FieldFrom(field)
  <2>1. F = [i \in 4 .. L + 1 |-> FieldStep(field, F, i)]
    BY <1>4
  <2> HIDE DEF F
  <2>2. \A i \in 4 .. L + 1 : F[i] = FieldStep(field, F, i)
    BY <2>1
  <2>3. ble_parse_bthome_v2(field) = IF InfoIsPlain(field[3]) THEN F[4] ELSE <<>>
    BY <1>5 DEF F
  <2> QED
    BY <2>2, <2>3 DEF F

\* What ble_parse_bthome_advertising_data finds at i.
DataStep(data, g, i) ==
  IF i > Len(data) THEN <<>>
  ELSE IF data[i] = 0 \/ i + data[i] > Len(data) THEN <<>>
  ELSE IF /\ data[i + 1] = ServiceData
          /\ data[i] >= 3
          /\ SubSeq(SubSeq(data, i + 2, i + data[i]), 1, 2) = BtHomeUuid
       THEN ble_parse_bthome_v2(SubSeq(data, i + 2, i + data[i]))
  ELSE g[i + data[i] + 1]

DataFrom(data) == CHOOSE g : g = [i \in 1 .. Len(data) + 1 |-> DataStep(data, g, i)]

LEMMA DataFromIs ==
  ASSUME NEW data \in Seq(Nat)
  PROVE  /\ \A i \in 1 .. Len(data) + 1 : DataFrom(data)[i] = DataStep(data, DataFrom(data), i)
         /\ ble_parse_bthome_advertising_data(data) = DataFrom(data)[1]
<1> DEFINE L == Len(data)
           Solves(g, k) == g = [i \in k .. L + 1 |-> DataStep(data, g, i)]
           S == {k \in Nat : \E g : Solves(g, k)}
<1>0. L \in Nat /\ \A i \in 1 .. L : data[i] \in Nat
  OBVIOUS
<1>1. L + 2 \in S
  <2> DEFINE g == [i \in L + 2 .. L + 1 |-> DataStep(data, <<>>, i)]
  <2>1. L + 2 .. L + 1 = {} /\ L + 2 \in Nat
    BY <1>0
  <2>2. Solves(g, L + 2)
    BY <2>1
  <2> QED
    BY <2>1, <2>2
<1>2. ASSUME NEW k \in Nat, 1 <= k, k < L + 2, k + 1 \in S PROVE k \in S
  <2>1. PICK g : Solves(g, k + 1)
    BY <1>2
  <2> DEFINE h == [i \in k .. L + 1 |-> DataStep(data, g, i)]
  <2>2. ASSUME NEW i \in k .. L + 1 PROVE DataStep(data, h, i) = DataStep(data, g, i)
    <3> DEFINE next == i + data[i] + 1
    <3>1. CASE i > Len(data) \/ data[i] = 0 \/ i + data[i] > Len(data)
      BY <3>1 DEF DataStep
    <3>2. CASE ~(i > Len(data) \/ data[i] = 0 \/ i + data[i] > Len(data))
      <4>1. next \in k + 1 .. L + 1 /\ next \in k .. L + 1
        <5>1. i \in 1 .. L /\ data[i] \in Nat
          BY <1>0, <1>2, <3>2
        <5>2. PICK d \in Nat : d = data[i]
          BY <5>1
        <5>3. i \in Nat /\ k <= i /\ L \in Nat /\ d # 0 /\ ~(i + d > L)
          BY <1>0, <3>2, <5>2
        <5>4. i + d + 1 \in k + 1 .. L + 1 /\ i + d + 1 \in k .. L + 1
          BY <5>3
        <5> QED
          BY <5>2, <5>4
      <4> HIDE DEF next
      <4>3. h[next] = DataStep(data, g, next) /\ g[next] = DataStep(data, g, next)
        BY <2>1, <4>1
      <4> HIDE DEF h
      <4> QED
        BY <3>2, <4>3 DEF DataStep, next
    <3> QED
      BY <3>1, <3>2
  <2>3. Solves(h, k)
    <3> HIDE DEF h
    <3>1. h = [i \in k .. L + 1 |-> DataStep(data, g, i)]
      BY DEF h
    <3> QED
      BY <2>2, <3>1
  <2> QED
    BY <2>3
<1>3. 1 \in S
  <2>1. L + 2 \in Nat /\ 1 \in 1 .. L + 2 /\ 1 \in Nat
    BY <1>0
  <2> HIDE DEF S, L
  <2> QED
    BY <1>1, <1>2, <2>1, Downward
<1>4. Solves(DataFrom(data), 1)
  BY <1>3 DEF DataFrom
<1>5. ble_parse_bthome_advertising_data(data) = DataFrom(data)[1]
  BY DEF ble_parse_bthome_advertising_data, DataFrom, DataStep
<1> QED
  BY <1>4, <1>5

\* The first n sequences one behind the other.
Joined(seqs, n) ==
  IF n = 0 THEN <<>>
  ELSE (CHOOSE g : g = [i \in 1 .. Len(seqs) |->
                          IF i = 1 THEN seqs[i] ELSE g[i - 1] \o seqs[i]])[n]

LEMMA JoinedIs ==
  ASSUME NEW R, NEW seqs \in Seq(Seq(R))
  PROVE  /\ Joined(seqs, 0) = <<>> /\ FlattenSeq(seqs) = Joined(seqs, Len(seqs))
         /\ \A n \in 1 .. Len(seqs) : /\ Joined(seqs, n - 1) \in Seq(R) /\ Joined(seqs, n) \in Seq(R)
                                      /\ Joined(seqs, n) = Joined(seqs, n - 1) \o seqs[n]
<1> DEFINE L == Len(seqs)
           Step(g, i) == IF i = 1 THEN seqs[i] ELSE g[i - 1] \o seqs[i]
           Solves(g, n) == g = [i \in 1 .. n |-> Step(g, i)]
           S == {n \in Nat : \E g : Solves(g, n)}
<1>0. L \in Nat /\ \A i \in 1 .. L : seqs[i] \in Seq(R)
  OBVIOUS
<1>1. 0 \in S
  <2> DEFINE g == [i \in 1 .. 0 |-> Step(<<>>, i)]
  <2>1. 1 .. 0 = {}
    OBVIOUS
  <2>2. Solves(g, 0)
    BY <2>1
  <2> QED
    BY <2>2
<1>2. ASSUME NEW n \in Nat, n < L, n \in S PROVE n + 1 \in S
  <2>1. PICK g : Solves(g, n)
    BY <1>2
  <2> DEFINE h == [i \in 1 .. n + 1 |-> Step(g, i)]
  <2>2. ASSUME NEW i \in 1 .. n + 1 PROVE Step(h, i) = Step(g, i)
    <3>1. CASE i # 1
      <4>1. i - 1 \in 1 .. n /\ i - 1 \in 1 .. n + 1
        BY <3>1
      <4>2. h[i - 1] = Step(g, i - 1) /\ g[i - 1] = Step(g, i - 1)
        BY <2>1, <4>1
      <4> HIDE DEF h
      <4> QED
        BY <4>2
    <3> QED
      BY <3>1
  <2>3. Solves(h, n + 1)
    <3> HIDE DEF h
    <3>1. h = [i \in 1 .. n + 1 |-> Step(g, i)]
      BY DEF h
    <3> HIDE DEF Step
    <3> QED
      BY <2>2, <3>1
  <2>4. n + 1 \in Nat
    OBVIOUS
  <2> HIDE DEF h, Solves
  <2> QED
    BY <2>3, <2>4
<1>3. L \in S
  <2>1. L \in 0 .. L
    BY <1>0
  <2> HIDE DEF S, L
  <2> QED
    BY <1>0, <1>1, <1>2, <2>1, Upward
<1> DEFINE f == CHOOSE g : g = [i \in 1 .. L |-> Step(g, i)]
<1>4. Solves(f, L)
  BY <1>3
<1>5. \A n : n # 0 => Joined(seqs, n) = f[n]
  BY DEF Joined
<1>6. FlattenSeq(seqs) = Joined(seqs, L)
  <2>1. CASE L = 0
    BY <2>1 DEF FlattenSeq, Joined
  <2>2. CASE L # 0
    BY <2>2 DEF FlattenSeq, Joined
  <2> QED
    BY <2>1, <2>2
<1>7. Joined(seqs, 0) = <<>>
  BY DEF Joined
<1>8. \A i \in 1 .. L : f[i] = Step(f, i)
  BY <1>4
<1> HIDE DEF f, L, Step
<1>9. ASSUME NEW n \in 1 .. L
      PROVE  Joined(seqs, n - 1) \in Seq(R) => /\ Joined(seqs, n) \in Seq(R)
                                               /\ Joined(seqs, n) = Joined(seqs, n - 1) \o seqs[n]
  <2>0. n # 0
    BY <1>0
  <2>1. seqs[n] \in Seq(R) /\ Joined(seqs, n) = Step(f, n)
    BY <1>0, <1>5, <1>8, <2>0
  <2>2. CASE n = 1
    <3>1. Joined(seqs, n) = seqs[n] /\ Joined(seqs, n - 1) = <<>>
      BY <1>7, <2>1, <2>2 DEF Step
    <3>2. <<>> \o seqs[n] = seqs[n]
      BY <2>1
    <3> QED
      BY <2>1, <3>1, <3>2
  <2>3. CASE n # 1
    <3>1. Joined(seqs, n) = f[n - 1] \o seqs[n]
      BY <2>1, <2>3 DEF Step
    <3>2. Joined(seqs, n - 1) = f[n - 1]
      <4>1. n - 1 # 0
        BY <1>0, <2>3
      <4> QED
        BY <1>5, <4>1
    <3>3. Joined(seqs, n - 1) \in Seq(R) =>
            Joined(seqs, n - 1) \o seqs[n] \in Seq(R)
      BY <2>1
    <3> QED
      BY <3>1, <3>2, <3>3
  <2> QED
    BY <2>2, <2>3
<1> DEFINE T == {n \in Nat : Joined(seqs, n) \in Seq(R)}
<1>10. 0 \in T /\ \A n \in Nat : n < L /\ n \in T => n + 1 \in T
  <2>1. 0 \in T
    <3>1. <<>> \in Seq(R)
      OBVIOUS
    <3> QED
      BY <1>7, <3>1
  <2>2. ASSUME NEW n \in Nat, n < L, Joined(seqs, n) \in Seq(R) PROVE Joined(seqs, n + 1) \in Seq(R)
    <3>1. PICK m \in 1 .. L : m = n + 1 /\ m - 1 = n
      BY <1>0, <2>2
    <3>2. Joined(seqs, m - 1) \in Seq(R)
      BY <2>2, <3>1
    <3>3. Joined(seqs, m) \in Seq(R)
      BY <1>9, <3>2
    <3> QED
      BY <3>1, <3>3
  <2> QED
    BY <2>1, <2>2
<1>11. \A n \in 0 .. L : n \in T
  <2> HIDE DEF T
  <2> QED
    BY <1>0, <1>10, Upward
<1>12. \A n \in 1 .. L : n - 1 \in 0 .. L /\ n \in 0 .. L
  BY <1>0
<1> QED
  BY <1>6, <1>7, <1>9, <1>11, <1>12 DEF L

\* Readings are added one by one.
ReadingOf(object) == [field |-> object.id, value |-> object.value]

AllReadings(objects) == {ReadingOf(objects[k]) : k \in 1 .. Len(objects)}

LEMMA ReadingsAre ==
  ASSUME NEW objects, Len(objects) \in Nat
  PROVE  /\ Readings(objects, 0) = <<>>
         /\ \A k \in 1 .. Len(objects) :
              /\ Readings(objects, k - 1) \in Seq(AllReadings(objects))
              /\ Readings(objects, k) =
                   IF objects[k].id = PacketId THEN Readings(objects, k - 1)
                   ELSE Append(Readings(objects, k - 1), ReadingOf(objects[k]))
         /\ \A k \in 0 .. Len(objects) : Readings(objects, k) \in Seq(AllReadings(objects))
<1> DEFINE L == Len(objects)
           R == AllReadings(objects)
           Step(g, k) == IF k = 0 THEN <<>>
                         ELSE IF objects[k].id = PacketId THEN g[k - 1]
                         ELSE Append(g[k - 1], [field |-> objects[k].id, value |-> objects[k].value])
           Solves(g, n) == g = [k \in 0 .. n |-> Step(g, k)]
           S == {n \in Nat : \E g : Solves(g, n)}
<1>1. 0 \in S
  <2> DEFINE g == [k \in 0 .. 0 |-> <<>>]
  <2>1. \A k \in 0 .. 0 : k = 0
    OBVIOUS
  <2>2. Solves(g, 0)
    BY <2>1
  <2> HIDE DEF g, Solves
  <2> QED
    BY <2>2
<1>2. ASSUME NEW n \in Nat, n < L, n \in S PROVE n + 1 \in S
  <2>1. PICK g : Solves(g, n)
    BY <1>2
  <2> DEFINE h == [k \in 0 .. n + 1 |-> Step(g, k)]
  <2>2. ASSUME NEW k \in 0 .. n + 1 PROVE Step(h, k) = Step(g, k)
    <3>1. CASE k # 0
      <4>1. k - 1 \in 0 .. n /\ k - 1 \in 0 .. n + 1
        BY <3>1
      <4>2. h[k - 1] = Step(g, k - 1) /\ g[k - 1] = Step(g, k - 1)
        BY <2>1, <4>1
      <4> HIDE DEF h
      <4> QED
        BY <4>2
    <3> QED
      BY <3>1
  <2>3. Solves(h, n + 1)
    <3> HIDE DEF h
    <3>1. h = [k \in 0 .. n + 1 |-> Step(g, k)]
      BY DEF h
    <3> HIDE DEF Step
    <3> QED
      BY <2>2, <3>1
  <2>4. n + 1 \in Nat
    OBVIOUS
  <2> HIDE DEF h, Solves
  <2> QED
    BY <2>3, <2>4
<1>3. L \in S
  <2>1. L \in 0 .. L
    OBVIOUS
  <2> HIDE DEF S, L
  <2>2. L \in Nat
    BY DEF L
  <2> QED
    BY <1>1, <1>2, <2>1, <2>2, Upward
<1> DEFINE f == CHOOSE g : g = [k \in 0 .. L |-> Step(g, k)]
<1>4. Solves(f, L)
  BY <1>3
<1>5. \A n : Readings(objects, n) = f[n]
  BY DEF Readings
<1>6. \A k \in 0 .. L : f[k] = Step(f, k)
  BY <1>4
<1> HIDE DEF f
<1>7. Readings(objects, 0) = <<>>
  <2>1. 0 \in 0 .. L
    OBVIOUS
  <2> QED
    BY <1>5, <1>6, <2>1
<1>8. ASSUME NEW k \in 1 .. L
      PROVE  Readings(objects, k) =
               IF objects[k].id = PacketId THEN Readings(objects, k - 1)
               ELSE Append(Readings(objects, k - 1), ReadingOf(objects[k]))
  <2>1. k \in 0 .. L /\ k # 0
    OBVIOUS
  <2> QED
    BY <1>5, <1>6, <2>1 DEF ReadingOf
<1> DEFINE T == {n \in Nat : Readings(objects, n) \in Seq(R)}
<1>9. 0 \in T
  <2>1. <<>> \in Seq(R)
    OBVIOUS
  <2> QED
    BY <1>7, <2>1
<1>10. ASSUME NEW n \in Nat, n < L, n \in T PROVE n + 1 \in T
  <2>1. PICK k \in 1 .. L : k = n + 1 /\ k - 1 = n
    BY <1>10
  <2>2. ReadingOf(objects[k]) \in R
    BY DEF AllReadings
  <2>3. Readings(objects, k) \in Seq(R)
    <3> HIDE DEF R
    <3>1. PICK r \in Seq(R) : r = Readings(objects, k - 1)
      BY <1>10, <2>1
    <3>2. PICK x \in R : x = ReadingOf(objects[k])
      BY <2>2
    <3>3. Append(r, x) \in Seq(R)
      OBVIOUS
    <3>4. Readings(objects, k) = IF objects[k].id = PacketId THEN r ELSE Append(r, x)
      BY <1>8, <3>1, <3>2
    <3> QED
      BY <3>3, <3>4
  <2> QED
    BY <2>1, <2>3
<1>11. \A n \in 0 .. L : n \in T
  <2> HIDE DEF T, L
  <2>1. L \in Nat
    BY DEF L
  <2> QED
    BY <1>9, <1>10, <2>1, Upward
<1>12. \A k \in 1 .. L : k - 1 \in 0 .. L
  OBVIOUS
<1> QED
  BY <1>7, <1>8, <1>11, <1>12

-----------------------------------------------------------------------------
(* What a sensor sends.                                                    *)

\* The numbers that objects carry.
Legal(object) == object.id \in Nat /\ object.value \in Int /\ Fits(object)

LEMMA EncodedIs ==
  ASSUME NEW object, Legal(object)
  PROVE  /\ Width(object.id) \in {1, 2}
         /\ Encoded(object) \in Seq(Nat) /\ Len(Encoded(object)) = 1 + Width(object.id)
         /\ Encoded(object)[1] = object.id
         /\ Width(object.id) = 1 => Encoded(object)[2] = object.value
         /\ Width(object.id) = 2 => /\ Encoded(object)[2] = object.value % 256
                                    /\ Encoded(object)[3] = (object.value % 65536) \div 256
<1> DEFINE id == object.id
           x == object.value
<1>1. id \in Nat /\ x \in Int /\ Width(id) \in {1, 2} /\ (Width(id) = 1 => x \in Nat)
  <2>1. id \in Nat /\ x \in Int /\ (id \in {PacketId, Battery} => x \in Nat)
    BY DEF Legal, Fits
  <2> QED
    BY <2>1 DEF Width
<1>2. x % 256 \in Nat /\ (x % 65536) \div 256 \in Nat
  BY <1>1
<1>3. CASE Width(id) = 1
  <2>1. Encoded(object) = <<id>> \o <<x>>
    BY <1>3 DEF Encoded
  <2> HIDE DEF id, x
  <2> QED
    BY <1>1, <1>3, <2>1 DEF id, x
<1>4. CASE Width(id) = 2
  <2>1. Encoded(object) = <<id>> \o <<x % 256, (x % 65536) \div 256>>
    BY <1>4 DEF Encoded
  <2>2. \A y, z, w \in Nat : /\ <<y>> \o <<z, w>> \in Seq(Nat) /\ Len(<<y>> \o <<z, w>>) = 3
                             /\ (<<y>> \o <<z, w>>)[1] = y /\ (<<y>> \o <<z, w>>)[2] = z
                             /\ (<<y>> \o <<z, w>>)[3] = w
    OBVIOUS
  <2> QED
    BY <1>1, <1>2, <1>4, <2>1, <2>2
<1> QED
  BY <1>1, <1>3, <1>4

\* What WellFormed says, and what follows for the service data.
LEMMA WellFormedIs ==
  ASSUME NEW advert, WellFormed(advert), NEW objects, objects = advert.objects
  PROVE  /\ advert.kind \in DOMAIN Info /\ objects \in Seq([id : Nat, value : Int])
         /\ \A k \in 1 .. Len(objects) : Legal(objects[k])
         /\ Len(objects) \in Nat /\ advert.short \in Nat
         /\ Len(objects) = 0 => advert.short = 0
         /\ Len(objects) # 0 => advert.short <= Width(objects[Len(objects)].id)
<1>1. /\ objects \in Seq([id : Nat, value : Int]) /\ advert.kind \in DOMAIN Info
      /\ \A k \in 1 .. Len(objects) : Fits(objects[k])
      /\ advert.short \in 0 .. (IF Len(objects) = 0 THEN 0 ELSE Width(objects[Len(objects)].id))
  BY DEF WellFormed
<1>2. \A k \in 1 .. Len(objects) : objects[k] \in [id : Nat, value : Int]
  <2> DEFINE O == [id : Nat, value : Int]
  <2>1. objects \in Seq(O)
    BY <1>1
  <2> HIDE DEF O
  <2>2. \A k \in 1 .. Len(objects) : objects[k] \in O
    BY <2>1
  <2> QED
    BY <2>2 DEF O
<1>3. \A k \in 1 .. Len(objects) : Legal(objects[k])
  BY <1>1, <1>2 DEF Legal
<1>4. Len(objects) \in Nat
  BY <1>1
<1>5. /\ advert.short \in Nat /\ Len(objects) = 0 => advert.short = 0
      /\ Len(objects) # 0 => advert.short <= Width(objects[Len(objects)].id)
  <2>1. \A id : Width(id) \in {1, 2}
    BY DEF Width
  <2> QED
    BY <1>1, <2>1
<1> QED
  BY <1>1, <1>3, <1>4, <1>5

Codes(objects) == [k \in DOMAIN objects |-> Encoded(objects[k])]

\* Where object k starts in the service data.
Start(objects, k) == 4 + Len(Joined(Codes(objects), k - 1))

ObjectAt(data, objects, k) ==
  /\ Start(objects, k) \in Nat /\ 4 <= Start(objects, k)
  /\ Start(objects, k + 1) = Start(objects, k) + 1 + Width(objects[k].id)
  /\ Start(objects, k + 1) <= Len(data) + 1
  /\ \A m \in 1 .. 1 + Width(objects[k].id) :
       data[Start(objects, k) + (m - 1)] = Encoded(objects[k])[m]

\* The service data: version, then each object where the one before it ends.
LEMMA ContentIs ==
  ASSUME NEW advert, WellFormed(advert), NEW objects, objects = advert.objects
  PROVE  /\ Content(advert) \in Seq(Nat) /\ Len(objects) \in Nat
         /\ Content(advert)[1] = 210 /\ Content(advert)[2] = 252
         /\ Content(advert)[3] = Info[advert.kind]
         /\ Start(objects, 1) = 4 /\ Len(Content(advert)) + 1 = Start(objects, Len(objects) + 1)
         /\ \A k \in 1 .. Len(objects) : ObjectAt(Content(advert), objects, k)
         /\ \A k \in 1 .. Len(objects) :
              k < Len(objects) => Start(objects, k + 1) <= Start(objects, Len(objects))
<1> DEFINE n == Len(objects)
           E == Codes(objects)
           J(k) == Joined(E, k)
           c == Content(advert)
<1>0. /\ advert.kind \in DOMAIN Info /\ objects \in Seq([id : Nat, value : Int])
      /\ \A k \in 1 .. Len(objects) : Legal(objects[k])
  BY WellFormedIs
<1>1. n \in Nat /\ DOMAIN objects = 1 .. n
  BY <1>0
<1>2. E \in Seq(Seq(Nat)) /\ Len(E) = n /\ \A k \in 1 .. n : E[k] = Encoded(objects[k])
  <2>1. \A k \in 1 .. n : Encoded(objects[k]) \in Seq(Nat)
    BY <1>0, EncodedIs
  <2>2. E = [k \in 1 .. n |-> Encoded(objects[k])]
    BY <1>1 DEF Codes
  <2> HIDE DEF E, n
  <2> QED
    BY <1>1, <2>1, <2>2
<1> HIDE DEF E
<1>3. /\ J(0) = <<>> /\ FlattenSeq(E) = J(n)
      /\ \A k \in 1 .. n : /\ J(k - 1) \in Seq(Nat) /\ J(k) \in Seq(Nat)
                           /\ J(k) = J(k - 1) \o E[k]
  BY <1>2, JoinedIs
<1>4. \A k \in 1 .. n : /\ E[k] \in Seq(Nat) /\ Len(E[k]) = 1 + Width(objects[k].id)
                        /\ Width(objects[k].id) \in {1, 2}
  <2>1. ASSUME NEW k \in 1 .. n
        PROVE  /\ E[k] \in Seq(Nat) /\ Len(E[k]) = 1 + Width(objects[k].id)
               /\ Width(objects[k].id) \in {1, 2}
    <3>1. Legal(objects[k]) /\ E[k] = Encoded(objects[k])
      BY <1>0, <1>2
    <3> QED
      BY <3>1, EncodedIs
  <2> QED
    BY <2>1
<1> DEFINE w(k) == Width(objects[k].id)
<1>5. ASSUME NEW k \in 1 .. n
      PROVE  /\ Len(J(k)) = Len(J(k - 1)) + 1 + w(k) /\ Len(J(k - 1)) \in Nat /\ Len(J(k)) \in Nat
             /\ \A i \in 1 .. Len(J(k - 1)) : J(k)[i] = J(k - 1)[i]
             /\ \A m \in 1 .. 1 + w(k) : J(k)[Len(J(k - 1)) + m] = E[k][m]
  <2>2. J(k - 1) \in Seq(Nat) /\ E[k] \in Seq(Nat) /\ J(k) = J(k - 1) \o E[k]
        /\ Len(E[k]) = 1 + w(k) /\ w(k) \in {1, 2}
    BY <1>3, <1>4
  <2>3. PICK a \in Seq(Nat), b \in Seq(Nat) : a = J(k - 1) /\ b = E[k]
    BY <2>2
  <2>4. PICK wk \in {1, 2} : wk = w(k)
    BY <2>2
  <2>5. J(k) = a \o b /\ Len(b) = 1 + wk
    BY <2>2, <2>3, <2>4
  <2>6. /\ Len(J(k)) = Len(a) + 1 + wk /\ Len(a) \in Nat /\ Len(J(k)) \in Nat
        /\ \A i \in 1 .. Len(a) : J(k)[i] = a[i]
        /\ \A m \in 1 .. 1 + wk : J(k)[Len(a) + m] = b[m]
    <3> HIDE DEF J
    <3>1. /\ Len(a \o b) = Len(a) + Len(b) /\ Len(a) \in Nat
          /\ \A i \in 1 .. Len(a) : (a \o b)[i] = a[i]
          /\ \A m \in 1 .. Len(b) : (a \o b)[Len(a) + m] = b[m]
      OBVIOUS
    <3> QED
      BY <2>5, <3>1
  <2> QED
    BY <2>3, <2>4, <2>6
\* What the first l sequences say of the k-th.
<1> DEFINE Says(l, k) == /\ Len(J(k)) <= Len(J(l))
                         /\ \A m \in 1 .. 1 + w(k) : J(l)[Len(J(k - 1)) + m] = E[k][m]
           S == {l \in Nat : \A k \in 1 .. l : Says(l, k)}
<1>6. ASSUME NEW l \in Nat, l < n, l \in S PROVE l + 1 \in S
  <2>1. PICK h \in 1 .. n : h = l + 1 /\ h - 1 = l
    BY <1>1, <1>6
  <2>2. /\ Len(J(h)) = Len(J(l)) + 1 + w(h) /\ Len(J(l)) \in Nat /\ Len(J(h)) \in Nat
        /\ w(h) \in {1, 2}
        /\ \A i \in 1 .. Len(J(l)) : J(h)[i] = J(l)[i]
    BY <1>4, <1>5, <2>1
  <2>3. ASSUME NEW k \in 1 .. l PROVE Says(h, k)
    <3>1. k \in 1 .. n
      BY <1>1, <1>6
    <3>2. /\ Len(J(k)) = Len(J(k - 1)) + 1 + w(k) /\ Len(J(k - 1)) \in Nat /\ Len(J(k)) \in Nat
          /\ w(k) \in {1, 2}
      BY <1>4, <1>5, <3>1
    <3>3. Len(J(k)) <= Len(J(l)) /\ \A m \in 1 .. 1 + w(k) : J(l)[Len(J(k - 1)) + m] = E[k][m]
      BY <1>6
    <3>4. \A m \in 1 .. 1 + w(k) : Len(J(k - 1)) + m \in 1 .. Len(J(l))
      <4>1. PICK x \in Nat, y \in Nat, z \in Nat, v \in {1, 2} :
              x = Len(J(k - 1)) /\ y = Len(J(k)) /\ z = Len(J(l)) /\ v = w(k)
        BY <2>2, <3>2
      <4>2. y = x + 1 + v /\ y <= z
        BY <3>2, <3>3, <4>1
      <4>3. ASSUME NEW m \in 1 .. 1 + v PROVE x + m \in 1 .. z
        <5>1. m \in Nat /\ 1 <= m /\ m <= 1 + v /\ v \in Nat
          BY <4>1
        <5>2. x + m <= z
          BY <4>1, <4>2, <5>1
        <5> QED
          BY <4>1, <5>1, <5>2
      <4> HIDE DEF J, w
      <4> QED
        BY <4>1, <4>3
    <3>5. Len(J(k)) <= Len(J(h))
      <4> HIDE DEF J, w
      <4> QED
        BY <2>2, <3>2, <3>3
    <3>6. \A m \in 1 .. 1 + w(k) : J(h)[Len(J(k - 1)) + m] = E[k][m]
      <4> HIDE DEF J, w
      <4> QED
        BY <2>2, <3>3, <3>4
    <3> QED
      BY <3>5, <3>6
  <2>4. Says(h, h)
    <3>1. Len(J(h)) <= Len(J(h))
      BY <2>2
    <3> QED
      BY <1>5, <3>1
  <2>5. \A k \in 1 .. h : k \in 1 .. l \/ k = h
    BY <2>1
  <2> HIDE DEF Says
  <2>6. h \in S
    BY <2>1, <2>3, <2>4, <2>5
  <2> QED
    BY <2>1, <2>6
<1>7. /\ \A k \in 1 .. n : Says(n, k)
      /\ \A k \in 1 .. n : k < n => Len(J(k)) <= Len(J(n - 1))
  <2>1. 0 \in S
    OBVIOUS
  <2>2. n \in 0 .. n
    BY <1>1
  <2> HIDE DEF S, n
  <2>3. \A l \in 0 .. n : l \in S
    BY <1>1, <1>6, <2>1, Upward
  <2>4. \A k \in 1 .. n : Says(n, k)
    BY <2>2, <2>3 DEF S
  <2>5. ASSUME NEW k \in 1 .. n, k < n PROVE Len(J(k)) <= Len(J(n - 1))
    <3>1. n - 1 \in 0 .. n /\ k \in 1 .. n - 1
      BY <1>1, <2>5
    <3> QED
      BY <2>3, <3>1 DEF S
  <2> QED
    BY <2>4, <2>5
<1>8. /\ c = <<210, 252>> \o <<Info[advert.kind]>> \o J(n) /\ J(n) \in Seq(Nat)
      /\ Info[advert.kind] \in Nat
  <2>1. c = <<210, 252>> \o <<Info[advert.kind]>> \o J(n)
    BY <1>3 DEF Content, BtHomeUuid, E, Codes
  <2>2. J(n) \in Seq(Nat)
    <3>1. CASE n = 0
      <4>1. <<>> \in Seq(Nat)
        OBVIOUS
      <4> QED
        BY <1>3, <3>1, <4>1
    <3>2. CASE n # 0
      <4>1. n \in 1 .. n
        BY <1>1, <3>2
      <4> QED
        BY <1>3, <4>1
    <3> QED
      BY <3>1, <3>2
  <2>3. Info[advert.kind] \in Nat
    BY <1>0 DEF Info
  <2> QED
    BY <2>1, <2>2, <2>3
<1>9. /\ c \in Seq(Nat) /\ Len(c) = 3 + Len(J(n)) /\ Len(J(n)) \in Nat
      /\ c[1] = 210 /\ c[2] = 252 /\ c[3] = Info[advert.kind]
      /\ \A i \in 1 .. Len(J(n)) : c[3 + i] = J(n)[i]
  <2>1. PICK v \in Nat, j \in Seq(Nat) : v = Info[advert.kind] /\ j = J(n)
    BY <1>8
  <2> DEFINE d == <<210, 252>> \o <<v>> \o j
  <2>2. /\ d \in Seq(Nat) /\ Len(d) = 3 + Len(j) /\ Len(j) \in Nat
        /\ d[1] = 210 /\ d[2] = 252 /\ d[3] = v
        /\ \A i \in 1 .. Len(j) : d[3 + i] = j[i]
    OBVIOUS
  <2> QED
    BY <1>8, <2>1, <2>2
<1>10. Start(objects, 1) = 4 /\ Len(c) + 1 = Start(objects, n + 1)
  <2>1. Start(objects, 1) = 4 + Len(J(0)) /\ Start(objects, n + 1) = 4 + Len(J(n))
    BY <1>1 DEF Start, E
  <2>2. Len(J(0)) = 0
    BY <1>3
  <2> QED
    BY <1>9, <2>1, <2>2
<1>11. ASSUME NEW k \in 1 .. n
       PROVE  /\ Start(objects, k) \in Nat /\ 4 <= Start(objects, k)
              /\ Start(objects, k + 1) = Start(objects, k) + 1 + w(k)
              /\ Start(objects, k + 1) <= Len(c) + 1
              /\ \A m \in 1 .. 1 + w(k) : c[Start(objects, k) + (m - 1)] = E[k][m]
  <2>1. Start(objects, k) = 4 + Len(J(k - 1)) /\ Start(objects, k + 1) = 4 + Len(J(k))
    BY <1>1 DEF Start, E
  <2>2. /\ Len(J(k)) = Len(J(k - 1)) + 1 + w(k) /\ Len(J(k - 1)) \in Nat /\ Len(J(k)) \in Nat
        /\ w(k) \in {1, 2}
    BY <1>4, <1>5
  <2>3. /\ Len(J(k)) <= Len(J(n))
        /\ \A m \in 1 .. 1 + w(k) : J(n)[Len(J(k - 1)) + m] = E[k][m]
    BY <1>7
  <2>4. PICK a \in Nat, b \in Nat, l \in Nat, wk \in {1, 2} :
          a = Len(J(k - 1)) /\ b = Len(J(k)) /\ l = Len(J(n)) /\ wk = w(k)
    BY <1>9, <2>2
  <2>5. /\ Start(objects, k) = 4 + a /\ Start(objects, k + 1) = 4 + b /\ b = a + 1 + wk
        /\ b <= l /\ Len(c) = 3 + l
    BY <1>9, <2>1, <2>2, <2>3, <2>4
  <2>6. ASSUME NEW m \in 1 .. 1 + wk PROVE c[Start(objects, k) + (m - 1)] = E[k][m]
    <3>0. a \in Nat /\ l \in Nat /\ wk \in {1, 2} /\ m \in 1 .. 1 + wk /\ a + 1 + wk <= l
      BY <2>4, <2>5
    <3>1. a + m \in 1 .. l /\ 4 + a + (m - 1) = 3 + (a + m)
      BY <3>0
    <3>2. c[3 + (a + m)] = J(n)[a + m]
      <4> HIDE DEF J, c
      <4> QED
        BY <1>9, <2>4, <3>1
    <3>3. J(n)[a + m] = E[k][m]
      BY <2>3, <2>4
    <3> QED
      BY <2>5, <3>1, <3>2, <3>3
  <2>7. a \in Nat /\ wk = w(k) /\ l \in Nat /\ wk \in {1, 2}
    BY <2>4
  <2> HIDE DEF c, w
  <2>8. \A m \in 1 .. 1 + w(k) : c[Start(objects, k) + (m - 1)] = E[k][m]
    BY <2>6, <2>7
  <2>9. /\ 4 + a \in Nat /\ 4 <= 4 + a /\ b = a + 1 + wk /\ 4 + b = (4 + a) + 1 + wk
        /\ 4 + b <= (3 + l) + 1
    <3>1. b = a + 1 + wk /\ b <= l
      BY <2>5
    <3>2. wk \in Nat
      OBVIOUS
    <3> QED
      BY <3>1, <3>2
  <2> QED
    BY <2>5, <2>7, <2>8, <2>9
<1> QED
  <2> HIDE DEF n, c, J, w
  <2>1. c \in Seq(Nat) /\ n \in Nat /\ c[1] = 210 /\ c[2] = 252 /\ c[3] = Info[advert.kind]
    BY <1>1, <1>9
  <2>2. ASSUME NEW k \in 1 .. n PROVE ObjectAt(c, objects, k)
    BY <1>2, <1>11 DEF w, ObjectAt
  <2>3. ASSUME NEW k \in 1 .. n, k < n PROVE Start(objects, k + 1) <= Start(objects, n)
    <3>1. Start(objects, k + 1) = 4 + Len(J(k)) /\ Start(objects, n) = 4 + Len(J(n - 1))
      BY <2>1 DEF Start, E, J
    <3>2. Len(J(k)) <= Len(J(n - 1)) /\ Len(J(k)) \in Nat /\ Len(J(n - 1)) \in Nat
      <4>1. n \in 1 .. n
        BY <2>1, <2>3
      <4> QED
        BY <1>5, <1>7, <2>3, <4>1
    <3> QED
      BY <3>1, <3>2
  <2> QED
    BY <1>10, <2>1, <2>2, <2>3 DEF n, c

\* A number is put together again from its bytes.
LEMMA BytesAreNumber ==
  ASSUME NEW x \in Int
  PROVE  /\ 0 <= x /\ x <= 65535 => (x % 256) + 256 * ((x % 65536) \div 256) = x
         /\ -32768 <= x /\ x <= 32767 => Int16((x % 256) + 256 * ((x % 65536) \div 256)) = x
<1>1. PICK w \in Nat, q \in Int : w = x % 65536 /\ x = 65536 * q + w /\ w <= 65535
  OBVIOUS
<1>2. PICK hi \in Nat, lo \in Nat : hi = w \div 256 /\ w = 256 * hi + lo /\ lo <= 255
  <2>1. w \div 256 \in Nat /\ w % 256 \in Nat /\ w = 256 * (w \div 256) + (w % 256) /\ w % 256 <= 255
    BY <1>1
  <2> QED
    BY <2>1
<1>3. x % 256 = lo
  <2>1. x = 256 * (256 * q + hi) + lo
    BY <1>1, <1>2
  <2> QED
    BY <1>1, <1>2, <2>1
<1>4. (x % 256) + 256 * ((x % 65536) \div 256) = w
  BY <1>1, <1>2, <1>3
<1>5. 0 <= x /\ x <= 65535 => w = x
  BY <1>1
<1>6. -32768 <= x /\ x <= 32767 => Int16(w) = x
  BY <1>1 DEF Int16
<1> QED
  BY <1>4, <1>5, <1>6

\* The bytes of an object read as what it carries.
LEMMA ReadingIs ==
  ASSUME NEW object, Legal(object), object.id \in KnownObjects, object.id # PacketId,
         NEW data, NEW i \in Nat,
         \A m \in 1 .. 1 + Width(object.id) : data[i + (m - 1)] = Encoded(object)[m]
  PROVE  Reading(object.id, data, i + 1) = ReadingOf(object)
<1> DEFINE id == object.id
           x == object.value
<1>1. x \in Int /\ id \in {Battery, Temperature, Humidity} /\ Fits(object)
  BY DEF Legal, KnownObjects, PacketId, Battery, Temperature, Humidity
<1>2. CASE id = Battery
  <2>1. Width(id) = 1
    BY <1>2 DEF Width
  <2>2. data[i + 1] = x
    BY <2>1, EncodedIs
  <2> QED
    BY <1>2, <2>2 DEF Reading, ReadingOf
<1>3. CASE id # Battery
  <2>1. Width(id) = 2
    BY <1>3 DEF Width
  <2>2. data[i + 1] = x % 256 /\ data[i + 1 + 1] = (x % 65536) \div 256
    <3>1. 2 \in 1 .. 1 + Width(id) /\ 3 \in 1 .. 1 + Width(id)
      BY <2>1
    <3>2. data[i + (2 - 1)] = x % 256 /\ data[i + (3 - 1)] = (x % 65536) \div 256
      BY <2>1, <3>1, EncodedIs
    <3>3. i + (2 - 1) = i + 1 /\ i + (3 - 1) = i + 1 + 1
      OBVIOUS
    <3> QED
      BY <3>2, <3>3
  <2>3. little_endian_read_16(data, i + 1) = (x % 256) + 256 * ((x % 65536) \div 256)
    BY <2>2 DEF little_endian_read_16
  <2>4. CASE id = Temperature
    <3>1. Int16((x % 256) + 256 * ((x % 65536) \div 256)) = x
      BY <1>1, <1>3, <2>4, BytesAreNumber DEF Fits, Temperature, PacketId, Battery
    <3> QED
      BY <1>3, <2>3, <2>4, <3>1 DEF Reading, ReadingOf
  <2>5. CASE id = Humidity
    <3>1. (x % 256) + 256 * ((x % 65536) \div 256) = x
      BY <1>1, <1>3, <2>5, BytesAreNumber DEF Fits, Temperature, PacketId, Battery, Humidity
    <3>2. id # Temperature
      BY <2>5 DEF Temperature, Humidity
    <3> QED
      BY <1>3, <2>3, <2>5, <3>1, <3>2 DEF Reading, ReadingOf
  <2> QED
    BY <1>1, <1>3, <2>4, <2>5
<1> QED
  BY <1>2, <1>3

\* The objects that can be told are the first ones.
LEMMA ToldIs ==
  ASSUME NEW advert, NEW objects, objects = advert.objects, NEW O, objects \in Seq(O)
  PROVE  \E t \in 0 .. Len(objects) :
           /\ Cardinality(Told(advert)) = t
           /\ \A k \in 1 .. t : /\ objects[k].id \in KnownObjects
                                /\ k < Len(objects) \/ advert.short = 0
           /\ t < Len(objects) => \/ objects[t + 1].id \notin KnownObjects
                                  \/ t + 1 = Len(objects) /\ advert.short # 0
<1> DEFINE n == Len(objects)
           T == Told(advert)
           known(j) == objects[j].id \in KnownObjects
           Rest == {k \in 1 .. n + 1 : k \notin T}
<1>1. n \in Nat /\ DOMAIN objects = 1 .. n
  OBVIOUS
<1>2. T = {k \in 1 .. n : (k < n \/ advert.short = 0) /\ \A j \in 1 .. k : known(j)}
  BY <1>1 DEF Told
<1> HIDE DEF n, T
<1>3. Rest \subseteq Nat /\ n + 1 \in Rest
  BY <1>1, <1>2
<1>4. PICK r \in Rest : \A k \in Rest : r <= k
  <2>1. Rest # {}
    BY <1>3
  <2> HIDE DEF Rest
  <2> QED
    BY <1>3, <2>1, LeastNumber
<1>5. PICK t \in 0 .. n : r = t + 1
  <2>1. r - 1 \in 0 .. n /\ r = (r - 1) + 1
    BY <1>1, <1>4
  <2> QED
    BY <2>1
<1>6. ASSUME NEW k \in 1 .. t PROVE k \in T
  <2>1. k \in 1 .. n + 1 /\ ~(r <= k)
    BY <1>1, <1>5
  <2> QED
    BY <1>4, <2>1
<1>7. ASSUME NEW k \in T PROVE k \in 1 .. t
  <2>1. k \in 1 .. n /\ (k < n \/ advert.short = 0) /\ \A j \in 1 .. k : known(j)
    BY <1>2
  <2>2. ASSUME r <= k PROVE FALSE
    <3>1. r \in 1 .. n /\ (r < n \/ advert.short = 0)
      BY <1>1, <1>4, <2>1, <2>2
    <3>2. \A j \in 1 .. r : j \in 1 .. k
      BY <1>1, <2>1, <2>2, <3>1
    <3>3. r \in T
      BY <1>2, <2>1, <3>1, <3>2
    <3> QED
      BY <1>4, <3>3
  <2> QED
    BY <1>1, <1>5, <2>1, <2>2
<1>8. Cardinality(T) = t
  <2>1. T = 1 .. t
    BY <1>6, <1>7
  <2>2. t \in Nat
    BY <1>1
  <2> QED
    BY <2>1, <2>2, FS_Interval
<1>9. ASSUME NEW k \in 1 .. t PROVE known(k) /\ (k < n \/ advert.short = 0)
  <2>1. k \in T /\ k \in 1 .. k
    BY <1>6
  <2> QED
    BY <1>2, <2>1
<1>10. ASSUME t < n, known(t + 1) PROVE t + 1 = n /\ advert.short # 0
  <2>1. t + 1 \in 1 .. n /\ t + 1 \notin T
    BY <1>1, <1>4, <1>5, <1>10
  <2>2. \A j \in 1 .. t + 1 : j \in 1 .. t \/ j = t + 1
    BY <1>1
  <2>3. \A j \in 1 .. t + 1 : known(j)
    BY <1>9, <1>10, <2>2
  <2>4. ~(t + 1 < n \/ advert.short = 0)
    BY <1>2, <2>1, <2>3
  <2> QED
    BY <1>1, <2>1, <2>4
<1> QED
  BY <1>8, <1>9, <1>10 DEF n, T

\* The service data, cut or not.
Short(advert) == Shortened(Content(advert), advert.short)

LEMMA ShortIs ==
  ASSUME NEW advert, WellFormed(advert), NEW objects, objects = advert.objects
  PROVE  /\ Short(advert) \in Seq(Nat) /\ 3 <= Len(Short(advert))
         /\ Len(Short(advert)) = Len(Content(advert)) - advert.short
         /\ \A i \in 1 .. Len(Short(advert)) : Short(advert)[i] = Content(advert)[i]
         /\ \A k \in 1 .. Len(objects) : Start(objects, k) <= Len(Short(advert))
<1> DEFINE n == Len(objects)
           c == Content(advert)
           L == Len(c) - advert.short
<1>1. /\ c \in Seq(Nat) /\ n \in Nat /\ advert.short \in Nat
      /\ Start(objects, 1) = 4 /\ Len(c) + 1 = Start(objects, n + 1)
      /\ \A k \in 1 .. n :
           /\ Start(objects, k) \in Nat /\ 4 <= Start(objects, k)
           /\ Start(objects, k + 1) = Start(objects, k) + 1 + Width(objects[k].id)
           /\ k < n => Start(objects, k + 1) <= Start(objects, n)
  <2>1. advert.short \in Nat
    BY WellFormedIs
  <2>2. /\ Content(advert) \in Seq(Nat) /\ Len(objects) \in Nat /\ Start(objects, 1) = 4
        /\ Len(Content(advert)) + 1 = Start(objects, Len(objects) + 1)
    BY ContentIs
  <2>3. \A k \in 1 .. Len(objects) : ObjectAt(Content(advert), objects, k)
    BY ContentIs
  <2>4. \A k \in 1 .. Len(objects) :
          k < Len(objects) => Start(objects, k + 1) <= Start(objects, Len(objects))
    BY ContentIs
  <2> QED
    BY <2>1, <2>2, <2>3, <2>4 DEF ObjectAt
<1>2. \A k \in 1 .. n : Width(objects[k].id) \in {1, 2}
  BY DEF Width
<1>3. Len(c) \in Nat
  BY <1>1
<1>4. 3 <= L /\ \A k \in 1 .. n : Start(objects, k) <= L
  <2> HIDE DEF n, c
  <2>1. CASE n = 0
    <3>1. advert.short = 0
      BY <2>1, WellFormedIs DEF n
    <3> QED
      BY <1>1, <1>3, <2>1, <3>1
  <2>2. CASE n # 0
    <3>1. advert.short <= Width(objects[n].id) /\ n \in 1 .. n
      <4>1. n # 0 => advert.short <= Width(objects[n].id)
        BY WellFormedIs DEF n
      <4>2. n \in 1 .. n
        BY <1>1, <2>2
      <4> QED
        BY <2>2, <4>1, <4>2
    <3>2. PICK s \in Nat, w \in {1, 2} : s = Start(objects, n) /\ w = Width(objects[n].id)
      BY <1>1, <1>2, <3>1
    <3>3. Start(objects, n + 1) = s + 1 + w /\ 4 <= s
      BY <1>1, <3>1, <3>2
    <3>4. s <= L
      <4>1. PICK l \in Nat, x \in Nat : l = Len(c) /\ x = advert.short
        BY <1>1, <1>3
      <4>2. l + 1 = s + 1 + w /\ x <= w /\ L = l - x
        BY <1>1, <3>1, <3>2, <3>3, <4>1
      <4>3. s <= l - x
        BY <3>2, <4>1, <4>2
      <4> QED
        BY <4>2, <4>3
    <3>5. ASSUME NEW k \in 1 .. n PROVE Start(objects, k) <= s
      <4>1. CASE k = n
        BY <3>2, <4>1
      <4>2. CASE k # n
        <5>1. /\ Start(objects, k) \in Nat /\ Width(objects[k].id) \in {1, 2}
              /\ Start(objects, k) + 1 + Width(objects[k].id) <= s
          <6>1. k < n
            BY <1>1, <4>2
          <6>2. Start(objects, k) \in Nat /\ Width(objects[k].id) \in {1, 2}
            BY <1>1, <1>2
          <6>3. /\ Start(objects, k + 1) = Start(objects, k) + 1 + Width(objects[k].id)
                /\ Start(objects, k + 1) <= s
            BY <1>1, <3>2, <6>1
          <6> QED
            BY <6>2, <6>3
        <5> QED
          BY <3>2, <5>1
      <4> QED
        BY <4>1, <4>2
    <3>6. L \in Int
      BY <1>1, <1>3
    <3>7. 3 <= L
      BY <3>2, <3>3, <3>4, <3>6
    <3>8. ASSUME NEW k \in 1 .. n PROVE Start(objects, k) <= L
      <4>1. Start(objects, k) \in Nat /\ Start(objects, k) <= s
        BY <1>1, <3>5
      <4> QED
        BY <3>2, <3>4, <3>6, <4>1
    <3> HIDE DEF L
    <3> QED
      BY <3>7, <3>8
  <2> QED
    BY <2>1, <2>2
<1>5. L \in 0 .. Len(c)
  <2>1. PICK l \in Nat, x \in Nat : l = Len(c) /\ x = advert.short
    BY <1>1, <1>3
  <2>2. 3 <= l - x /\ L = l - x
    BY <1>4, <2>1
  <2>3. l - x \in 0 .. l
    BY <2>2
  <2> QED
    BY <2>1, <2>2, <2>3
<1>6. Short(advert) = SubSeq(c, 1, L)
  BY DEF Short, Shortened
<1> HIDE DEF L
<1>7. /\ SubSeq(c, 1, L) \in Seq(Nat) /\ Len(SubSeq(c, 1, L)) = L
      /\ \A i \in 1 .. L : SubSeq(c, 1, L)[i] = c[i]
  <2> HIDE DEF c
  <2> QED
    BY <1>1, <1>3, <1>5
<1> QED
  BY <1>4, <1>6, <1>7 DEF L

LEMMA JoiningIs ==
  ASSUME NEW R, NEW r \in Seq(R), NEW u \in Seq(R), NEW x \in R
  PROVE  <<x>> \o u \in Seq(R) /\ r \o (<<x>> \o u) = Append(r, x) \o u /\ <<>> \o u = u
<1>1. <<x>> \o u \in Seq(R) /\ <<>> \o u = u
  OBVIOUS
<1>2. Append(r, x) \o u \in Seq(R) /\ r \o (<<x>> \o u) \in Seq(R)
  BY <1>1
<1>3. Len(Append(r, x) \o u) = Len(r \o (<<x>> \o u))
  BY <1>1
<1>4. \A i \in 1 .. Len(Append(r, x) \o u) : (Append(r, x) \o u)[i] = (r \o (<<x>> \o u))[i]
  BY <1>1
<1> QED
  <2> DEFINE a == Append(r, x) \o u
             b == r \o (<<x>> \o u)
  <2>1. a \in Seq(R) /\ b \in Seq(R) /\ Len(a) = Len(b) /\ \A i \in 1 .. Len(a) : a[i] = b[i]
    BY <1>2, <1>3, <1>4
  <2> HIDE DEF a, b
  <2>2. a = b
    BY <2>1, SeqEqual
  <2> QED
    BY <1>1, <2>2 DEF a, b

\* The parser tells what can be told (ble_parse_bthome_v2).
LEMMA FieldSays ==
  ASSUME NEW advert, WellFormed(advert), NEW objects, objects = advert.objects
  PROVE  ble_parse_bthome_v2(Short(advert)) =
           IF advert.kind \in {"plain", "trigger"}
           THEN Readings(objects, Cardinality(Told(advert))) ELSE <<>>
<1> DEFINE n == Len(objects)
           c == Content(advert)
           f == Short(advert)
           L == Len(f)
           F == FieldFrom(f)
           at(k) == Start(objects, k)
           w(k) == Width(objects[k].id)
           R == AllReadings(objects)
<1>1. /\ n \in Nat /\ objects \in Seq([id : Nat, value : Int])
      /\ \A k \in 1 .. n : Legal(objects[k])
      /\ advert.kind \in DOMAIN Info /\ advert.short \in Nat /\ (n = 0 => advert.short = 0)
  BY WellFormedIs
<1>2. /\ c \in Seq(Nat) /\ c[3] = Info[advert.kind] /\ at(1) = 4 /\ Len(c) + 1 = at(n + 1)
      /\ \A k \in 1 .. n :
           /\ at(k) \in Nat /\ 4 <= at(k) /\ at(k + 1) = at(k) + 1 + w(k)
           /\ \A m \in 1 .. 1 + w(k) : c[at(k) + (m - 1)] = Encoded(objects[k])[m]
  <2>1. /\ Content(advert) \in Seq(Nat) /\ Content(advert)[3] = Info[advert.kind]
        /\ Start(objects, 1) = 4 /\ Len(Content(advert)) + 1 = Start(objects, Len(objects) + 1)
    BY ContentIs
  <2>2. \A k \in 1 .. Len(objects) : ObjectAt(Content(advert), objects, k)
    BY ContentIs
  <2> QED
    BY <2>1, <2>2 DEF ObjectAt
<1>3. /\ f \in Seq(Nat) /\ 3 <= L /\ L \in Nat /\ L = Len(c) - advert.short /\ Len(c) \in Nat
      /\ \A i \in 1 .. L : f[i] = c[i]
      /\ \A k \in 1 .. n : at(k) <= L
  <2>1. /\ f \in Seq(Nat) /\ 3 <= L /\ L = Len(c) - advert.short
        /\ \A i \in 1 .. L : f[i] = c[i]
        /\ \A k \in 1 .. n : at(k) <= L
    BY ShortIs
  <2>2. Len(c) \in Nat /\ L \in Nat
    BY <1>2, <2>1
  <2> QED
    BY <2>1, <2>2
<1>4. PICK t \in 0 .. n :
        /\ Cardinality(Told(advert)) = t
        /\ \A k \in 1 .. t : objects[k].id \in KnownObjects /\ (k < n \/ advert.short = 0)
        /\ t < n => objects[t + 1].id \notin KnownObjects \/ (t + 1 = n /\ advert.short # 0)
  BY <1>1, ToldIs
<1> HIDE DEF f, c, n
<1>5. \A k \in 1 .. n : w(k) \in {1, 2}
  BY DEF Width
<1>6. /\ \A i \in 4 .. L + 1 : F[i] = FieldStep(f, F, i)
      /\ ble_parse_bthome_v2(f) = IF InfoIsPlain(f[3]) THEN F[4] ELSE <<>>
  BY <1>3, FieldFromIs
\* Where object k starts.
<1>7. ASSUME NEW k \in 1 .. n
      PROVE  /\ at(k) \in 4 .. L + 1 /\ at(k) \in 1 .. L /\ f[at(k)] = objects[k].id
             /\ k < n => at(k + 1) \in 4 .. L + 1 /\ at(k + 1) <= L
             /\ k = n => at(k + 1) = Len(c) + 1
  <2>1. PICK a \in Nat, v \in {1, 2} : a = at(k) /\ v = w(k)
    BY <1>2, <1>5
  <2>2. a <= L /\ 4 <= a /\ at(k + 1) = a + 1 + v
    BY <1>2, <1>3, <2>1
  <2>3. c[a] = objects[k].id
    <3>1. c[a + (1 - 1)] = Encoded(objects[k])[1]
      <4>1. 1 \in 1 .. 1 + w(k)
        BY <1>5
      <4> QED
        BY <1>2, <2>1, <4>1
    <3>2. a + (1 - 1) = a
      BY <2>1
    <3>3. Encoded(objects[k])[1] = objects[k].id
      BY <1>1, EncodedIs
    <3> QED
      BY <3>1, <3>2, <3>3
  <2>4. a \in 4 .. L + 1 /\ a \in 1 .. L
    <3>1. L \in Nat
      BY <1>3
    <3> HIDE DEF L, at, w
    <3> QED
      BY <2>1, <2>2, <3>1
  <2>5. k < n => at(k + 1) \in 4 .. L + 1 /\ at(k + 1) <= L
    <3>1. SUFFICES ASSUME k < n PROVE at(k + 1) \in 4 .. L + 1 /\ at(k + 1) <= L
      OBVIOUS
    <3>2. k + 1 \in 1 .. n
      BY <1>1, <3>1
    <3>3. at(k + 1) <= L
      BY <1>3, <3>2
    <3>4. L \in Nat
      BY <1>3
    <3>5. 4 + 1 + v <= at(k + 1) /\ at(k + 1) \in Nat
      BY <2>1, <2>2
    <3> QED
      BY <2>1, <3>3, <3>4, <3>5
  <2> QED
    BY <1>2, <1>3, <2>1, <2>3, <2>4, <2>5
<1>8. /\ Readings(objects, 0) = <<>>
      /\ \A k \in 1 .. n : Readings(objects, k) =
           IF objects[k].id = PacketId THEN Readings(objects, k - 1)
           ELSE Append(Readings(objects, k - 1), ReadingOf(objects[k]))
      /\ \A k \in 0 .. n : Readings(objects, k) \in Seq(R)
  BY <1>1, ReadingsAre DEF n
\* From object k on there are the rest of the readings.
<1> DEFINE Rest(k) == F[at(k)] \in Seq(R) /\ Readings(objects, k - 1) \o F[at(k)] = Readings(objects, t)
           S == {k \in Nat : Rest(k)}
<1>9. t + 1 \in S
  <2>1. F[at(t + 1)] = <<>>
    <3>1. CASE t = n
      <4>1. advert.short = 0
        <5>1. CASE n = 0
          BY <1>1, <5>1
        <5>2. CASE n # 0
          <6>1. n \in 1 .. t
            BY <1>1, <3>1, <5>2
          <6> QED
            BY <1>1, <1>4, <6>1
        <5> QED
          BY <5>1, <5>2
      <4>2. at(t + 1) = L + 1 /\ L + 1 \in 4 .. L + 1 /\ L + 1 > L
        BY <1>2, <1>3, <3>1, <4>1
      <4>3. FieldStep(f, F, L + 1) = <<>>
        BY <4>2 DEF FieldStep
      <4> QED
        BY <1>6, <4>2, <4>3
    <3>2. CASE t # n
      <4>1. PICK k \in 1 .. n : k = t + 1 /\ t < n
        BY <1>1, <3>2
      <4>2. at(k) \in 4 .. L + 1 /\ f[at(k)] = objects[k].id /\ (k = n => at(k + 1) = Len(c) + 1)
        BY <1>7
      <4>3. CASE objects[k].id \notin KnownObjects
        <5>1. FieldStep(f, F, at(k)) = <<>>
          BY <4>2, <4>3 DEF FieldStep
        <5> QED
          BY <1>6, <4>1, <4>2, <5>1
      <4>4. CASE k = n /\ advert.short # 0
        <5>1. at(k) + 1 + w(k) = Len(c) + 1
          BY <1>2, <4>2, <4>4
        <5>2. Len(c) + 1 > L + 1
          BY <1>1, <1>3, <4>4
        <5>3. FieldStep(f, F, at(k)) = <<>>
          BY <4>2, <5>1, <5>2 DEF FieldStep
        <5> QED
          BY <1>6, <4>1, <4>2, <5>3
      <4> QED
        BY <1>4, <4>1, <4>3, <4>4
    <3> QED
      BY <3>1, <3>2
  <2>2. t \in Nat /\ t + 1 \in Nat /\ t + 1 - 1 = t /\ t \in 0 .. n
    BY <1>1
  <2>3. <<>> \in Seq(R) /\ \A r \in Seq(R) : r \o <<>> = r
    OBVIOUS
  <2>4. Readings(objects, t) \in Seq(R)
    BY <1>8
  <2> HIDE DEF R
  <2>5. Rest(t + 1)
    BY <2>1, <2>2, <2>3, <2>4
  <2> QED
    BY <2>2, <2>5
<1>10. ASSUME NEW k \in Nat, 1 <= k, k < t + 1, k + 1 \in S PROVE k \in S
  <2>1. k \in 1 .. t /\ k \in 1 .. n /\ k - 1 \in 0 .. n /\ (k + 1) - 1 = k
    BY <1>1, <1>10
  <2>2. objects[k].id \in KnownObjects /\ (k < n \/ advert.short = 0)
    BY <1>4, <2>1
  <2>3. at(k) \in 4 .. L + 1 /\ at(k) \in 1 .. L /\ f[at(k)] = objects[k].id
    BY <1>7, <2>1
  <2>4. at(k + 1) = at(k) + 1 + w(k) /\ at(k + 1) <= L + 1
    <3>0. at(k + 1) = at(k) + 1 + w(k) /\ L \in Nat /\ Len(c) \in Nat
      BY <1>2, <1>3, <2>1
    <3>1. CASE k < n
      <4>1. at(k + 1) \in 4 .. L + 1
        BY <1>7, <2>1, <3>1
      <4> QED
        BY <3>0, <4>1
    <3>2. CASE k = n
      <4>0. at(k + 1) = Len(c) + 1
        BY <1>7, <2>1, <3>2
      <4>1. at(k + 1) = Len(c) + 1 /\ L = Len(c)
        <5>1. advert.short = 0
          BY <1>1, <2>2, <3>2
        <5> HIDE DEF L, at
        <5> QED
          BY <1>3, <4>0, <5>1
      <4> QED
        BY <3>0, <4>1
    <3> QED
      BY <1>1, <2>1, <3>1, <3>2
  <2>5. objects[k].id # PacketId => Reading(objects[k].id, f, at(k) + 1) = ReadingOf(objects[k])
    <3>1. ASSUME NEW m \in 1 .. 1 + w(k) PROVE f[at(k) + (m - 1)] = Encoded(objects[k])[m]
      <4>1. PICK a \in Nat, v \in {1, 2} : a = at(k) /\ v = w(k)
        BY <1>2, <1>5, <2>1
      <4>2. m \in 1 .. 1 + v /\ a + 1 + v <= L + 1 /\ L \in Nat
        BY <1>3, <2>4, <4>1
      <4>3. a + (m - 1) \in 1 .. L
        <5>1. 1 <= a
          BY <2>3, <4>1
        <5> HIDE DEF L, at, w
        <5>2. m \in Nat /\ 1 <= m /\ m <= 1 + v
          BY <4>1, <4>2
        <5> QED
          BY <4>1, <4>2, <5>1, <5>2
      <4> QED
        BY <1>2, <1>3, <2>1, <4>1, <4>3
    <3>2. at(k) \in Nat /\ Legal(objects[k])
      BY <1>1, <1>2, <2>1
    <3> QED
      BY <2>2, <3>1, <3>2, ReadingIs
  <2>6. F[at(k)] = (IF objects[k].id = PacketId THEN <<>> ELSE <<ReadingOf(objects[k])>>) \o F[at(k + 1)]
    <3>1. F[at(k)] = FieldStep(f, F, at(k))
      BY <1>6, <2>3
    <3>2. ~(at(k) > L) /\ ~(at(k) + 1 + w(k) > L + 1)
      <4>1. PICK a \in Nat, v \in {1, 2} : a = at(k) /\ v = w(k)
        BY <1>2, <1>5, <2>1
      <4>2. L \in Nat /\ a \in 1 .. L /\ a + 1 + v <= L + 1
        BY <1>3, <2>3, <2>4, <4>1
      <4> QED
        BY <4>1, <4>2
    <3>3. FieldStep(f, F, at(k)) =
            (IF objects[k].id = PacketId THEN <<>>
             ELSE <<Reading(objects[k].id, f, at(k) + 1)>>) \o F[at(k) + 1 + w(k)]
      BY <2>2, <2>3, <3>2 DEF FieldStep
    <3> QED
      BY <2>4, <2>5, <3>1, <3>3
  <2>7. F[at(k + 1)] \in Seq(R) /\ Readings(objects, k) \o F[at(k + 1)] = Readings(objects, t)
    <3>1. Rest(k + 1)
      BY <1>10
    <3> HIDE DEF F, R, at
    <3> QED
      BY <2>1, <3>1
  <2>8. ReadingOf(objects[k]) \in R /\ Readings(objects, k - 1) \in Seq(R)
    BY <1>8, <2>1 DEF AllReadings, n
  <2>9. Readings(objects, k) = IF objects[k].id = PacketId THEN Readings(objects, k - 1)
                               ELSE Append(Readings(objects, k - 1), ReadingOf(objects[k]))
    BY <1>8, <2>1
  <2>10. Rest(k)
    <3>1. PICK r \in Seq(R), u \in Seq(R), x \in R :
            r = Readings(objects, k - 1) /\ u = F[at(k + 1)] /\ x = ReadingOf(objects[k])
      BY <2>7, <2>8
    <3>2. /\ <<x>> \o u \in Seq(R) /\ r \o (<<x>> \o u) = Append(r, x) \o u /\ <<>> \o u = u
      <4> HIDE DEF R, F, at
      <4> QED
        BY JoiningIs
    <3> HIDE DEF R, F
    <3>3. CASE objects[k].id = PacketId
      <4>1. F[at(k)] = u
        BY <2>6, <3>1, <3>2, <3>3
      <4>2. r \o u = Readings(objects, t)
        BY <2>7, <2>9, <3>1, <3>3
      <4> QED
        BY <3>1, <4>1, <4>2
    <3>4. CASE objects[k].id # PacketId
      <4>1. F[at(k)] = <<x>> \o u
        BY <2>6, <3>1, <3>4
      <4>2. Append(r, x) \o u = Readings(objects, t)
        BY <2>7, <2>9, <3>1, <3>4
      <4> QED
        BY <3>1, <3>2, <4>1, <4>2
    <3> QED
      BY <3>3, <3>4
  <2> QED
    BY <2>10
<1>11. Rest(1)
  <2>1. t + 1 \in Nat /\ 1 \in Nat /\ 1 \in 1 .. t + 1
    BY <1>1
  <2> HIDE DEF S
  <2>2. 1 \in S
    BY <1>9, <1>10, <2>1, Downward
  <2> QED
    BY <2>2 DEF S
<1>12. F[4] = Readings(objects, t)
  <2>1. Readings(objects, 0) \o F[4] = Readings(objects, t) /\ F[4] \in Seq(R)
    <3>1. 1 - 1 = 0
      OBVIOUS
    <3> QED
      BY <1>2, <1>11, <3>1
  <2>2. \A r \in Seq(R) : <<>> \o r = r
    OBVIOUS
  <2> HIDE DEF R, F
  <2> QED
    BY <1>8, <2>1, <2>2
<1>13. f[3] = Info[advert.kind]
  <2>1. 3 \in 1 .. L
    BY <1>3
  <2> QED
    BY <1>2, <1>3, <2>1
<1>14. InfoIsPlain(Info[advert.kind]) <=> advert.kind \in {"plain", "trigger"}
  BY <1>1 DEF InfoIsPlain, Info
<1> QED
  BY <1>4, <1>6, <1>12, <1>13, <1>14 DEF f

-----------------------------------------------------------------------------
(* The packet around the service data.                                     *)

\* The first two bytes of a piece of a sequence.
LEMMA PieceStarts ==
  ASSUME NEW R, NEW s \in Seq(R), NEW a \in Nat, NEW b \in Nat, 1 <= a, a < b, b <= Len(s)
  PROVE  SubSeq(SubSeq(s, a, b), 1, 2) = <<s[a], s[a + 1]>>
<1> DEFINE u == SubSeq(s, a, b)
<1>1. u \in Seq(R) /\ Len(u) = (b - a) + 1 /\ \A i \in 1 .. (b - a) + 1 : u[i] = s[(a + i) - 1]
  OBVIOUS
<1>2. 2 <= Len(u) /\ u[1] = s[a] /\ u[2] = s[a + 1]
  <2>1. (b - a) + 1 \in Nat /\ 1 \in 1 .. (b - a) + 1 /\ 2 \in 1 .. (b - a) + 1
        /\ (a + 1) - 1 = a /\ (a + 2) - 1 = a + 1
    OBVIOUS
  <2> HIDE DEF u
  <2> QED
    BY <1>1, <2>1
<1> HIDE DEF u
<1>3. SubSeq(u, 1, 2) = <<u[1], u[2]>>
  <2> DEFINE v == SubSeq(u, 1, 2)
  <2>1. u[1] \in R /\ u[2] \in R /\ \A i \in 1 .. 2 : u[i] \in R
    BY <1>1, <1>2
  <2>2. v \in Seq(R) /\ Len(v) = 2 /\ \A i \in 1 .. 2 : v[i] = u[i]
    <3>1. /\ v \in Seq(R) /\ Len(v) = (IF 1 <= 2 THEN (2 - 1) + 1 ELSE 0)
          /\ \A i \in 1 .. (2 - 1) + 1 : v[i] = u[(1 + i) - 1]
      BY <2>1, SubSeqProperties
    <3> HIDE DEF v, u
    <3> QED
      BY <3>1
  <2> HIDE DEF v
  <2>3. v = <<u[1], u[2]>>
    <3> DEFINE w == <<u[1], u[2]>>
    <3>1. w \in Seq(R) /\ Len(w) = 2 /\ w[1] = u[1] /\ w[2] = u[2]
      BY <2>1
    <3>2. \A i \in 1 .. 2 : i = 1 \/ i = 2
      OBVIOUS
    <3> HIDE DEF w
    <3>3. Len(v) = Len(w) /\ \A i \in 1 .. Len(v) : v[i] = w[i]
      BY <2>2, <3>1, <3>2
    <3>4. v = w
      BY <2>2, <3>1, <3>3, SeqEqual
    <3> QED
      BY <3>4 DEF w
  <2> QED
    BY <2>3 DEF v
<1> QED
  BY <1>2, <1>3 DEF u

\* The bytes of a packet: other fields, then the service data as far as it goes.
Holds(data, D, before, B, f, L, lost) ==
  /\ data \in Seq(Nat) /\ Len(data) = D /\ B \in Nat /\ L \in Nat /\ D \in Nat /\ B <= D
  /\ \A i \in 1 .. B : data[i] = before[i]
  /\ B < D => data[B + 1] = L + 1
  /\ lost = 0 => data[B + 2] = ServiceData
  /\ lost = 0 => SubSeq(data, B + 3, (B + L) + 2) = f

LEMMA PacketIs ==
  ASSUME NEW f \in Seq(Nat), NEW before \in Seq(Nat), NEW B, B = Len(before), NEW L, L = Len(f),
         NEW lost \in 0 .. L + 2, NEW data, data = Shortened(before \o Field(ServiceData, f), lost),
         NEW D, D = ((B + L) + 2) - lost
  PROVE  Holds(data, D, before, B, f, L, lost)
<1> DEFINE field == <<L + 1, ServiceData>> \o f
           whole == before \o field
<1>1. B \in Nat /\ L \in Nat /\ D \in Nat /\ B <= D /\ D <= (B + L) + 2
  OBVIOUS
<1>2. /\ field \in Seq(Nat) /\ Len(field) = L + 2 /\ field[1] = L + 1 /\ field[2] = ServiceData
      /\ \A i \in 1 .. L : field[2 + i] = f[i]
  BY <1>1 DEF ServiceData
<1>3. field = Field(ServiceData, f)
  BY DEF Field
<1> HIDE DEF field
<1>4. /\ whole \in Seq(Nat) /\ Len(whole) = (B + L) + 2
      /\ \A i \in 1 .. B : whole[i] = before[i]
      /\ \A i \in 1 .. L + 2 : whole[B + i] = field[i]
  <2>1. /\ whole \in Seq(Nat) /\ Len(whole) = B + (L + 2)
        /\ \A i \in 1 .. B + (L + 2) : whole[i] = IF i <= B THEN before[i] ELSE field[i - B]
    <3>1. /\ whole \in Seq(Nat) /\ Len(whole) = Len(before) + Len(field)
          /\ \A i \in 1 .. Len(before) + Len(field) :
               whole[i] = IF i <= Len(before) THEN before[i] ELSE field[i - Len(before)]
      BY <1>2, ConcatProperties
    <3>2. Len(before) = B /\ Len(field) = L + 2
      BY <1>2
    <3> HIDE DEF whole
    <3> QED
      BY <3>1, <3>2
  <2> HIDE DEF whole
  <2>2. \A i \in 1 .. B : i \in 1 .. B + (L + 2) /\ i <= B
    BY <1>1
  <2>3. \A i \in 1 .. L + 2 : B + i \in 1 .. B + (L + 2) /\ ~(B + i <= B) /\ (B + i) - B = i
    BY <1>1
  <2>4. Len(whole) = (B + L) + 2
    BY <1>1, <2>1
  <2> QED
    BY <2>1, <2>2, <2>3, <2>4
<1>5. data = SubSeq(whole, 1, D)
  BY <1>1, <1>3, <1>4 DEF Shortened
<1> HIDE DEF whole
<1>6. data \in Seq(Nat) /\ Len(data) = D /\ \A i \in 1 .. D : data[i] = whole[i]
  <2>1. \A i \in 1 .. D : whole[i] \in Nat
    <3>1. \A i \in 1 .. Len(whole) : whole[i] \in Nat
      <4>1. whole \in Seq(Nat)
        BY <1>4
      <4> QED
        BY <4>1
    <3>2. \A i \in 1 .. D : i \in 1 .. Len(whole)
      BY <1>1, <1>4
    <3> QED
      BY <3>1, <3>2
  <2>2. /\ data \in Seq(Nat) /\ Len(data) = (IF 1 <= D THEN (D - 1) + 1 ELSE 0)
        /\ \A i \in 1 .. (D - 1) + 1 : data[i] = whole[(1 + i) - 1]
    BY <1>1, <1>5, <2>1, SubSeqProperties
  <2>3. (D - 1) + 1 = D /\ (IF 1 <= D THEN (D - 1) + 1 ELSE 0) = D
        /\ \A i \in 1 .. D : (1 + i) - 1 = i
    BY <1>1
  <2> QED
    BY <2>2, <2>3
<1>7. ASSUME NEW i \in 1 .. B PROVE data[i] = before[i]
  <2>1. i \in 1 .. D
    BY <1>1
  <2> QED
    BY <1>4, <1>6, <2>1
<1>8. ASSUME B < D PROVE data[B + 1] = L + 1
  <2>1. B + 1 \in 1 .. D /\ 1 \in 1 .. L + 2
    BY <1>1, <1>8
  <2> QED
    BY <1>2, <1>4, <1>6, <2>1
<1>9. ASSUME lost = 0 PROVE data[B + 2] = ServiceData
  <2>1. B + 2 \in 1 .. D /\ 2 \in 1 .. L + 2
    BY <1>1, <1>9
  <2> QED
    BY <1>2, <1>4, <1>6, <2>1
<1>10. ASSUME lost = 0 PROVE SubSeq(data, B + 3, (B + L) + 2) = f
  <2>1. D = (B + L) + 2
    BY <1>1, <1>9, <1>10
  <2> DEFINE u == SubSeq(data, B + 3, (B + L) + 2)
  <2>2. u \in Seq(Nat) /\ Len(u) = L /\ \A i \in 1 .. L : u[i] = data[((B + 3) + i) - 1]
    <3> DEFINE m == B + 3
               n == (B + L) + 2
    <3>1. m \in Int /\ n \in Int /\ (n - m) + 1 = L /\ (IF m <= n THEN (n - m) + 1 ELSE 0) = L
      BY <1>1
    <3>2. \A i \in m .. n : data[i] \in Nat
      <4>1. \A i \in 1 .. Len(data) : data[i] \in Nat
        <5>1. data \in Seq(Nat)
          BY <1>6
        <5> QED
          BY <5>1
      <4>2. \A i \in m .. n : i \in 1 .. Len(data)
        BY <1>1, <1>6, <2>1
      <4> QED
        BY <4>1, <4>2
    <3> HIDE DEF m, n
    <3>3. /\ SubSeq(data, m, n) \in Seq(Nat) /\ Len(SubSeq(data, m, n)) = (IF m <= n THEN (n - m) + 1 ELSE 0)
          /\ \A i \in 1 .. (n - m) + 1 : SubSeq(data, m, n)[i] = data[(m + i) - 1]
      BY <3>1, <3>2, SubSeqProperties
    <3> QED
      BY <3>1, <3>3 DEF m, n
  <2> HIDE DEF u
  <2>3. ASSUME NEW i \in 1 .. L PROVE u[i] = f[i]
    <3>1. ((B + 3) + i) - 1 = B + (2 + i) /\ 2 + i \in 1 .. L + 2 /\ B + (2 + i) \in 1 .. D
      BY <1>1, <2>1
    <3> QED
      BY <1>2, <1>4, <1>6, <2>2, <3>1
  <2>4. u = f
    BY <2>2, <2>3, SeqEqual
  <2> QED
    BY <2>4 DEF u
<1> QED
  BY <1>1, <1>6, <1>7, <1>8, <1>9, <1>10 DEF Holds

\* The parser tells of the packet a sensor sends what can be told of it
\* (ble_parse_bthome_advertising_data).
LEMMA ParserTells ==
  ASSUME NEW advert, WellFormed(advert)
  PROVE  ble_parse_bthome_advertising_data(AdvertisingData(advert)) = Meant(advert)
<1>1. PICK objects : objects = advert.objects
  OBVIOUS
<1>2. PICK f : f = Short(advert)
  OBVIOUS
<1>3. PICK before : before = advert.before
  OBVIOUS
<1>4. PICK lost : lost = advert.lost
  OBVIOUS
<1>5. PICK data : data = AdvertisingData(advert)
  OBVIOUS
<1>b. PICK B : B = Len(before)
  OBVIOUS
<1>l. PICK L : L = Len(f)
  OBVIOUS
<1>d. PICK D : D = ((B + L) + 2) - lost
  OBVIOUS
<1> DEFINE G == DataFrom(data)
<1>6. f \in Seq(Nat) /\ 3 <= L /\ L \in Nat
  <2>1. /\ Short(advert) \in Seq(Nat) /\ 3 <= Len(Short(advert))
        /\ Len(Short(advert)) = Len(Content(advert)) - advert.short
    BY <1>1, ShortIs
  <2>2. Short(advert) \in Seq(Nat) /\ 3 <= Len(Short(advert))
    BY <2>1
  <2> QED
    BY <1>2, <1>l, <2>2
<1>7. f[1] = 210 /\ f[2] = 252
  <2>1. \A i \in 1 .. Len(Short(advert)) : Short(advert)[i] = Content(advert)[i]
    BY <1>1, ShortIs
  <2>2. Content(advert)[1] = 210 /\ Content(advert)[2] = 252
    BY <1>1, ContentIs
  <2>3. 1 \in 1 .. L /\ 2 \in 1 .. L
    BY <1>6
  <2> QED
    BY <1>2, <1>l, <2>1, <2>2, <2>3
<1>8. ble_parse_bthome_v2(f) = IF advert.kind \in {"plain", "trigger"}
                               THEN Readings(objects, Cardinality(Told(advert))) ELSE <<>>
  BY <1>1, <1>2, FieldSays
<1>9. before \in Seq(Nat) /\ lost \in 0 .. Len(Field(ServiceData, f))
  BY <1>2, <1>3, <1>4 DEF WellFormed, Short
<1>10. PICK P \in SUBSET (1 .. B + 1) :
         /\ 1 \in P
         /\ \A p \in P \ {B + 1} : \E next \in P : OtherField(before, p, next)
  BY <1>3, <1>b DEF WellFormed
<1>11. data = Shortened(before \o Field(ServiceData, f), lost)
  BY <1>2, <1>3, <1>4, <1>5 DEF AdvertisingData, Short
<1>12. lost \in 0 .. L + 2
  <2>1. Len(Field(ServiceData, f)) = L + 2
    BY <1>6, <1>l DEF Field, ServiceData
  <2> QED
    BY <1>9, <2>1
<1>13. /\ data \in Seq(Nat) /\ Len(data) = D /\ B \in Nat /\ D \in Nat /\ B <= D
       /\ \A i \in 1 .. B : data[i] = before[i]
       /\ B < D => data[B + 1] = L + 1
       /\ lost = 0 => data[B + 2] = ServiceData
       /\ lost = 0 => SubSeq(data, B + 3, (B + L) + 2) = f
  <2>1. before \in Seq(Nat) /\ f \in Seq(Nat)
    BY <1>6, <1>9
  <2>2. Holds(data, D, before, B, f, L, lost)
    BY <1>11, <1>12, <1>b, <1>l, <1>d, <2>1, PacketIs
  <2> QED
    BY <2>2 DEF Holds
<1>14. /\ \A i \in 1 .. D + 1 : G[i] = DataStep(data, G, i)
       /\ ble_parse_bthome_advertising_data(data) = G[1]
  BY <1>13, DataFromIs
<1> HIDE DEF G
\* The service data.
<1>15. G[B + 1] = IF lost = 0 THEN ble_parse_bthome_v2(f) ELSE <<>>
  <2>1. B + 1 \in 1 .. D + 1
    BY <1>13
  <2>2. CASE lost = 0
    <3>1. D = (B + L) + 2 /\ (B + 1) + (L + 1) = D
      BY <1>6, <1>13, <1>d, <2>2
    <3>2. data[B + 1] = L + 1 /\ L + 1 # 0 /\ L + 1 >= 3 /\ ~(B + 1 > D) /\ ~((B + 1) + (L + 1) > D)
      BY <1>6, <1>13, <3>1
    <3>3. /\ (B + 1) + 1 = B + 2 /\ (B + 1) + 2 = B + 3 /\ (B + 1) + (L + 1) = (B + L) + 2
      BY <1>6, <1>13
    <3>4. data[(B + 1) + 1] = ServiceData /\ SubSeq(data, (B + 1) + 2, (B + 1) + (L + 1)) = f
      BY <1>13, <2>2, <3>3
    <3>5. SubSeq(f, 1, 2) = BtHomeUuid
      <4>1. SubSeq(SubSeq(f, 1, L), 1, 2) = <<f[1], f[1 + 1]>>
        BY <1>6, <1>l, PieceStarts
      <4>2. SubSeq(f, 1, L) = f
        BY <1>6, <1>l, SubSeqFull
      <4>3. <<f[1], f[1 + 1]>> = <<210, 252>>
        BY <1>7
      <4> QED
        BY <4>1, <4>2, <4>3 DEF BtHomeUuid
    <3>6. DataStep(data, G, B + 1) = ble_parse_bthome_v2(f)
      <4> QED
        BY <1>13, <3>2, <3>4, <3>5 DEF DataStep
    <3> QED
      BY <1>14, <2>1, <2>2, <3>6
  <2>3. CASE lost # 0
    <3>1. D < (B + L) + 2
      BY <1>6, <1>12, <1>13, <1>d, <2>3
    <3>2. DataStep(data, G, B + 1) = <<>>
      <4>1. CASE B < D
        <5>1. data[B + 1] = L + 1 /\ (B + 1) + (L + 1) > D
          BY <1>6, <1>13, <3>1, <4>1
        <5> QED
          BY <1>13, <5>1 DEF DataStep
      <4>2. CASE ~(B < D)
        <5>1. B + 1 > D
          BY <1>13, <4>2
        <5> QED
          BY <1>13, <5>1 DEF DataStep
      <4> QED
        BY <4>1, <4>2
    <3> QED
      BY <1>14, <2>1, <2>3, <3>2
  <2> QED
    BY <2>2, <2>3
\* The fields before it are skipped.
<1>16. ASSUME NEW p \in P, p # B + 1
       PROVE  \E next \in P : p + 1 <= next /\ G[p] = G[next]
  <2>1. PICK next \in P : OtherField(before, p, next)
    BY <1>10, <1>16
  <2>2. p \in 1 .. B /\ next \in 1 .. B + 1
    BY <1>10, <1>13, <1>16
  <2>3. PICK l \in Nat : l = before[p] /\ l = data[p]
    <3>1. before[p] \in Nat
      BY <1>9, <1>b, <2>2
    <3> QED
      BY <1>13, <2>2, <3>1
  <2>4. /\ l # 0 /\ next = (p + l) + 1
        /\ ~(l >= 3 /\ before[p + 1] = ServiceData /\ <<before[p + 2], before[p + 3]>> = BtHomeUuid)
    BY <2>1, <2>3 DEF OtherField
  <2>5. p + l <= B /\ p + 1 <= B /\ p + 1 <= next
    BY <1>13, <2>2, <2>4
  <2>6. p + 1 \in 1 .. B /\ ~(p > D) /\ ~(p + l > D) /\ p \in 1 .. D + 1
    BY <1>13, <2>2, <2>5
  <2>7. data[p + 1] = before[p + 1]
    BY <1>13, <2>6
  <2>8. l >= 3 => SubSeq(SubSeq(data, p + 2, p + l), 1, 2) = <<before[p + 2], before[p + 3]>>
    <3>1. SUFFICES ASSUME l >= 3
                   PROVE  SubSeq(SubSeq(data, p + 2, p + l), 1, 2) = <<before[p + 2], before[p + 3]>>
      OBVIOUS
    <3>2. PICK a \in Nat, b \in Nat : a = p + 2 /\ b = p + l
      BY <2>2
    <3>3. 1 <= a /\ a < b /\ b <= Len(data)
      BY <1>13, <2>2, <2>5, <3>1, <3>2
    <3>4. SubSeq(SubSeq(data, a, b), 1, 2) = <<data[a], data[a + 1]>>
      BY <1>13, <3>3, PieceStarts
    <3>5. a \in 1 .. B /\ a + 1 \in 1 .. B /\ a + 1 = p + 3
      BY <1>13, <2>2, <2>5, <3>1, <3>2
    <3>6. data[a] = before[a] /\ data[a + 1] = before[a + 1]
      BY <1>13, <3>5
    <3> QED
      BY <3>2, <3>4, <3>5, <3>6
  <2>9. DataStep(data, G, p) = G[(p + l) + 1]
    <3> QED
      BY <1>13, <2>3, <2>4, <2>6, <2>7, <2>8 DEF DataStep
  <2>10. G[p] = G[next]
    BY <1>14, <2>4, <2>6, <2>9
  <2> QED
    BY <2>5, <2>10
<1> DEFINE S == {m \in Nat : \A p \in P : m <= p => G[p] = G[B + 1]}
<1>17. B + 1 \in S
  <2>1. \A p \in P : B + 1 <= p => p = B + 1
    BY <1>10, <1>13
  <2>2. B + 1 \in Nat
    BY <1>13
  <2> QED
    BY <2>1, <2>2
<1>18. ASSUME NEW m \in Nat, 1 <= m, m < B + 1, m + 1 \in S PROVE m \in S
  <2>1. ASSUME NEW p \in P, m <= p PROVE G[p] = G[B + 1]
    <3>1. p \in Nat
      BY <1>10
    <3>2. CASE m + 1 <= p
      BY <1>18, <3>2
    <3>3. CASE ~(m + 1 <= p)
      <4>1. p = m /\ p # B + 1
        BY <1>13, <1>18, <2>1, <3>1, <3>3
      <4>2. PICK next \in P : p + 1 <= next /\ G[p] = G[next]
        BY <1>16, <4>1
      <4>3. G[next] = G[B + 1]
        BY <1>18, <4>1, <4>2
      <4> QED
        BY <4>2, <4>3
    <3> QED
      BY <3>2, <3>3
  <2> QED
    BY <2>1
<1>19. G[1] = G[B + 1]
  <2>1. 1 \in Nat /\ B + 1 \in Nat /\ 1 \in 1 .. B + 1
    BY <1>13
  <2> HIDE DEF S
  <2>2. 1 \in S
    BY <1>17, <1>18, <2>1, Downward
  <2>3. 1 <= 1
    OBVIOUS
  <2> QED
    BY <1>10, <2>2, <2>3 DEF S
<1>20. ble_parse_bthome_advertising_data(data) =
         IF lost = 0 THEN ble_parse_bthome_v2(f) ELSE <<>>
  BY <1>14, <1>15, <1>19
<1> QED
  BY <1>1, <1>4, <1>5, <1>8, <1>20 DEF Meant

-----------------------------------------------------------------------------
(* Readings are what the sensors meant.                                    *)

\* A report stores what its sensor meant and leaves it in the table.
LEMMA ReportIsSound ==
  ASSUME ScanInv, NEW a \in Addresses, NEW advert \in Adverts, Report(a, advert)
  PROVE  ReadingsAreSound'
<1> DEFINE meant == Meant(advert)
           heard == {i \in RowsOf(table', a, AddressType[a]) : table'[i].seen = now'}
<1>1. ble_parse_bthome_advertising_data(AdvertisingData(advert)) = meant
  BY AdvertsAssumption, ParserTells
<1> HIDE DEF meant
<1>2. /\ stored' = (IF ble_mac_is_allowed(a) THEN meant ELSE <<>>)
      /\ meant # <<>> => ble_device_table_update(a)
      /\ report' = [address |-> a, advert |-> advert] /\ now' = now /\ allowed' = allowed
  BY <1>1 DEF Report, StoredOf
<1>3. report'.address = a /\ report'.advert = advert
  BY <1>2
<1>4. stored' = IF a \in ToSet(allowed') THEN meant ELSE <<>>
  BY <1>2 DEF ble_mac_is_allowed
<1>5. ASSUME meant # <<>> PROVE heard # {}
  <2>1. ble_device_table_update(a)
    BY <1>2, <1>5
  <2>2. PICK slot \in Slots, row \in Rows :
          /\ table' = [table EXCEPT ![slot] = row]
          /\ row.address = a /\ row.address_type = AddressType[a] /\ row.seen = now
    BY <2>1, UpdateIs
  <2>3. table'[slot] = row /\ row # Free
    BY <2>2, Constants DEF ScanInv, ScanTypes
  <2>4. slot \in heard
    BY <1>2, <2>2, <2>3 DEF RowsOf, Used
  <2> QED
    BY <2>4
<1> QED
  BY <1>3, <1>4, <1>5 DEF ReadingsAreSound, meant

LEMMA SoundStep == ScanInv /\ ReadingsAreSound /\ [Next]_vars => ReadingsAreSound'
<1>1. SUFFICES ASSUME ScanInv, ReadingsAreSound, [Next]_vars PROVE ReadingsAreSound'
  OBVIOUS
<1>2. CASE \E a \in Addresses, advert \in Adverts : Report(a, advert)
  BY <1>1, <1>2, ReportIsSound
<1>3. CASE ble_scanner_periodic
  BY <1>3 DEF ble_scanner_periodic, Quiet, ReadingsAreSound
<1>4. CASE \E macs \in AllowedLists : ble_scanner_apply_config(macs)
  BY <1>4 DEF ble_scanner_apply_config, Quiet, ReadingsAreSound
<1>5. CASE Tick
  BY <1>5 DEF Tick, Quiet, ReadingsAreSound
<1>6. CASE UNCHANGED vars
  BY <1>1, <1>6 DEF vars, ReadingsAreSound, RowsOf, Used
<1> QED
  BY <1>1, <1>2, <1>3, <1>4, <1>5, <1>6 DEF Next

\* Whatever sensors send, whole or cut, in plain or encrypted, with objects the
\* firmware knows or not: what a report adds to the store is what its sensor
\* meant as far as it can be told, only if it is tracked, and a report with a
\* reading leaves its sensor in the table (ble_parse_bthome_advertising_data,
\* ble_packet_handler).
THEOREM AlwaysReadingsAreSound == Spec => []ReadingsAreSound
<1>1. Init => ReadingsAreSound
  BY DEF Init, ReadingsAreSound
<1>2. Spec => []ScanInv
  BY ScanAlways
<1> QED
  BY <1>1, <1>2, SoundStep, PTL DEF Spec
=============================================================================
