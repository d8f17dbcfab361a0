----------------------- MODULE MeasurementStoreProofs -----------------------
(***************************************************************************)
(* The table of samples: a revision leaves nothing in it that is too old,  *)
(* and no sample is given up without a reason.  The view made of it: while *)
(* the table has room, it averages exactly the samples it should.  And the *)
(* payload made of the view: none of its lines is cut.                     *)
(***************************************************************************)
EXTENDS MeasurementStore, FiniteSetTheorems, SequenceTheorems, WellFoundedInduction, TLAPS

-----------------------------------------------------------------------------
(* Sets of numbers.                                                        *)

\* A set of numbers that is not empty has a least element.
LEMMA LeastNumber ==
  ASSUME NEW T, T \subseteq Nat, T # {}
  PROVE  \E x \in T : \A y \in T : x <= y
<1>1. PICK x \in T : \A y \in T : ~(<<y, x>> \in OpToRel(<, Nat))
  BY NatLessThanWellFounded, WFMin
<1>2. ASSUME NEW y \in T PROVE x <= y
  <2>1. <<y, x>> \in Nat \X Nat /\ <<y, x>> \notin OpToRel(<, Nat)
    BY <1>1
  <2> QED
    BY <2>1 DEF OpToRel
<1> QED
  BY <1>2

\* One that is also bounded has a greatest.
LEMMA GreatestNumber ==
  ASSUME NEW T, T \subseteq Int, NEW n \in Int, \A y \in T : y <= n, T # {}
  PROVE  \E x \in T : \A y \in T : x >= y
<1> DEFINE D == {n - y : y \in T}
<1>1. D \subseteq Nat /\ D # {}
  <2>1. ASSUME NEW y \in T PROVE n - y \in Nat
    <3>1. y \in Int /\ y <= n
      OBVIOUS
    <3> QED
      BY <3>1
  <2> QED
    BY <2>1
<1>2. PICK d \in D : \A e \in D : d <= e
  BY <1>1, LeastNumber
<1>3. PICK x \in T : d = n - x
  OBVIOUS
<1>4. ASSUME NEW y \in T PROVE x >= y
  <2>1. d <= n - y
    BY <1>2
  <2> QED
    BY <1>3, <2>1
<1> QED
  BY <1>4

\* Max finds it.
LEMMA MaxIsGreatest ==
  ASSUME NEW T, T \subseteq Int, NEW n \in Int, \A y \in T : y <= n, T # {}
  PROVE  Max(T) \in T /\ \A y \in T : Max(T) >= y
<1>1. \E x \in T : \A y \in T : x >= y
  BY GreatestNumber
<1> QED
  BY <1>1 DEF Max

-----------------------------------------------------------------------------
(* Ages and the order in which slots are given up.                         *)

\* The age the firmware computes is a natural number.
LEMMA AgeType ==
  ASSUME NEW time \in Int, NEW at \in Int PROVE Age(time, at) \in Nat
<1>1. time % Wrap \in Nat /\ at % Wrap \in Nat
  BY StoreAssumption
<1>2. ASSUME NEW c \in Nat, NEW t \in Nat PROVE (IF c >= t THEN c - t ELSE 0) \in Nat
  OBVIOUS
<1> QED
  BY <1>1, <1>2 DEF Age

\* While the clock does not wrap it is the true age, and 0 for the future.
LEMMA AgeIs ==
  ASSUME NEW time \in Int, NEW at \in Int, time \div Wrap = at \div Wrap
  PROVE  Age(time, at) = IF time >= at THEN time - at ELSE 0
<1>1. Wrap \in Nat \ {0}
  BY StoreAssumption
<1>2. ASSUME NEW x \in Int PROVE x = Wrap * (x \div Wrap) + (x % Wrap) /\ x % Wrap \in Nat
  BY <1>1
<1>3. PICK q \in Int : q = time \div Wrap
  BY <1>1
<1>4. PICK p \in Int : p = Wrap * q
  BY <1>1
<1>5. time = p + (time % Wrap) /\ at = p + (at % Wrap)
  BY <1>2, <1>3, <1>4
<1>6. \A c, t \in Nat : time = p + c /\ at = p + t =>
        (IF c >= t THEN c - t ELSE 0) = (IF time >= at THEN time - at ELSE 0)
  BY <1>4
<1>7. time % Wrap \in Nat /\ at % Wrap \in Nat
  BY <1>2
<1> QED
  BY <1>5, <1>6, <1>7 DEF Age
\* The table is finite.
LEMMA SlotsAre == IsFiniteSet(Slots) /\ Slots \subseteq Nat /\ TableSize \in Nat
<1>1. TableSize \in Nat \ {0}
  BY StoreAssumption
<1> QED
  BY <1>1, FS_Interval DEF Slots

\* The samples in a table carry whole times.
Timed(t) == \A i \in Used(t) : t[i].at \in Int

\* Slots are in one order.
LEMMA PrecedesOrders ==
  ASSUME NEW t, NEW time \in Int, Timed(t),
         NEW i \in Used(t), NEW j \in Used(t), NEW k \in Used(t)
  PROVE  /\ ~ Precedes(t, time, i, i)
         /\ i # j => Precedes(t, time, i, j) \/ Precedes(t, time, j, i)
         /\ Precedes(t, time, i, j) /\ Precedes(t, time, j, k) => Precedes(t, time, i, k)
<1>1. /\ Age(time, t[i].at) \in Nat /\ Age(time, t[j].at) \in Nat /\ Age(time, t[k].at) \in Nat
      /\ i \in Nat /\ j \in Nat /\ k \in Nat
  BY AgeType, SlotsAre DEF Timed, Used
<1> QED
  BY <1>1 DEF Precedes

\* A slot that precedes another holds no younger sample, as far as ages tell.
LEMMA PrecedesIsOlder ==
  ASSUME NEW t, NEW time \in Int, NEW i \in Slots, NEW j \in Slots,
         t[i].at \in Int, t[j].at \in Int,
         t[i].at \div Wrap = time \div Wrap, t[j].at \div Wrap = time \div Wrap,
         Precedes(t, time, i, j)
  PROVE  t[j].at >= t[i].at \/ t[j].at >= time
<1>1. /\ Age(time, t[i].at) = IF time >= t[i].at THEN time - t[i].at ELSE 0
      /\ Age(time, t[j].at) = IF time >= t[j].at THEN time - t[j].at ELSE 0
  BY AgeIs
<1>2. Age(time, t[i].at) >= Age(time, t[j].at)
  <2>1. Age(time, t[i].at) \in Nat /\ Age(time, t[j].at) \in Nat
    BY AgeType
  <2> QED
    BY <2>1 DEF Precedes
<1>3. \A x, y \in Int : (IF time >= x THEN time - x ELSE 0) >= (IF time >= y THEN time - y ELSE 0)
                          => y >= x \/ y >= time
  OBVIOUS
<1> QED
  BY <1>1, <1>2, <1>3

\* The slots of the series that follow slot k.
Followers(t, time, s, k) == {j \in OfSeries(t, s) : j # k /\ Precedes(t, time, k, j)}

\* Those of a follower are fewer.
LEMMA FollowersShrink ==
  ASSUME NEW t, NEW time \in Int, Timed(t), NEW s, NEW k \in OfSeries(t, s),
         NEW j \in Followers(t, time, s, k)
  PROVE  /\ Followers(t, time, s, j) \subseteq Followers(t, time, s, k)
         /\ IsFiniteSet(Followers(t, time, s, k))
         /\ Cardinality(Followers(t, time, s, k)) \in Nat
         /\ Cardinality(Followers(t, time, s, j)) \in Nat
         /\ Cardinality(Followers(t, time, s, j)) < Cardinality(Followers(t, time, s, k))
<1>1. IsFiniteSet(Followers(t, time, s, k))
  <2>1. IsFiniteSet(Slots) /\ Followers(t, time, s, k) \subseteq Slots
    BY SlotsAre DEF Followers, OfSeries, Used
  <2> QED
    BY <2>1, FS_Subset
<1>2. j \in Used(t) /\ k \in Used(t) /\ Precedes(t, time, k, j)
  BY DEF Followers, OfSeries
<1>3. Followers(t, time, s, j) \subseteq Followers(t, time, s, k)
  <2>1. ASSUME NEW h \in Followers(t, time, s, j) PROVE h \in Followers(t, time, s, k)
    <3>1. h \in Used(t) /\ h \in OfSeries(t, s) /\ Precedes(t, time, j, h)
      BY DEF Followers, OfSeries
    <3>2. Precedes(t, time, k, h) /\ ~ Precedes(t, time, k, k)
      BY <1>2, <3>1, PrecedesOrders
    <3> QED
      BY <3>1, <3>2 DEF Followers
  <2> QED
    BY <2>1
<1>4. j \notin Followers(t, time, s, j)
  BY DEF Followers
<1>5. /\ IsFiniteSet(Followers(t, time, s, j))
      /\ Cardinality(Followers(t, time, s, j)) <= Cardinality(Followers(t, time, s, k))
      /\ Cardinality(Followers(t, time, s, j)) # Cardinality(Followers(t, time, s, k))
  BY <1>1, <1>3, <1>4, FS_Subset
<1>6. /\ Cardinality(Followers(t, time, s, k)) \in Nat
      /\ Cardinality(Followers(t, time, s, j)) \in Nat
  BY <1>1, <1>5, FS_CardinalityType
<1> QED
  BY <1>1, <1>3, <1>5, <1>6

\* Where the limit takes a sample it leaves max_count - 1 followers of it.
LEMMA LimitLeavesFollowers ==
  ASSUME max_count \in Nat, NEW t, NEW time \in Int, Timed(t), NEW s, NEW i \in Used(t),
         measurement_enforce_series_limit(t, time, s)[i] = Free
  PROVE  /\ max_count # 0 /\ t[i].series = s
         /\ \E K \in SUBSET Followers(t, time, s, i) :
              /\ IsFiniteSet(K) /\ Cardinality(K) \in Nat /\ Cardinality(K) >= max_count - 1
              /\ \A j \in K : measurement_enforce_series_limit(t, time, s)[j] = t[j]
<1> DEFINE limited == measurement_enforce_series_limit(t, time, s)
           F(k) == Followers(t, time, s, k)
           size(k) == Cardinality(F(k))
           C == {k \in OfSeries(t, s) : /\ size(k) \in Nat /\ size(k) >= max_count - 1
                                        /\ k = i \/ k \in F(i)}
           N == {size(k) : k \in C}
<1>1. \A k \in Slots : limited[k] = IF /\ max_count # 0 /\ k \in OfSeries(t, s)
                                       /\ size(k) >= max_count - 1
                                    THEN Free ELSE t[k]
  BY DEF measurement_enforce_series_limit, Followers
<1>2. max_count # 0 /\ i \in OfSeries(t, s) /\ size(i) >= max_count - 1
  BY <1>1 DEF Used
<1>3. ASSUME NEW k \in OfSeries(t, s) PROVE IsFiniteSet(F(k)) /\ size(k) \in Nat
  <2>1. IsFiniteSet(Slots) /\ F(k) \subseteq Slots
    BY SlotsAre DEF Followers, OfSeries, Used
  <2> QED
    BY <2>1, FS_Subset, FS_CardinalityType
<1>4. i \in C /\ N \subseteq Nat /\ N # {}
  BY <1>2, <1>3
<1>5. PICK c \in N : \A y \in N : c <= y
  BY <1>4, LeastNumber
<1>6. PICK k \in C : c = size(k)
  OBVIOUS
<1>7. F(k) \subseteq F(i)
  BY <1>2, <1>6, FollowersShrink
<1>8. ASSUME NEW j \in F(k) PROVE limited[j] = t[j]
  <2>1. j \in OfSeries(t, s) /\ j \in Slots
    BY DEF Followers, OfSeries, Used
  <2>2. size(j) \in Nat /\ size(j) < size(k) /\ size(k) \in Nat
    BY <1>6, FollowersShrink
  <2>3. ~ (size(j) >= max_count - 1)
    <3>1. ASSUME size(j) >= max_count - 1 PROVE FALSE
      <4>1. j \in C
        BY <1>7, <2>1, <2>2, <3>1
      <4>2. size(k) <= size(j)
        BY <1>5, <1>6, <4>1
      <4> QED
        BY <2>2, <4>2
    <3> QED
      BY <3>1
  <2> QED
    BY <1>1, <2>1, <2>3
<1>9. IsFiniteSet(F(k)) /\ size(k) \in Nat /\ size(k) >= max_count - 1
  BY <1>3, <1>6
<1>10. t[i].series = s
  BY <1>2 DEF OfSeries
<1> QED
  BY <1>2, <1>7, <1>8, <1>9, <1>10
\* A full table has an oldest sample, and it is the one to go.
LEMMA OldestIs ==
  ASSUME NEW t, NEW time \in Int, Timed(t), Used(t) = Slots
  PROVE  /\ measurement_find_oldest(t, time, Slots) \in Slots
         /\ \A j \in Slots \ {measurement_find_oldest(t, time, Slots)} :
              Precedes(t, time, measurement_find_oldest(t, time, Slots), j)
<1> DEFINE age(j) == Age(time, t[j].at)
           Ages == {age(j) : j \in Slots}
<1>1. /\ Slots # {} /\ \A j \in Slots : age(j) \in Nat /\ age(j) <= Wrap /\ Wrap \in Nat
  <2>1. 1 \in Slots /\ Wrap \in Nat \ {0}
    BY StoreAssumption DEF Slots
  <2>2. \A x \in Int : x % Wrap \in Nat /\ x % Wrap <= Wrap
    BY <2>1
  <2>3. \A c, d \in Nat : c <= Wrap => (IF c >= d THEN c - d ELSE 0) <= Wrap
    BY <2>1
  <2>4. ASSUME NEW at \in Int PROVE Age(time, at) \in Nat /\ Age(time, at) <= Wrap
    BY <2>2, <2>3, AgeType DEF Age
  <2> QED
    BY <2>1, <2>4 DEF Timed
<1>2. Ages \subseteq Int /\ Ages # {} /\ Wrap \in Int /\ \A y \in Ages : y <= Wrap
  BY <1>1
<1>3. PICK a \in Ages : \A y \in Ages : a >= y
  BY <1>2, GreatestNumber
<1> DEFINE Eldest == {j \in Slots : age(j) = a}
<1>4. Eldest \subseteq Nat /\ Eldest # {}
  BY SlotsAre
<1>5. PICK i \in Eldest : \A j \in Eldest : i <= j
  BY <1>4, LeastNumber
<1>6. ASSUME NEW j \in Slots \ {i} PROVE Precedes(t, time, i, j)
  <2>1. age(i) = a /\ a >= age(j) /\ age(j) \in Nat /\ a \in Nat /\ i \in Nat /\ j \in Nat
    BY <1>1, <1>3, SlotsAre
  <2>2. age(j) = a => i <= j
    BY <1>5
  <2> QED
    BY <2>1, <2>2 DEF Precedes
<1>7. \E k \in Slots : \A j \in Slots \ {k} : Precedes(t, time, k, j)
  BY <1>6
<1> QED
  BY <1>7 DEF measurement_find_oldest

\* A sample goes to a free slot as long as there is one.
LEMMA SlotForFree ==
  ASSUME NEW t, NEW time, Used(t) # Slots
  PROVE  SlotFor(t, time) \in Slots \ Used(t)
<1>1. Slots \ Used(t) \subseteq Nat /\ Slots \ Used(t) # {}
  BY SlotsAre DEF Used
<1>2. \E x \in Slots \ Used(t) : \A y \in Slots \ Used(t) : x <= y
  BY <1>1, LeastNumber
<1>3. Min(Slots \ Used(t)) \in Slots \ Used(t)
  BY <1>2 DEF Min
<1> QED
  BY <1>3 DEF SlotFor

-----------------------------------------------------------------------------
(***************************************************************************)
(* The inductive invariant: what is in the table was handed to the store,  *)
(* and nothing handed to it comes from the future.                         *)
(***************************************************************************)
StoreTypes ==
  /\ now \in Times /\ last_revision_ms \in 0 .. now
  /\ retention_ms \in Nat /\ retention_ms >= RetentionMin
  /\ max_count \in Nat /\ configures \in Nat
  /\ history \in Seq(Samples)
  /\ table \in [Slots -> Samples \cup {Free}]

TableIsHistory == \A i \in Used(table) : \E n \in DOMAIN history : history[n] = table[i]

HistoryIsPast == \A n \in DOMAIN history : history[n].at <= now

StoreInv == StoreTypes /\ TableIsHistory /\ HistoryIsPast

\* What the table holds are samples of the past.
LEMMA StoredAre ==
  ASSUME StoreInv, NEW i \in Used(table)
  PROVE  /\ table[i] \in Samples /\ table[i].at \in Nat /\ table[i].at <= now
         /\ now \in Nat /\ i \in Slots /\ table[i] # Free
<1>1. table[i] \in Samples /\ i \in Slots /\ table[i] # Free
  BY DEF StoreInv, StoreTypes, Used
<1>2. table[i].at \in Nat /\ now \in Nat
  BY <1>1, StoreAssumption DEF Samples, Times, StoreInv, StoreTypes
<1>3. table[i].at <= now
  BY DEF StoreInv, TableIsHistory, HistoryIsPast
<1> QED
  BY <1>1, <1>2, <1>3

\* Clamping settings keeps them in their range (measurement_store_configure).
LEMMA SettingsAre ==
  ASSUME NEW setting \in Settings
  PROVE  /\ Clamp(setting[1], RetentionMin, RetentionMax) \in Nat
         /\ Clamp(setting[1], RetentionMin, RetentionMax) >= RetentionMin
         /\ (IF setting[2] > CountMax THEN CountMax ELSE setting[2]) \in Nat
<1>1. /\ setting[1] \in Nat /\ setting[2] \in Nat /\ CountMax \in Nat
      /\ RetentionMin \in Nat /\ RetentionMax \in Nat /\ RetentionMin <= RetentionMax
  BY StoreAssumption
<1> QED
  BY <1>1 DEF Clamp

\* A sample is handed over with a time that is not in the future and no earlier
\* than that of the samples its series has (ble_bthome_store_measurement,
\* onewire_handle_temperature).
LEMMA AddIs ==
  ASSUME StoreInv, AddBle \/ AddOneWire
  PROVE  \E s \in Series : \E time \in 0 .. now :
           /\ measurement_store_add(s, time) /\ Len(history) < MaxSamples
           /\ \A n \in DOMAIN history : history[n].series = s => history[n].at <= time
<1>1. /\ now \in Nat
      /\ \A n \in DOMAIN history : /\ history[n].at \in Nat /\ history[n].at <= now
                                   /\ history[n] \in Samples
  <2>1. now \in Nat
    BY StoreAssumption DEF StoreInv, StoreTypes, Times
  <2>2. ASSUME NEW n \in DOMAIN history PROVE history[n] \in Samples
    BY DEF StoreInv, StoreTypes
  <2>3. \A x \in Samples : x.at \in Nat
    BY StoreAssumption DEF Samples, Times
  <2> QED
    BY <2>1, <2>2, <2>3 DEF StoreInv, HistoryIsPast
<1>2. CASE AddBle
  <2>1. now \in 0 .. now
    BY <1>1
  <2>2. PICK s \in BleSeries : measurement_store_add(s, now)
    BY <1>2 DEF AddBle
  <2>3. Len(history) < MaxSamples /\ s \in Series
    BY <1>2 DEF AddBle, Series
  <2> QED
    BY <1>1, <2>1, <2>2, <2>3
<1>3. CASE AddOneWire
  <2> DEFINE stamps == {history[i].at : i \in {j \in DOMAIN history :
                                               history[j].series \in OneWireSeries}}
             T == stamps \cup {0}
  <2>1. PICK s \in OneWireSeries : \E time \in Max(T) .. now : measurement_store_add(s, time)
    BY <1>3 DEF AddOneWire
  <2>2. PICK time \in Max(T) .. now : measurement_store_add(s, time)
    BY <2>1
  <2>3. /\ stamps \subseteq Int /\ T \subseteq Int /\ T # {}
        /\ \A y \in T : y <= now
    BY <1>1
  <2>4. Max(T) \in T /\ \A y \in T : Max(T) >= y
    <3>1. now \in Int /\ T \subseteq Int /\ T # {} /\ \A y \in T : y <= now
      BY <1>1, <2>3
    <3> HIDE DEF T
    <3> QED
      BY <3>1, MaxIsGreatest
  <2>5. Max(T) \in Int /\ 0 <= Max(T)
    BY <1>1, <2>3, <2>4
  <2>6. time \in 0 .. now
    BY <1>1, <2>5
  <2>7. ASSUME NEW n \in DOMAIN history, history[n].series = s PROVE history[n].at <= time
    <3>1. history[n].at \in T
      BY <2>7
    <3>2. Max(T) >= history[n].at
      BY <2>4, <3>1
    <3> HIDE DEF T
    <3> QED
      BY <1>1, <2>5, <3>2
  <2>8. Len(history) < MaxSamples /\ s \in Series
    BY <1>3 DEF AddOneWire, Series
  <2> QED
    BY <2>2, <2>6, <2>7, <2>8
<1> QED
  BY <1>2, <1>3
\* What becomes of the table when a sample is stored: slots are freed, then one
\* takes the sample.
LEMMA AddedIs ==
  ASSUME StoreInv, NEW s \in Series, NEW time \in 0 .. now, measurement_store_add(s, time),
         Len(history) < MaxSamples,
         NEW sample, sample = [series |-> s, value |-> Len(history) + 1, at |-> time],
         NEW pruned, pruned = measurement_table_prune(table, time),
         NEW room, room = measurement_enforce_series_limit(pruned, time, s)
  PROVE  /\ sample \in Samples /\ sample # Free
         /\ \A i \in Slots : /\ pruned[i] \in {table[i], Free}
                             /\ room[i] \in {pruned[i], Free}
                             /\ table'[i] = IF i = SlotFor(room, time) THEN sample ELSE room[i]
         /\ table' \in [Slots -> Samples \cup {Free}] /\ history' = Append(history, sample)
         /\ UNCHANGED <<now, view, retention_ms, max_count, last_revision_ms, configures>>
<1>1. /\ now \in Nat /\ now <= MaxNow /\ MaxNow \in Nat /\ history \in Seq(Samples)
      /\ table \in [Slots -> Samples \cup {Free}]
  BY StoreAssumption DEF StoreInv, StoreTypes, Times
<1>2. sample \in Samples
  <2>1. time \in Times
    BY <1>1 DEF Times
  <2>2. Len(history) + 1 \in 1 .. MaxSamples
    BY <1>1, StoreAssumption
  <2> QED
    BY <2>1, <2>2 DEF Samples
<1>3. sample # Free
  BY <1>2, StoreAssumption
<1>4. /\ table' = [room EXCEPT ![SlotFor(room, time)] = sample]
      /\ history' = Append(history, sample)
      /\ UNCHANGED <<now, view, retention_ms, max_count, last_revision_ms, configures>>
  BY DEF measurement_store_add
<1>5. \A i \in Slots : pruned[i] \in {table[i], Free}
  BY DEF measurement_table_prune
<1>6. \A i \in Slots : room[i] \in {pruned[i], Free}
  BY DEF measurement_enforce_series_limit
<1>7. room \in [Slots -> Samples \cup {Free}]
  <2>1. room = [i \in Slots |-> room[i]]
    BY DEF measurement_enforce_series_limit
  <2>2. \A i \in Slots : room[i] \in Samples \cup {Free}
    BY <1>1, <1>5, <1>6
  <2> QED
    BY <2>1, <2>2
<1>8. /\ \A i \in Slots : table'[i] = IF i = SlotFor(room, time) THEN sample ELSE room[i]
      /\ table' \in [Slots -> Samples \cup {Free}]
  BY <1>2, <1>4, <1>7
<1> QED
  BY <1>2, <1>3, <1>4, <1>5, <1>6, <1>8

\* A revision only frees slots.
LEMMA RevisedIs ==
  ASSUME StoreInv, measurement_revision
  PROVE  /\ \A i \in Slots : \/ table'[i] = Free
                             \/ table'[i] = table[i] /\ ~ (Age(now, table[i].at) > retention_ms)
         /\ \A i \in Used(table) : table'[i] = Free => Age(now, table[i].at) > retention_ms
         /\ table' \in [Slots -> Samples \cup {Free}]
         /\ last_revision_ms' = now
         /\ UNCHANGED <<now, retention_ms, max_count, history, configures>>
<1>1. table' = measurement_table_prune(table, now) /\ table \in [Slots -> Samples \cup {Free}]
  BY DEF measurement_revision, StoreInv, StoreTypes
<1>2. \A i \in Slots : table'[i] = IF table[i] # Free /\ Age(now, table[i].at) > retention_ms
                                   THEN Free ELSE table[i]
  BY <1>1 DEF measurement_table_prune
<1>3. table' \in [Slots -> Samples \cup {Free}]
  BY <1>1 DEF measurement_table_prune
<1>4. last_revision_ms' = now /\ UNCHANGED <<now, retention_ms, max_count, history, configures>>
  BY DEF measurement_revision
<1> QED
  BY <1>2, <1>3, <1>4 DEF Used

\* The invariant holds at first.
LEMMA StoreInvInit == Init => StoreInv
<1> SUFFICES ASSUME Init PROVE StoreInv
  OBVIOUS
<1>1. now \in Times /\ last_revision_ms \in 0 .. now
  BY StoreAssumption DEF Init, Times
<1>2. /\ retention_ms \in Nat /\ retention_ms >= RetentionMin /\ max_count \in Nat
  BY SettingsAre DEF Init
<1>3. /\ history = << >> /\ configures \in Nat /\ table = [i \in Slots |-> Free]
  BY DEF Init
<1>4. Used(table) = {} /\ DOMAIN history = {}
  BY <1>3 DEF Used
<1> QED
  BY <1>1, <1>2, <1>3, <1>4 DEF StoreInv, StoreTypes, TableIsHistory, HistoryIsPast

\* Every step keeps it.
LEMMA StoreInvNext == StoreInv /\ [Next]_vars => StoreInv'
<1> SUFFICES ASSUME StoreInv, [Next]_vars PROVE StoreInv'
  OBVIOUS
<1>0. /\ now \in Nat /\ MaxNow \in Nat /\ now <= MaxNow /\ history \in Seq(Samples)
      /\ last_revision_ms \in 0 .. now
  BY StoreAssumption DEF StoreInv, StoreTypes, Times
<1>1. CASE AddBle \/ AddOneWire
  <2>1. PICK s \in Series, time \in 0 .. now :
               measurement_store_add(s, time) /\ Len(history) < MaxSamples
    BY <1>1, AddIs
  <2> DEFINE sample == [series |-> s, value |-> Len(history) + 1, at |-> time]
             pruned == measurement_table_prune(table, time)
             room == measurement_enforce_series_limit(pruned, time, s)
  <2>2. /\ sample \in Samples /\ sample # Free
        /\ \A i \in Slots : /\ pruned[i] \in {table[i], Free}
                            /\ room[i] \in {pruned[i], Free}
                            /\ table'[i] = IF i = SlotFor(room, time) THEN sample ELSE room[i]
        /\ table' \in [Slots -> Samples \cup {Free}] /\ history' = Append(history, sample)
        /\ UNCHANGED <<now, view, retention_ms, max_count, last_revision_ms, configures>>
    BY <2>1, AddedIs
  <2>3. sample.at = time
    OBVIOUS
  <2> HIDE DEF sample, pruned, room
  <2>4. /\ history' \in Seq(Samples) /\ Len(history') = Len(history) + 1
        /\ \A n \in DOMAIN history : n \in DOMAIN history' /\ history'[n] = history[n]
        /\ Len(history) + 1 \in DOMAIN history' /\ history'[Len(history) + 1] = sample
        /\ \A n \in DOMAIN history' : n \in DOMAIN history \/ n = Len(history) + 1
    BY <1>0, <2>2
  <2>5. TableIsHistory'
    <3>1. ASSUME NEW i \in Used(table') PROVE \E n \in DOMAIN history' : history'[n] = table'[i]
      <4>1. i \in Slots /\ table'[i] # Free
        BY DEF Used
      <4>2. CASE table'[i] = sample
        BY <2>4, <4>2
      <4>3. CASE table'[i] = table[i]
        <5>1. PICK n \in DOMAIN history : history[n] = table[i]
          BY <4>1, <4>3 DEF StoreInv, TableIsHistory, Used
        <5> QED
          BY <2>4, <4>3, <5>1
      <4> QED
        BY <2>2, <4>1, <4>2, <4>3
    <3> QED
      BY <3>1 DEF TableIsHistory
  <2>6. HistoryIsPast'
    <3>1. ASSUME NEW n \in DOMAIN history' PROVE history'[n].at <= now'
      <4>1. CASE n \in DOMAIN history
        BY <2>2, <2>4, <4>1 DEF StoreInv, HistoryIsPast
      <4>2. CASE n = Len(history) + 1
        BY <1>0, <2>2, <2>3, <2>4, <4>2
      <4> QED
        BY <2>4, <4>1, <4>2
    <3> QED
      BY <3>1 DEF HistoryIsPast
  <2> QED
    BY <2>2, <2>4, <2>5, <2>6 DEF StoreInv, StoreTypes
<1>2. CASE Periodic \/ Snapshot
  <2>1. measurement_revision
    BY <1>2 DEF Periodic, Snapshot
  <2>2. /\ \A i \in Slots : table'[i] = Free \/ table'[i] = table[i]
        /\ table' \in [Slots -> Samples \cup {Free}]
        /\ last_revision_ms' = now
        /\ UNCHANGED <<now, retention_ms, max_count, history, configures>>
    BY <2>1, RevisedIs
  <2>3. StoreTypes' /\ HistoryIsPast'
    BY <1>0, <2>2 DEF StoreInv, StoreTypes, HistoryIsPast
  <2>4. TableIsHistory'
    <3>1. ASSUME NEW i \in Used(table') PROVE i \in Used(table) /\ table'[i] = table[i]
      BY <2>2 DEF Used
    <3> QED
      BY <2>2, <3>1 DEF StoreInv, TableIsHistory
  <2> QED
    BY <2>3, <2>4 DEF StoreInv
<1>3. CASE Tick
  <2>1. /\ now < MaxNow /\ now' = now + 1
        /\ UNCHANGED <<table, retention_ms, max_count, last_revision_ms, history, configures>>
    BY <1>3 DEF Tick
  <2>2. now' \in Times /\ last_revision_ms' \in 0 .. now'
    BY <1>0, <2>1 DEF Times
  <2>3. ASSUME NEW n \in DOMAIN history PROVE history[n].at <= now + 1
    <3>1. history[n].at \in Nat /\ history[n].at <= now
      <4>1. history[n] \in Samples
        BY <1>0
      <4> QED
        BY <4>1, StoreAssumption DEF Samples, Times, StoreInv, HistoryIsPast
    <3> QED
      BY <1>0, <3>1
  <2> QED
    BY <2>1, <2>2, <2>3 DEF StoreInv, StoreTypes, TableIsHistory, HistoryIsPast
<1>4. CASE Configure
  <2>1. /\ retention_ms' \in Nat /\ retention_ms' >= RetentionMin /\ max_count' \in Nat
        /\ configures' = configures + 1 /\ UNCHANGED <<now, table, last_revision_ms, history>>
    BY <1>4, SettingsAre DEF Configure, Apply
  <2> QED
    BY <2>1 DEF StoreInv, StoreTypes, TableIsHistory, HistoryIsPast
<1>5. CASE UNCHANGED vars
  BY <1>5 DEF vars, StoreInv, StoreTypes, TableIsHistory, HistoryIsPast
<1> QED
  BY <1>1, <1>2, <1>3, <1>4, <1>5 DEF Next
-----------------------------------------------------------------------------
(* What the table promises.                                                *)

\* The three reasons for which a sample may be given up.
TooOld(lost) == now - lost.at > retention_ms

LimitReached(lost) ==
  /\ max_count # 0
  /\ Cardinality({j \in Used(table') : /\ table'[j].series = lost.series
                                       /\ table'[j].at >= lost.at}) >= max_count

TableFull(i, lost) ==
  /\ Used(table') = Slots /\ Used(table) = Slots
  /\ \A j \in Used(table') : table'[j].at >= lost.at \/ table'[j].at >= table'[i].at

\* Storing a sample gives up another for one of them (measurement_store_add).
LEMMA AddLosesForAReason ==
  ASSUME StoreInv, AddBle \/ AddOneWire, NEW i \in Used(table),
         \A j \in Used(table') : table'[j] # table[i], Unwrapped(ToSet(history'))
  PROVE  TooOld(table[i]) \/ LimitReached(table[i]) \/ TableFull(i, table[i])
<1>1. PICK s \in Series, time \in 0 .. now :
             /\ measurement_store_add(s, time) /\ Len(history) < MaxSamples
             /\ \A n \in DOMAIN history : history[n].series = s => history[n].at <= time
  BY AddIs
<1> DEFINE sample == [series |-> s, value |-> Len(history) + 1, at |-> time]
           pruned == measurement_table_prune(table, time)
           room == measurement_enforce_series_limit(pruned, time, s)
           slot == SlotFor(room, time)
<1>2. /\ sample \in Samples /\ sample # Free /\ sample.at = time /\ sample.series = s
      /\ \A j \in Slots : /\ pruned[j] \in {table[j], Free}
                          /\ room[j] \in {pruned[j], Free}
                          /\ table'[j] = IF j = slot THEN sample ELSE room[j]
      /\ history' = Append(history, sample) /\ UNCHANGED <<now, retention_ms, max_count>>
  BY <1>1, AddedIs
<1>3. \A j \in Slots : pruned[j] = IF table[j] # Free /\ Age(time, table[j].at) > retention_ms
                                   THEN Free ELSE table[j]
  BY DEF measurement_table_prune
<1>4. /\ now \in Nat /\ time \in Nat /\ time <= now /\ time \in Int /\ retention_ms \in Nat
      /\ max_count \in Nat /\ history \in Seq(Samples)
  BY StoreAssumption DEF StoreInv, StoreTypes, Times
<1>5. \A x \in ToSet(history) \cup {sample} : x.at \div Wrap = now \div Wrap
  <2>1. ToSet(history) \cup {sample} \subseteq ToSet(history')
    <3>1. /\ \A n \in DOMAIN history : n \in DOMAIN history' /\ history'[n] = history[n]
          /\ Len(history) + 1 \in DOMAIN history' /\ history'[Len(history) + 1] = sample
      BY <1>2, <1>4
    <3> HIDE DEF sample
    <3> QED
      BY <3>1 DEF ToSet
  <2>2. \A x \in ToSet(history') : x.at \div Wrap = now \div Wrap
    BY DEF Unwrapped
  <2> HIDE DEF sample
  <2> QED
    BY <1>2, <2>1, <2>2
<1>6. ASSUME NEW j \in Used(table)
      PROVE  /\ table[j].at \in Nat /\ table[j].at <= now /\ table[j] # Free /\ j \in Slots
             /\ table[j].at \div Wrap = time \div Wrap
             /\ table[j].series = s => table[j].at <= time
  <2>1. PICK n \in DOMAIN history : history[n] = table[j]
    BY DEF StoreInv, TableIsHistory
  <2>2. table[j].at \div Wrap = now \div Wrap /\ sample.at \div Wrap = now \div Wrap
    BY <1>5, <2>1 DEF ToSet
  <2> HIDE DEF sample
  <2> QED
    BY <1>1, <1>2, <2>1, <2>2, StoredAre
<1> HIDE DEF sample, pruned, room
<1>7. /\ Used(pruned) \subseteq Used(table) /\ Used(room) \subseteq Used(pruned)
      /\ \A j \in Used(pruned) : pruned[j] = table[j]
      /\ \A j \in Used(room) : room[j] = table[j]
      /\ Timed(pruned) /\ Timed(room)
  <2>1. /\ Used(pruned) \subseteq Used(table) /\ Used(room) \subseteq Used(pruned)
        /\ \A j \in Used(pruned) : pruned[j] = table[j]
        /\ \A j \in Used(room) : room[j] = table[j]
    BY <1>2 DEF Used
  <2>2. \A j \in Used(table) : table[j].at \in Int
    BY <1>6
  <2> QED
    BY <2>1, <2>2 DEF Timed
<1>8. CASE pruned[i] = Free
  <2>1. Age(time, table[i].at) > retention_ms
    BY <1>3, <1>6, <1>8
  <2>2. Age(time, table[i].at) = IF time >= table[i].at THEN time - table[i].at ELSE 0
    BY <1>4, <1>6, AgeIs
  <2>3. now - table[i].at > retention_ms
    BY <1>4, <1>6, <2>1, <2>2
  <2> QED
    BY <2>3 DEF TooOld
<1>9. CASE pruned[i] # Free /\ room[i] = Free
  <2>1. i \in Used(pruned) /\ i \in Slots /\ pruned[i] = table[i] /\ i \notin Used(room)
    BY <1>6, <1>7, <1>9 DEF Used
  <2>2. /\ max_count # 0 /\ pruned[i].series = s
        /\ \E K \in SUBSET Followers(pruned, time, s, i) :
             /\ IsFiniteSet(K) /\ Cardinality(K) \in Nat /\ Cardinality(K) >= max_count - 1
             /\ \A j \in K : room[j] = pruned[j]
    BY <1>4, <1>7, <1>9, <2>1, LimitLeavesFollowers DEF room
  <2>3. PICK K \in SUBSET Followers(pruned, time, s, i) :
             /\ IsFiniteSet(K) /\ Cardinality(K) \in Nat /\ Cardinality(K) >= max_count - 1
             /\ \A j \in K : room[j] = pruned[j]
    BY <2>2
  <2> DEFINE L == {j \in Used(table') : /\ table'[j].series = table[i].series
                                        /\ table'[j].at >= table[i].at}
  <2>4. slot \in Slots /\ slot \notin Used(room)
    BY <2>1, SlotForFree
  <2>5. slot \in L
    <3>1. table'[slot] = sample /\ slot \in Used(table')
      BY <1>2, <2>4 DEF Used
    <3>2. table[i].series = s /\ time >= table[i].at
      BY <1>6, <2>1, <2>2
    <3> QED
      BY <1>2, <3>1, <3>2
  <2>6. ASSUME NEW j \in K PROVE j \in L /\ j # slot
    <3>1. j \in Used(pruned) /\ pruned[j].series = s /\ Precedes(pruned, time, i, j)
      BY DEF Followers, OfSeries
    <3>2. /\ j \in Used(room) /\ j \in Slots /\ j # slot
          /\ room[j] = table[j] /\ pruned[j] = table[j] /\ j \in Used(table)
      BY <1>7, <2>3, <2>4, <3>1 DEF Used
    <3>3. table'[j] = table[j] /\ j \in Used(table')
      BY <1>2, <1>6, <3>2 DEF Used
    <3>4. table[j].at >= table[i].at \/ table[j].at >= time
      BY <1>4, <1>6, <2>1, <3>1, <3>2, PrecedesIsOlder
    <3>5. table[j].at >= table[i].at
      BY <1>4, <1>6, <2>1, <2>2, <3>2, <3>4
    <3> QED
      BY <2>1, <2>2, <3>1, <3>2, <3>3, <3>5
  <2>7. Cardinality(K \cup {slot}) = Cardinality(K) + 1 /\ IsFiniteSet(K \cup {slot})
    BY <2>3, <2>6, FS_AddElement
  <2>8. IsFiniteSet(L) /\ Cardinality(K \cup {slot}) <= Cardinality(L) /\ Cardinality(L) \in Nat
    <3>1. L \subseteq Slots /\ K \cup {slot} \subseteq L
      BY <2>5, <2>6 DEF Used
    <3> HIDE DEF L
    <3>2. IsFiniteSet(L)
      BY <3>1, SlotsAre, FS_Subset
    <3> QED
      BY <3>1, <3>2, FS_Subset, FS_CardinalityType
  <2>9. Cardinality(L) >= max_count
    <3> HIDE DEF L
    <3> QED
      BY <1>4, <2>3, <2>7, <2>8
  <2> QED
    BY <2>2, <2>9 DEF LimitReached
<1>10. CASE room[i] # Free
  <2>1. room[i] = table[i] /\ i \in Used(room) /\ i \in Slots
    BY <1>6, <1>7, <1>10 DEF Used
  <2>2. i = slot
    <3>1. ASSUME i # slot PROVE FALSE
      <4>1. table'[i] = table[i] /\ i \in Used(table')
        BY <1>2, <1>6, <2>1, <3>1 DEF Used
      <4> QED
        BY <4>1
    <3> QED
      BY <3>1
  <2>3. Used(room) = Slots
    BY <2>1, <2>2, SlotForFree
  <2>4. Used(table) = Slots /\ \A j \in Slots : room[j] = table[j]
    BY <1>7, <2>3 DEF Used
  <2>5. slot = measurement_find_oldest(room, time, Slots)
    BY <2>3 DEF SlotFor
  <2>6. \A j \in Slots \ {i} : Precedes(room, time, i, j)
    BY <1>4, <1>7, <2>2, <2>3, <2>5, OldestIs
  <2>7. \A j \in Slots : table'[j] = IF j = i THEN sample ELSE table[j]
    BY <1>2, <2>2, <2>4
  <2>8. Used(table') = Slots
    BY <1>2, <1>6, <2>4, <2>7 DEF Used
  <2>9. ASSUME NEW j \in Slots
        PROVE  table'[j].at >= table[i].at \/ table'[j].at >= table'[i].at
    <3>1. table'[i] = sample
      BY <2>1, <2>7
    <3>2. CASE j = i
      <4>1. time >= time
        BY <1>4
      <4> QED
        BY <1>2, <3>1, <3>2, <4>1
    <3>3. CASE j # i
      <4>1. Precedes(room, time, i, j) /\ table'[j] = table[j] /\ j \in Used(table)
        BY <2>4, <2>6, <2>7, <3>3
      <4>2. table[j].at >= table[i].at \/ table[j].at >= time
        BY <1>4, <1>6, <2>1, <2>4, <4>1, PrecedesIsOlder
      <4> QED
        BY <1>2, <3>1, <4>1, <4>2
    <3> QED
      BY <3>2, <3>3
  <2> QED
    BY <2>4, <2>8, <2>9 DEF TableFull
<1> QED
  BY <1>8, <1>9, <1>10

\* Whatever the sources and the settings do, a sample is given up only because
\* it is too old, because its series has max_count newer ones, or to make room
\* in a full table for one that is no older.
THEOREM AlwaysLosesOnlyForAReason == Spec => LosesOnlyForAReason
<1>1. ASSUME StoreInv, [Next]_vars, NEW i \in Used(table),
             \A j \in Used(table') : table'[j] # table[i], Unwrapped(ToSet(history'))
      PROVE  TooOld(table[i]) \/ LimitReached(table[i]) \/ TableFull(i, table[i])
  <2>1. CASE AddBle \/ AddOneWire
    BY <1>1, <2>1, AddLosesForAReason
  <2>2. CASE Periodic \/ Snapshot
    <3>1. measurement_revision
      BY <2>2 DEF Periodic, Snapshot
    <3>2. i \in Slots /\ table[i].at \in Nat /\ table[i].at <= now /\ now \in Nat
      BY <1>1, StoredAre
    <3>3. UNCHANGED <<now, history>> /\ (table'[i] = Free \/ table'[i] = table[i])
      BY <1>1, <3>1, <3>2, RevisedIs
    <3>4. table'[i] = Free
      BY <1>1, <3>2, <3>3 DEF Used
    <3>5. Age(now, table[i].at) > retention_ms
      BY <1>1, <3>1, <3>4, RevisedIs
    <3>6. PICK n \in DOMAIN history : history[n] = table[i]
      BY <1>1 DEF StoreInv, TableIsHistory
    <3>7. table[i].at \div Wrap = now \div Wrap
      BY <1>1, <3>3, <3>6 DEF Unwrapped, ToSet
    <3>8. Age(now, table[i].at) = now - table[i].at
      BY <3>2, <3>7, AgeIs
    <3> QED
      BY <3>5, <3>8 DEF TooOld
  <2>3. CASE UNCHANGED table
    BY <1>1, <2>3 DEF Used
  <2> QED
    BY <1>1, <2>1, <2>2, <2>3 DEF Next, Tick, Configure, vars
<1>2. StoreInv /\ [Next]_vars =>
        [ \A i \in Used(table) :
            LET lost == table[i]
                kept == Used(table')
            IN  (\A j \in kept : table'[j] # lost) /\ Unwrapped(ToSet(history')) =>
                  \/ now - lost.at > retention_ms
                  \/ /\ max_count # 0
                     /\ Cardinality({j \in kept : /\ table'[j].series = lost.series
                                                  /\ table'[j].at >= lost.at}) >= max_count
                  \/ /\ kept = Slots /\ Used(table) = Slots
                     /\ \A j \in kept : \/ table'[j].at >= lost.at
                                        \/ table'[j].at >= table'[i].at ]_vars
  BY <1>1 DEF TooOld, LimitReached, TableFull
<1> QED
  BY <1>2, StoreInvInit, StoreInvNext, PTL DEF Spec, LosesOnlyForAReason

-----------------------------------------------------------------------------
(* Sizes of sets.                                                          *)

\* An image under a function that keeps its arguments apart has as many elements.
LEMMA ImageSize ==
  ASSUME NEW S, IsFiniteSet(S), NEW T, NEW f \in [S -> T],
         \A x, y \in S : f[x] = f[y] => x = y, \A z \in T : \E x \in S : f[x] = z
  PROVE  IsFiniteSet(T) /\ Cardinality(T) = Cardinality(S)
<1>1. f \in Bijection(S, T)
  BY DEF Bijection, Injection, Surjection, IsInjective
<1>2. ExistsBijection(S, T)
  BY <1>1 DEF ExistsBijection
<1> QED
  BY <1>2, FS_Bijection

\* Nth goes through a finite set of numbers.
LEMMA NthIs ==
  ASSUME NEW S, IsFiniteSet(S), S \subseteq Nat
  PROVE  /\ Cardinality(S) \in Nat
         /\ \A n \in 1 .. Cardinality(S) : Nth(S, n) \in S
         /\ \A m, n \in 1 .. Cardinality(S) : Nth(S, m) = Nth(S, n) => m = n
         /\ \A i \in S : \E n \in 1 .. Cardinality(S) : Nth(S, n) = i
<1> DEFINE upTo(i) == {j \in S : j <= i}
           N == 1 .. Cardinality(S)
           rank == [i \in S |-> Cardinality(upTo(i))]
<1>0. Cardinality(S) \in Nat
  BY FS_CardinalityType
<1>1. ASSUME NEW i \in S PROVE IsFiniteSet(upTo(i)) /\ Cardinality(upTo(i)) \in N
  <2>1. upTo(i) \subseteq S /\ i \in upTo(i)
    OBVIOUS
  <2>2. IsFiniteSet(upTo(i)) /\ Cardinality(upTo(i)) <= Cardinality(S)
    BY <2>1, FS_Subset
  <2>3. Cardinality(upTo(i)) \in Nat /\ Cardinality(upTo(i)) # 0
    BY <2>1, <2>2, FS_CardinalityType, FS_EmptySet
  <2> QED
    BY <1>0, <2>2, <2>3
<1>2. ASSUME NEW i \in S, NEW k \in S, i < k PROVE Cardinality(upTo(i)) < Cardinality(upTo(k))
  <2>1. i \in Nat /\ k \in Nat
    OBVIOUS
  <2>2. upTo(i) \subseteq upTo(k) /\ k \in upTo(k) /\ k \notin upTo(i)
    <3>1. ASSUME NEW j \in S, j <= i PROVE j <= k
      <4>1. j \in Nat
        OBVIOUS
      <4> QED
        BY <1>2, <2>1, <3>1, <4>1
    <3>2. k <= k /\ ~(k <= i)
      BY <1>2, <2>1
    <3> QED
      BY <3>1, <3>2
  <2>3. upTo(i) # upTo(k) /\ IsFiniteSet(upTo(k))
    BY <1>1, <2>2
  <2>4. Cardinality(upTo(i)) <= Cardinality(upTo(k)) /\ Cardinality(upTo(i)) # Cardinality(upTo(k))
    BY <2>2, <2>3, FS_Subset
  <2>5. Cardinality(upTo(i)) \in Nat /\ Cardinality(upTo(k)) \in Nat
    BY <1>0, <1>1
  <2> QED
    BY <2>4, <2>5
<1>3. /\ rank \in [S -> N] /\ IsFiniteSet(N) /\ Cardinality(N) = Cardinality(S)
  <2>1. rank \in [S -> N]
    BY <1>1
  <2>2. IsFiniteSet(N) /\ Cardinality(N) = Cardinality(S)
    BY <1>0, FS_Interval
  <2> QED
    BY <2>1, <2>2
<1>4. ASSUME NEW i \in S, NEW k \in S, rank[i] = rank[k] PROVE i = k
  <2>1. i \in Nat /\ k \in Nat /\ Cardinality(upTo(i)) = Cardinality(upTo(k))
        /\ Cardinality(upTo(i)) \in Nat
    BY <1>0, <1>1, <1>4
  <2>2. ~(i < k) /\ ~(k < i)
    BY <1>2, <2>1
  <2> QED
    BY <2>1, <2>2
<1> HIDE DEF N, rank
<1>5. \A n \in N : \E i \in S : rank[i] = n
  <2>1. \A x, y \in S : rank[x] = rank[y] => x = y
    BY <1>4
  <2>2. rank \in Injection(S, N)
    BY <1>3, <2>1 DEF Injection, IsInjective
  <2>3. rank \in Surjection(S, N)
    BY <1>3, <2>2, FS_Injection
  <2> QED
    BY <2>3 DEF Surjection
<1>6. ASSUME NEW n \in N PROVE Nth(S, n) \in S /\ rank[Nth(S, n)] = n
  <2>1. \E i \in S : Cardinality(upTo(i)) = n
    BY <1>5 DEF rank
  <2>2. Nth(S, n) \in S /\ Cardinality(upTo(Nth(S, n))) = n
    BY <2>1 DEF Nth
  <2> QED
    BY <2>2 DEF rank
<1>7. ASSUME NEW i \in S PROVE \E n \in N : Nth(S, n) = i
  <2>1. rank[i] \in N
    BY <1>3
  <2>2. Nth(S, rank[i]) \in S /\ rank[Nth(S, rank[i])] = rank[i]
    BY <1>6, <2>1
  <2> QED
    BY <1>4, <2>1, <2>2
<1> QED
  BY <1>0, <1>6, <1>7 DEF N

-----------------------------------------------------------------------------
(***************************************************************************)
(* The view.  Its inductive invariant says where samples are that the      *)
(* table does not hold: outside the windows, now and for ever.             *)
(***************************************************************************)
\* What an exact view takes for granted: the settings have not changed, the table
\* had room for all samples, and their times tell them apart.
Exact == /\ configures = 0 /\ Len(history) <= TableSize
         /\ DistinctTimes /\ Unwrapped(ToSet(history))

\* The samples of its series that sample n of the history was followed by.
Later(n) == {m \in n + 1 .. Len(history) : history[m].series = history[n].series}

Values(t) == {t[i].value : i \in Used(t)}

\* Samples are numbered, and those of a series in the order of their times.
HistoryInv ==
  /\ \A n \in DOMAIN history : history[n].value = n
  /\ \A m, n \in DOMAIN history : m < n /\ history[m].series = history[n].series =>
       history[m].at <= history[n].at

\* No slots hold the same sample.
TableInv ==
  /\ \A i \in Used(table) : table[i].value \in DOMAIN history /\ history[table[i].value] = table[i]
  /\ \A i, j \in Used(table) : table[i].value = table[j].value => i = j

\* What is not in the table is not in the window of its series, now or later;
\* of each series the table has the last samples, and no more than max_count.
WindowInv ==
  Exact =>
    /\ \A n \in DOMAIN history \ Values(table) :
         \/ now - history[n].at > retention_ms
         \/ max_count # 0 /\ Cardinality(Later(n)) >= max_count
    /\ \A n \in Values(table) : Later(n) \subseteq Values(table)
    /\ max_count # 0 => \A s \in Series : Cardinality(OfSeries(table, s)) <= max_count

ExactInv == HistoryInv /\ TableInv /\ WindowInv

\* The limit leaves room for one sample more.
LEMMA LimitLeavesFew ==
  ASSUME max_count \in Nat, max_count # 0, NEW t, NEW time \in Int, Timed(t), NEW s, NEW limited,
         limited = measurement_enforce_series_limit(t, time, s)
  PROVE  /\ IsFiniteSet(OfSeries(limited, s)) /\ Cardinality(OfSeries(limited, s)) \in Nat
         /\ Cardinality(OfSeries(limited, s)) <= max_count - 1
<1> DEFINE R == OfSeries(limited, s)
           F(k) == Followers(t, time, s, k)
           size(k) == Cardinality(F(k))
           N == {size(k) : k \in R}
<1>1. \A k \in Slots : limited[k] = IF /\ max_count # 0 /\ k \in OfSeries(t, s)
                                       /\ size(k) >= max_count - 1
                                    THEN Free ELSE t[k]
  BY DEF measurement_enforce_series_limit, Followers
<1>2. ASSUME NEW k \in R
      PROVE  k \in OfSeries(t, s) /\ IsFiniteSet(F(k)) /\ size(k) \in Nat /\ size(k) < max_count - 1
  <2>1. k \in OfSeries(t, s) /\ ~(size(k) >= max_count - 1)
    BY <1>1 DEF OfSeries, Used
  <2>2. IsFiniteSet(Slots) /\ F(k) \subseteq Slots
    BY SlotsAre DEF Followers, OfSeries, Used
  <2>3. IsFiniteSet(F(k)) /\ size(k) \in Nat
    BY <2>2, FS_Subset, FS_CardinalityType
  <2> QED
    BY <2>1, <2>3
<1>3. CASE R = {}
  BY <1>3, FS_EmptySet
<1>4. CASE R # {}
  <2>1. N \subseteq Int /\ N # {} /\ max_count \in Int /\ \A y \in N : y <= max_count
    BY <1>2, <1>4
  <2>2. PICK c \in N : \A y \in N : c >= y
    BY <2>1, GreatestNumber
  <2>3. PICK o \in R : c = size(o)
    OBVIOUS
  <2>4. ASSUME NEW k \in R, k # o PROVE k \in F(o)
    <3>1. k \in OfSeries(t, s) /\ o \in OfSeries(t, s) /\ k \in Used(t) /\ o \in Used(t)
      BY <1>2 DEF OfSeries
    <3>2. CASE Precedes(t, time, k, o)
      <4>1. o \in F(k)
        BY <2>4, <3>1, <3>2 DEF Followers
      <4>2. size(o) < size(k) /\ size(o) \in Nat /\ size(k) \in Nat
        BY <3>1, <4>1, FollowersShrink
      <4>3. size(o) >= size(k)
        BY <2>2, <2>3
      <4> QED
        BY <4>2, <4>3
    <3>3. CASE Precedes(t, time, o, k)
      BY <2>4, <3>1, <3>3 DEF Followers
    <3> QED
      BY <2>4, <3>1, <3>2, <3>3, PrecedesOrders
  <2>5. R \subseteq F(o) \cup {o} /\ o \notin F(o)
    BY <2>4 DEF Followers
  <2>6. IsFiniteSet(F(o)) /\ size(o) \in Nat /\ size(o) < max_count - 1
    BY <1>2
  <2>7. IsFiniteSet(F(o) \cup {o}) /\ Cardinality(F(o) \cup {o}) = size(o) + 1
    BY <2>5, <2>6, FS_AddElement
  <2>8. IsFiniteSet(R) /\ Cardinality(R) <= Cardinality(F(o) \cup {o})
    BY <2>5, <2>7, FS_Subset
  <2>9. Cardinality(R) \in Nat
    BY <2>8, FS_CardinalityType
  <2> QED
    BY <2>6, <2>7, <2>8, <2>9
<1> QED
  BY <1>3, <1>4

\* The clock does not wrap between times that it has not wrapped between.
LEMMA NotWrappedBetween ==
  ASSUME NEW x \in Nat, NEW y \in Nat, NEW z \in Nat, x <= y, y <= z, x \div Wrap = z \div Wrap
  PROVE  y \div Wrap = x \div Wrap
<1>1. Wrap \in Nat \ {0}
  BY StoreAssumption
<1>2. ASSUME NEW n \in Nat
      PROVE  /\ n \div Wrap \in Nat /\ n % Wrap \in Nat /\ n % Wrap < Wrap
             /\ n = Wrap * (n \div Wrap) + (n % Wrap)
  BY <1>1
<1>3. PICK q \in Nat, r \in Nat : q = x \div Wrap /\ r = y \div Wrap
  BY <1>2
<1>4. Wrap * q <= y /\ y < Wrap * q + Wrap /\ Wrap * r <= y /\ y < Wrap * r + Wrap
  <2>1. Wrap * q \in Nat /\ Wrap * r \in Nat
    BY <1>1
  <2>2. x = Wrap * q + (x % Wrap) /\ z = Wrap * q + (z % Wrap) /\ y = Wrap * r + (y % Wrap)
    BY <1>2, <1>3
  <2>3. x % Wrap \in Nat /\ z % Wrap \in Nat /\ z % Wrap < Wrap /\ y % Wrap \in Nat /\ y % Wrap < Wrap
    BY <1>2
  <2>5. \A p, w, m \in Nat : m < w /\ y = p + m => p <= y /\ y < p + w
    OBVIOUS
  <2>6. Wrap * q <= y /\ y < Wrap * q + Wrap
    <3>1. \A p, w, m, n \in Nat : x = p + m /\ z = p + n /\ n < w => p <= y /\ y < p + w
      OBVIOUS
    <3> QED
      BY <1>1, <2>1, <2>2, <2>3, <3>1
  <2>7. Wrap * r <= y /\ y < Wrap * r + Wrap
    BY <1>1, <2>1, <2>2, <2>3, <2>5
  <2> QED
    BY <2>6, <2>7
<1>5. ASSUME NEW a \in Nat, NEW b \in Nat, a < b PROVE Wrap * a + Wrap <= Wrap * b
  <2>1. PICK d \in Nat : b = a + 1 + d
    <3>1. b - a - 1 \in Nat /\ b = a + 1 + (b - a - 1)
      BY <1>5
    <3> QED
      BY <3>1
  <2>2. Wrap * b = Wrap * a + Wrap + Wrap * d /\ Wrap * d \in Nat
    BY <1>1, <2>1
  <2> QED
    BY <1>1, <2>2
<1>6. Wrap * q \in Nat /\ Wrap * r \in Nat
  BY <1>1
<1>7. ~(q < r) /\ ~(r < q)
  BY <1>1, <1>4, <1>5, <1>6
<1> QED
  BY <1>3, <1>7

\* What the history consists of.
LEMMA HistoryIs ==
  ASSUME StoreInv
  PROVE  /\ Len(history) \in Nat /\ DOMAIN history = 1 .. Len(history) /\ now \in Nat
         /\ \A n \in 1 .. Len(history) : /\ history[n] \in Samples /\ history[n].at \in Nat
                                         /\ history[n].at <= now
         /\ ToSet(history) = {history[n] : n \in 1 .. Len(history)}
<1>1. history \in Seq(Samples) /\ now \in Nat
  BY StoreAssumption DEF StoreInv, StoreTypes, Times
<1>2. Len(history) \in Nat /\ DOMAIN history = 1 .. Len(history)
  BY <1>1
<1>3. ASSUME NEW n \in 1 .. Len(history) PROVE history[n] \in Samples
  BY <1>1
<1>4. \A x \in Samples : x.at \in Nat
  BY StoreAssumption DEF Samples, Times
<1> QED
  BY <1>1, <1>2, <1>3, <1>4 DEF StoreInv, HistoryIsPast, ToSet

\* The samples that follow are finitely many.
LEMMA LaterIs ==
  ASSUME StoreInv, NEW n \in Nat
  PROVE  IsFiniteSet(Later(n)) /\ Cardinality(Later(n)) \in Nat
<1>1. n + 1 \in Int /\ Len(history) \in Int
  BY HistoryIs
<1>2. IsFiniteSet(n + 1 .. Len(history)) /\ Later(n) \subseteq n + 1 .. Len(history)
  BY <1>1, FS_Interval DEF Later
<1> QED
  BY <1>2, FS_Subset, FS_CardinalityType

\* What holds after a sample is stored held before.
LEMMA AppendedIs ==
  ASSUME StoreInv, NEW s \in Series, NEW time \in 0 .. now,
         NEW sample, sample = [series |-> s, value |-> Len(history) + 1, at |-> time],
         sample \in Samples, history' = Append(history, sample)
  PROVE  /\ Len(history') = Len(history) + 1 /\ DOMAIN history' = 1 .. Len(history) + 1
         /\ \A n \in 1 .. Len(history) : history'[n] = history[n]
         /\ history'[Len(history) + 1] = sample
         /\ \A n \in 1 .. Len(history') : n \in 1 .. Len(history) \/ n = Len(history) + 1
<1>1. history \in Seq(Samples)
  BY DEF StoreInv, StoreTypes
<1>2. history' \in Seq(Samples) /\ Len(history') = Len(history) + 1
  BY <1>1
<1>3. /\ \A n \in 1 .. Len(history) : history'[n] = history[n]
      /\ history'[Len(history) + 1] = sample
  BY <1>1
<1>4. Len(history) \in Nat
  BY <1>1
<1> QED
  BY <1>2, <1>3, <1>4

\* The history that is exact is exact without its last sample, and at times before.
LEMMA ExactBefore ==
  ASSUME StoreInv, StoreInv', [Next]_vars, Exact'
  PROVE  Exact /\ UNCHANGED <<retention_ms, max_count>>
<1>0. configures \in Nat
  BY DEF StoreInv, StoreTypes
<1>h. /\ Len(history) \in Nat /\ DOMAIN history = 1 .. Len(history) /\ now \in Nat
      /\ \A n \in 1 .. Len(history) : history[n].at \in Nat /\ history[n].at <= now
      /\ ToSet(history) = {history[n] : n \in 1 .. Len(history)}
  BY HistoryIs
<1>1. CASE AddBle \/ AddOneWire
  <2>1. PICK s \in Series, time \in 0 .. now :
               measurement_store_add(s, time) /\ Len(history) < MaxSamples
    BY <1>1, AddIs
  <2> DEFINE sample == [series |-> s, value |-> Len(history) + 1, at |-> time]
  <2>2. /\ sample \in Samples /\ history' = Append(history, sample)
        /\ UNCHANGED <<now, retention_ms, max_count, configures>>
    BY <2>1, AddedIs
  <2> HIDE DEF sample
  <2>3. /\ Len(history') = Len(history) + 1 /\ DOMAIN history' = 1 .. Len(history) + 1
        /\ \A n \in 1 .. Len(history) : history'[n] = history[n]
    BY <2>2, AppendedIs DEF sample
  <2>4. \A n \in 1 .. Len(history) : n \in 1 .. Len(history) + 1
    BY <1>h
  <2>5. DistinctTimes
    BY <1>h, <2>3, <2>4 DEF Exact, DistinctTimes
  <2>6. ToSet(history) \subseteq ToSet(history')
    <3>1. ToSet(history') = {history'[n] : n \in 1 .. Len(history) + 1}
      BY <2>3 DEF ToSet
    <3> QED
      BY <1>h, <2>3, <2>4, <3>1
  <2>7. Len(history) <= TableSize
    BY <1>h, <2>3, SlotsAre DEF Exact
  <2> QED
    BY <2>2, <2>5, <2>6, <2>7 DEF Exact, Unwrapped
<1>2. CASE Tick
  <2>1. now' = now + 1 /\ UNCHANGED <<retention_ms, max_count, configures, history>>
    BY <1>2 DEF Tick
  <2>2. ASSUME NEW sample \in ToSet(history) PROVE sample.at \div Wrap = now \div Wrap
    <3>1. sample.at \in Nat /\ sample.at <= now
      BY <1>h
    <3>2. sample.at \div Wrap = (now + 1) \div Wrap
      BY <2>1 DEF Exact, Unwrapped
    <3>3. now + 1 \in Nat /\ now <= now + 1
      BY <1>h
    <3> QED
      BY <1>h, <3>1, <3>2, <3>3, NotWrappedBetween
  <2> QED
    BY <2>1, <2>2 DEF Exact, Unwrapped, DistinctTimes
<1>3. CASE Configure
  BY <1>0, <1>3 DEF Configure, Exact
<1>4. CASE Periodic \/ Snapshot
  BY <1>4 DEF Periodic, Snapshot, measurement_revision, Exact, Unwrapped, DistinctTimes
<1>5. CASE UNCHANGED vars
  BY <1>5 DEF vars, Exact, Unwrapped, DistinctTimes
<1> QED
  BY <1>1, <1>2, <1>3, <1>4, <1>5 DEF Next

\* The samples of a series stand in the table by their numbers.
LEMMA OfSeriesSize ==
  ASSUME StoreInv, TableInv, NEW s
  PROVE  /\ IsFiniteSet(OfSeries(table, s)) /\ Cardinality(OfSeries(table, s)) \in Nat
         /\ IsFiniteSet({table[i].value : i \in OfSeries(table, s)})
         /\ Cardinality({table[i].value : i \in OfSeries(table, s)}) = Cardinality(OfSeries(table, s))
<1> DEFINE S == OfSeries(table, s)
           T == {table[i].value : i \in S}
           f == [i \in S |-> table[i].value]
<1>1. IsFiniteSet(S) /\ Cardinality(S) \in Nat
  <2>1. IsFiniteSet(Slots) /\ S \subseteq Slots
    BY SlotsAre DEF OfSeries, Used
  <2> QED
    BY <2>1, FS_Subset, FS_CardinalityType
<1>2. f \in [S -> T] /\ \A z \in T : \E i \in S : f[i] = z
  OBVIOUS
<1>3. \A i, j \in S : f[i] = f[j] => i = j
  BY DEF TableInv, OfSeries
<1> HIDE DEF S, T, f
<1>4. IsFiniteSet(T) /\ Cardinality(T) = Cardinality(S)
  BY <1>1, <1>2, <1>3, ImageSize
<1> QED
  BY <1>1, <1>4 DEF S, T

\* A sample is stored (measurement_store_add).
LEMMA AddKeepsExact ==
  ASSUME StoreInv, StoreInv', ExactInv, AddBle \/ AddOneWire
  PROVE  ExactInv'
<1> DEFINE N == Len(history)
<1>1. PICK s \in Series, time \in 0 .. now :
        /\ measurement_store_add(s, time) /\ Len(history) < MaxSamples
        /\ \A n \in DOMAIN history : history[n].series = s => history[n].at <= time
  BY AddIs
<1> DEFINE sample == [series |-> s, value |-> Len(history) + 1, at |-> time]
           pruned == measurement_table_prune(table, time)
           room == measurement_enforce_series_limit(pruned, time, s)
           slot == SlotFor(room, time)
<1>2. /\ sample \in Samples /\ sample # Free
      /\ \A i \in Slots : /\ pruned[i] \in {table[i], Free}
                          /\ room[i] \in {pruned[i], Free}
                          /\ table'[i] = IF i = slot THEN sample ELSE room[i]
      /\ history' = Append(history, sample)
      /\ UNCHANGED <<now, retention_ms, max_count, configures>>
  BY <1>1, AddedIs
<1>3. /\ sample.series = s /\ sample.value = N + 1 /\ sample.at = time
      /\ \A i \in Slots : pruned[i] = IF table[i] # Free /\ Age(time, table[i].at) > retention_ms
                                      THEN Free ELSE table[i]
      /\ \A i \in Slots : room[i] = IF /\ max_count # 0 /\ i \in OfSeries(pruned, s)
                                       /\ Cardinality(Followers(pruned, time, s, i)) >= max_count - 1
                                    THEN Free ELSE pruned[i]
  BY DEF measurement_table_prune, measurement_enforce_series_limit, Followers
<1>h. /\ N \in Nat /\ DOMAIN history = 1 .. N /\ now \in Nat
      /\ \A n \in 1 .. N : history[n] \in Samples /\ history[n].at \in Nat /\ history[n].at <= now
  BY HistoryIs
<1>4. /\ Len(history') = N + 1 /\ DOMAIN history' = 1 .. N + 1
      /\ \A n \in 1 .. N : history'[n] = history[n]
      /\ history'[N + 1] = sample
      /\ \A n \in 1 .. N + 1 : n \in 1 .. N \/ n = N + 1
      /\ \A n \in 1 .. N : n \in 1 .. N + 1
      /\ N + 1 \in 1 .. N + 1
  BY <1>2, <1>h, AppendedIs
<1>t. /\ time \in Nat /\ time <= now /\ retention_ms \in Nat /\ max_count \in Nat
  BY <1>h DEF StoreInv, StoreTypes
<1> HIDE DEF sample, pruned, room, slot, N
<1>5. \A i \in Used(table') : \/ i = slot /\ table'[i] = sample
                              \/ i # slot /\ i \in Used(table) /\ table'[i] = table[i] /\ room[i] = table[i]
  BY <1>2 DEF Used
<1>6. \A i \in Used(table) : table[i].value \in 1 .. N /\ history[table[i].value] = table[i]
  BY <1>h DEF ExactInv, TableInv
<1>7. \A n \in 1 .. N : history[n].value = n
  BY <1>h DEF ExactInv, HistoryInv
<1>8. HistoryInv'
  <2>1. \A n \in 1 .. N + 1 : history'[n].value = n
    BY <1>3, <1>4, <1>7
  <2>2. ASSUME NEW m \in 1 .. N + 1, NEW n \in 1 .. N + 1, m < n, history'[m].series = history'[n].series
        PROVE  history'[m].at <= history'[n].at
    <3>1. m \in 1 .. N
      BY <1>h, <2>2
    <3>2. CASE n \in 1 .. N
      BY <1>h, <1>4, <2>2, <3>1, <3>2 DEF ExactInv, HistoryInv
    <3>3. CASE n = N + 1
      BY <1>1, <1>3, <1>4, <1>h, <2>2, <3>1, <3>3
    <3> QED
      BY <1>4, <3>2, <3>3
  <2> QED
    BY <1>4, <2>1, <2>2 DEF HistoryInv
<1>9. TableInv'
  <2>1. ASSUME NEW i \in Used(table')
        PROVE  table'[i].value \in 1 .. N + 1 /\ history'[table'[i].value] = table'[i]
    BY <1>3, <1>4, <1>5, <1>6
  <2>2. ASSUME NEW i \in Used(table'), NEW j \in Used(table'), table'[i].value = table'[j].value
        PROVE  i = j
    <3>1. N + 1 \notin 1 .. N
      BY <1>h
    <3> QED
      BY <1>3, <1>5, <1>6, <2>2, <3>1 DEF ExactInv, TableInv
  <2> QED
    BY <1>4, <2>1, <2>2 DEF TableInv
<1>10. ASSUME Exact' PROVE WindowInv'
  <2>0. Exact
    <3>1. [Next]_vars
      BY DEF Next
    <3> QED
      BY <1>10, <3>1, ExactBefore
  <2>w. /\ \A n \in 1 .. N \ Values(table) :
             \/ now - history[n].at > retention_ms
             \/ max_count # 0 /\ Cardinality(Later(n)) >= max_count
        /\ \A n \in Values(table) : Later(n) \subseteq Values(table)
        /\ max_count # 0 => \A q \in Series : Cardinality(OfSeries(table, q)) <= max_count
    BY <1>h, <2>0 DEF ExactInv, WindowInv
  \* The ages are true ones.
  <2>1. ASSUME NEW i \in Used(table)
        PROVE  /\ table[i].at \in Nat /\ table[i].at <= now
               /\ Age(time, table[i].at) = IF time >= table[i].at THEN time - table[i].at ELSE 0
    <3>1. \A n \in 1 .. N + 1 : history'[n] \in ToSet(history')
      BY <1>4 DEF ToSet
    <3>2. \A n \in 1 .. N + 1 : history'[n].at \div Wrap = now \div Wrap
      BY <1>2, <1>10, <3>1 DEF Exact, Unwrapped
    <3>3. table[i].at \div Wrap = now \div Wrap /\ time \div Wrap = now \div Wrap
      BY <1>3, <1>4, <1>6, <3>2
    <3>4. table[i].at \in Nat /\ table[i].at <= now
      BY <1>6, <1>h
    <3>5. table[i].at \in Int /\ time \in Int /\ time \div Wrap = table[i].at \div Wrap
      BY <1>t, <3>3, <3>4
    <3> QED
      BY <3>4, <3>5, AgeIs
  <2>2. \A i \in Used(pruned) : i \in Used(table) /\ pruned[i] = table[i] /\ i \in Slots
    BY <1>2 DEF Used
  <2>p. Timed(pruned) /\ time \in Int
    BY <1>t, <2>1, <2>2 DEF Timed
  \* There is a free slot.
  <2>3. slot \in Slots /\ room[slot] = Free
    <3>1. Used(room) # Slots
      <4>1. SUFFICES ASSUME Used(room) = Slots PROVE FALSE
        OBVIOUS
      <4>2. \A i \in Slots : i \in Used(table)
        BY <1>2, <4>1 DEF Used
      <4> DEFINE f == [i \in Slots |-> table[i].value]
      <4>3. f \in [Slots -> 1 .. N] /\ \A i, j \in Slots : f[i] = f[j] => i = j
        BY <1>6, <4>2 DEF ExactInv, TableInv
      <4>4. IsFiniteSet(1 .. N) /\ Cardinality(1 .. N) = N
        BY <1>h, FS_Interval
      <4> HIDE DEF f
      <4>5. f \in Injection(Slots, 1 .. N)
        BY <4>3 DEF Injection, IsInjective
      <4>6. Cardinality(Slots) <= N
        BY <4>4, <4>5, FS_Injection
      <4>7. Cardinality(Slots) = TableSize
        BY SlotsAre, StoreAssumption, FS_Interval DEF Slots
      <4>8. N + 1 <= TableSize
        BY <1>4, <1>10 DEF Exact
      <4> QED
        BY <1>h, <4>6, <4>7, <4>8, SlotsAre
    <3>2. slot \in Slots \ Used(room)
      BY <3>1, SlotForFree DEF slot
    <3> QED
      BY <3>2 DEF Used
  <2>4. /\ \A i \in Slots : room[i] # Free => i \in Used(table') /\ table'[i] = table[i] /\ i \in Used(table)
        /\ slot \in Used(table') /\ table'[slot] = sample
    BY <1>2, <2>3 DEF Used
  <2>5. N + 1 \in Values(table')
    BY <1>3, <2>4 DEF Values
  \* In a series the order of ages is that of the numbers.
  <2>6. ASSUME NEW i \in Used(pruned), NEW j \in Used(pruned), table[i].series = s, table[j].series = s
        PROVE  Precedes(pruned, time, i, j) <=> table[i].value < table[j].value
    <3>1. i \in Used(table) /\ j \in Used(table) /\ pruned[i] = table[i] /\ pruned[j] = table[j]
          /\ i \in Nat /\ j \in Nat
      BY <2>2, SlotsAre
    <3>2. table[i].at <= time /\ table[j].at <= time
      BY <1>1, <1>6, <1>h, <2>6, <3>1
    <3>3. Age(time, table[i].at) = time - table[i].at /\ Age(time, table[j].at) = time - table[j].at
          /\ table[i].at \in Nat /\ table[j].at \in Nat
      BY <1>t, <2>1, <3>1, <3>2
    <3>4. /\ table[i].value \in 1 .. N /\ history[table[i].value] = table[i]
          /\ table[j].value \in 1 .. N /\ history[table[j].value] = table[j]
      BY <1>6, <3>1
    <3>5. /\ table[i].value < table[j].value => table[i].at <= table[j].at
          /\ table[j].value < table[i].value => table[j].at <= table[i].at
          /\ table[i].at = table[j].at => table[i].value = table[j].value
      <4>1. \A m, n \in 1 .. N : m < n /\ history[m].series = history[n].series =>
              history[m].at <= history[n].at
        BY <1>h DEF ExactInv, HistoryInv
      <4>2. \A m, n \in 1 .. N :
              history[m].series = history[n].series /\ history[m].at = history[n].at => m = n
        BY <1>h, <2>0 DEF Exact, DistinctTimes
      <4>3. history[table[i].value].series = history[table[j].value].series
        BY <2>6, <3>4
      <4>4. /\ table[i].at = history[table[i].value].at
            /\ table[j].at = history[table[j].value].at
        BY <3>4
      <4> QED
        BY <3>4, <4>1, <4>2, <4>3, <4>4
    <3>6. table[i].value = table[j].value => i = j
      BY <3>1 DEF ExactInv, TableInv
    <3>7. table[i].value \in Nat /\ table[j].value \in Nat
      BY <1>h, <3>4
    <3>8. Precedes(pruned, time, i, j) <=>
            \/ time - table[i].at > time - table[j].at
            \/ time - table[i].at = time - table[j].at /\ i < j
      BY <3>1, <3>3 DEF Precedes
    <3> QED
      BY <1>t, <3>1, <3>3, <3>5, <3>6, <3>7, <3>8
  <2>L. \A n \in 1 .. N : Later(n)' = {m \in n + 1 .. N + 1 : history'[m].series = history'[n].series}
    BY <1>4 DEF Later
  \* What is not in the table.
  <2>7. ASSUME NEW n \in 1 .. N + 1, n \notin Values(table')
        PROVE  \/ now - history'[n].at > retention_ms
               \/ max_count # 0 /\ Cardinality(Later(n)') >= max_count
    <3>1. n \in 1 .. N /\ n # N + 1 /\ history'[n] = history[n] /\ n \in Nat
      BY <1>4, <1>h, <2>5, <2>7
    <3>2. IsFiniteSet(Later(n)') /\ Cardinality(Later(n)') \in Nat
      <4>1. n + 1 \in Int /\ N + 1 \in Int
        BY <1>h, <3>1
      <4>2. IsFiniteSet(n + 1 .. N + 1) /\ Later(n)' \subseteq n + 1 .. N + 1
        BY <2>L, <3>1, <4>1, FS_Interval
      <4> QED
        BY <4>2, FS_Subset, FS_CardinalityType
    <3>3. CASE n \notin Values(table)
      <4>1. CASE now - history[n].at > retention_ms
        BY <3>1, <4>1
      <4>2. CASE max_count # 0 /\ Cardinality(Later(n)) >= max_count
        <5>1. Later(n) \subseteq Later(n)'
          <6>1. ASSUME NEW m \in Later(n) PROVE m \in Later(n)'
            <7>1. m \in n + 1 .. N /\ m \in 1 .. N /\ history[m].series = history[n].series
              BY <1>h, <3>1 DEF Later, N
            <7>2. m \in n + 1 .. N + 1
              BY <1>h, <3>1, <7>1
            <7> QED
              BY <1>4, <2>L, <3>1, <7>1, <7>2
          <6> QED
            BY <6>1
        <5>2. Cardinality(Later(n)) <= Cardinality(Later(n)') /\ Cardinality(Later(n)) \in Nat
          BY <3>1, <3>2, <5>1, FS_Subset, LaterIs
        <5> QED
          BY <1>t, <3>2, <4>2, <5>2
      <4> QED
        BY <2>w, <3>1, <3>3, <4>1, <4>2
    <3>4. CASE n \in Values(table)
      <4>1. PICK i \in Used(table) : table[i].value = n
        BY <3>4 DEF Values
      <4>2. i \in Slots /\ table[i] # Free /\ history[n] = table[i]
        BY <1>6, <4>1 DEF Used
      <4>3. room[i] = Free
        BY <2>4, <2>7, <4>1, <4>2 DEF Values
      <4>4. CASE pruned[i] = Free
        <5>1. Age(time, table[i].at) > retention_ms
          BY <1>3, <4>2, <4>4
        <5> QED
          BY <1>t, <1>h, <2>1, <3>1, <4>2, <5>1
      <4>5. CASE pruned[i] # Free
        <5> DEFINE F == Followers(pruned, time, s, i)
                   G == Later(n)' \ {N + 1}
                   f == [j \in F |-> table[j].value]
        <5>1. /\ max_count # 0 /\ i \in OfSeries(pruned, s) /\ Cardinality(F) >= max_count - 1
              /\ pruned[i] = table[i] /\ i \in Used(pruned)
          BY <1>2, <1>3, <4>2, <4>3, <4>5 DEF Used
        <5>2. table[i].series = s
          BY <5>1 DEF OfSeries
        <5>3. ASSUME NEW j \in F PROVE j \in Used(table) /\ table[j].value \in G
          <6>1. j \in Used(pruned) /\ j \in Used(table) /\ pruned[j] = table[j] /\ table[j].series = s
                /\ Precedes(pruned, time, i, j)
            BY <2>2 DEF Followers, OfSeries
          <6>2. n < table[j].value /\ table[j].value \in 1 .. N /\ history[table[j].value] = table[j]
            BY <1>6, <2>6, <4>1, <5>1, <5>2, <6>1
          <6>3. table[j].value \in n + 1 .. N + 1 /\ table[j].value # N + 1
            BY <1>h, <3>1, <6>2
          <6>4. history'[table[j].value].series = history'[n].series
            BY <1>4, <3>1, <4>2, <5>2, <6>1, <6>2
          <6> QED
            BY <2>L, <3>1, <6>1, <6>3, <6>4
        <5>4. f \in [F -> G] /\ \A x, y \in F : f[x] = f[y] => x = y
          BY <5>3 DEF ExactInv, TableInv
        <5>5. N + 1 \in Later(n)'
          <6>1. history'[N + 1].series = history'[n].series
            BY <1>3, <1>4, <3>1, <4>2, <5>2
          <6>2. N + 1 \in n + 1 .. N + 1
            BY <1>h, <3>1
          <6> QED
            BY <2>L, <3>1, <6>1, <6>2
        <5>6. IsFiniteSet(G) /\ Cardinality(G) = Cardinality(Later(n)') - 1
          BY <3>2, <5>5, FS_RemoveElement
        <5> HIDE DEF F, G, f
        <5>7. f \in Injection(F, G)
          BY <5>4 DEF Injection, IsInjective
        <5>8. Cardinality(F) <= Cardinality(G) /\ IsFiniteSet(F)
          BY <5>6, <5>7, FS_Injection
        <5>9. Cardinality(F) \in Nat /\ Cardinality(G) \in Nat
          BY <5>6, <5>8, FS_CardinalityType
        <5>10. Cardinality(Later(n)') >= max_count
          BY <1>t, <3>2, <5>1, <5>6, <5>8, <5>9
        <5> QED
          BY <5>1, <5>10
      <4> QED
        BY <4>4, <4>5
    <3> QED
      BY <3>3, <3>4
  \* What follows a sample in the table is there, too.
  <2>8. ASSUME NEW n \in Values(table'), NEW m \in Later(n)' PROVE m \in Values(table')
    <3>1. PICK i \in Used(table') : table'[i].value = n
      BY DEF Values
    <3>2. m \in n + 1 .. N + 1 /\ history'[m].series = history'[n].series
      BY <1>4 DEF Later
    <3>3. n \in 1 .. N + 1
      BY <1>4, <1>9, <3>1 DEF TableInv
    <3>4. CASE m = N + 1
      BY <2>5, <3>4
    <3>5. CASE m # N + 1
      <4>1. m \in n + 1 .. N /\ m \in 1 .. N /\ n \in 1 .. N /\ n # N + 1 /\ n < m
        BY <1>h, <3>2, <3>3, <3>5
      <4>2. /\ i # slot /\ i \in Used(table) /\ table'[i] = table[i] /\ room[i] = table[i]
            /\ i \in Slots /\ room[i] # Free /\ table[i].value = n /\ history[n] = table[i]
        BY <1>3, <1>5, <1>6, <3>1, <4>1 DEF Used
      <4>3. m \in Later(n) /\ n \in Values(table)
        BY <1>4, <3>2, <4>1, <4>2 DEF Later, Values, N
      <4>4. PICK j \in Used(table) : table[j].value = m
        BY <2>w, <4>3 DEF Values
      <4>5. /\ j \in Slots /\ table[j] # Free /\ history[m] = table[j]
            /\ table[j].series = table[i].series
        BY <1>4, <1>6, <3>2, <4>1, <4>2, <4>4 DEF Used
      <4>6. table[i].at <= table[j].at
        <5>1. history[n].series = history[m].series /\ n \in DOMAIN history /\ m \in DOMAIN history
          BY <1>h, <4>1, <4>2, <4>5
        <5>2. history[n].at <= history[m].at
          BY <4>1, <5>1 DEF ExactInv, HistoryInv
        <5> QED
          BY <4>2, <4>5, <5>2
      <4>7. pruned[i] = table[i] /\ ~(Age(time, table[i].at) > retention_ms)
        BY <1>2, <1>3, <4>2
      <4>8. pruned[j] = table[j]
        <5>1. Age(time, table[j].at) <= Age(time, table[i].at)
          BY <1>t, <2>1, <4>2, <4>4, <4>6
        <5>2. Age(time, table[j].at) \in Nat /\ Age(time, table[i].at) \in Nat
          BY <1>t, <2>1, <4>2, <4>4
        <5> QED
          BY <1>3, <1>t, <4>5, <4>7, <5>1, <5>2
      <4>9. ASSUME room[j] = Free PROVE FALSE
        <5>1. /\ max_count # 0 /\ j \in OfSeries(pruned, s)
              /\ Cardinality(Followers(pruned, time, s, j)) >= max_count - 1
          BY <1>3, <4>5, <4>8, <4>9
        <5>2. /\ table[j].series = s /\ table[i].series = s /\ j \in Used(pruned) /\ i \in Used(pruned)
              /\ i \in OfSeries(pruned, s)
          BY <4>2, <4>5, <4>7, <4>8, <5>1 DEF OfSeries, Used
        <5>3. Precedes(pruned, time, i, j) /\ i # j
          BY <2>6, <4>1, <4>2, <4>4, <5>2
        <5>4. j \in Followers(pruned, time, s, i)
          BY <5>1, <5>3 DEF Followers
        <5>5. /\ Cardinality(Followers(pruned, time, s, i)) \in Nat
              /\ Cardinality(Followers(pruned, time, s, j)) \in Nat
              /\ Cardinality(Followers(pruned, time, s, j)) < Cardinality(Followers(pruned, time, s, i))
          BY <2>p, <5>2, <5>4, FollowersShrink
        <5>6. Cardinality(Followers(pruned, time, s, i)) >= max_count - 1
          BY <1>t, <5>1, <5>5
        <5> QED
          BY <1>3, <4>2, <5>1, <5>2, <5>6
      <4> QED
        BY <2>4, <4>4, <4>5, <4>9 DEF Values
    <3> QED
      BY <3>4, <3>5
  \* There are not too many of a series.
  <2>9. ASSUME max_count # 0, NEW q \in Series PROVE Cardinality(OfSeries(table', q)) <= max_count
    <3>1. CASE q = s
      <4>1. /\ IsFiniteSet(OfSeries(room, s)) /\ Cardinality(OfSeries(room, s)) \in Nat
            /\ Cardinality(OfSeries(room, s)) <= max_count - 1
        BY <1>t, <2>p, <2>9, LimitLeavesFew DEF room
      <4>2. OfSeries(table', q) \subseteq OfSeries(room, s) \cup {slot}
        BY <1>5, <3>1 DEF OfSeries, Used
      <4>3. /\ IsFiniteSet(OfSeries(room, s) \cup {slot})
            /\ Cardinality(OfSeries(room, s) \cup {slot}) \in Nat
            /\ Cardinality(OfSeries(room, s) \cup {slot}) <= Cardinality(OfSeries(room, s)) + 1
        <5>1. /\ IsFiniteSet(OfSeries(room, s) \cup {slot})
              /\ Cardinality(OfSeries(room, s) \cup {slot}) =
                   IF slot \in OfSeries(room, s) THEN Cardinality(OfSeries(room, s))
                                                ELSE Cardinality(OfSeries(room, s)) + 1
          BY <4>1, FS_AddElement
        <5> HIDE DEF room
        <5>2. Cardinality(OfSeries(room, s) \cup {slot}) \in Nat
          BY <5>1, FS_CardinalityType
        <5> QED
          BY <4>1, <5>1, <5>2
      <4>4. /\ IsFiniteSet(OfSeries(table', q))
            /\ Cardinality(OfSeries(table', q)) <= Cardinality(OfSeries(room, s) \cup {slot})
        BY <4>2, <4>3, FS_Subset
      <4>5. Cardinality(OfSeries(table', q)) \in Nat
        BY <4>4, FS_CardinalityType
      <4> QED
        BY <1>t, <4>1, <4>3, <4>4, <4>5
    <3>2. CASE q # s
      <4>1. OfSeries(table', q) \subseteq OfSeries(table, q)
        BY <1>3, <1>5, <3>2 DEF OfSeries
      <4>2. /\ IsFiniteSet(OfSeries(table, q)) /\ Cardinality(OfSeries(table, q)) \in Nat
        BY OfSeriesSize DEF ExactInv
      <4>3. /\ IsFiniteSet(OfSeries(table', q))
            /\ Cardinality(OfSeries(table', q)) <= Cardinality(OfSeries(table, q))
        BY <4>1, <4>2, FS_Subset
      <4>4. Cardinality(OfSeries(table', q)) \in Nat
        BY <4>3, FS_CardinalityType
      <4> QED
        BY <1>t, <2>w, <2>9, <4>2, <4>3, <4>4
    <3> QED
      BY <3>1, <3>2
  <2> QED
    BY <1>2, <1>4, <2>7, <2>8, <2>9 DEF WindowInv
<1> QED
  BY <1>8, <1>9, <1>10 DEF ExactInv, WindowInv

\* While its conditions last, a revision takes what is older than the retention
\* and nothing else.
LEMMA RevisedExactly ==
  ASSUME StoreInv, Exact, measurement_revision
  PROVE  /\ \A i \in Used(table) : \/ i \in Used(table') /\ now - table[i].at <= retention_ms
                                   \/ i \notin Used(table') /\ now - table[i].at > retention_ms
         /\ \A i \in Used(table') : i \in Used(table) /\ table'[i] = table[i]
<1>1. ASSUME NEW i \in Used(table) PROVE Age(now, table[i].at) = now - table[i].at
  <2>1. PICK n \in DOMAIN history : history[n] = table[i]
    BY DEF StoreInv, TableIsHistory
  <2>2. table[i].at \div Wrap = now \div Wrap
    BY <2>1 DEF Exact, Unwrapped, ToSet
  <2>3. table[i].at \in Nat /\ table[i].at <= now /\ now \in Nat
    BY StoredAre
  <2>4. table[i].at \in Int /\ now \in Int /\ now \div Wrap = table[i].at \div Wrap
    BY <2>2, <2>3
  <2> QED
    BY <2>3, <2>4, AgeIs
<1>2. /\ \A i \in Slots : \/ table'[i] = Free
                          \/ table'[i] = table[i] /\ ~ (Age(now, table[i].at) > retention_ms)
      /\ \A i \in Used(table) : table'[i] = Free => Age(now, table[i].at) > retention_ms
  BY RevisedIs
<1>3. retention_ms \in Nat /\ \A i \in Used(table) : now - table[i].at \in Int
  BY StoredAre DEF StoreInv, StoreTypes
<1>4. ASSUME NEW i \in Used(table)
      PROVE  \/ i \in Used(table') /\ now - table[i].at <= retention_ms
             \/ i \notin Used(table') /\ now - table[i].at > retention_ms
  BY <1>1, <1>2, <1>3 DEF Used
<1>5. \A i \in Used(table') : i \in Used(table) /\ table'[i] = table[i]
  BY <1>2 DEF Used
<1> QED
  BY <1>4, <1>5

\* The table is revised (measurement_table_prune).
LEMMA RevisionKeepsExact ==
  ASSUME StoreInv, StoreInv', ExactInv, measurement_revision, Exact' => Exact
  PROVE  ExactInv'
<1>1. /\ \A i \in Used(table') : i \in Used(table) /\ table'[i] = table[i]
      /\ UNCHANGED <<now, retention_ms, max_count, history, configures>>
  <2>1. /\ \A i \in Slots : table'[i] = Free \/ table'[i] = table[i]
        /\ UNCHANGED <<now, retention_ms, max_count, history, configures>>
    BY RevisedIs
  <2> QED
    BY <2>1 DEF Used
<1>2. HistoryInv'
  BY <1>1 DEF ExactInv, HistoryInv
<1>3. TableInv'
  BY <1>1 DEF ExactInv, TableInv
<1>4. ASSUME Exact' PROVE WindowInv'
  <2>0. Exact
    BY <1>4
  <2>1. \A i \in Used(table) : \/ i \in Used(table') /\ now - table[i].at <= retention_ms
                               \/ i \notin Used(table') /\ now - table[i].at > retention_ms
    BY <2>0, RevisedExactly
  <2>2. /\ \A n \in DOMAIN history \ Values(table) :
             \/ now - history[n].at > retention_ms
             \/ max_count # 0 /\ Cardinality(Later(n)) >= max_count
        /\ \A n \in Values(table) : Later(n) \subseteq Values(table)
        /\ max_count # 0 => \A s \in Series : Cardinality(OfSeries(table, s)) <= max_count
    BY <2>0 DEF ExactInv, WindowInv
  <2>3. /\ \A i \in Used(table) : /\ table[i].value \in DOMAIN history
                                  /\ history[table[i].value] = table[i]
        /\ \A m, n \in DOMAIN history : m < n /\ history[m].series = history[n].series =>
             history[m].at <= history[n].at
    BY DEF ExactInv, TableInv, HistoryInv
  <2>L. \A n : Later(n)' = Later(n)
    BY <1>1 DEF Later
  <2>h. /\ now \in Nat /\ retention_ms \in Nat
        /\ \A n \in DOMAIN history : history[n].at \in Nat
    BY HistoryIs DEF StoreInv, StoreTypes
  <2>4. ASSUME NEW n \in DOMAIN history, n \notin Values(table')
        PROVE  \/ now - history[n].at > retention_ms
               \/ max_count # 0 /\ Cardinality(Later(n)) >= max_count
    <3>1. CASE n \notin Values(table)
      BY <2>2, <3>1
    <3>2. CASE n \in Values(table)
      <4>1. PICK i \in Used(table) : table[i].value = n
        BY <3>2 DEF Values
      <4>2. i \notin Used(table')
        BY <1>1, <2>4, <4>1 DEF Values
      <4> QED
        BY <2>1, <2>3, <4>1, <4>2
    <3> QED
      BY <3>1, <3>2
  <2>5. ASSUME NEW n \in Values(table'), NEW m \in Later(n) PROVE m \in Values(table')
    <3>1. PICK i \in Used(table') : table'[i].value = n
      BY DEF Values
    <3>2. i \in Used(table) /\ table[i].value = n /\ now - table[i].at <= retention_ms
          /\ n \in DOMAIN history /\ history[n] = table[i]
      BY <1>1, <2>1, <2>3, <3>1
    <3>3. n \in Values(table) /\ m \in Values(table)
      BY <2>2, <3>2 DEF Values
    <3>4. PICK j \in Used(table) : table[j].value = m
      BY <3>3 DEF Values
    <3>5. m \in DOMAIN history /\ history[m] = table[j]
      BY <2>3, <3>4
    <3>6. n < m /\ history[m].series = history[n].series
      <4>1. n \in Nat /\ m \in n + 1 .. Len(history) /\ Len(history) \in Nat
        BY <3>2, HistoryIs DEF Later
      <4> QED
        BY <4>1 DEF Later
    <3>7. history[n].at <= history[m].at
      BY <2>3, <3>2, <3>5, <3>6
    <3>8. ~(now - table[j].at > retention_ms)
      BY <2>h, <3>2, <3>5, <3>7
    <3>9. j \in Used(table') /\ table'[j] = table[j]
      BY <1>1, <2>1, <3>8
    <3> QED
      BY <3>4, <3>9 DEF Values
  <2>6. ASSUME max_count # 0, NEW s \in Series PROVE Cardinality(OfSeries(table', s)) <= max_count
    <3>1. OfSeries(table', s) \subseteq OfSeries(table, s)
      BY <1>1 DEF OfSeries
    <3>2. /\ IsFiniteSet(OfSeries(table, s)) /\ Cardinality(OfSeries(table, s)) \in Nat
      BY OfSeriesSize DEF ExactInv
    <3>3. /\ IsFiniteSet(OfSeries(table', s))
          /\ Cardinality(OfSeries(table', s)) <= Cardinality(OfSeries(table, s))
      BY <3>1, <3>2, FS_Subset
    <3>4. Cardinality(OfSeries(table', s)) \in Nat /\ max_count \in Nat
      BY <3>3, FS_CardinalityType DEF StoreInv, StoreTypes
    <3>5. Cardinality(OfSeries(table, s)) <= max_count
      BY <2>2, <2>6
    <3> QED
      BY <3>2, <3>3, <3>4, <3>5
  <2> QED
    BY <1>1, <2>L, <2>4, <2>5, <2>6 DEF WindowInv
<1> QED
  BY <1>2, <1>3, <1>4 DEF ExactInv, WindowInv

\* ExactInv holds at first.
LEMMA ExactInit == Init => ExactInv
<1> SUFFICES ASSUME Init PROVE ExactInv
  OBVIOUS
<1>1. DOMAIN history = {} /\ Used(table) = {}
  BY DEF Init, Used
<1>2. HistoryInv /\ TableInv
  BY <1>1 DEF HistoryInv, TableInv
<1>3. ASSUME max_count # 0, NEW s \in Series PROVE Cardinality(OfSeries(table, s)) <= max_count
  <2>1. OfSeries(table, s) = {} /\ max_count \in Nat
    BY <1>1, StoreInvInit DEF OfSeries, StoreInv, StoreTypes
  <2> QED
    BY <2>1, FS_EmptySet
<1>4. WindowInv
  BY <1>1, <1>3 DEF WindowInv, Values
<1> QED
  BY <1>2, <1>4 DEF ExactInv

\* Every step keeps it: while time passes the samples left out only grow older,
\* and once the settings change nothing more is said of them.
LEMMA ExactNext == StoreInv /\ StoreInv' /\ ExactInv /\ [Next]_vars => ExactInv'
<1> SUFFICES ASSUME StoreInv, StoreInv', ExactInv, [Next]_vars PROVE ExactInv'
  OBVIOUS
<1>1. CASE AddBle \/ AddOneWire
  BY <1>1, AddKeepsExact
<1>2. CASE Periodic \/ Snapshot
  BY <1>2, RevisionKeepsExact, ExactBefore DEF Periodic, Snapshot
<1>3. CASE Tick
  <2>1. /\ now' = now + 1
        /\ UNCHANGED <<table, retention_ms, max_count, history, configures>>
    BY <1>3 DEF Tick
  <2>2. HistoryInv' /\ TableInv'
    BY <2>1 DEF ExactInv, HistoryInv, TableInv, Used
  <2>3. ASSUME Exact' PROVE WindowInv'
    <3>1. Exact
      BY <2>3, ExactBefore
    <3>2. /\ now \in Nat /\ retention_ms \in Nat
          /\ \A n \in DOMAIN history : history[n].at \in Nat
      BY HistoryIs DEF StoreInv, StoreTypes
    <3>3. \A n \in DOMAIN history : now - history[n].at > retention_ms =>
            (now + 1) - history[n].at > retention_ms
      BY <3>2
    <3>4. /\ \A n : Later(n)' = Later(n)
          /\ Values(table') = Values(table) /\ \A s : OfSeries(table', s) = OfSeries(table, s)
      BY <2>1 DEF Later, Values, OfSeries, Used
    <3>5. /\ \A n \in DOMAIN history \ Values(table) :
               \/ now - history[n].at > retention_ms
               \/ max_count # 0 /\ Cardinality(Later(n)) >= max_count
          /\ \A n \in Values(table) : Later(n) \subseteq Values(table)
          /\ max_count # 0 => \A s \in Series : Cardinality(OfSeries(table, s)) <= max_count
      BY <3>1 DEF ExactInv, WindowInv
    <3>6. ASSUME NEW n \in DOMAIN history \ Values(table)
          PROVE  \/ now' - history[n].at > retention_ms
                 \/ max_count # 0 /\ Cardinality(Later(n)) >= max_count
      <4>1. CASE now - history[n].at > retention_ms
        BY <2>1, <3>3, <4>1
      <4> QED
        BY <3>5, <4>1
    <3> QED
      BY <2>1, <3>4, <3>5, <3>6 DEF WindowInv
  <2> QED
    BY <2>2, <2>3 DEF ExactInv, WindowInv
<1>4. CASE Configure
  <2>1. UNCHANGED <<table, history>>
    BY <1>4 DEF Configure
  <2>2. HistoryInv' /\ TableInv'
    BY <2>1 DEF ExactInv, HistoryInv, TableInv, Used
  <2>3. ~Exact'
    <3>1. configures \in Nat /\ configures' = configures + 1
      BY <1>4 DEF Configure, StoreInv, StoreTypes
    <3> QED
      BY <3>1 DEF Exact
  <2> QED
    BY <2>2, <2>3 DEF ExactInv, WindowInv
<1>5. CASE UNCHANGED vars
  <2>1. UNCHANGED <<now, table, retention_ms, max_count, history, configures>>
    BY <1>5 DEF vars
  <2>2. HistoryInv' /\ TableInv'
    BY <2>1 DEF ExactInv, HistoryInv, TableInv, Used
  <2>3. /\ \A n : Later(n)' = Later(n)
        /\ Values(table') = Values(table) /\ \A s : OfSeries(table', s) = OfSeries(table, s)
    BY <2>1 DEF Later, Values, OfSeries, Used
  <2>4. Exact' = Exact
    BY <2>1 DEF Exact, DistinctTimes, Unwrapped
  <2> QED
    BY <2>1, <2>2, <2>3, <2>4 DEF ExactInv, WindowInv
<1> QED
  BY <1>1, <1>2, <1>3, <1>4, <1>5 DEF Next

-----------------------------------------------------------------------------
(* What a revision shows.                                                  *)

\* What a revision leaves: nothing too old in the table, and the rows of it.
Revised ==
  /\ \A i \in Used(table) : now - table[i].at <= retention_ms
  /\ view = measurement_view_rebuild(table)
  /\ last_revision_ms = now

\* What ViewIsExact says of the view after a step.
ViewShows ==
  LET window(s) == Window(s, last_revision_ms)
      live == {s \in Series : window(s) # {}}
      shown == {view[k].series : k \in DOMAIN view}
  IN  /\ \A k \in DOMAIN view :
           /\ view[k].sum = SumSet(window(view[k].series))
           /\ view[k].count = Cardinality(window(view[k].series))
      /\ Cardinality(shown) = Len(view)
      /\ shown \subseteq live
      /\ shown = live \/ Len(view) = ViewSize

\* Then the table holds the window of each series.
LEMMA TableHoldsWindows ==
  ASSUME StoreInv, ExactInv, Exact, Revised, NEW s \in Series
  PROVE  {table[i].value : i \in OfSeries(table, s)} = Window(s, now)
<1> DEFINE S == OfSeries(table, s)
           V == {table[i].value : i \in S}
<1>1. /\ \A n \in DOMAIN history \ Values(table) :
           \/ now - history[n].at > retention_ms
           \/ max_count # 0 /\ Cardinality(Later(n)) >= max_count
      /\ \A n \in Values(table) : Later(n) \subseteq Values(table)
      /\ max_count # 0 => Cardinality(S) <= max_count
  BY DEF ExactInv, WindowInv
<1>2. /\ \A i \in Used(table) : /\ table[i].value \in DOMAIN history
                                /\ history[table[i].value] = table[i]
      /\ \A i \in Used(table) : now - table[i].at <= retention_ms
  BY DEF ExactInv, TableInv, Revised
<1>h. /\ Len(history) \in Nat /\ DOMAIN history = 1 .. Len(history) /\ now \in Nat
      /\ \A n \in DOMAIN history : history[n].at \in Nat
      /\ retention_ms \in Nat /\ max_count \in Nat
  BY HistoryIs DEF StoreInv, StoreTypes
<1>3. \A n \in DOMAIN history : history[n].series = s =>
        {m \in n + 1 .. Len(history) : history[m].series = s} = Later(n)
  BY DEF Later
<1>4. ASSUME NEW n \in DOMAIN history, history[n].series = s, n \in Values(table) PROVE n \in V
  <2>1. PICK i \in Used(table) : table[i].value = n
    BY <1>4 DEF Values
  <2>2. i \in S
    BY <1>2, <1>4, <2>1 DEF OfSeries
  <2> QED
    BY <2>1, <2>2
<1>5. ASSUME NEW n \in V PROVE n \in Window(s, now)
  <2>1. PICK i \in S : table[i].value = n
    OBVIOUS
  <2>2. /\ n \in DOMAIN history /\ history[n].series = s /\ now - history[n].at <= retention_ms
        /\ n \in Values(table) /\ n \in Nat
    <3>1. i \in Used(table) /\ table[i].series = s
      BY DEF OfSeries
    <3> QED
      BY <1>h, <1>2, <2>1, <3>1 DEF Values
  <2>3. IsFiniteSet(Later(n)) /\ Cardinality(Later(n)) \in Nat
    BY <2>2, LaterIs
  <2>4. Later(n) \cup {n} \subseteq V /\ n \notin Later(n)
    <3>1. ASSUME NEW m \in Later(n) PROVE m \in V
      <4>1. m \in DOMAIN history /\ history[m].series = s /\ m \in Values(table)
        <5>1. m \in n + 1 .. Len(history) /\ history[m].series = history[n].series
          BY DEF Later
        <5> QED
          BY <1>h, <1>1, <2>2, <5>1
      <4> QED
        BY <1>4, <4>1
    <3>2. n \notin n + 1 .. Len(history)
      BY <1>h, <2>2
    <3> QED
      BY <3>1, <3>2 DEF Later
  <2>5. /\ IsFiniteSet(V) /\ Cardinality(V) = Cardinality(S) /\ Cardinality(S) \in Nat
    BY OfSeriesSize DEF ExactInv
  <2> HIDE DEF V, S
  <2>6. /\ IsFiniteSet(Later(n) \cup {n}) /\ Cardinality(Later(n) \cup {n}) = Cardinality(Later(n)) + 1
    BY <2>3, <2>4, FS_AddElement
  <2>7. Cardinality(Later(n) \cup {n}) <= Cardinality(V)
    BY <2>4, <2>5, FS_Subset
  <2>8. max_count # 0 => Cardinality(Later(n)) < max_count
    BY <1>h, <1>1, <2>3, <2>5, <2>6, <2>7
  <2> QED
    BY <1>3, <2>2, <2>8 DEF Window
<1>6. ASSUME NEW n \in Window(s, now) PROVE n \in V
  <2>1. /\ n \in DOMAIN history /\ history[n].series = s /\ now - history[n].at <= retention_ms
        /\ max_count = 0 \/ Cardinality(Later(n)) < max_count
    BY <1>3 DEF Window
  <2>2. Cardinality(Later(n)) \in Nat
    BY <1>h, <2>1, LaterIs
  <2>3. n \in Values(table)
    BY <1>1, <1>h, <2>1, <2>2
  <2> QED
    BY <1>4, <2>1, <2>3
<1> QED
  BY <1>5, <1>6

\* And the view tells the windows.
LEMMA RevisedShows == StoreInv /\ ExactInv /\ Exact /\ Revised => ViewShows
<1> SUFFICES ASSUME StoreInv, ExactInv, Exact, Revised PROVE ViewShows
  OBVIOUS
<1> DEFINE F == Firsts(table)
           c == Cardinality(F)
           M == Min({ViewSize, c})
           S(s) == OfSeries(table, s)
           V(s) == {table[i].value : i \in S(s)}
           seriesOf(k) == table[Nth(F, k)].series
           shown == {view[k].series : k \in DOMAIN view}
           live == {s \in Series : Window(s, now) # {}}
<1>1. IsFiniteSet(F) /\ F \subseteq Nat /\ F \subseteq Used(table) /\ ViewSize \in Nat
  <2>1. F \subseteq Slots /\ F \subseteq Used(table)
    BY DEF Firsts, Used
  <2> QED
    BY <2>1, SlotsAre, FS_Subset, StoreAssumption
<1>2. /\ c \in Nat /\ \A n \in 1 .. c : Nth(F, n) \in F
      /\ \A m, n \in 1 .. c : Nth(F, m) = Nth(F, n) => m = n
      /\ \A i \in F : \E n \in 1 .. c : Nth(F, n) = i
  <2> HIDE DEF F
  <2> QED
    BY <1>1, NthIs
<1>3. \A i, j \in F : table[i].series = table[j].series => i = j
  <2>1. ASSUME NEW i \in F, NEW j \in F, table[i].series = table[j].series PROVE i = j
    <3>1. i \in OfSeries(table, table[j].series) /\ j \in OfSeries(table, table[i].series)
      BY <1>1, <2>1 DEF OfSeries
    <3>2. i <= j /\ j <= i /\ i \in Nat /\ j \in Nat
      BY <1>1, <3>1 DEF Firsts
    <3> QED
      BY <3>2
  <2> QED
    BY <2>1
<1>4. M \in Nat /\ (M = ViewSize \/ M = c) /\ M <= c
  <2>1. \E x \in {ViewSize, c} : \A y \in {ViewSize, c} : x <= y
    BY <1>1, <1>2
  <2>2. M \in {ViewSize, c} /\ \A y \in {ViewSize, c} : M <= y
    BY <2>1 DEF Min
  <2> HIDE DEF M, c
  <2> QED
    BY <1>1, <1>2, <2>2
<1>5. view = [k \in 1 .. M |-> Row(table, seriesOf(k))]
  BY DEF Revised, measurement_view_rebuild
<1> HIDE DEF F, M, c
<1>6. DOMAIN view = 1 .. M /\ Len(view) = M
  <2>1. \A k \in 1 .. M : Row(table, seriesOf(k)) \in {Row(table, seriesOf(m)) : m \in 1 .. M}
    OBVIOUS
  <2>2. view \in Seq({Row(table, seriesOf(m)) : m \in 1 .. M})
    BY <1>4, <1>5, <2>1
  <2>3. DOMAIN view = 1 .. M /\ DOMAIN view = 1 .. Len(view) /\ Len(view) \in Nat
    <3>1. DOMAIN view = 1 .. M
      BY <1>5
    <3>2. DOMAIN view = 1 .. Len(view) /\ Len(view) \in Nat
      BY <2>2
    <3> QED
      BY <3>1, <3>2
  <2> QED
    BY <1>4, <2>3
<1>7. \A k \in 1 .. M : k \in 1 .. c /\ Nth(F, k) \in F /\ Nth(F, k) \in Used(table)
  <2>1. \A k \in 1 .. M : k \in 1 .. c
    BY <1>2, <1>4
  <2> QED
    BY <1>1, <1>2, <2>1
<1>8. \A i \in Used(table) : table[i].series \in Series
  <2>1. \A i \in Used(table) : table[i] \in Samples
    BY StoredAre
  <2> QED
    BY <2>1 DEF Samples
<1>9. \A s \in Series : V(s) = Window(s, now)
  BY TableHoldsWindows
<1>10. \A s : Cardinality(V(s)) = Cardinality(S(s))
  BY OfSeriesSize DEF ExactInv
<1>11. ASSUME NEW k \in DOMAIN view
       PROVE  /\ view[k].series = seriesOf(k) /\ view[k].series \in live
              /\ view[k].sum = SumSet(Window(view[k].series, now))
              /\ view[k].count = Cardinality(Window(view[k].series, now))
  <2>1. k \in 1 .. M /\ Nth(F, k) \in Used(table) /\ seriesOf(k) \in Series
    BY <1>6, <1>7, <1>8
  <2>2. view[k] = Row(table, seriesOf(k))
    BY <1>5, <2>1
  <2>3. /\ view[k].series = seriesOf(k) /\ view[k].sum = SumSet(V(seriesOf(k)))
        /\ view[k].count = Cardinality(S(seriesOf(k)))
    BY <2>2 DEF Row
  <2>4. Nth(F, k) \in S(seriesOf(k))
    BY <2>1 DEF OfSeries
  <2>5. table[Nth(F, k)].value \in V(seriesOf(k))
    BY <2>4
  <2>6. V(seriesOf(k)) = Window(seriesOf(k), now) /\ Window(seriesOf(k), now) # {}
    <3>1. V(seriesOf(k)) = Window(seriesOf(k), now)
      BY <1>9, <2>1
    <3> QED
      BY <2>5, <3>1
  <2>7. Cardinality(V(seriesOf(k))) = Cardinality(S(seriesOf(k)))
    BY <1>10
  <2> HIDE DEF V, S, seriesOf
  <2> QED
    BY <2>1, <2>3, <2>6, <2>7
<1>12. Cardinality(shown) = M
  <2> DEFINE f == [k \in 1 .. M |-> view[k].series]
  <2>1. f \in [1 .. M -> shown] /\ \A z \in shown : \E k \in 1 .. M : f[k] = z
    BY <1>6
  <2>2. \A j, k \in 1 .. M : f[j] = f[k] => j = k
    BY <1>2, <1>3, <1>6, <1>7, <1>11
  <2>3. IsFiniteSet(1 .. M) /\ Cardinality(1 .. M) = M
    BY <1>4, FS_Interval
  <2> HIDE DEF f, shown
  <2> QED
    BY <2>1, <2>2, <2>3, ImageSize
<1>13. shown \subseteq live
  BY <1>11
<1>14. ASSUME M = c PROVE shown = live
  <2>1. ASSUME NEW s \in live PROVE s \in shown
    <3>1. PICK i \in S(s) : TRUE
      BY <1>9
    <3>2. S(s) \subseteq Nat /\ S(s) # {} /\ S(s) \subseteq Used(table)
      BY <3>1, SlotsAre DEF OfSeries, Used
    <3> HIDE DEF S
    <3>3. PICK l \in S(s) : \A j \in S(s) : l <= j
      BY <3>2, LeastNumber
    <3>4. l \in F /\ table[l].series = s
      BY <3>2, <3>3 DEF Firsts, OfSeries, F, S
    <3>5. PICK k \in 1 .. c : Nth(F, k) = l
      BY <1>2, <3>4
    <3>6. k \in DOMAIN view /\ view[k].series = s
      BY <1>6, <1>11, <1>14, <3>4, <3>5
    <3> QED
      BY <3>6
  <2> QED
    BY <1>13, <2>1
<1>15. shown = live \/ Len(view) = ViewSize
  BY <1>4, <1>6, <1>14
<1>16. last_revision_ms = now /\ Cardinality(shown) = Len(view)
  BY <1>6, <1>12 DEF Revised
<1> QED
  BY <1>11, <1>13, <1>15, <1>16 DEF ViewShows

\* The same of the state after a step.
LEMMA RevisedShowsNext == (StoreInv /\ ExactInv /\ Exact /\ Revised => ViewShows)'
  BY RevisedShows, PTL

\* As long as the table cannot have overflowed, the clock has not wrapped and
\* the settings are those of the start, the web pages and the uploaders get the
\* averages over exactly the last max_count samples of the retention, for every
\* series that has any as far as there are rows (measurement_view_rebuild).
THEOREM AlwaysViewIsExact == Spec => ViewIsExact
<1>1. ASSUME StoreInv, StoreInv', ExactInv, ExactInv', [Next]_vars, Exact,
             view' # view \/ last_revision_ms' # last_revision_ms
      PROVE  ViewShows' /\ UNCHANGED <<history, retention_ms, max_count>>
  <2>1. CASE Periodic \/ Snapshot
    <3>1. measurement_revision
      BY <2>1 DEF Periodic, Snapshot
    <3>2. /\ view' = measurement_view_rebuild(table') /\ last_revision_ms' = now
          /\ UNCHANGED <<now, retention_ms, max_count, history, configures>>
      BY <3>1 DEF measurement_revision
    <3>3. \A i \in Used(table') : now - table'[i].at <= retention_ms
      BY <1>1, <3>1, RevisedExactly, StoredAre DEF StoreInv, StoreTypes
    <3>4. Revised'
      BY <3>2, <3>3 DEF Revised
    <3>5. Exact'
      BY <1>1, <3>2 DEF Exact, DistinctTimes, Unwrapped
    <3> QED
      BY <1>1, <3>2, <3>4, <3>5, RevisedShowsNext
  <2>2. CASE AddBle \/ AddOneWire
    BY <1>1, <2>2, AddIs DEF measurement_store_add
  <2>3. CASE Tick \/ Configure \/ UNCHANGED vars
    BY <1>1, <2>3 DEF Tick, Configure, vars
  <2> QED
    BY <1>1, <2>1, <2>2, <2>3 DEF Next
<1>2. StoreInv /\ StoreInv' /\ ExactInv /\ ExactInv' /\ [Next]_vars =>
        [ (view' # view \/ last_revision_ms' # last_revision_ms)
            /\ configures = 0 /\ Len(history) <= TableSize /\ DistinctTimes /\ Unwrapped(ToSet(history)) =>
          LET window(s) == Window(s, last_revision_ms')
              live == {s \in Series : window(s) # {}}
              shown == {view'[k].series : k \in DOMAIN view'}
          IN  /\ \A k \in DOMAIN view' :
                   /\ view'[k].sum = SumSet(window(view'[k].series))
                   /\ view'[k].count = Cardinality(window(view'[k].series))
              /\ Cardinality(shown) = Len(view')
              /\ shown \subseteq live
              /\ shown = live \/ Len(view') = ViewSize ]_vars
  <2> SUFFICES ASSUME StoreInv, StoreInv', ExactInv, ExactInv', [Next]_vars, Exact,
                      view' # view \/ last_revision_ms' # last_revision_ms
               PROVE  LET window(s) == Window(s, last_revision_ms')
                          live == {s \in Series : window(s) # {}}
                          shown == {view'[k].series : k \in DOMAIN view'}
                      IN  /\ \A k \in DOMAIN view' :
                               /\ view'[k].sum = SumSet(window(view'[k].series))
                               /\ view'[k].count = Cardinality(window(view'[k].series))
                          /\ Cardinality(shown) = Len(view')
                          /\ shown \subseteq live
                          /\ shown = live \/ Len(view') = ViewSize
    BY DEF Exact
  <2>1. ViewShows' /\ UNCHANGED <<history, retention_ms, max_count>>
    BY <1>1
  <2>2. \A s : Window(s, last_revision_ms)' = Window(s, last_revision_ms')
    BY <2>1 DEF Window
  <2> QED
    BY <2>1, <2>2 DEF ViewShows
<1> QED
  BY <1>2, StoreInvInit, StoreInvNext, ExactInit, ExactNext, PTL DEF Spec, ViewIsExact

-----------------------------------------------------------------------------
(* What a revision shows whatever happened before it.                      *)

\* What it leaves: nothing too old in the table that the clock tells apart.
RevisedAtLast ==
  /\ \A i \in Used(table) : \/ now - table[i].at <= retention_ms
                            \/ now \div Wrap # table[i].at \div Wrap
  /\ view = measurement_view_rebuild(table)
  /\ last_revision_ms = now

\* What AveragesAreFresh says of the view after a step.
ShowsFresh ==
  \A k \in DOMAIN view :
    \E S \in SUBSET Fresh(view[k].series, last_revision_ms) :
      S # {} /\ view[k].sum = SumSet(S) /\ view[k].count = Cardinality(S)

\* A row is one of the series of a sample in the table.
LEMMA RowIs ==
  ASSUME StoreInv, NEW k \in DOMAIN measurement_view_rebuild(table)
  PROVE  \E i \in Used(table) :
           measurement_view_rebuild(table)[k] = Row(table, table[i].series)
<1> DEFINE F == Firsts(table)
           M == Min({ViewSize, Cardinality(F)})
<1>1. IsFiniteSet(F) /\ F \subseteq Nat /\ F \subseteq Used(table) /\ ViewSize \in Nat
  <2>1. F \subseteq Slots /\ F \subseteq Used(table)
    BY DEF Firsts, Used
  <2> QED
    BY <2>1, SlotsAre, FS_Subset, StoreAssumption
<1>2. k \in 1 .. M /\ measurement_view_rebuild(table)[k] = Row(table, table[Nth(F, k)].series)
  BY DEF measurement_view_rebuild
<1> HIDE DEF F
<1>3. Cardinality(F) \in Nat /\ \A n \in 1 .. Cardinality(F) : Nth(F, n) \in F
  BY <1>1, NthIs
<1>4. M \in Nat /\ M <= Cardinality(F)
  <2> DEFINE c == Cardinality(F)
  <2>1. \E x \in {ViewSize, c} : \A y \in {ViewSize, c} : x <= y
    BY <1>1, <1>3
  <2>2. M \in {ViewSize, c} /\ \A y \in {ViewSize, c} : M <= y
    BY <2>1 DEF Min
  <2> HIDE DEF M, c
  <2>3. M \in Nat /\ M <= c
    BY <1>1, <1>3, <2>2 DEF c
  <2> QED
    BY <2>3 DEF c
<1> HIDE DEF M
<1>5. k \in 1 .. Cardinality(F)
  BY <1>2, <1>3, <1>4
<1> QED
  BY <1>1, <1>2, <1>3, <1>5

\* The values a row is made of are fresh samples, each counted once.
LEMMA RevisedShowsFresh == StoreInv /\ ExactInv /\ RevisedAtLast => ShowsFresh
<1> SUFFICES ASSUME StoreInv, ExactInv, RevisedAtLast, NEW k \in DOMAIN view
             PROVE  \E S \in SUBSET Fresh(view[k].series, last_revision_ms) :
                      S # {} /\ view[k].sum = SumSet(S) /\ view[k].count = Cardinality(S)
  BY DEF ShowsFresh
<1>1. PICK i \in Used(table) : view[k] = Row(table, table[i].series)
  BY RowIs DEF RevisedAtLast
<1> DEFINE s == table[i].series
           V == {table[j].value : j \in OfSeries(table, s)}
<1>2. /\ view[k].series = s /\ view[k].sum = SumSet(V)
      /\ view[k].count = Cardinality(OfSeries(table, s))
  BY <1>1 DEF Row
<1>3. Cardinality(V) = Cardinality(OfSeries(table, s))
  BY OfSeriesSize DEF ExactInv
<1>4. V # {}
  BY DEF OfSeries
<1>5. ASSUME NEW j \in OfSeries(table, s) PROVE table[j].value \in Fresh(s, last_revision_ms)
  <2>1. j \in Used(table) /\ table[j].series = s
    BY DEF OfSeries
  <2>2. table[j].value \in DOMAIN history /\ history[table[j].value] = table[j]
    BY <2>1 DEF ExactInv, TableInv
  <2>3. /\ \/ now - table[j].at <= retention_ms
           \/ now \div Wrap # table[j].at \div Wrap
        /\ last_revision_ms = now
    BY <2>1 DEF RevisedAtLast
  <2> QED
    BY <2>1, <2>2, <2>3 DEF Fresh
<1>6. V \in SUBSET Fresh(s, last_revision_ms)
  BY <1>5
<1> HIDE DEF s, V
<1> QED
  BY <1>2, <1>3, <1>4, <1>6

LEMMA RevisedShowsFreshNext == (StoreInv /\ ExactInv /\ RevisedAtLast => ShowsFresh)'
  BY RevisedShowsFresh, PTL

\* "Measurement Retention: maximum measurement storage time": however late
\* 1-Wire readings come, whatever the table evicted and however the settings
\* changed, every average the web pages and the uploaders get is that of
\* samples received for its series, each counted once, and none older than the
\* retention, except for samples from before a wrap of the clock
\* (measurement_table_prune, measurement_view_rebuild).
THEOREM AlwaysAveragesAreFresh == Spec => AveragesAreFresh
<1>1. ASSUME StoreInv, StoreInv', ExactInv', [Next]_vars,
             view' # view \/ last_revision_ms' # last_revision_ms
      PROVE  ShowsFresh' /\ UNCHANGED <<history, retention_ms>>
  <2>1. CASE Periodic \/ Snapshot
    <3>1. measurement_revision
      BY <2>1 DEF Periodic, Snapshot
    <3>2. /\ view' = measurement_view_rebuild(table') /\ last_revision_ms' = now
          /\ UNCHANGED <<now, retention_ms, history>>
      BY <3>1 DEF measurement_revision
    <3>3. ASSUME NEW i \in Used(table')
          PROVE  \/ now - table'[i].at <= retention_ms
                 \/ now \div Wrap # table'[i].at \div Wrap
      <4>1. i \in Used(table) /\ table'[i] = table[i] /\ ~ (Age(now, table[i].at) > retention_ms)
        BY <1>1, <3>1, RevisedIs DEF Used
      <4>2. /\ table[i].at \in Nat /\ table[i].at <= now /\ now \in Nat
            /\ retention_ms \in Nat /\ Wrap \in Nat \ {0}
        BY <1>1, <4>1, StoredAre, StoreAssumption DEF StoreInv, StoreTypes
      <4>3. CASE now \div Wrap = table[i].at \div Wrap
        <5>1. Age(now, table[i].at) = now - table[i].at
          BY <4>2, <4>3, AgeIs
        <5> QED
          BY <4>1, <4>2, <5>1
      <4> QED
        BY <4>1, <4>3
    <3>4. RevisedAtLast'
      BY <3>2, <3>3 DEF RevisedAtLast
    <3> QED
      BY <1>1, <3>2, <3>4, RevisedShowsFreshNext
  <2>2. CASE AddBle \/ AddOneWire
    BY <1>1, <2>2, AddIs DEF measurement_store_add
  <2>3. CASE Tick \/ Configure \/ UNCHANGED vars
    BY <1>1, <2>3 DEF Tick, Configure, vars
  <2> QED
    BY <1>1, <2>1, <2>2, <2>3 DEF Next
<1>2. StoreInv /\ StoreInv' /\ ExactInv' /\ [Next]_vars =>
        [ view' # view \/ last_revision_ms' # last_revision_ms =>
            \A k \in DOMAIN view' :
              \E S \in SUBSET Fresh(view'[k].series, last_revision_ms') :
                 /\ S # {}
                 /\ view'[k].sum = SumSet(S)
                 /\ view'[k].count = Cardinality(S) ]_vars
  <2> SUFFICES ASSUME StoreInv, StoreInv', ExactInv', [Next]_vars,
                      view' # view \/ last_revision_ms' # last_revision_ms
               PROVE  \A k \in DOMAIN view' :
                        \E S \in SUBSET Fresh(view'[k].series, last_revision_ms') :
                           /\ S # {}
                           /\ view'[k].sum = SumSet(S)
                           /\ view'[k].count = Cardinality(S)
    OBVIOUS
  <2>1. ShowsFresh' /\ UNCHANGED <<history, retention_ms>>
    BY <1>1
  <2>2. \A s : Fresh(s, last_revision_ms)' = Fresh(s, last_revision_ms')
    BY <2>1 DEF Fresh
  <2> QED
    BY <2>1, <2>2 DEF ShowsFresh
<1> QED
  BY <1>2, StoreInvInit, StoreInvNext, ExactInit, ExactNext, PTL DEF Spec, AveragesAreFresh

-----------------------------------------------------------------------------
(* The payload: the length of lines.                                       *)

\* What holds of 0, and of k + 1 if it holds of k, holds of all.
LEMMA Upward ==
  ASSUME NEW n \in Nat, NEW S, 0 \in S, \A k \in Nat : k < n /\ k \in S => k + 1 \in S
  PROVE  \A k \in 0 .. n : k \in S
<1> DEFINE T == {k \in 0 .. n : k \notin S}
<1>1. SUFFICES ASSUME T # {} PROVE FALSE
  OBVIOUS
<1>2. PICK k \in T : \A j \in T : k <= j
  <2>1. T \subseteq Nat
    OBVIOUS
  <2> HIDE DEF T
  <2> QED
    BY <1>1, <2>1, LeastNumber
<1>3. k \in Nat /\ k # 0 /\ k <= n
  OBVIOUS
<1>4. k - 1 \in 0 .. n /\ ~(k <= k - 1) /\ k - 1 \in Nat /\ k - 1 < n /\ k - 1 + 1 = k
  BY <1>3
<1>5. k - 1 \in S
  BY <1>2, <1>4
<1> QED
  BY <1>4, <1>5

\* The length of the first lines.
LengthUpTo(lines) ==
  CHOOSE g : g = [n \in 0 .. Len(lines) |-> IF n = 0 THEN 0 ELSE g[n - 1] + LineLength[lines[n].kind]]

LEMMA LengthUpToIs ==
  ASSUME NEW lines, Len(lines) \in Nat
  PROVE  /\ LengthUpTo(lines)[0] = 0 /\ TextLength(lines) = LengthUpTo(lines)[Len(lines)]
         /\ \A k \in 1 .. Len(lines) :
              LengthUpTo(lines)[k] = LengthUpTo(lines)[k - 1] + LineLength[lines[k].kind]
<1> DEFINE L == Len(lines)
           Step(g, n) == IF n = 0 THEN 0 ELSE g[n - 1] + LineLength[lines[n].kind]
           Solves(g, n) == g = [k \in 0 .. n |-> Step(g, k)]
           S == {n \in Nat : \E g : Solves(g, n)}
<1>1. 0 \in S
  <2> DEFINE g == [k \in 0 .. 0 |-> 0]
  <2>1. \A k \in 0 .. 0 : k = 0
    OBVIOUS
  <2>2. Solves(g, 0)
    BY <2>1
  <2> HIDE DEF g, Solves
  <2> QED
    BY <2>2
<1>2. ASSUME NEW n \in Nat, n < L, n \in S PROVE n + 1 \in S
  <2>1. PICK g : Solves(g, n)
    BY <1>2
  <2> DEFINE h == [k \in 0 .. n + 1 |-> Step(g, k)]
  <2>2. ASSUME NEW k \in 0 .. n + 1 PROVE Step(h, k) = Step(g, k)
    <3>1. CASE k # 0
      <4>1. k - 1 \in 0 .. n /\ k - 1 \in 0 .. n + 1
        BY <3>1
      <4>2. h[k - 1] = Step(g, k - 1) /\ g[k - 1] = Step(g, k - 1)
        BY <2>1, <4>1
      <4> HIDE DEF h
      <4> QED
        BY <4>2
    <3> QED
      BY <3>1
  <2>3. Solves(h, n + 1)
    <3> HIDE DEF h
    <3>1. h = [k \in 0 .. n + 1 |-> Step(g, k)]
      BY DEF h
    <3> HIDE DEF Step
    <3> QED
      BY <2>2, <3>1
  <2>4. n + 1 \in Nat
    OBVIOUS
  <2> HIDE DEF h, Solves
  <2> QED
    BY <2>3, <2>4
<1>3. L \in S
  <2>1. L \in 0 .. L
    OBVIOUS
  <2> HIDE DEF S, L
  <2>2. L \in Nat
    BY DEF L
  <2> QED
    BY <1>1, <1>2, <2>1, <2>2, Upward
<1> DEFINE f == LengthUpTo(lines)
<1>4. Solves(f, L)
  BY <1>3 DEF LengthUpTo
<1>5. TextLength(lines) = f[L]
  BY DEF TextLength, LengthUpTo
<1> HIDE DEF f
<1>6. \A k \in 0 .. L : f[k] = Step(f, k)
  BY <1>4
<1>7. 0 \in 0 .. L /\ \A k \in 1 .. L : k \in 0 .. L /\ k # 0
  OBVIOUS
<1>8. f[0] = 0 /\ \A k \in 1 .. L : f[k] = f[k - 1] + LineLength[lines[k].kind]
  <2> HIDE DEF L
  <2> QED
    BY <1>6, <1>7
<1> QED
  BY <1>5, <1>8 DEF f

\* Lines of the payload, whatever their texts.
Kinds == DOMAIN LineLength
AreLines(T) == \A line \in T : line.kind \in Kinds

LEMMA NextProduct ==
  ASSUME NEW w \in Nat, NEW n \in Nat
  PROVE  w * (n + 1) = w * n + w /\ w * n \in Nat
OBVIOUS

\* A line more makes the text longer by the line.
LEMMA TextLengthIs ==
  ASSUME NEW T, AreLines(T), NEW lines \in Seq(T)
  PROVE  /\ TextLength(lines) \in Nat
         /\ lines = <<>> => TextLength(lines) = 0
         /\ \A x \in T : TextLength(Append(lines, x)) = TextLength(lines) + LineLength[x.kind]
<1> DEFINE L == Len(lines)
           f == LengthUpTo(lines)
<1>1. /\ f[0] = 0 /\ TextLength(lines) = f[L]
      /\ \A k \in 1 .. L : f[k] = f[k - 1] + LineLength[lines[k].kind]
  <2>1. Len(lines) \in Nat
    OBVIOUS
  <2> QED
    BY <2>1, LengthUpToIs
<1>2. \A x \in T : LineLength[x.kind] \in Nat
  BY StoreAssumption DEF AreLines, Kinds
<1>3. L \in Nat /\ \A k \in 1 .. L : lines[k] \in T
  OBVIOUS
<1> DEFINE S == {n \in Nat : f[n] \in Nat}
<1>4. 0 \in S
  BY <1>1
<1>5. ASSUME NEW n \in Nat, n < L, n \in S PROVE n + 1 \in S
  <2>1. n + 1 \in 1 .. L /\ (n + 1) - 1 = n
    BY <1>3, <1>5
  <2>2. f[n + 1] = f[n] + LineLength[lines[n + 1].kind] /\ LineLength[lines[n + 1].kind] \in Nat
    BY <1>1, <1>2, <1>3, <2>1
  <2> HIDE DEF f
  <2> QED
    BY <1>5, <2>2
<1>6. \A n \in 0 .. L : f[n] \in Nat
  <2> HIDE DEF S, L, f
  <2>1. \A n \in 0 .. L : n \in S
    BY <1>3, <1>4, <1>5, Upward
  <2> QED
    BY <2>1 DEF S
<1>7. ASSUME NEW x \in T PROVE TextLength(Append(lines, x)) = TextLength(lines) + LineLength[x.kind]
  <2>1. PICK more \in Seq(T) : more = Append(lines, x)
    <3>1. Append(lines, x) \in Seq(T)
      OBVIOUS
    <3> QED
      BY <3>1
  <2>2. Len(more) = L + 1 /\ more[L + 1] = x /\ \A k \in 1 .. L : more[k] = lines[k]
    BY <2>1
  <2> DEFINE h == LengthUpTo(more)
             R == {n \in Nat : h[n] = f[n]}
  <2>3. /\ h[0] = 0 /\ TextLength(more) = h[L + 1]
        /\ \A k \in 1 .. L + 1 : h[k] = h[k - 1] + LineLength[more[k].kind]
    <3>1. Len(more) \in Nat
      OBVIOUS
    <3>2. /\ h[0] = 0 /\ TextLength(more) = h[Len(more)]
          /\ \A k \in 1 .. Len(more) : h[k] = h[k - 1] + LineLength[more[k].kind]
      BY <3>1, LengthUpToIs
    <3> QED
      BY <2>2, <3>2
  <2> HIDE DEF h, f
  <2>4. 0 \in R
    BY <1>1, <2>3
  <2>5. ASSUME NEW n \in Nat, n < L, n \in R PROVE n + 1 \in R
    <3>1. n + 1 \in 1 .. L /\ (n + 1) - 1 = n /\ n + 1 \in 1 .. L + 1
      BY <1>3, <2>5
    <3>2. h[n + 1] = h[n] + LineLength[more[n + 1].kind] /\ f[n + 1] = f[n] + LineLength[lines[n + 1].kind]
      BY <1>1, <2>3, <3>1
    <3>3. more[n + 1] = lines[n + 1] /\ h[n] = f[n]
      BY <2>2, <2>5, <3>1
    <3> QED
      BY <3>2, <3>3
  <2>6. h[L] = f[L]
    <3>1. L \in 0 .. L
      BY <1>3
    <3> HIDE DEF R, L
    <3>2. L \in R
      BY <1>3, <2>4, <2>5, <3>1, Upward
    <3> QED
      BY <3>2 DEF R
  <2>7. h[L + 1] = h[L] + LineLength[x.kind]
    <3>1. L + 1 \in 1 .. L + 1 /\ (L + 1) - 1 = L
      BY <1>3
    <3> QED
      BY <2>2, <2>3, <3>1
  <2> QED
    BY <1>1, <2>1, <2>3, <2>6, <2>7
<1>8. TextLength(lines) \in Nat
  <2>1. L \in 0 .. L
    BY <1>3
  <2> QED
    BY <1>1, <1>6, <2>1
<1>9. ASSUME lines = <<>> PROVE TextLength(lines) = 0
  <2>1. L = 0
    BY <1>9
  <2> QED
    BY <1>1, <2>1
<1> QED
  BY <1>7, <1>8, <1>9

-----------------------------------------------------------------------------
(* The room for lines.                                                     *)

\* The length of all the lines a device may have.
DeviceSize == LineLength["TEMP"] + LineLength["RH"] + LineLength["MB2BAT"] + LineLength["SIGNAL"]

LEMMA Products ==
  ASSUME NEW w \in Nat, NEW a \in Int, NEW b \in Int, a <= b
  PROVE  w * a <= w * b
<1>1. PICK c \in Nat : b = a + c
  <2>1. b - a \in Nat /\ b = a + (b - a)
    OBVIOUS
  <2> QED
    BY <2>1
<1>2. w * b = w * a + w * c /\ w * c \in Nat
  BY <1>1
<1>3. w * a \in Int
  OBVIOUS
<1> QED
  BY <1>2, <1>3

LEMMA LineLengths ==
  \A kind \in {"header", "trailer", "UPTIME", "TEMP", "RH", "MB2BAT", "SIGNAL"} :
    kind \in Kinds /\ LineLength[kind] \in Nat /\ LineLength[kind] # 0
BY StoreAssumption DEF Kinds

\* MaxDevices devices and a header, a trailer and a time have room.
LEMMA DevicesHaveRoom ==
  /\ MaxDevices \in Int
  /\ \A m \in Nat : m <= MaxDevices =>
       LineLength["header"] + LineLength["UPTIME"] + DeviceSize * m + LineLength["trailer"] + 1
         <= PayloadSize
<1> DEFINE x == PayloadSize - LineLength["header"] - LineLength["trailer"] - LineLength["UPTIME"]
           d == DeviceSize
<1>1. PICK p \in Nat, h \in Nat, z \in Nat, u \in Nat :
        p = PayloadSize /\ h = LineLength["header"] /\ z = LineLength["trailer"] /\ u = LineLength["UPTIME"]
  BY StoreAssumption, LineLengths
<1>2. d \in Nat /\ d # 0
  BY LineLengths DEF DeviceSize
<1>3. MaxDevices = (x \div d) - 1
  BY DEF MaxDevices, DeviceSize
<1>4. x = p - h - z - u
  BY <1>1
<1> HIDE DEF x, d
<1>5. x \in Int
  BY <1>4
<1>6. x \div d \in Int /\ d * (x \div d) <= x
  BY <1>2, <1>5
<1>7. PICK q \in Int : q = x \div d
  BY <1>6
<1>8. ASSUME NEW m \in Nat, m <= MaxDevices PROVE h + u + d * m + z + 1 <= p
  <2>1. m <= q - 1 /\ d * q <= x
    BY <1>3, <1>6, <1>7, <1>8
  <2>2. d * m <= d * (q - 1)
    BY <1>2, <2>1, Products
  <2>3. d * (q - 1) = d * q - d
    BY <1>2
  <2>4. PICK y \in Int, w \in Int : y = d * q /\ w = d * m
    BY <1>2
  <2>5. w <= y - d /\ y <= p - h - z - u
    BY <1>4, <2>1, <2>2, <2>3, <2>4
  <2>6. h + u + w + z + 1 <= p
    BY <1>2, <2>5
  <2> QED
    BY <2>4, <2>6
<1>9. MaxDevices \in Int
  BY <1>3, <1>6
<1> QED
  BY <1>1, <1>8, <1>9 DEF d

\* Lines that all fit are all appended (Appended).
LEMMA AppendsAll ==
  ASSUME NEW T, NEW lines \in Seq(T), NEW more \in Seq(T),
         \A k \in 1 .. Len(more) : Fits(lines \o SubSeq(more, 1, k - 1), more[k])
  PROVE  Appended(lines, more) = lines \o more
<1> DEFINE L == Len(more)
           fitting == {n \in 0 .. L : \A k \in 1 .. n : Fits(lines \o SubSeq(more, 1, k - 1), more[k])}
<1>1. L \in Nat
  OBVIOUS
<1>2. \A n \in 0 .. L : \A k \in 1 .. n : k \in 1 .. L
  BY <1>1
<1>3. fitting = 0 .. L
  BY <1>2
<1>4. L \in fitting /\ fitting \subseteq Int /\ L \in Int /\ \A n \in fitting : n <= L
  BY <1>1, <1>3
<1>5. Appended(lines, more) = lines \o SubSeq(more, 1, Max(fitting))
  BY DEF Appended
<1> HIDE DEF fitting, L
<1>6. Max(fitting) = L
  <2>1. Max(fitting) \in fitting /\ \A y \in fitting : Max(fitting) >= y
    BY <1>4, MaxIsGreatest
  <2>2. Max(fitting) \in Int /\ Max(fitting) <= L /\ Max(fitting) >= L
    BY <1>4, <2>1
  <2> QED
    BY <1>1, <2>2
<1>7. SubSeq(more, 1, L) = more
  BY SubSeqFull DEF L
<1> QED
  BY <1>5, <1>6, <1>7

\* So many lines of one kind make the text longer by so many times their length.
LEMMA LengthOfMore ==
  ASSUME NEW T, AreLines(T), NEW lines \in Seq(T), NEW more \in Seq(T), NEW kind,
         \A k \in 1 .. Len(more) : more[k].kind = kind, LineLength[kind] \in Nat
  PROVE  \A k \in 0 .. Len(more) :
           /\ lines \o SubSeq(more, 1, k) \in Seq(T)
           /\ TextLength(lines \o SubSeq(more, 1, k)) = TextLength(lines) + LineLength[kind] * k
<1> DEFINE L == Len(more)
           w == LineLength[kind]
           upTo(k) == lines \o SubSeq(more, 1, k)
           S == {k \in Nat : upTo(k) \in Seq(T) /\ TextLength(upTo(k)) = TextLength(lines) + w * k}
<1>1. L \in Nat /\ TextLength(lines) \in Nat /\ w \in Nat
  BY TextLengthIs
<1>2. 0 \in S
  <2>1. SubSeq(more, 1, 0) = <<>>
    BY SubSeqEmpty
  <2>2. lines \o <<>> = lines
    BY ConcatEmptySeq
  <2>3. upTo(0) = lines
    BY <2>1, <2>2
  <2>4. w * 0 = 0
    BY <1>1
  <2> HIDE DEF upTo, w
  <2> QED
    BY <1>1, <2>3, <2>4
<1>3. ASSUME NEW n \in Nat, n < L, n \in S PROVE n + 1 \in S
  <2>1. PICK x \in T : x = more[n + 1] /\ x.kind = kind
    <3>1. n + 1 \in 1 .. L
      BY <1>1, <1>3
    <3>2. more[n + 1] \in T
      BY <3>1
    <3> QED
      BY <3>1, <3>2
  <2>2. upTo(n + 1) = Append(upTo(n), x)
    <3>1. PICK u \in Seq(T) : u = SubSeq(more, 1, n)
      <4>1. SubSeq(more, 1, n) \in Seq(T)
        <5>1. \A i \in 1 .. n : more[i] \in T
          BY <1>1, <1>3
        <5> QED
          BY <5>1, SubSeqProperties
      <4> QED
        BY <4>1
    <3>2. SubSeq(more, 1, n + 1) = Append(u, x)
      <4>1. 1 \in 1 .. Len(more) /\ n + 1 \in 1 .. Len(more) /\ (n + 1) - 1 = n
        BY <1>1, <1>3
      <4>2. SubSeq(more, 1, n + 1) = SubSeq(more, 1, (n + 1) - 1) \o <<more[n + 1]>>
        BY <4>1, SubSeqRecursiveSecond
      <4>3. u \o <<x>> = Append(u, x)
        OBVIOUS
      <4> QED
        BY <2>1, <3>1, <4>1, <4>2, <4>3
    <3>3. lines \o Append(u, x) = Append(lines \o u, x)
      <4> DEFINE a == lines \o Append(u, x)
                 b == Append(lines \o u, x)
      <4>1. PICK v \in Seq(T) : v = Append(u, x)
        <5>1. Append(u, x) \in Seq(T)
          OBVIOUS
        <5> QED
          BY <5>1
      <4>2. Len(v) = Len(u) + 1 /\ v[Len(u) + 1] = x /\ \A i \in 1 .. Len(u) : v[i] = u[i]
        BY <4>1
      <4>3. PICK c \in Seq(T) : c = lines \o u
        <5>1. lines \o u \in Seq(T)
          OBVIOUS
        <5> QED
          BY <5>1
      <4>4. /\ Len(c) = Len(lines) + Len(u)
            /\ \A i \in 1 .. Len(lines) + Len(u) :
                 c[i] = IF i <= Len(lines) THEN lines[i] ELSE u[i - Len(lines)]
        BY <4>3, ConcatProperties
      <4>5. /\ a \in Seq(T) /\ Len(a) = Len(lines) + Len(v)
            /\ \A i \in 1 .. Len(lines) + Len(v) :
                 a[i] = IF i <= Len(lines) THEN lines[i] ELSE v[i - Len(lines)]
        BY <4>1, ConcatProperties
      <4>6. b \in Seq(T) /\ Len(b) = Len(c) + 1 /\ b[Len(c) + 1] = x /\ \A i \in 1 .. Len(c) : b[i] = c[i]
        BY <4>3
      <4>7. PICK l \in Nat, m \in Nat : l = Len(lines) /\ m = Len(u)
        OBVIOUS
      <4> HIDE DEF a, b
      <4>8. Len(a) = Len(b) /\ Len(a) = l + m + 1
        BY <4>2, <4>4, <4>5, <4>6, <4>7
      <4>9. ASSUME NEW i \in 1 .. Len(a) PROVE a[i] = b[i]
        <5>1. i \in 1 .. l + m + 1 /\ i \in Nat
          BY <4>8
        <5>2. CASE i <= l
          <6>1. i \in 1 .. l + m /\ i \in 1 .. l + (m + 1)
            BY <5>1, <5>2
          <6> QED
            BY <4>2, <4>4, <4>5, <4>6, <4>7, <5>2, <6>1
        <5>3. CASE ~(i <= l) /\ i <= l + m
          <6>1. i \in 1 .. l + m /\ i \in 1 .. l + (m + 1) /\ i - l \in 1 .. m
            BY <5>1, <5>3
          <6>2. a[i] = v[i - l] /\ b[i] = c[i] /\ c[i] = u[i - l]
            BY <4>2, <4>4, <4>5, <4>6, <4>7, <5>3, <6>1
          <6> QED
            BY <4>2, <4>7, <6>1, <6>2
        <5>4. CASE i > l + m
          <6>1. i = l + m + 1 /\ i \in 1 .. l + (m + 1) /\ ~(i <= l) /\ i - l = m + 1
            BY <5>1, <5>4
          <6>2. a[i] = v[m + 1]
            BY <4>2, <4>5, <4>7, <6>1
          <6>3. b[i] = x
            BY <4>4, <4>6, <4>7, <6>1
          <6> QED
            BY <4>2, <4>7, <6>2, <6>3
        <5> QED
          BY <5>1, <5>2, <5>3, <5>4
      <4>10. a = b
        BY <4>5, <4>6, <4>8, <4>9, SeqEqual
      <4> QED
        BY <4>10 DEF a, b
    <3> QED
      BY <3>1, <3>2, <3>3
  <2>3. upTo(n) \in Seq(T) /\ TextLength(upTo(n)) = TextLength(lines) + w * n
    BY <1>3
  <2> HIDE DEF upTo
  <2>4. TextLength(upTo(n + 1)) = TextLength(upTo(n)) + w /\ upTo(n + 1) \in Seq(T)
    <3>1. PICK r \in Seq(T) : r = upTo(n)
      BY <2>3
    <3>2. TextLength(Append(r, x)) = TextLength(r) + LineLength[x.kind]
      BY TextLengthIs
    <3>3. Append(r, x) \in Seq(T)
      OBVIOUS
    <3> QED
      BY <2>1, <2>2, <3>1, <3>2, <3>3
  <2>5. w * (n + 1) = w * n + w /\ w * n \in Nat
    <3> HIDE DEF w
    <3> QED
      BY <1>1, NextProduct
  <2>6. n + 1 \in Nat
    OBVIOUS
  <2> HIDE DEF w
  <2> QED
    BY <1>1, <2>3, <2>4, <2>5, <2>6
<1> HIDE DEF S, L
<1>4. \A k \in 0 .. L : k \in S
  BY <1>1, <1>2, <1>3, Upward
<1> QED
  BY <1>4 DEF S, L

-----------------------------------------------------------------------------
(* The devices of a payload.                                               *)

DeviceOf(rows, k) == rows[k].series[1]

\* The first row of each device, and the devices that are sent of the first k rows.
FirstRows(rows) == {k \in DOMAIN rows : \A j \in 1 .. k - 1 : DeviceOf(rows, j) # DeviceOf(rows, k)}

SentBy(rows, k) ==
  {DeviceOf(rows, f) : f \in {g \in FirstRows(rows) :
     g <= k /\ Cardinality({j \in FirstRows(rows) : j <= g}) <= MaxDevices}}

\* They are the devices of the rows one after the other, as long as there is room.
LEMMA SentIs ==
  ASSUME NEW rows, NEW n \in Nat, DOMAIN rows = 1 .. n, MaxDevices \in Nat
  PROVE  /\ SentBy(rows, 0) = {}
         /\ \A k \in 0 .. n : /\ IsFiniteSet(SentBy(rows, k)) /\ Cardinality(SentBy(rows, k)) \in Nat
                              /\ Cardinality(SentBy(rows, k)) <= MaxDevices
         /\ \A k \in 0 .. n - 1 :
              LET d == DeviceOf(rows, k + 1)
                  sent == SentBy(rows, k)
              IN  /\ d \in sent \/ Cardinality(sent) < MaxDevices => SentBy(rows, k + 1) = sent \cup {d}
                  /\ d \notin sent /\ Cardinality(sent) >= MaxDevices => SentBy(rows, k + 1) = sent
                  /\ d \notin sent /\ Cardinality(sent) < MaxDevices =>
                       \A j \in 1 .. k : DeviceOf(rows, j) # d
<1> DEFINE F == FirstRows(rows)
           dev(k) == DeviceOf(rows, k)
           upTo(k) == {j \in F : j <= k}
           c(k) == Cardinality(upTo(k))
           sent(k) == SentBy(rows, k)
           size(k) == IF c(k) <= MaxDevices THEN c(k) ELSE MaxDevices
<1>1. F \subseteq 1 .. n /\ \A k \in 1 .. n : k \in F <=> \A j \in 1 .. k - 1 : dev(j) # dev(k)
  BY DEF FirstRows
<1>2. \A k : sent(k) = {dev(f) : f \in {g \in F : g <= k /\ c(g) <= MaxDevices}}
  BY DEF SentBy
<1> HIDE DEF F, dev, sent
<1>3. \A k : IsFiniteSet(upTo(k)) /\ c(k) \in Nat
  <2>1. IsFiniteSet(1 .. n)
    BY FS_Interval
  <2>2. ASSUME NEW k PROVE IsFiniteSet(upTo(k))
    <3>1. upTo(k) \subseteq 1 .. n
      BY <1>1
    <3> QED
      BY <2>1, <3>1, FS_Subset
  <2> HIDE DEF upTo
  <2> QED
    BY <2>2, FS_CardinalityType
<1>4. ASSUME NEW f \in F, NEW k \in Nat, f <= k PROVE c(f) <= c(k)
  <2>1. ASSUME NEW j \in upTo(f) PROVE j \in upTo(k)
    <3>1. j \in Nat /\ f \in Nat /\ j <= f /\ j \in F
      BY <1>1
    <3>2. j <= k
      BY <1>4, <3>1
    <3> QED
      BY <3>1, <3>2
  <2> HIDE DEF upTo
  <2> QED
    BY <1>3, <2>1, FS_Subset
<1>5. c(0) = 0
  <2>1. \A j \in F : ~(j <= 0)
    BY <1>1
  <2>2. upTo(0) = {}
    BY <2>1
  <2> QED
    BY <2>2, FS_EmptySet
<1>6. ASSUME NEW k \in 0 .. n - 1
      PROVE  /\ k + 1 \notin F => upTo(k + 1) = upTo(k)
             /\ k + 1 \in F => c(k + 1) = c(k) + 1
  <2>1. \A j \in F : j <= k + 1 <=> j <= k \/ j = k + 1
    BY <1>1
  <2>2. k + 1 \in F => upTo(k + 1) = upTo(k) \cup {k + 1} /\ k + 1 \notin upTo(k)
    BY <2>1
  <2>3. k + 1 \notin F => upTo(k + 1) = upTo(k)
    BY <2>1
  <2> HIDE DEF upTo
  <2>4. k + 1 \in F => c(k + 1) = c(k) + 1
    BY <1>3, <2>2, FS_AddElement
  <2> QED
    BY <2>3, <2>4
\* The first row of the device of a row.
<1>7. ASSUME NEW k \in 1 .. n PROVE \E f \in F : f <= k /\ dev(f) = dev(k)
  <2> DEFINE same == {j \in 1 .. k : dev(j) = dev(k)}
  <2>1. same \subseteq Nat /\ k \in same
    OBVIOUS
  <2>2. PICK f \in same : \A j \in same : f <= j
    <3> HIDE DEF same
    <3> QED
      BY <2>1, LeastNumber
  <2>3. ASSUME NEW j \in 1 .. f - 1 PROVE dev(j) # dev(f)
    <3>1. j \in 1 .. k /\ ~(f <= j)
      OBVIOUS
    <3> QED
      BY <2>2, <3>1
  <2>4. f \in 1 .. n /\ f <= k /\ dev(f) = dev(k)
    OBVIOUS
  <2> QED
    BY <1>1, <2>3, <2>4
\* What the next row changes.
<1>8. ASSUME NEW k \in 0 .. n - 1, k + 1 \notin F
      PROVE  /\ sent(k + 1) = sent(k) /\ c(k + 1) = c(k)
             /\ dev(k + 1) \notin sent(k) => c(k) > MaxDevices
  <2>1. upTo(k + 1) = upTo(k)
    BY <1>6, <1>8
  <2>2. \A g : g \in F /\ g <= k + 1 <=> g \in F /\ g <= k
    BY <2>1
  <2>3. sent(k + 1) = sent(k)
    BY <1>2, <2>2
  <2>4. PICK f \in F : f <= k + 1 /\ dev(f) = dev(k + 1)
    <3>1. k + 1 \in 1 .. n
      OBVIOUS
    <3> QED
      BY <1>7, <3>1
  <2>5. f <= k /\ c(f) <= c(k) /\ k \in Nat
    BY <1>4, <2>2, <2>4
  <2>6. dev(k + 1) \notin sent(k) => ~(c(f) <= MaxDevices)
    BY <1>2, <2>4, <2>5
  <2>7. c(f) \in Nat /\ c(k) \in Nat
    BY <1>3
  <2> HIDE DEF c
  <2>8. dev(k + 1) \notin sent(k) => c(k) > MaxDevices
    BY <2>5, <2>6, <2>7
  <2> QED
    BY <2>1, <2>3, <2>8 DEF c
<1>9. ASSUME NEW k \in 0 .. n - 1, k + 1 \in F
      PROVE  /\ c(k + 1) = c(k) + 1 /\ dev(k + 1) \notin sent(k)
             /\ \A j \in 1 .. k : dev(j) # dev(k + 1)
             /\ c(k) < MaxDevices => sent(k + 1) = sent(k) \cup {dev(k + 1)}
             /\ c(k) >= MaxDevices => sent(k + 1) = sent(k)
  <2>1. \A j \in 1 .. k : dev(j) # dev(k + 1)
    <3>1. k + 1 \in 1 .. n /\ (k + 1) - 1 = k
      OBVIOUS
    <3> QED
      BY <1>1, <1>9, <3>1
  <2>2. \A f \in F : f <= k => f \in 1 .. k
    BY <1>1
  <2>3. dev(k + 1) \notin sent(k)
    BY <1>2, <2>1, <2>2
  <2>4. c(k + 1) = c(k) + 1 /\ c(k) \in Nat
    BY <1>3, <1>6, <1>9
  <2>5. \A g \in F : g <= k + 1 <=> g <= k \/ g = k + 1
    BY <1>1
  <2> HIDE DEF c
  <2>6. c(k + 1) <= MaxDevices <=> c(k) < MaxDevices
    BY <2>4
  <2>7. c(k) < MaxDevices => sent(k + 1) = sent(k) \cup {dev(k + 1)}
    BY <1>2, <1>9, <2>5, <2>6
  <2>8. c(k) >= MaxDevices => ~(c(k + 1) <= MaxDevices)
    BY <2>4
  <2>9. c(k) >= MaxDevices => sent(k + 1) = sent(k)
    BY <1>2, <2>5, <2>8
  <2> QED
    BY <2>1, <2>3, <2>4, <2>7, <2>9
<1> HIDE DEF c, upTo
<1> DEFINE S == {k \in Nat : IsFiniteSet(sent(k)) /\ Cardinality(sent(k)) = size(k)}
<1>10. sent(0) = {}
  <2>1. \A g \in F : ~(g <= 0)
    BY <1>1
  <2> QED
    BY <1>2, <2>1
<1>11. 0 \in S
  BY <1>5, <1>10, FS_EmptySet
<1>12. ASSUME NEW k \in Nat, k < n, k \in S PROVE k + 1 \in S
  <2>1. k \in 0 .. n - 1 /\ k + 1 \in Nat
    BY <1>12
  <2>2. IsFiniteSet(sent(k)) /\ Cardinality(sent(k)) = size(k) /\ c(k) \in Nat
    BY <1>3, <1>12 DEF c
  <2>3. CASE k + 1 \notin F
    BY <1>8, <2>1, <2>2, <2>3
  <2>4. CASE k + 1 \in F /\ c(k) < MaxDevices
    <3>1. /\ c(k + 1) = c(k) + 1 /\ dev(k + 1) \notin sent(k) /\ sent(k + 1) = sent(k) \cup {dev(k + 1)}
      BY <1>9, <2>1, <2>4
    <3>2. IsFiniteSet(sent(k + 1)) /\ Cardinality(sent(k + 1)) = Cardinality(sent(k)) + 1
      <4>1. PICK A : A = sent(k)
        OBVIOUS
      <4>2. PICK B : B = sent(k + 1)
        OBVIOUS
      <4>3. PICK d : d = dev(k + 1)
        OBVIOUS
      <4>4. IsFiniteSet(A) /\ d \notin A /\ B = A \cup {d}
        BY <2>2, <3>1, <4>1, <4>2, <4>3
      <4>5. IsFiniteSet(B) /\ Cardinality(B) = Cardinality(A) + 1
        BY <4>4, FS_AddElement
      <4> QED
        BY <4>1, <4>2, <4>5
    <3>3. size(k) = c(k) /\ size(k + 1) = c(k) + 1
      BY <2>2, <2>4, <3>1
    <3> QED
      BY <2>1, <2>2, <3>2, <3>3
  <2>5. CASE k + 1 \in F /\ c(k) >= MaxDevices
    <3>1. c(k + 1) = c(k) + 1 /\ sent(k + 1) = sent(k)
      BY <1>9, <2>1, <2>5
    <3>2. size(k) = MaxDevices /\ size(k + 1) = MaxDevices
      BY <2>2, <2>5, <3>1
    <3> QED
      BY <2>1, <2>2, <3>1, <3>2
  <2> QED
    BY <2>2, <2>3, <2>4, <2>5
<1>13. \A k \in 0 .. n : IsFiniteSet(sent(k)) /\ Cardinality(sent(k)) = size(k) /\ c(k) \in Nat
  <2>1. \A k \in 0 .. n : k \in S
    <3> HIDE DEF S
    <3> QED
      BY <1>11, <1>12, Upward
  <2> QED
    BY <1>3, <2>1 DEF c
<1>14. ASSUME NEW k \in 0 .. n
       PROVE  /\ IsFiniteSet(sent(k)) /\ Cardinality(sent(k)) \in Nat
              /\ Cardinality(sent(k)) <= MaxDevices
              /\ Cardinality(sent(k)) < MaxDevices <=> c(k) < MaxDevices
  BY <1>13
<1>15. ASSUME NEW k \in 0 .. n - 1
       PROVE  /\ dev(k + 1) \in sent(k) \/ Cardinality(sent(k)) < MaxDevices =>
                   sent(k + 1) = sent(k) \cup {dev(k + 1)}
              /\ dev(k + 1) \notin sent(k) /\ Cardinality(sent(k)) >= MaxDevices =>
                   sent(k + 1) = sent(k)
              /\ dev(k + 1) \notin sent(k) /\ Cardinality(sent(k)) < MaxDevices =>
                   \A j \in 1 .. k : dev(j) # dev(k + 1)
  <2>1. c(k) \in Nat /\ Cardinality(sent(k)) \in Nat
        /\ (Cardinality(sent(k)) < MaxDevices <=> c(k) < MaxDevices)
    <3>1. k \in 0 .. n
      OBVIOUS
    <3> QED
      BY <1>13, <1>14, <3>1
  <2>2. Cardinality(sent(k)) >= MaxDevices <=> c(k) >= MaxDevices
    BY <2>1
  <2>3. ~(c(k) > MaxDevices /\ c(k) < MaxDevices)
    BY <2>1
  <2>4. CASE k + 1 \notin F
    <3>1. sent(k + 1) = sent(k) /\ (dev(k + 1) \notin sent(k) => c(k) > MaxDevices)
      BY <1>8, <2>4
    <3> QED
      BY <2>1, <2>3, <3>1
  <2>5. CASE k + 1 \in F
    <3>1. /\ dev(k + 1) \notin sent(k)
          /\ \A j \in 1 .. k : dev(j) # dev(k + 1)
          /\ c(k) < MaxDevices => sent(k + 1) = sent(k) \cup {dev(k + 1)}
          /\ c(k) >= MaxDevices => sent(k + 1) = sent(k)
      BY <1>9, <2>5
    <3> QED
      BY <2>1, <2>2, <3>1
  <2> QED
    BY <2>4, <2>5
<1> HIDE DEF size
<1> QED
  BY <1>10, <1>14, <1>15 DEF sent, dev

-----------------------------------------------------------------------------
(* The rows of a payload.                                                  *)

UptimeLine == Line("UPTIME", "", <<>>)
Uptime == Appended(<<>>, <<UptimeLine>>)
Before == [lines |-> Uptime, open |-> TRUE, devices |-> <<>>, signal |-> <<>>]

\* What the first loop has made of the first rows.
After(rows) ==
  CHOOSE g : g = [n \in 0 .. Len(rows) |-> IF n = 0 THEN Before ELSE MetricWritten(g[n - 1], rows[n])]

LEMMA AfterIs ==
  ASSUME NEW rows, Len(rows) \in Nat
  PROVE  /\ After(rows)[0] = Before
         /\ \A k \in 0 .. Len(rows) - 1 : After(rows)[k + 1] = MetricWritten(After(rows)[k], rows[k + 1])
<1> DEFINE L == Len(rows)
           Step(g, n) == IF n = 0 THEN Before ELSE MetricWritten(g[n - 1], rows[n])
           Solves(g, n) == g = [k \in 0 .. n |-> Step(g, k)]
           S == {n \in Nat : \E g : Solves(g, n)}
<1>1. 0 \in S
  <2> DEFINE g == [k \in 0 .. 0 |-> Before]
  <2>1. \A k \in 0 .. 0 : k = 0
    OBVIOUS
  <2>2. Solves(g, 0)
    BY <2>1
  <2> HIDE DEF g, Solves
  <2> QED
    BY <2>2
<1>2. ASSUME NEW n \in Nat, n < L, n \in S PROVE n + 1 \in S
  <2>1. PICK g : Solves(g, n)
    BY <1>2
  <2> DEFINE h == [k \in 0 .. n + 1 |-> Step(g, k)]
  <2>2. ASSUME NEW k \in 0 .. n + 1 PROVE Step(h, k) = Step(g, k)
    <3>1. CASE k # 0
      <4>1. k - 1 \in 0 .. n /\ k - 1 \in 0 .. n + 1
        BY <3>1
      <4>2. h[k - 1] = Step(g, k - 1) /\ g[k - 1] = Step(g, k - 1)
        BY <2>1, <4>1
      <4> HIDE DEF h
      <4> QED
        BY <4>2
    <3> QED
      BY <3>1
  <2>3. Solves(h, n + 1)
    <3> HIDE DEF h
    <3>1. h = [k \in 0 .. n + 1 |-> Step(g, k)]
      BY DEF h
    <3> HIDE DEF Step
    <3> QED
      BY <2>2, <3>1
  <2>4. n + 1 \in Nat
    OBVIOUS
  <2> HIDE DEF h, Solves
  <2> QED
    BY <2>3, <2>4
<1>3. L \in S
  <2>1. L \in 0 .. L
    OBVIOUS
  <2> HIDE DEF S, L
  <2>2. L \in Nat
    BY DEF L
  <2> QED
    BY <1>1, <1>2, <2>1, <2>2, Upward
<1> DEFINE f == After(rows)
<1>4. Solves(f, L)
  BY <1>3 DEF After
<1> HIDE DEF f
<1>5. \A k \in 0 .. L : f[k] = Step(f, k)
  BY <1>4
<1>6. 0 \in 0 .. L /\ \A k \in 0 .. L - 1 : k + 1 \in 0 .. L /\ k + 1 # 0 /\ (k + 1) - 1 = k
  OBVIOUS
<1>7. f[0] = Before
  BY <1>5, <1>6
<1>8. ASSUME NEW k \in 0 .. L - 1 PROVE f[k + 1] = MetricWritten(f[k], rows[k + 1])
  <2>1. PICK m : m = k + 1
    OBVIOUS
  <2>2. m \in 0 .. L /\ m # 0 /\ m - 1 = k
    BY <1>6, <2>1
  <2>3. f[m] = MetricWritten(f[m - 1], rows[m])
    BY <1>5, <2>2
  <2> QED
    BY <2>1, <2>2, <2>3
<1> QED
  BY <1>7, <1>8 DEF f

\* The payload, in terms of the last of them.
Signals(acc) ==
  [k \in DOMAIN acc.devices |-> Line("SIGNAL", acc.devices[k], acc.signal[acc.devices[k]])]

LEMMA PayloadIs ==
  ASSUME NEW rows
  PROVE  LET metrics == After(rows)[Len(rows)]
         IN  measurement_store_build_narodmon_payload(rows) =
               IF Uptime = <<>> \/ metrics.lines = Uptime THEN <<>>
               ELSE Appended(metrics.lines, Signals(metrics))
BY DEF measurement_store_build_narodmon_payload, After, Before, Uptime, UptimeLine, Signals

RowsOk(rows) ==
  /\ Len(rows) \in Nat
  /\ DOMAIN rows = 1 .. Len(rows)
  /\ \A k \in DOMAIN rows : rows[k].series \in Series /\ rows[k].count \in Nat
  /\ \A j, k \in DOMAIN rows : rows[j].series = rows[k].series => j = k

Metrics == {"TEMP", "RH", "MB2BAT"}

\* The metric of a row tells the field, but for that of the two sources' temperatures.
LEMMA MetricIs ==
  ASSUME NEW row, row.series \in Series
  PROVE  Metric(row) \in Metrics
BY SeriesAssumption DEF Metric, Metrics, Series

LEMMA MetricTells ==
  ASSUME DistinctIds, NEW row, NEW other, row.series \in Series, other.series \in Series,
         row.series[1] = other.series[1], Metric(row) = Metric(other)
  PROVE  row.series = other.series
<1> DEFINE s == row.series
           r == other.series
<1>1. \/ s \in BleSeries /\ r \in BleSeries
      \/ s \in OneWireSeries /\ r \in OneWireSeries
  BY DEF DistinctIds, Series
<1>2. s = <<s[1], s[2]>> /\ r = <<r[1], r[2]>>
  BY SeriesAssumption, <1>1
<1>3. s[2] = r[2]
  <2>1. CASE s \in OneWireSeries /\ r \in OneWireSeries
    BY SeriesAssumption, <2>1
  <2>2. CASE s \in BleSeries /\ r \in BleSeries
    <3>1. s[2] \in {"battery", "temperature", "humidity"} /\ r[2] \in {"battery", "temperature", "humidity"}
      BY SeriesAssumption, <2>2
    <3> QED
      BY <3>1 DEF Metric
  <2> QED
    BY <1>1, <2>1, <2>2
<1> QED
  BY <1>2, <1>3
-----------------------------------------------------------------------------
(* The rows that are written, and the length of their lines.               *)

RowLine(rows, k) == Line(Metric(rows[k]), DeviceOf(rows, k), <<rows[k].sum, rows[k].count>>)

Written(rows, k) == {j \in 1 .. k : DeviceOf(rows, j) \in SentBy(rows, k)}

\* The devices with a row of a metric that is written.
With(rows, k, m) == {DeviceOf(rows, j) : j \in {i \in Written(rows, k) : Metric(rows[i]) = m}}

Size(rows, k) ==
  LineLength["UPTIME"] + LineLength["TEMP"] * Cardinality(With(rows, k, "TEMP"))
    + LineLength["RH"] * Cardinality(With(rows, k, "RH"))
    + LineLength["MB2BAT"] * Cardinality(With(rows, k, "MB2BAT"))

\* The next row is written unless its device is left out.
HasRoom(rows, k) ==
  DeviceOf(rows, k + 1) \in SentBy(rows, k) \/ Cardinality(SentBy(rows, k)) < MaxDevices

LEMMA WrittenIs ==
  ASSUME NEW rows, RowsOk(rows), MaxDevices \in Nat, NEW k \in 0 .. Len(rows) - 1
  PROVE  /\ HasRoom(rows, k) =>
              /\ SentBy(rows, k + 1) = SentBy(rows, k) \cup {DeviceOf(rows, k + 1)}
              /\ Written(rows, k + 1) = Written(rows, k) \cup {k + 1}
         /\ ~HasRoom(rows, k) =>
              /\ SentBy(rows, k + 1) = SentBy(rows, k)
              /\ Written(rows, k + 1) = Written(rows, k)
<1> DEFINE d == DeviceOf(rows, k + 1)
           sent == SentBy(rows, k)
           next == SentBy(rows, k + 1)
<1>1. Len(rows) \in Nat /\ DOMAIN rows = 1 .. Len(rows)
  BY DEF RowsOk
<1>2. PICK n \in Nat : n = Len(rows)
  BY <1>1
<1>3. /\ d \in sent \/ Cardinality(sent) < MaxDevices => next = sent \cup {d}
      /\ d \notin sent /\ Cardinality(sent) >= MaxDevices => next = sent
      /\ d \notin sent /\ Cardinality(sent) < MaxDevices => \A j \in 1 .. k : DeviceOf(rows, j) # d
      /\ Cardinality(sent) \in Nat
  <2>1. DOMAIN rows = 1 .. n /\ k \in 0 .. n - 1 /\ k \in 0 .. n
    BY <1>1, <1>2
  <2> QED
    BY <2>1, SentIs
<1>4. ~(d \in sent \/ Cardinality(sent) < MaxDevices) => d \notin sent /\ Cardinality(sent) >= MaxDevices
  BY <1>3
<1>5. \A j \in Int : j \in 1 .. k + 1 <=> j \in 1 .. k \/ j = k + 1
  OBVIOUS
<1>6. k + 1 \in Int /\ 1 .. k \subseteq Int /\ 1 .. k + 1 \subseteq Int
  OBVIOUS
<1> HIDE DEF d, sent, next
<1>7. ASSUME HasRoom(rows, k)
      PROVE  next = sent \cup {d} /\ Written(rows, k + 1) = Written(rows, k) \cup {k + 1}
  <2>1. next = sent \cup {d}
    BY <1>3, <1>7 DEF HasRoom, d, sent
  <2>2. ASSUME NEW j \in 1 .. k PROVE DeviceOf(rows, j) \in next <=> DeviceOf(rows, j) \in sent
    <3>1. DeviceOf(rows, j) = d => d \in sent
      BY <1>3, <1>7 DEF HasRoom, d, sent
    <3> QED
      BY <2>1, <3>1
  <2>3. d \in next /\ d = DeviceOf(rows, k + 1)
    BY <2>1 DEF d
  <2>4. Written(rows, k + 1) = {j \in 1 .. k + 1 : DeviceOf(rows, j) \in next}
        /\ Written(rows, k) = {j \in 1 .. k : DeviceOf(rows, j) \in sent}
    BY DEF Written, next, sent
  <2>5. Written(rows, k + 1) = Written(rows, k) \cup {k + 1}
    BY <1>5, <1>6, <2>2, <2>3, <2>4
  <2> QED
    BY <2>1, <2>5
<1>8. ASSUME ~HasRoom(rows, k)
      PROVE  next = sent /\ Written(rows, k + 1) = Written(rows, k)
  <2>1. next = sent /\ d \notin sent
    BY <1>3, <1>4, <1>8 DEF HasRoom, d, sent
  <2>2. Written(rows, k + 1) = {j \in 1 .. k + 1 : DeviceOf(rows, j) \in sent}
        /\ Written(rows, k) = {j \in 1 .. k : DeviceOf(rows, j) \in sent}
    BY <2>1 DEF Written, next, sent
  <2>3. DeviceOf(rows, k + 1) \notin sent
    BY <2>1 DEF d
  <2> QED
    BY <1>5, <1>6, <2>1, <2>2, <2>3
<1> QED
  BY <1>7, <1>8 DEF d, next, sent

\* A device is written at most once under each metric.
LEMMA WithIs ==
  ASSUME DistinctIds, NEW rows, RowsOk(rows), MaxDevices \in Nat, NEW k \in 0 .. Len(rows) - 1,
         HasRoom(rows, k)
  PROVE  LET d == DeviceOf(rows, k + 1)
             m == Metric(rows[k + 1])
         IN  /\ With(rows, k + 1, m) = With(rows, k, m) \cup {d} /\ d \notin With(rows, k, m)
             /\ \A o : o # m => With(rows, k + 1, o) = With(rows, k, o)
<1> DEFINE d == DeviceOf(rows, k + 1)
           m == Metric(rows[k + 1])
<1>1. Written(rows, k + 1) = Written(rows, k) \cup {k + 1}
  BY WrittenIs
<1>2. With(rows, k + 1, m) = With(rows, k, m) \cup {d}
  BY <1>1 DEF With
<1>3. \A o : o # m => With(rows, k + 1, o) = With(rows, k, o)
  BY <1>1 DEF With
<1>4. ASSUME NEW j \in Written(rows, k), Metric(rows[j]) = m, DeviceOf(rows, j) = d PROVE FALSE
  <2>1. j \in 1 .. k
    BY DEF Written
  <2>2. Len(rows) \in Nat /\ DOMAIN rows = 1 .. Len(rows)
    BY DEF RowsOk
  <2>3. j \in DOMAIN rows /\ k + 1 \in DOMAIN rows /\ j # k + 1
    BY <2>1, <2>2
  <2>4. rows[j].series \in Series /\ rows[k + 1].series \in Series
    BY <2>3 DEF RowsOk
  <2>5. rows[j].series[1] = rows[k + 1].series[1]
    BY <1>4 DEF DeviceOf
  <2>6. rows[j].series = rows[k + 1].series
    BY <1>4, <2>4, <2>5, MetricTells
  <2> QED
    BY <2>3, <2>6 DEF RowsOk
<1>5. d \notin With(rows, k, m)
  BY <1>4 DEF With
<1> QED
  BY <1>2, <1>3, <1>5

\* No more devices are written under a metric than there is room for.
LEMMA WithFits ==
  ASSUME NEW rows, RowsOk(rows), MaxDevices \in Nat, NEW k \in 0 .. Len(rows), NEW m
  PROVE  /\ IsFiniteSet(With(rows, k, m)) /\ Cardinality(With(rows, k, m)) \in Nat
         /\ Cardinality(With(rows, k, m)) <= MaxDevices
<1>1. PICK n \in Nat : n = Len(rows) /\ DOMAIN rows = 1 .. n
  BY DEF RowsOk
<1>2. PICK c \in Nat : IsFiniteSet(SentBy(rows, k)) /\ c = Cardinality(SentBy(rows, k)) /\ c <= MaxDevices
  <2>1. k \in 0 .. n
    BY <1>1
  <2> QED
    BY <1>1, <2>1, SentIs
<1>3. With(rows, k, m) \subseteq SentBy(rows, k)
  BY DEF With, Written
<1>4. PICK e : e = Cardinality(With(rows, k, m))
  OBVIOUS
<1>5. IsFiniteSet(With(rows, k, m)) /\ e <= c
  BY <1>2, <1>3, <1>4, FS_Subset
<1>6. e \in Nat
  BY <1>4, <1>5, FS_CardinalityType
<1>7. e <= MaxDevices
  BY <1>2, <1>5, <1>6
<1> QED
  BY <1>4, <1>5, <1>6, <1>7

LEMMA SizeIs ==
  ASSUME DistinctIds, NEW rows, RowsOk(rows), MaxDevices \in Nat, NEW k \in 0 .. Len(rows) - 1
  PROVE  /\ HasRoom(rows, k) =>
              Size(rows, k + 1) = Size(rows, k) + LineLength[Metric(rows[k + 1])]
         /\ ~HasRoom(rows, k) => Size(rows, k + 1) = Size(rows, k)
<1> DEFINE c(o) == Cardinality(With(rows, k, o))
           e(o) == Cardinality(With(rows, k + 1, o))
           m == Metric(rows[k + 1])
<1>1. \A o : IsFiniteSet(With(rows, k, o)) /\ c(o) \in Nat
  <2>1. k \in 0 .. Len(rows)
    BY DEF RowsOk
  <2> QED
    BY <2>1, WithFits
<1>2. ASSUME HasRoom(rows, k) PROVE e(m) = c(m) + 1 /\ \A o : o # m => e(o) = c(o)
  <2>1. /\ With(rows, k + 1, m) = With(rows, k, m) \cup {DeviceOf(rows, k + 1)}
        /\ DeviceOf(rows, k + 1) \notin With(rows, k, m)
        /\ \A o : o # m => With(rows, k + 1, o) = With(rows, k, o)
    BY <1>2, WithIs
  <2>2. IsFiniteSet(With(rows, k, m))
    BY <1>1
  <2>3. e(m) = c(m) + 1
    BY <2>1, <2>2, FS_AddElement
  <2> QED
    BY <2>1, <2>3
<1>3. ASSUME ~HasRoom(rows, k) PROVE Size(rows, k + 1) = Size(rows, k)
  <2>1. Written(rows, k + 1) = Written(rows, k)
    BY <1>3, WrittenIs
  <2> QED
    BY <2>1 DEF Size, With
<1>4. m \in Metrics
  <2>1. k + 1 \in DOMAIN rows
    BY DEF RowsOk
  <2> QED
    BY <2>1, MetricIs DEF RowsOk
<1> HIDE DEF c, e, m
<1>5. PICK u \in Nat, t \in Nat, h \in Nat, b \in Nat :
        u = LineLength["UPTIME"] /\ t = LineLength["TEMP"] /\ h = LineLength["RH"] /\ b = LineLength["MB2BAT"]
  BY LineLengths
<1>6. /\ Size(rows, k) = u + t * c("TEMP") + h * c("RH") + b * c("MB2BAT")
      /\ Size(rows, k + 1) = u + t * e("TEMP") + h * e("RH") + b * e("MB2BAT")
  BY <1>5 DEF Size, c, e
<1>7. c("TEMP") \in Nat /\ c("RH") \in Nat /\ c("MB2BAT") \in Nat
  BY <1>1 DEF c
<1>8. /\ t * (c("TEMP") + 1) = t * c("TEMP") + t /\ t * c("TEMP") \in Nat
      /\ h * (c("RH") + 1) = h * c("RH") + h /\ h * c("RH") \in Nat
      /\ b * (c("MB2BAT") + 1) = b * c("MB2BAT") + b /\ b * c("MB2BAT") \in Nat
  BY <1>7, NextProduct
<1>9. PICK tx \in Nat, hy \in Nat, bz \in Nat :
         /\ tx = t * c("TEMP") /\ hy = h * c("RH") /\ bz = b * c("MB2BAT")
         /\ Size(rows, k) = u + tx + hy + bz
         /\ t * (c("TEMP") + 1) = tx + t /\ h * (c("RH") + 1) = hy + h /\ b * (c("MB2BAT") + 1) = bz + b
  BY <1>6, <1>8
<1>10. ASSUME HasRoom(rows, k) PROVE Size(rows, k + 1) = Size(rows, k) + LineLength[m]
  <2>1. e(m) = c(m) + 1 /\ \A o : o # m => e(o) = c(o)
    BY <1>2, <1>10 DEF c, e, m
  <2>2. CASE m = "TEMP"
    <3>1. e("TEMP") = c("TEMP") + 1 /\ e("RH") = c("RH") /\ e("MB2BAT") = c("MB2BAT") /\ LineLength[m] = t
      BY <1>5, <2>1, <2>2
    <3>2. Size(rows, k + 1) = u + (tx + t) + hy + bz /\ Size(rows, k) = u + tx + hy + bz
      BY <1>6, <1>9, <3>1
    <3>3. u + (tx + t) + hy + bz = (u + tx + hy + bz) + t
      OBVIOUS
    <3> QED
      BY <3>1, <3>2, <3>3
  <2>3. CASE m = "RH"
    <3>1. e("RH") = c("RH") + 1 /\ e("TEMP") = c("TEMP") /\ e("MB2BAT") = c("MB2BAT") /\ LineLength[m] = h
      BY <1>5, <2>1, <2>3
    <3>2. Size(rows, k + 1) = u + tx + (hy + h) + bz /\ Size(rows, k) = u + tx + hy + bz
      BY <1>6, <1>9, <3>1
    <3>3. u + tx + (hy + h) + bz = (u + tx + hy + bz) + h
      OBVIOUS
    <3> QED
      BY <3>1, <3>2, <3>3
  <2>4. CASE m = "MB2BAT"
    <3>1. e("MB2BAT") = c("MB2BAT") + 1 /\ e("TEMP") = c("TEMP") /\ e("RH") = c("RH") /\ LineLength[m] = b
      BY <1>5, <2>1, <2>4
    <3>2. Size(rows, k + 1) = u + tx + hy + (bz + b) /\ Size(rows, k) = u + tx + hy + bz
      BY <1>6, <1>9, <3>1
    <3>3. u + tx + hy + (bz + b) = (u + tx + hy + bz) + b
      OBVIOUS
    <3> QED
      BY <3>1, <3>2, <3>3
  <2> QED
    BY <1>4, <2>2, <2>3, <2>4 DEF Metrics
<1> QED
  BY <1>3, <1>10 DEF m

\* The lines of MaxDevices devices, their signals and a trailer have room.
LEMMA LinesFit ==
  ASSUME NEW rows, RowsOk(rows), MaxDevices \in Nat, NEW k \in 0 .. Len(rows),
         NEW s \in Nat, s <= MaxDevices
  PROVE  /\ Size(rows, k) \in Nat
         /\ LineLength["header"] + (Size(rows, k) + LineLength["SIGNAL"] * s) + LineLength["trailer"] + 1
              <= PayloadSize
<1>1. PICK z \in Nat, h \in Nat, u \in Nat, t \in Nat, r \in Nat, b \in Nat, g \in Nat, p \in Nat :
        /\ h = LineLength["header"] /\ z = LineLength["trailer"] /\ u = LineLength["UPTIME"]
        /\ t = LineLength["TEMP"] /\ r = LineLength["RH"] /\ b = LineLength["MB2BAT"]
        /\ g = LineLength["SIGNAL"] /\ p = PayloadSize
  BY StoreAssumption, LineLengths
<1>2. PICK M \in Nat, x \in Nat, y \in Nat, w \in Nat :
        /\ M = MaxDevices /\ x <= M /\ y <= M /\ w <= M /\ s <= M
        /\ x = Cardinality(With(rows, k, "TEMP")) /\ y = Cardinality(With(rows, k, "RH"))
        /\ w = Cardinality(With(rows, k, "MB2BAT"))
  BY WithFits
<1>3. Size(rows, k) = u + t * x + r * y + b * w
  BY <1>1, <1>2 DEF Size
<1>4. t * x <= t * M /\ r * y <= r * M /\ b * w <= b * M /\ g * s <= g * M
  BY <1>2, Products
<1>5. h + u + DeviceSize * M + z + 1 <= p
  BY <1>1, <1>2, DevicesHaveRoom
<1>6. DeviceSize * M = t * M + r * M + b * M + g * M
  <2>1. DeviceSize = t + r + b + g
    BY <1>1 DEF DeviceSize
  <2> QED
    BY <2>1
<1>7. PICK tx \in Nat, ry \in Nat, bw \in Nat, gs \in Nat, tM \in Nat, rM \in Nat, bM \in Nat, gM \in Nat :
        /\ tx = t * x /\ ry = r * y /\ bw = b * w /\ gs = g * s
        /\ tM = t * M /\ rM = r * M /\ bM = b * M /\ gM = g * M
  OBVIOUS
<1>8. /\ tx <= tM /\ ry <= rM /\ bw <= bM /\ gs <= gM
      /\ h + u + (tM + rM + bM + gM) + z + 1 <= p
  BY <1>4, <1>5, <1>6, <1>7
<1>9. PICK size \in Nat : size = u + tx + ry + bw
  OBVIOUS
<1>10. h + (size + gs) + z + 1 <= p
  BY <1>8, <1>9
<1>11. Size(rows, k) = size /\ LineLength["SIGNAL"] * s = gs
  BY <1>1, <1>3, <1>7, <1>9
<1>12. LineLength["header"] + (Size(rows, k) + LineLength["SIGNAL"] * s) + LineLength["trailer"] + 1 = h + (size + gs) + z + 1
  BY <1>1, <1>11
<1> HIDE DEF Size
<1> QED
  BY <1>1, <1>9, <1>10, <1>11, <1>12
-----------------------------------------------------------------------------
(* What the first loop has written.                                        *)

Devices(rows) == {DeviceOf(rows, k) : k \in DOMAIN rows}

SignalLine(d, count) == Line("SIGNAL", d, count)

AllLines(rows) ==
  {UptimeLine} \cup {RowLine(rows, k) : k \in DOMAIN rows}
    \cup {SignalLine(d, count) : d \in Devices(rows), count \in Nat}

\* The lines, devices and counts after the first k rows.
LinesOk(rows, k, lines) ==
  /\ lines \in Seq(AllLines(rows))
  /\ ToSet(lines) = {UptimeLine} \cup {RowLine(rows, j) : j \in Written(rows, k)}
  /\ TextLength(lines) = Size(rows, k)

DevicesOk(rows, k, devices) ==
  /\ devices \in Seq(Devices(rows))
  /\ ToSet(devices) = SentBy(rows, k)
  /\ Len(devices) = Cardinality(SentBy(rows, k))

\* The greatest count of a device's rows.
CountOf(rows, k, d, count) ==
  /\ \E j \in 1 .. k : DeviceOf(rows, j) = d /\ count = rows[j].count
  /\ \A j \in 1 .. k : DeviceOf(rows, j) = d => rows[j].count <= count

SignalOk(rows, k, signal) ==
  /\ DOMAIN signal = SentBy(rows, k)
  /\ \A d \in SentBy(rows, k) : CountOf(rows, k, d, signal[d])

Loop(lines, devices, signal) ==
  [lines |-> lines, open |-> TRUE, devices |-> devices, signal |-> signal]

LEMMA AppendIs ==
  ASSUME NEW T, NEW s \in Seq(T), NEW x \in T
  PROVE  /\ Append(s, x) \in Seq(T) /\ Len(Append(s, x)) = Len(s) + 1
         /\ ToSet(Append(s, x)) = ToSet(s) \cup {x}
<1>1. /\ Append(s, x) \in Seq(T) /\ Len(Append(s, x)) = Len(s) + 1 /\ Len(s) \in Nat
      /\ \A k \in 1 .. Len(s) : Append(s, x)[k] = s[k]
      /\ Append(s, x)[Len(s) + 1] = x
  OBVIOUS
<1>2. DOMAIN s = 1 .. Len(s) /\ DOMAIN Append(s, x) = 1 .. Len(s) + 1
  BY <1>1
<1>3. \A k : k \in 1 .. Len(s) + 1 <=> k \in 1 .. Len(s) \/ k = Len(s) + 1
  BY <1>1
<1>4. ToSet(Append(s, x)) = {Append(s, x)[k] : k \in 1 .. Len(s) + 1}
  BY <1>2 DEF ToSet
<1>5. ToSet(s) = {s[k] : k \in 1 .. Len(s)}
  BY <1>2 DEF ToSet
<1>6. ASSUME NEW y PROVE y \in ToSet(Append(s, x)) <=> y \in ToSet(s) \cup {x}
  <2>1. y \in ToSet(Append(s, x)) => y \in ToSet(s) \cup {x}
    BY <1>1, <1>3, <1>4, <1>5
  <2>2. y \in ToSet(s) \cup {x} => y \in ToSet(Append(s, x))
    BY <1>1, <1>3, <1>4, <1>5
  <2> QED
    BY <2>1, <2>2
<1> QED
  BY <1>1, <1>6

LEMMA LinesAre ==
  ASSUME NEW rows, RowsOk(rows)
  PROVE  /\ AreLines(AllLines(rows)) /\ UptimeLine \in AllLines(rows)
         /\ \A k \in DOMAIN rows : RowLine(rows, k) \in AllLines(rows) /\ RowLine(rows, k).kind = Metric(rows[k])
         /\ UptimeLine.kind = "UPTIME"
<1>1. \A k \in DOMAIN rows : Metric(rows[k]) \in Metrics
  BY MetricIs DEF RowsOk
<1>2. \A k \in DOMAIN rows : RowLine(rows, k).kind = Metric(rows[k])
  BY DEF RowLine, Line
<1>3. UptimeLine.kind = "UPTIME" /\ \A d, c : SignalLine(d, c).kind = "SIGNAL"
  BY DEF UptimeLine, SignalLine, Line
<1>4. "UPTIME" \in Kinds /\ "SIGNAL" \in Kinds /\ Metrics \subseteq Kinds
  BY LineLengths DEF Metrics
<1>5. AreLines(AllLines(rows))
  BY <1>1, <1>2, <1>3, <1>4 DEF AreLines, AllLines
<1> QED
  BY <1>2, <1>3, <1>5 DEF AllLines

\* The line of the time since the boot always fits.
LEMMA UptimeIs ==
  ASSUME NEW rows, RowsOk(rows), MaxDevices \in Nat
  PROVE  Uptime = <<UptimeLine>> /\ LinesOk(rows, 0, Uptime)
<1> DEFINE T == AllLines(rows)
<1>1. AreLines(T) /\ UptimeLine \in T /\ UptimeLine.kind = "UPTIME"
  BY LinesAre
<1> HIDE DEF T
<1>2. <<>> \in Seq(T) /\ <<UptimeLine>> \in Seq(T) /\ Len(<<UptimeLine>>) = 1 /\ <<UptimeLine>>[1] = UptimeLine
  BY <1>1
<1>3. TextLength(<<>>) = 0 /\ TextLength(<<UptimeLine>>) = LineLength["UPTIME"]
  <2>1. TextLength(<<>>) = 0 /\ TextLength(Append(<<>>, UptimeLine)) = TextLength(<<>>) + LineLength["UPTIME"]
    BY <1>1, <1>2, TextLengthIs
  <2>2. Append(<<>>, UptimeLine) = <<UptimeLine>> /\ LineLength["UPTIME"] \in Nat
    BY LineLengths
  <2> QED
    BY <2>1, <2>2
<1>4. /\ Written(rows, 0) = {} /\ Size(rows, 0) = LineLength["UPTIME"]
  <2>1. Written(rows, 0) = {}
    BY DEF Written
  <2>2. \A m : With(rows, 0, m) = {}
    BY <2>1 DEF With
  <2>3. \A x \in Nat : x * 0 = 0
    OBVIOUS
  <2>4. Cardinality({}) = 0
    BY FS_EmptySet
  <2>5. Size(rows, 0) = LineLength["UPTIME"]
    <3>1. PICK u \in Nat, t \in Nat, r \in Nat, b \in Nat :
            /\ u = LineLength["UPTIME"] /\ t = LineLength["TEMP"] /\ r = LineLength["RH"]
            /\ b = LineLength["MB2BAT"]
      BY LineLengths
    <3>2. t * 0 = 0 /\ r * 0 = 0 /\ b * 0 = 0 /\ u + 0 + 0 + 0 = u
      BY <2>3
    <3>3. Size(rows, 0) = u + t * 0 + r * 0 + b * 0
      BY <2>2, <2>4, <3>1 DEF Size
    <3> QED
      BY <3>1, <3>2, <3>3
  <2> QED
    BY <2>1, <2>5
<1>5. Fits(<<>>, UptimeLine)
  <2>1. 0 \in 0 .. Len(rows) /\ 0 \in Nat /\ 0 <= MaxDevices
    BY DEF RowsOk
  <2>2. LineLength["header"] + (Size(rows, 0) + LineLength["SIGNAL"] * 0) + LineLength["trailer"] + 1 <= PayloadSize
    BY <2>1, LinesFit
  <2>3. PICK h \in Nat, u \in Nat, z \in Nat, g \in Nat, p \in Nat :
          /\ h = LineLength["header"] /\ u = LineLength["UPTIME"] /\ z = LineLength["trailer"]
          /\ g = LineLength["SIGNAL"] /\ p = PayloadSize
    BY LineLengths, StoreAssumption
  <2>4. h + 0 + u < p
    BY <1>4, <2>2, <2>3
  <2> QED
    BY <1>1, <1>3, <2>3, <2>4 DEF Fits
<1>6. Uptime = <<UptimeLine>>
  <2> DEFINE more == <<UptimeLine>>
  <2>1. \A k \in 1 .. Len(more) : k = 1 /\ more[k] = UptimeLine
    BY <1>2
  <2>2. SubSeq(more, 1, 1 - 1) = <<>> /\ <<>> \o <<>> = <<>>
    BY <1>2, SubSeqEmpty
  <2>3. \A k \in 1 .. Len(more) : Fits(<<>> \o SubSeq(more, 1, k - 1), more[k])
    BY <1>5, <2>1, <2>2
  <2>4. Appended(<<>>, more) = <<>> \o more
    <3> HIDE DEF more
    <3>1. more \in Seq(T)
      BY <1>2 DEF more
    <3> QED
      BY <1>2, <2>3, <3>1, AppendsAll
  <2>5. <<>> \o more = more
    BY <1>2, ConcatEmptySeq
  <2> QED
    BY <2>4, <2>5 DEF Uptime
<1>7. ToSet(<<UptimeLine>>) = {UptimeLine}
  BY <1>2 DEF ToSet
<1> QED
  BY <1>2, <1>3, <1>4, <1>6, <1>7 DEF LinesOk, T

\* A row more: its device is left out, its line does not fit, or it is written.
LEMMA MetricLeftOut ==
  ASSUME NEW lines, NEW devices, NEW signal, NEW row, LeftOut(devices, row.series[1])
  PROVE  MetricWritten(Loop(lines, devices, signal), row) = Loop(lines, devices, signal)
<1>1. Loop(lines, devices, signal).devices = devices
  BY DEF Loop
<1> QED
  BY <1>1 DEF MetricWritten

MoreDevices(devices, d) == IF d \in ToSet(devices) THEN devices ELSE Append(devices, d)

MoreSignal(devices, signal, d, count) ==
  LET old(e) == IF e \in DOMAIN signal THEN signal[e] ELSE 0
  IN  [e \in ToSet(MoreDevices(devices, d)) |-> IF e = d THEN Max({old(e), count}) ELSE old(e)]

LEMMA MetricIsWritten ==
  ASSUME NEW lines, NEW devices, NEW signal, NEW row, NEW d, d = row.series[1],
         NEW line, line = Line(Metric(row), d, <<row.sum, row.count>>),
         ~LeftOut(devices, d), Fits(lines, line)
  PROVE  MetricWritten(Loop(lines, devices, signal), row) =
           Loop(Append(lines, line), MoreDevices(devices, d), MoreSignal(devices, signal, d, row.count))
<1> DEFINE acc == Loop(lines, devices, signal)
           more == MoreDevices(devices, d)
           new == MoreSignal(devices, signal, d, row.count)
           Fields == {"lines", "open", "devices", "signal"}
<1>1. acc.lines = lines /\ acc.open = TRUE /\ acc.devices = devices /\ acc.signal = signal
  BY DEF Loop
<1> HIDE DEF acc
<1>2. DOMAIN acc = Fields
  BY DEF Loop, acc
<1>3. MetricWritten(acc, row) = [acc EXCEPT !.lines = Append(@, line), !.devices = more, !.signal = new]
  BY <1>1 DEF MetricWritten, MoreDevices, MoreSignal
<1> HIDE DEF more, new
<1> DEFINE next == [acc EXCEPT !.lines = Append(@, line), !.devices = more, !.signal = new]
<1>4. DOMAIN next = Fields /\ next = [x \in DOMAIN next |-> next[x]]
  BY <1>2
<1>5. next.open = TRUE /\ next.lines = Append(lines, line) /\ next.devices = more /\ next.signal = new
  BY <1>1, <1>2
<1>6. MetricWritten(acc, row) = next
  BY <1>3
<1> HIDE DEF next
<1>7. next = Loop(Append(lines, line), more, new)
  BY <1>4, <1>5 DEF Loop
<1> QED
  BY <1>6, <1>7 DEF acc, more, new

LoopOk(rows, k, acc) ==
  \E lines, devices, signal :
    /\ acc = Loop(lines, devices, signal)
    /\ LinesOk(rows, k, lines) /\ DevicesOk(rows, k, devices) /\ SignalOk(rows, k, signal)

\* A row whose device is left out changes nothing.
LEMMA RowLeftOut ==
  ASSUME DistinctIds, NEW rows, RowsOk(rows), MaxDevices \in Nat, NEW k \in 0 .. Len(rows) - 1,
         ~HasRoom(rows, k), NEW acc, LoopOk(rows, k, acc)
  PROVE  LoopOk(rows, k + 1, MetricWritten(acc, rows[k + 1]))
<1> DEFINE d == DeviceOf(rows, k + 1)
<1>1. PICK lines, devices, signal :
        /\ acc = Loop(lines, devices, signal)
        /\ LinesOk(rows, k, lines) /\ DevicesOk(rows, k, devices) /\ SignalOk(rows, k, signal)
  BY DEF LoopOk
<1>2. /\ SentBy(rows, k + 1) = SentBy(rows, k) /\ Written(rows, k + 1) = Written(rows, k)
      /\ Size(rows, k + 1) = Size(rows, k)
  BY SizeIs, WrittenIs
<1>3. Cardinality(SentBy(rows, k)) \in Nat
  <2>1. PICK n \in Nat : n = Len(rows) /\ DOMAIN rows = 1 .. n
    BY DEF RowsOk
  <2>2. k \in 0 .. n
    BY <2>1
  <2> QED
    BY <2>1, <2>2, SentIs
<1>4. d \notin ToSet(devices) /\ Len(devices) >= MaxDevices
  BY <1>1, <1>3 DEF DevicesOk, HasRoom
<1>5. MetricWritten(acc, rows[k + 1]) = acc
  <2>1. PICK row : row = rows[k + 1]
    OBVIOUS
  <2>2. LeftOut(devices, row.series[1])
    BY <1>4, <2>1 DEF LeftOut, DeviceOf
  <2>3. MetricWritten(Loop(lines, devices, signal), row) = Loop(lines, devices, signal)
    BY <2>2, MetricLeftOut
  <2> QED
    BY <1>1, <2>1, <2>3
<1>6. LinesOk(rows, k + 1, lines) /\ DevicesOk(rows, k + 1, devices)
  BY <1>1, <1>2 DEF LinesOk, DevicesOk
<1>7. SignalOk(rows, k + 1, signal)
  <2>1. DOMAIN signal = SentBy(rows, k + 1) /\ \A e \in SentBy(rows, k) : CountOf(rows, k, e, signal[e])
    BY <1>1, <1>2 DEF SignalOk
  <2>2. d \notin SentBy(rows, k) /\ d = DeviceOf(rows, k + 1)
    BY <1>1, <1>4 DEF DevicesOk
  <2>3. \A j \in 1 .. k + 1 : j \in 1 .. k \/ j = k + 1
    OBVIOUS
  <2>4. \A j \in 1 .. k : j \in 1 .. k + 1
    OBVIOUS
  <2>5. \A e \in SentBy(rows, k) : CountOf(rows, k + 1, e, signal[e])
    BY <2>1, <2>2, <2>3, <2>4 DEF CountOf
  <2> QED
    BY <1>2, <2>1, <2>5 DEF SignalOk
<1> QED
  BY <1>1, <1>5, <1>6, <1>7 DEF LoopOk

\* The count of the row's device, and those of the others.
LEMMA CountIs ==
  ASSUME NEW rows, RowsOk(rows), NEW k \in 0 .. Len(rows) - 1, NEW c,
         \/ CountOf(rows, k, DeviceOf(rows, k + 1), c)
         \/ c = 0 /\ \A j \in 1 .. k : DeviceOf(rows, j) # DeviceOf(rows, k + 1)
  PROVE  CountOf(rows, k + 1, DeviceOf(rows, k + 1), Max({c, rows[k + 1].count}))
<1> DEFINE d == DeviceOf(rows, k + 1)
           r == rows[k + 1].count
<1>1. /\ \A j \in 1 .. k + 1 : j \in 1 .. k \/ j = k + 1
      /\ \A j \in 1 .. k : j \in 1 .. k + 1
      /\ k + 1 \in 1 .. k + 1 /\ 1 .. k + 1 \subseteq DOMAIN rows
  BY DEF RowsOk
<1>2. \A j \in 1 .. k + 1 : rows[j].count \in Nat
  BY <1>1 DEF RowsOk
<1>3. c \in Nat /\ r \in Nat
  <2>1. CASE CountOf(rows, k, d, c)
    <3>1. PICK j \in 1 .. k : c = rows[j].count
      BY <2>1 DEF CountOf
    <3> QED
      BY <1>1, <1>2, <3>1
  <2> QED
    BY <1>1, <1>2, <2>1
<1>4. PICK x : x = Max({c, r})
  OBVIOUS
<1>5. (x = c \/ x = r) /\ x >= c /\ x >= r
  <2> DEFINE T == {c, r}
             n == c + r
  <2>1. T \subseteq Int /\ n \in Int /\ T # {} /\ \A y \in T : y <= n
    BY <1>3
  <2>2. Max(T) \in T /\ \A y \in T : Max(T) >= y
    <3> HIDE DEF T, n
    <3> QED
      BY <2>1, MaxIsGreatest
  <2> QED
    BY <1>4, <2>2
<1> HIDE DEF r, d
<1>6. \E j \in 1 .. k + 1 : DeviceOf(rows, j) = d /\ x = rows[j].count
  <2>1. CASE x = r
    <3>1. x = rows[k + 1].count /\ DeviceOf(rows, k + 1) = d
      BY <2>1 DEF r, d
    <3> QED
      BY <1>1, <3>1
  <2>2. CASE x = c /\ CountOf(rows, k, d, c)
    BY <1>1, <2>2 DEF CountOf
  <2>3. CASE x = c /\ c = 0 /\ x # r
    BY <1>3, <1>5, <2>3
  <2> QED
    BY <1>5, <2>1, <2>2, <2>3 DEF d
<1>7. ASSUME NEW j \in 1 .. k + 1, DeviceOf(rows, j) = d PROVE rows[j].count <= x
  <2>1. CASE j = k + 1
    BY <1>3, <1>5, <2>1 DEF r
  <2>2. CASE j \in 1 .. k
    <3>1. rows[j].count <= c
      BY <1>7, <2>2 DEF CountOf, d
    <3>2. PICK q \in Nat : q = rows[j].count
      BY <1>2
    <3> QED
      BY <1>3, <1>5, <3>1, <3>2
  <2> QED
    BY <1>1, <2>1, <2>2
<1> QED
  BY <1>4, <1>6, <1>7 DEF CountOf, d, r

\* The devices and counts that a row more makes.
LEMMA DevicesNext ==
  ASSUME NEW rows, RowsOk(rows), MaxDevices \in Nat, NEW k \in 0 .. Len(rows) - 1,
         HasRoom(rows, k), NEW devices, DevicesOk(rows, k, devices)
  PROVE  DevicesOk(rows, k + 1, MoreDevices(devices, DeviceOf(rows, k + 1)))
<1> DEFINE d == DeviceOf(rows, k + 1)
           more == MoreDevices(devices, d)
           sent == SentBy(rows, k)
           next == SentBy(rows, k + 1)
<1>1. next = sent \cup {d}
  BY WrittenIs
<1>2. d \in Devices(rows)
  BY DEF Devices, RowsOk
<1>3. devices \in Seq(Devices(rows)) /\ ToSet(devices) = sent /\ Len(devices) = Cardinality(sent)
  BY DEF DevicesOk
<1>4. IsFiniteSet(sent)
  <2>1. PICK n \in Nat : n = Len(rows) /\ DOMAIN rows = 1 .. n
    BY DEF RowsOk
  <2>2. k \in 0 .. n
    BY <2>1
  <2> QED
    BY <2>1, <2>2, SentIs
<1> HIDE DEF d, sent, next
<1>5. CASE d \in sent
  <2>1. more = devices /\ next = sent
    BY <1>1, <1>3, <1>5 DEF MoreDevices
  <2> QED
    BY <1>3, <2>1 DEF DevicesOk, d, sent, next
<1>6. CASE d \notin sent
  <2>1. more = Append(devices, d)
    BY <1>3, <1>6 DEF MoreDevices
  <2>2. /\ more \in Seq(Devices(rows)) /\ Len(more) = Len(devices) + 1
        /\ ToSet(more) = ToSet(devices) \cup {d}
    BY <1>2, <1>3, <2>1, AppendIs
  <2>3. Cardinality(next) = Cardinality(sent) + 1
    BY <1>1, <1>4, <1>6, FS_AddElement
  <2>4. ToSet(more) = next /\ Len(more) = Cardinality(next)
    BY <1>1, <1>3, <2>2, <2>3
  <2> QED
    BY <2>2, <2>4 DEF DevicesOk, d, sent, next
<1> QED
  BY <1>5, <1>6

LEMMA SignalNext ==
  ASSUME NEW rows, RowsOk(rows), MaxDevices \in Nat, NEW k \in 0 .. Len(rows) - 1,
         HasRoom(rows, k), NEW devices, DevicesOk(rows, k, devices),
         NEW signal, SignalOk(rows, k, signal)
  PROVE  SignalOk(rows, k + 1,
                  MoreSignal(devices, signal, DeviceOf(rows, k + 1), rows[k + 1].count))
<1> DEFINE d == DeviceOf(rows, k + 1)
           more == MoreDevices(devices, d)
           sent == SentBy(rows, k)
           next == SentBy(rows, k + 1)
           old(e) == IF e \in DOMAIN signal THEN signal[e] ELSE 0
           new == MoreSignal(devices, signal, d, rows[k + 1].count)
<1>1. next = sent \cup {d} /\ ToSet(more) = next
  <2>1. next = sent \cup {d}
    BY WrittenIs
  <2>2. DevicesOk(rows, k + 1, more)
    BY DevicesNext
  <2> QED
    BY <2>1, <2>2 DEF DevicesOk
<1>2. DOMAIN signal = sent /\ \A e \in sent : CountOf(rows, k, e, signal[e])
  BY DEF SignalOk
<1>3. DOMAIN new = next /\ \A e \in next :
        new[e] = IF e = d THEN Max({old(e), rows[k + 1].count}) ELSE old(e)
  <2> HIDE DEF more
  <2>1. new = [e \in ToSet(more) |-> IF e = d THEN Max({old(e), rows[k + 1].count}) ELSE old(e)]
    BY DEF MoreSignal, more
  <2> HIDE DEF new, old
  <2> QED
    BY <1>1, <2>1
<1>4. CountOf(rows, k + 1, d, new[d])
  <2>1. \/ CountOf(rows, k, d, old(d))
        \/ old(d) = 0 /\ \A j \in 1 .. k : DeviceOf(rows, j) # d
    <3>1. CASE d \in sent
      BY <1>2, <3>1
    <3>2. CASE d \notin sent
      <4>1. PICK n \in Nat : n = Len(rows) /\ DOMAIN rows = 1 .. n
        BY DEF RowsOk
      <4>2. k \in 0 .. n - 1
        BY <4>1
      <4>3. Cardinality(sent) < MaxDevices
        BY <3>2 DEF HasRoom
      <4>4. \A j \in 1 .. k : DeviceOf(rows, j) # d
        BY <3>2, <4>1, <4>2, <4>3, SentIs
      <4> QED
        BY <1>2, <3>2, <4>4
    <3> QED
      BY <3>1, <3>2
  <2>2. PICK c : c = old(d)
    OBVIOUS
  <2>3. CountOf(rows, k + 1, d, Max({c, rows[k + 1].count}))
    BY <2>1, <2>2, CountIs
  <2>4. d \in next
    BY <1>1
  <2>5. new[d] = Max({c, rows[k + 1].count})
    <3> HIDE DEF new, old
    <3> QED
      BY <1>3, <2>2, <2>4
  <2> QED
    BY <2>3, <2>5
<1>5. ASSUME NEW e \in next, e # d PROVE CountOf(rows, k + 1, e, new[e])
  <2>1. e \in sent
    BY <1>1, <1>5
  <2>2. new[e] = signal[e]
    BY <1>2, <1>3, <1>5, <2>1
  <2>3. CountOf(rows, k, e, signal[e])
    BY <1>2, <2>1
  <2>4. \A j \in 1 .. k + 1 : j \in 1 .. k \/ j = k + 1
    OBVIOUS
  <2>5. \A j \in 1 .. k : j \in 1 .. k + 1
    OBVIOUS
  <2>6. CountOf(rows, k + 1, e, signal[e])
    BY <1>5, <2>3, <2>4, <2>5 DEF CountOf
  <2> QED
    BY <2>2, <2>6
<1> HIDE DEF new
<1>6. \A e \in next : CountOf(rows, k + 1, e, new[e])
  BY <1>4, <1>5
<1> QED
  BY <1>3, <1>6 DEF SignalOk, new

LEMMA LinesNext ==
  ASSUME DistinctIds, NEW rows, RowsOk(rows), MaxDevices \in Nat, NEW k \in 0 .. Len(rows) - 1,
         HasRoom(rows, k), NEW lines, LinesOk(rows, k, lines)
  PROVE  Fits(lines, RowLine(rows, k + 1)) /\ LinesOk(rows, k + 1, Append(lines, RowLine(rows, k + 1)))
<1> DEFINE line == RowLine(rows, k + 1)
           T == AllLines(rows)
           m == Metric(rows[k + 1])
<1>1. k + 1 \in DOMAIN rows /\ k + 1 \in 0 .. Len(rows) /\ k \in 0 .. Len(rows)
  BY DEF RowsOk
<1>2. line \in T /\ line.kind = m /\ AreLines(T) /\ m \in Metrics
  BY <1>1, LinesAre, MetricIs DEF RowsOk
<1>3. lines \in Seq(T) /\ TextLength(lines) = Size(rows, k)
  BY DEF LinesOk
<1>4. ToSet(lines) = {UptimeLine} \cup {RowLine(rows, j) : j \in Written(rows, k)}
  BY DEF LinesOk
<1>5. Written(rows, k + 1) = Written(rows, k) \cup {k + 1} /\ Size(rows, k + 1) = Size(rows, k) + LineLength[m]
  BY WrittenIs, SizeIs
<1> HIDE DEF line, T, m
<1>6. /\ Append(lines, line) \in Seq(T) /\ ToSet(Append(lines, line)) = ToSet(lines) \cup {line}
      /\ TextLength(Append(lines, line)) = Size(rows, k) + LineLength[m]
  <2>1. Append(lines, line) \in Seq(T) /\ ToSet(Append(lines, line)) = ToSet(lines) \cup {line}
    BY <1>2, <1>3, AppendIs
  <2>2. TextLength(Append(lines, line)) = TextLength(lines) + LineLength[line.kind]
    BY <1>2, <1>3, TextLengthIs
  <2> QED
    BY <1>2, <1>3, <2>1, <2>2
<1>7. ToSet(Append(lines, line)) = {UptimeLine} \cup {RowLine(rows, j) : j \in Written(rows, k + 1)}
  BY <1>4, <1>5, <1>6 DEF line
<1>8. Fits(lines, line)
  <2>1. PICK size \in Nat, next \in Nat : size = Size(rows, k) /\ next = Size(rows, k + 1)
    <3>1. 0 \in Nat /\ 0 <= MaxDevices
      OBVIOUS
    <3> QED
      BY <1>1, <3>1, LinesFit
  <2>2. PICK h \in Nat, z \in Nat, g \in Nat, p \in Nat, w \in Nat :
          /\ h = LineLength["header"] /\ z = LineLength["trailer"]
          /\ g = LineLength["SIGNAL"] /\ p = PayloadSize /\ w = LineLength[m]
    BY <1>2, LineLengths, StoreAssumption DEF Metrics
  <2>3. LineLength["header"] + (Size(rows, k + 1) + LineLength["SIGNAL"] * 0) + LineLength["trailer"] + 1 <= PayloadSize
    <3>1. 0 \in Nat /\ 0 <= MaxDevices
      OBVIOUS
    <3> QED
      BY <1>1, <3>1, LinesFit
  <2>4. h + (next + g * 0) + z + 1 <= p /\ next = size + w
    BY <1>5, <2>1, <2>2, <2>3
  <2>5. h + size + w < p
    BY <2>4
  <2> QED
    BY <1>2, <1>3, <2>1, <2>2, <2>5 DEF Fits
<1> QED
  BY <1>5, <1>6, <1>7, <1>8 DEF LinesOk, line, T

LEMMA RowWritten ==
  ASSUME DistinctIds, NEW rows, RowsOk(rows), MaxDevices \in Nat, NEW k \in 0 .. Len(rows) - 1,
         HasRoom(rows, k), NEW acc, LoopOk(rows, k, acc)
  PROVE  LoopOk(rows, k + 1, MetricWritten(acc, rows[k + 1]))
<1>1. PICK lines, devices, signal :
        /\ acc = Loop(lines, devices, signal)
        /\ LinesOk(rows, k, lines) /\ DevicesOk(rows, k, devices) /\ SignalOk(rows, k, signal)
  BY DEF LoopOk
<1>2. PICK d, row, line :
        /\ row = rows[k + 1] /\ d = DeviceOf(rows, k + 1) /\ line = RowLine(rows, k + 1)
  OBVIOUS
<1>3. d = row.series[1] /\ line = Line(Metric(row), d, <<row.sum, row.count>>)
  BY <1>2 DEF DeviceOf, RowLine
<1>4. ~LeftOut(devices, d)
  <2>1. ToSet(devices) = SentBy(rows, k) /\ Len(devices) = Cardinality(SentBy(rows, k))
    BY <1>1 DEF DevicesOk
  <2>2. Cardinality(SentBy(rows, k)) \in Nat
    <3>1. PICK n \in Nat : n = Len(rows) /\ DOMAIN rows = 1 .. n
      BY DEF RowsOk
    <3>2. k \in 0 .. n
      BY <3>1
    <3> QED
      BY <3>1, <3>2, SentIs
  <2> QED
    BY <1>2, <2>1, <2>2 DEF LeftOut, HasRoom
<1>5. Fits(lines, line) /\ LinesOk(rows, k + 1, Append(lines, line))
  BY <1>1, <1>2, LinesNext
<1>6. DevicesOk(rows, k + 1, MoreDevices(devices, d))
  BY <1>1, <1>2, DevicesNext
<1>7. SignalOk(rows, k + 1, MoreSignal(devices, signal, d, row.count))
  BY <1>1, <1>2, SignalNext
<1>8. MetricWritten(acc, row) =
        Loop(Append(lines, line), MoreDevices(devices, d), MoreSignal(devices, signal, d, row.count))
  BY <1>1, <1>3, <1>4, <1>5, MetricIsWritten
<1> QED
  BY <1>2, <1>5, <1>6, <1>7, <1>8 DEF LoopOk

LEMMA LoopIs ==
  ASSUME DistinctIds, NEW rows, RowsOk(rows), MaxDevices \in Nat
  PROVE  LoopOk(rows, Len(rows), After(rows)[Len(rows)])
<1> DEFINE L == Len(rows)
           S == {k \in Nat : LoopOk(rows, k, After(rows)[k])}
<1>1. L \in Nat
  BY DEF RowsOk
<1>2. 0 \in S
  <2>1. After(rows)[0] = Loop(Uptime, <<>>, <<>>)
    BY <1>1, AfterIs DEF Before, Loop
  <2>2. LinesOk(rows, 0, Uptime)
    BY UptimeIs
  <2>3. SentBy(rows, 0) = {} /\ Cardinality({}) = 0
    <3>1. PICK n \in Nat : n = L /\ DOMAIN rows = 1 .. n
      BY DEF RowsOk
    <3> QED
      BY <3>1, SentIs, FS_EmptySet
  <2>4. <<>> \in Seq(Devices(rows)) /\ Len(<<>>) = 0 /\ DOMAIN <<>> = {}
    OBVIOUS
  <2>5. ToSet(<<>>) = {}
    BY <2>4 DEF ToSet
  <2>6. DevicesOk(rows, 0, <<>>) /\ SignalOk(rows, 0, <<>>)
    BY <2>3, <2>4, <2>5 DEF DevicesOk, SignalOk
  <2>7. LoopOk(rows, 0, After(rows)[0])
    BY <2>1, <2>2, <2>6 DEF LoopOk
  <2> QED
    BY <2>7
<1>3. ASSUME NEW k \in Nat, k < L, k \in S PROVE k + 1 \in S
  <2>1. k \in 0 .. Len(rows) - 1 /\ k + 1 \in Nat
    BY <1>1, <1>3
  <2>2. PICK acc : acc = After(rows)[k] /\ LoopOk(rows, k, acc)
    BY <1>3
  <2>3. After(rows)[k + 1] = MetricWritten(acc, rows[k + 1])
    BY <1>1, <2>1, <2>2, AfterIs
  <2>4. LoopOk(rows, k + 1, MetricWritten(acc, rows[k + 1]))
    BY <2>1, <2>2, RowWritten, RowLeftOut
  <2> QED
    BY <2>1, <2>3, <2>4
<1>4. L \in S
  <2>1. L \in 0 .. L
    BY <1>1
  <2> HIDE DEF S, L
  <2> QED
    BY <1>1, <1>2, <1>3, <2>1, Upward
<1> QED
  BY <1>4
-----------------------------------------------------------------------------
(* The payload.                                                            *)

\* Nothing is written if there is room for no device.
LEMMA NothingWritten ==
  ASSUME NEW rows, RowsOk(rows), MaxDevices <= 0 \/ Len(rows) = 0
  PROVE  app_narodmon_build_payload(rows) = <<>>
<1> DEFINE L == Len(rows)
           S == {k \in Nat : After(rows)[k] = Before}
<1>1. L \in Nat /\ MaxDevices \in Int
  BY DevicesHaveRoom DEF RowsOk
<1>2. 0 \in S
  BY <1>1, AfterIs
<1>3. ASSUME NEW k \in Nat, k < L, k \in S PROVE k + 1 \in S
  <2>1. MaxDevices <= 0 /\ k \in 0 .. L - 1 /\ k + 1 \in Nat
    BY <1>1, <1>3
  <2>2. After(rows)[k] = Before /\ After(rows)[k + 1] = MetricWritten(After(rows)[k], rows[k + 1])
    BY <1>1, <1>3, <2>1, AfterIs
  <2>3. PICK row : row = rows[k + 1]
    OBVIOUS
  <2>4. LeftOut(<<>>, row.series[1])
    <3>1. ToSet(<<>>) = {}
      BY DEF ToSet
    <3> QED
      BY <1>1, <2>1, <3>1 DEF LeftOut
  <2>5. MetricWritten(Loop(Uptime, <<>>, <<>>), row) = Loop(Uptime, <<>>, <<>>)
    BY <2>4, MetricLeftOut
  <2>6. Before = Loop(Uptime, <<>>, <<>>)
    BY DEF Before, Loop
  <2> QED
    BY <2>1, <2>2, <2>3, <2>5, <2>6
<1>4. L \in S
  <2>1. L \in 0 .. L
    BY <1>1
  <2> HIDE DEF S, L
  <2> QED
    BY <1>1, <1>2, <1>3, <2>1, Upward
<1>5. After(rows)[L].lines = Uptime
  BY <1>4 DEF Before
<1>6. measurement_store_build_narodmon_payload(rows) = <<>>
  BY <1>5, PayloadIs
<1> QED
  BY <1>6 DEF app_narodmon_build_payload

\* The first row is sent, if there is room for a device.
LEMMA FirstIsWritten ==
  ASSUME NEW rows, RowsOk(rows), MaxDevices \in Nat, MaxDevices >= 1, Len(rows) >= 1
  PROVE  1 \in Written(rows, Len(rows))
<1>1. Len(rows) \in Nat /\ DOMAIN rows = 1 .. Len(rows)
  BY DEF RowsOk
<1>2. 1 \in DOMAIN rows /\ 1 .. 1 - 1 = {} /\ 1 <= Len(rows) /\ 1 \in 1 .. Len(rows)
  BY <1>1
<1>3. 1 \in FirstRows(rows)
  BY <1>2 DEF FirstRows
<1>4. \A j \in DOMAIN rows : j <= 1 <=> j = 1
  BY <1>1
<1>5. {j \in FirstRows(rows) : j <= 1} = {1}
  BY <1>3, <1>4 DEF FirstRows
<1>6. Cardinality({1}) = 1
  BY FS_Singleton
<1>7. DeviceOf(rows, 1) \in SentBy(rows, Len(rows))
  BY <1>2, <1>3, <1>5, <1>6 DEF SentBy
<1> QED
  BY <1>2, <1>7 DEF Written

LEMMA ToSetOfBoth ==
  ASSUME NEW T, NEW s \in Seq(T), NEW t \in Seq(T)
  PROVE  s \o t \in Seq(T) /\ ToSet(s \o t) = ToSet(s) \cup ToSet(t)
<1>1. PICK m \in Nat, n \in Nat : m = Len(s) /\ n = Len(t)
  OBVIOUS
<1>2. /\ s \o t \in Seq(T) /\ Len(s \o t) = m + n
      /\ \A k \in 1 .. m + n : (s \o t)[k] = IF k <= m THEN s[k] ELSE t[k - m]
  BY <1>1, ConcatProperties
<1>3. /\ DOMAIN (s \o t) = 1 .. m + n /\ DOMAIN s = 1 .. m /\ DOMAIN t = 1 .. n
  BY <1>1, <1>2
<1> DEFINE u == s \o t
<1>4. \A k \in 1 .. m + n : u[k] = IF k <= m THEN s[k] ELSE t[k - m]
  BY <1>2
<1> HIDE DEF u
<1>5. ASSUME NEW k \in 1 .. m + n PROVE u[k] \in ToSet(s) \cup ToSet(t)
  <2>1. CASE k <= m
    <3>1. k \in 1 .. m /\ u[k] = s[k]
      BY <1>4, <2>1
    <3> QED
      BY <1>3, <3>1 DEF ToSet
  <2>2. CASE ~(k <= m)
    <3>1. k - m \in 1 .. n /\ u[k] = t[k - m]
      BY <1>4, <2>2
    <3> QED
      BY <1>3, <3>1 DEF ToSet
  <2> QED
    BY <2>1, <2>2
<1>6. ASSUME NEW k \in 1 .. m PROVE s[k] \in ToSet(u)
  <2>1. k \in 1 .. m + n /\ u[k] = s[k]
    BY <1>4
  <2> QED
    BY <1>3, <2>1 DEF ToSet, u
<1>7. ASSUME NEW k \in 1 .. n PROVE t[k] \in ToSet(u)
  <2>1. PICK j : j = k + m
    OBVIOUS
  <2>2. j \in 1 .. m + n /\ ~(j <= m) /\ j - m = k
    BY <2>1
  <2>3. u[j] = t[k]
    BY <1>4, <2>2
  <2> QED
    BY <1>3, <2>2, <2>3 DEF ToSet, u
<1>8. ToSet(u) = {u[k] : k \in 1 .. m + n} /\ ToSet(s) = {s[k] : k \in 1 .. m} /\ ToSet(t) = {t[k] : k \in 1 .. n}
  BY <1>3 DEF ToSet, u
<1>9. ToSet(u) = ToSet(s) \cup ToSet(t)
  <2>1. ToSet(u) \subseteq ToSet(s) \cup ToSet(t)
    BY <1>5, <1>8
  <2>2. ToSet(s) \subseteq ToSet(u) /\ ToSet(t) \subseteq ToSet(u)
    BY <1>6, <1>7, <1>8
  <2> QED
    BY <2>1, <2>2
<1> QED
  BY <1>2, <1>9 DEF u

\* Every signal line fits, and so does the trailer.
LEMMA AllFits ==
  ASSUME DistinctIds, NEW rows, RowsOk(rows), MaxDevices \in Nat, MaxDevices >= 1, Len(rows) >= 1
  PROVE  \E lines, devices, signal :
           /\ LinesOk(rows, Len(rows), lines) /\ DevicesOk(rows, Len(rows), devices)
           /\ SignalOk(rows, Len(rows), signal)
           /\ Signals(Loop(lines, devices, signal)) \in Seq(AllLines(rows))
           /\ app_narodmon_build_payload(rows) = lines \o Signals(Loop(lines, devices, signal))
<1> DEFINE L == Len(rows)
           T == AllLines(rows)
<1>1. PICK lines, devices, signal :
        /\ After(rows)[L] = Loop(lines, devices, signal)
        /\ LinesOk(rows, L, lines) /\ DevicesOk(rows, L, devices) /\ SignalOk(rows, L, signal)
  BY LoopIs DEF LoopOk
<1> DEFINE acc == Loop(lines, devices, signal)
           more == Signals(acc)
<1>2. PICK n \in Nat : n = L /\ DOMAIN rows = 1 .. n
  BY DEF RowsOk
<1>3. PICK c \in Nat : c = Cardinality(SentBy(rows, L)) /\ c <= MaxDevices
  <2>1. n \in 0 .. n
    BY <1>2
  <2> QED
    BY <1>2, <2>1, SentIs
\* The signal lines.
<1>4. acc.lines = lines /\ acc.devices = devices /\ acc.signal = signal
  BY DEF Loop
<1>5. devices \in Seq(Devices(rows)) /\ Len(devices) = c /\ DOMAIN devices = 1 .. c
      /\ \A k \in 1 .. c : devices[k] \in SentBy(rows, L) /\ devices[k] \in Devices(rows)
  <2>1. devices \in Seq(Devices(rows)) /\ Len(devices) = c /\ ToSet(devices) = SentBy(rows, L)
    BY <1>1, <1>3 DEF DevicesOk
  <2>2. DOMAIN devices = 1 .. c
    BY <2>1
  <2>3. \A k \in 1 .. c : devices[k] \in SentBy(rows, L)
    BY <2>1, <2>2 DEF ToSet
  <2> QED
    BY <2>1, <2>2, <2>3
<1>6. ASSUME NEW d \in SentBy(rows, L) PROVE signal[d] \in Nat
  <2>1. PICK j \in 1 .. L : signal[d] = rows[j].count
    BY <1>1 DEF SignalOk, CountOf
  <2> QED
    BY <2>1 DEF RowsOk
<1>7. more = [k \in 1 .. c |-> SignalLine(devices[k], signal[devices[k]])]
  <2> HIDE DEF acc
  <2>1. more = [k \in DOMAIN devices |-> Line("SIGNAL", devices[k], signal[devices[k]])]
    BY <1>4 DEF Signals
  <2> HIDE DEF more
  <2> QED
    BY <1>5, <2>1 DEF SignalLine
<1> HIDE DEF more, acc
<1>8. \A k \in 1 .. c : more[k] \in T /\ more[k].kind = "SIGNAL"
  <2>1. \A k \in 1 .. c : more[k] = SignalLine(devices[k], signal[devices[k]])
    BY <1>7
  <2>2. \A k \in 1 .. c : signal[devices[k]] \in Nat /\ devices[k] \in Devices(rows)
    BY <1>5, <1>6
  <2>3. \A k \in 1 .. c : more[k] \in T
    BY <2>1, <2>2 DEF AllLines
  <2>4. \A k \in 1 .. c : more[k].kind = "SIGNAL"
    <3>1. \A d, count : SignalLine(d, count).kind = "SIGNAL"
      BY DEF SignalLine, Line
    <3> QED
      BY <2>1, <3>1
  <2> QED
    BY <2>3, <2>4
<1>9. more \in Seq(T) /\ Len(more) = c
  <2>1. more = [k \in 1 .. c |-> more[k]]
    BY <1>7
  <2> HIDE DEF T
  <2>2. more \in [1 .. c -> T]
    BY <1>8, <2>1
  <2> QED
    BY <2>2
<1>10. AreLines(T) /\ lines \in Seq(T) /\ TextLength(lines) = Size(rows, L)
  BY <1>1, LinesAre DEF LinesOk
<1>11. L \in 0 .. L /\ 1 <= c + 1
  BY <1>2
<1> HIDE DEF T
<1>12. PICK h \in Nat, z \in Nat, g \in Nat, p \in Nat, size \in Nat :
         /\ h = LineLength["header"] /\ z = LineLength["trailer"]
         /\ g = LineLength["SIGNAL"] /\ p = PayloadSize /\ size = Size(rows, L)
  BY <1>3, <1>11, LineLengths, LinesFit, StoreAssumption
\* The text with some of them.
<1>13. ASSUME NEW k \in 0 .. c
       PROVE  /\ lines \o SubSeq(more, 1, k) \in Seq(T)
              /\ TextLength(lines \o SubSeq(more, 1, k)) = size + g * k
              /\ h + (size + g * k) + z + 1 <= p
  <2>1. \A j \in 1 .. Len(more) : more[j].kind = "SIGNAL"
    BY <1>8, <1>9
  <2>2. k \in 0 .. Len(more) /\ LineLength["SIGNAL"] \in Nat
    BY <1>9, <1>12
  <2>3. /\ lines \o SubSeq(more, 1, k) \in Seq(T)
        /\ TextLength(lines \o SubSeq(more, 1, k)) = TextLength(lines) + LineLength["SIGNAL"] * k
    BY <1>9, <1>10, <2>1, <2>2, LengthOfMore
  <2>4. k \in Nat /\ k <= MaxDevices
    BY <1>3
  <2>5. h + (size + g * k) + z + 1 <= p
    BY <1>11, <1>12, <2>4, LinesFit
  <2> QED
    BY <1>10, <1>12, <2>3, <2>5
<1>14. ASSUME NEW k \in 1 .. Len(more) PROVE Fits(lines \o SubSeq(more, 1, k - 1), more[k])
  <2>1. PICK j \in 0 .. c : j = k - 1 /\ k = j + 1 /\ k \in 0 .. c /\ k \in 1 .. c
    BY <1>9
  <2>2. TextLength(lines \o SubSeq(more, 1, j)) = size + g * j
    BY <1>13
  <2>3. h + (size + g * k) + z + 1 <= p
    BY <1>13, <2>1
  <2>4. g * k = g * j + g
    BY <2>1
  <2>5. PICK x \in Nat : x = g * j
    BY <2>1
  <2>6. h + (size + x) + g < p
    <3>1. h + (size + (x + g)) + z + 1 <= p
      BY <2>3, <2>4, <2>5
    <3> QED
      BY <3>1
  <2>7. LineLength[more[k].kind] = g
    BY <1>8, <1>12, <2>1
  <2> QED
    BY <1>12, <2>1, <2>2, <2>5, <2>6, <2>7 DEF Fits
<1>15. Appended(lines, more) = lines \o more
  BY <1>9, <1>10, <1>14, AppendsAll
\* None of them is the line of the time since the boot alone.
<1>16. lines # Uptime /\ Uptime # <<>>
  <2>1. Uptime = <<UptimeLine>> /\ ToSet(Uptime) = {UptimeLine}
    <3>1. Uptime = <<UptimeLine>>
      BY UptimeIs
    <3>2. ToSet(<<UptimeLine>>) = {UptimeLine}
      BY DEF ToSet
    <3> QED
      BY <3>1, <3>2
  <2>2. RowLine(rows, 1) \in ToSet(lines)
    BY <1>1, FirstIsWritten DEF LinesOk
  <2>3. RowLine(rows, 1) # UptimeLine
    <3>1. 1 \in DOMAIN rows
      BY <1>2
    <3>2. RowLine(rows, 1).kind = Metric(rows[1]) /\ UptimeLine.kind = "UPTIME"
      BY <3>1, LinesAre
    <3>3. rows[1].series \in Series
      BY <3>1 DEF RowsOk
    <3>4. Metric(rows[1]) \in Metrics
      BY <3>3, MetricIs
    <3> QED
      BY <3>2, <3>4 DEF Metrics
  <2> QED
    BY <2>1, <2>2, <2>3
<1>17. measurement_store_build_narodmon_payload(rows) = lines \o more
  <2>1. After(rows)[Len(rows)].lines = lines /\ Signals(After(rows)[Len(rows)]) = more
    BY <1>1, <1>4 DEF more, acc
  <2> QED
    BY <1>15, <1>16, <2>1, PayloadIs
<1>18. app_narodmon_build_payload(rows) = lines \o more
  <2>1. c \in 0 .. c /\ SubSeq(more, 1, c) = more
    BY <1>9, SubSeqFull
  <2>2. TextLength(lines \o more) = size + g * c /\ h + (size + g * c) + z + 1 <= p
    BY <1>13, <2>1
  <2>3. PICK x \in Nat : x = size + g * c
    OBVIOUS
  <2>4. TextLength(lines \o more) = x /\ ~(h + x + z + 1 > p)
    BY <2>2, <2>3
  <2>5. ~(LineLength["header"] + TextLength(lines \o more) + LineLength["trailer"] + 1 > PayloadSize)
    BY <1>12, <2>4
  <2> QED
    BY <1>17, <2>5 DEF app_narodmon_build_payload
<1> QED
  BY <1>1, <1>9, <1>18 DEF more, acc, T

LEMMA MaxIs ==
  ASSUME NEW T, T \subseteq Int, NEW x \in T, \A y \in T : y <= x
  PROVE  Max(T) = x
<1>1. Max(T) \in T /\ \A y \in T : Max(T) >= y
  BY MaxIsGreatest
<1>2. Max(T) \in Int /\ x \in Int /\ Max(T) >= x /\ Max(T) <= x
  BY <1>1
<1> QED
  BY <1>2

\* What PayloadIsComplete says, of any rows.
Told(lines, kinds) ==
  {<<lines[k].kind, lines[k].device, lines[k].value>> : k \in {j \in DOMAIN lines : lines[j].kind \in kinds}}

SentOf(rows) ==
  {DeviceOf(rows, k) : k \in {f \in FirstRows(rows) :
                                Cardinality({j \in FirstRows(rows) : j <= f}) <= MaxDevices}}

CompleteWith(rows, lines, sent, ofSent) ==
  /\ Told(lines, {"TEMP", "RH", "MB2BAT"}) =
       {<<Metric(rows[k]), DeviceOf(rows, k), <<rows[k].sum, rows[k].count>>>> : k \in ofSent}
  /\ Told(lines, {"SIGNAL"}) =
       {<<"SIGNAL", d, Max({rows[k].count : k \in {j \in ofSent : DeviceOf(rows, j) = d}})>> : d \in sent}

Complete(rows) ==
  CompleteWith(rows, app_narodmon_build_payload(rows), SentOf(rows),
               {k \in DOMAIN rows : DeviceOf(rows, k) \in SentOf(rows)})

LEMMA CompleteIs == Complete(view) <=> PayloadIsComplete
BY DEF Complete, CompleteWith, PayloadIsComplete, SentOf, Told, FirstRows, DeviceOf

LEMMA SentOfIs ==
  ASSUME NEW rows, RowsOk(rows)
  PROVE  /\ SentOf(rows) = SentBy(rows, Len(rows))
         /\ {k \in DOMAIN rows : DeviceOf(rows, k) \in SentOf(rows)} = Written(rows, Len(rows))
<1>1. Len(rows) \in Nat /\ DOMAIN rows = 1 .. Len(rows)
  BY DEF RowsOk
<1>2. \A f \in FirstRows(rows) : f <= Len(rows)
  BY <1>1 DEF FirstRows
<1>3. SentOf(rows) = SentBy(rows, Len(rows))
  BY <1>2 DEF SentOf, SentBy
<1> QED
  BY <1>1, <1>3 DEF Written

\* No device is sent if there is room for none.
LEMMA NothingComplete ==
  ASSUME NEW rows, RowsOk(rows), MaxDevices <= 0 \/ Len(rows) = 0
  PROVE  Complete(rows)
<1>1. SentOf(rows) = {}
  <2>1. PICK n \in Nat : n = Len(rows) /\ DOMAIN rows = 1 .. n
    BY DEF RowsOk
  <2>2. MaxDevices \in Int
    BY DevicesHaveRoom
  <2>3. CASE n = 0
    BY <2>1, <2>3 DEF SentOf, FirstRows
  <2>4. CASE MaxDevices <= 0
    <3>1. ASSUME NEW f \in FirstRows(rows) PROVE ~(Cardinality({j \in FirstRows(rows) : j <= f}) <= MaxDevices)
      <4> DEFINE A == {j \in FirstRows(rows) : j <= f}
      <4>1. f \in 1 .. n /\ f \in A /\ A \subseteq 1 .. n
        BY <2>1 DEF FirstRows
      <4>2. IsFiniteSet(A)
        BY <4>1, FS_Interval, FS_Subset
      <4> HIDE DEF A
      <4>3. Cardinality(A) \in Nat /\ Cardinality(A) # 0
        BY <4>1, <4>2, FS_CardinalityType, FS_EmptySet
      <4> QED
        BY <2>2, <2>4, <4>3 DEF A
    <3> QED
      BY <3>1 DEF SentOf
  <2> QED
    BY <2>1, <2>3, <2>4
<1>2. app_narodmon_build_payload(rows) = <<>>
  BY NothingWritten
<1>3. \A kinds : Told(<<>>, kinds) = {}
  BY DEF Told
<1>4. Complete(rows) <=> CompleteWith(rows, <<>>, {}, {})
  BY <1>1, <1>2 DEF Complete
<1> QED
  BY <1>3, <1>4 DEF CompleteWith

LEMMA ToldIs ==
  ASSUME NEW lines, NEW kinds
  PROVE  Told(lines, kinds) = {<<x.kind, x.device, x.value>> : x \in {y \in ToSet(lines) : y.kind \in kinds}}
BY DEF Told, ToSet

LEMMA PayloadIsCompleteFor ==
  ASSUME DistinctIds, NEW rows, RowsOk(rows)
  PROVE  Complete(rows)
<1> DEFINE L == Len(rows)
<1>1. CASE MaxDevices <= 0 \/ L = 0
  BY <1>1, NothingComplete
<1>2. CASE ~(MaxDevices <= 0 \/ L = 0)
  <2>1. MaxDevices \in Nat /\ MaxDevices >= 1 /\ L \in Nat /\ L >= 1 /\ DOMAIN rows = 1 .. L
    BY <1>2, DevicesHaveRoom DEF RowsOk
  <2>2. PICK lines, devices, signal :
          /\ LinesOk(rows, L, lines) /\ DevicesOk(rows, L, devices) /\ SignalOk(rows, L, signal)
          /\ Signals(Loop(lines, devices, signal)) \in Seq(AllLines(rows))
          /\ app_narodmon_build_payload(rows) = lines \o Signals(Loop(lines, devices, signal))
    BY <2>1, AllFits
  <2> DEFINE more == Signals(Loop(lines, devices, signal))
             all == lines \o more
             sent == SentBy(rows, L)
             ofSent == Written(rows, L)
  <2>3. SentOf(rows) = sent /\ {k \in DOMAIN rows : DeviceOf(rows, k) \in SentOf(rows)} = ofSent
    BY SentOfIs
  <2>4. ToSet(lines) = {UptimeLine} \cup {RowLine(rows, j) : j \in ofSent} /\ lines \in Seq(AllLines(rows))
    BY <2>2 DEF LinesOk
  <2>5. ToSet(more) = {SignalLine(d, signal[d]) : d \in sent}
    <3>1. more = [k \in DOMAIN devices |-> SignalLine(devices[k], signal[devices[k]])]
      BY DEF Signals, Loop, SignalLine
    <3>2. ToSet(devices) = sent
      BY <2>2 DEF DevicesOk
    <3> HIDE DEF more, sent
    <3> QED
      BY <3>1, <3>2 DEF ToSet
  <2>6. ToSet(all) = {UptimeLine} \cup {RowLine(rows, j) : j \in ofSent} \cup {SignalLine(d, signal[d]) : d \in sent}
    <3>1. ToSet(all) = ToSet(lines) \cup ToSet(more)
      BY <2>2, <2>4, ToSetOfBoth
    <3> QED
      BY <2>4, <2>5, <3>1
  <2> HIDE DEF all, more, sent, ofSent
  <2>7. UptimeLine.kind = "UPTIME" /\ \A d, n : SignalLine(d, n).kind = "SIGNAL"
    BY DEF UptimeLine, SignalLine, Line
  <2>8. ASSUME NEW j \in ofSent
        PROVE  /\ RowLine(rows, j).kind \in Metrics
               /\ RowLine(rows, j).kind = Metric(rows[j])
               /\ RowLine(rows, j).device = DeviceOf(rows, j)
               /\ RowLine(rows, j).value = <<rows[j].sum, rows[j].count>>
    <3>1. j \in DOMAIN rows /\ rows[j].series \in Series
      BY <2>1 DEF Written, RowsOk, ofSent
    <3>2. Metric(rows[j]) \in Metrics
      BY <3>1, MetricIs
    <3> QED
      BY <3>2 DEF RowLine, Line
  <2>9. Told(all, Metrics) =
          {<<Metric(rows[k]), DeviceOf(rows, k), <<rows[k].sum, rows[k].count>>>> : k \in ofSent}
    <3>1. {y \in ToSet(all) : y.kind \in Metrics} = {RowLine(rows, j) : j \in ofSent}
      BY <2>6, <2>7, <2>8 DEF Metrics
    <3>2. Told(all, Metrics) = {<<x.kind, x.device, x.value>> : x \in {RowLine(rows, j) : j \in ofSent}}
      BY <3>1, ToldIs
    <3>3. \A j \in ofSent : <<RowLine(rows, j).kind, RowLine(rows, j).device, RowLine(rows, j).value>> =
                             <<Metric(rows[j]), DeviceOf(rows, j), <<rows[j].sum, rows[j].count>>>>
      BY <2>8
    <3>4. Told(all, Metrics) =
            {<<RowLine(rows, j).kind, RowLine(rows, j).device, RowLine(rows, j).value>> : j \in ofSent}
      BY <3>2
    <3> QED
      BY <3>3, <3>4
  <2>10. Told(all, {"SIGNAL"}) = {<<"SIGNAL", d, signal[d]>> : d \in sent}
    <3>1. {y \in ToSet(all) : y.kind \in {"SIGNAL"}} = {SignalLine(d, signal[d]) : d \in sent}
      BY <2>6, <2>7, <2>8 DEF Metrics
    <3>2. Told(all, {"SIGNAL"}) = {<<x.kind, x.device, x.value>> : x \in {SignalLine(d, signal[d]) : d \in sent}}
      BY <3>1, ToldIs
    <3>3. \A d, n : /\ SignalLine(d, n).kind = "SIGNAL" /\ SignalLine(d, n).device = d
                    /\ SignalLine(d, n).value = n
      BY DEF SignalLine, Line
    <3>4. \A d, n : <<SignalLine(d, n).kind, SignalLine(d, n).device, SignalLine(d, n).value>> = <<"SIGNAL", d, n>>
      BY <3>3
    <3>5. Told(all, {"SIGNAL"}) =
            {<<SignalLine(d, signal[d]).kind, SignalLine(d, signal[d]).device, SignalLine(d, signal[d]).value>> : d \in sent}
      BY <3>2
    <3> QED
      BY <3>4, <3>5
  <2>11. ASSUME NEW d \in sent
         PROVE  Max({rows[k].count : k \in {j \in ofSent : DeviceOf(rows, j) = d}}) = signal[d]
    <3> DEFINE T == {rows[k].count : k \in {j \in ofSent : DeviceOf(rows, j) = d}}
    <3>1. CountOf(rows, L, d, signal[d])
      BY <2>2 DEF SignalOk, sent
    <3>2. {j \in ofSent : DeviceOf(rows, j) = d} = {j \in 1 .. L : DeviceOf(rows, j) = d}
      BY DEF ofSent, sent, Written
    <3>3. T = {rows[j].count : j \in {j \in 1 .. L : DeviceOf(rows, j) = d}}
      BY <3>2
    <3>4. T \subseteq Int
      <4>1. \A j \in 1 .. L : rows[j].count \in Nat
        BY <2>1 DEF RowsOk
      <4>2. \A y \in T : \E j \in 1 .. L : y = rows[j].count
        BY <3>3
      <4> HIDE DEF T
      <4> QED
        BY <4>1, <4>2
    <3>5. signal[d] \in T /\ \A y \in T : y <= signal[d]
      BY <3>1, <3>3 DEF CountOf
    <3> HIDE DEF T
    <3>6. Max(T) = signal[d]
      BY <3>4, <3>5, MaxIs
    <3> QED
      BY <3>6 DEF T
  <2>12. Told(all, {"SIGNAL"}) =
           {<<"SIGNAL", d, Max({rows[k].count : k \in {j \in ofSent : DeviceOf(rows, j) = d}})>> : d \in sent}
    BY <2>10, <2>11
  <2>13. app_narodmon_build_payload(rows) = all
    BY <2>2 DEF all, more
  <2>14. CompleteWith(rows, all, sent, ofSent)
    BY <2>9, <2>12 DEF CompleteWith, Metrics
  <2> QED
    BY <2>3, <2>13, <2>14 DEF Complete
<1> QED
  BY <1>1, <1>2

\* A view has a row for no series twice.
LEMMA RebuiltIs ==
  ASSUME NEW t \in [Slots -> Samples \cup {Free}]
  PROVE  RowsOk(measurement_view_rebuild(t))
<1> DEFINE F == Firsts(t)
           c == Cardinality(F)
           M == Min({ViewSize, c})
           seriesOf(k) == t[Nth(F, k)].series
           rows == [k \in 1 .. M |-> Row(t, seriesOf(k))]
<1>1. IsFiniteSet(F) /\ F \subseteq Nat /\ F \subseteq Used(t) /\ ViewSize \in Nat
  <2>1. F \subseteq Slots /\ F \subseteq Used(t)
    BY DEF Firsts, Used
  <2> QED
    BY <2>1, SlotsAre, FS_Subset, StoreAssumption
<1>2. /\ c \in Nat /\ \A n \in 1 .. c : Nth(F, n) \in F
      /\ \A m, n \in 1 .. c : Nth(F, m) = Nth(F, n) => m = n
  <2> HIDE DEF F
  <2> QED
    BY <1>1, NthIs
<1>3. ASSUME NEW i \in F, NEW j \in F, t[i].series = t[j].series PROVE i = j
  <2>1. i \in OfSeries(t, t[j].series) /\ j \in OfSeries(t, t[i].series)
    BY <1>1, <1>3 DEF OfSeries
  <2>2. i <= j /\ j <= i /\ i \in Nat /\ j \in Nat
    BY <1>1, <2>1 DEF Firsts
  <2> QED
    BY <2>2
<1>4. M \in Nat /\ M <= c
  <2>1. \E x \in {ViewSize, c} : \A y \in {ViewSize, c} : x <= y
    BY <1>1, <1>2
  <2>2. M \in {ViewSize, c} /\ \A y \in {ViewSize, c} : M <= y
    BY <2>1 DEF Min
  <2> HIDE DEF M, c
  <2> QED
    BY <1>1, <1>2, <2>2
<1>5. measurement_view_rebuild(t) = rows
  BY DEF measurement_view_rebuild
<1>6. \A i \in Used(t) : t[i].series \in Series
  <2>1. \A i \in Used(t) : t[i] \in Samples
    BY DEF Used
  <2> QED
    BY <2>1 DEF Samples
<1> HIDE DEF F, M, c
<1>7. \A k \in 1 .. M : k \in 1 .. c /\ Nth(F, k) \in F /\ seriesOf(k) \in Series
  <2>1. \A k \in 1 .. M : k \in 1 .. c
    BY <1>2, <1>4
  <2> QED
    BY <1>1, <1>2, <1>6, <2>1
<1>8. DOMAIN rows = 1 .. M /\ Len(rows) = M
  <2>1. rows \in Seq({Row(t, seriesOf(m)) : m \in 1 .. M})
    BY <1>4
  <2>2. DOMAIN rows = 1 .. M
    OBVIOUS
  <2> HIDE DEF rows
  <2>3. DOMAIN rows = 1 .. Len(rows) /\ Len(rows) \in Nat
    BY <2>1
  <2> QED
    BY <1>4, <2>2, <2>3
<1>9. \A s : Cardinality(OfSeries(t, s)) \in Nat
  <2>1. ASSUME NEW s PROVE IsFiniteSet(OfSeries(t, s))
    <3>1. OfSeries(t, s) \subseteq Slots
      BY DEF OfSeries, Used
    <3> QED
      BY <3>1, SlotsAre, FS_Subset
  <2> QED
    BY <2>1, FS_CardinalityType
<1>10. \A k \in 1 .. M : rows[k].series = seriesOf(k) /\ rows[k].count \in Nat
  <2>1. \A k \in 1 .. M : rows[k] = Row(t, seriesOf(k))
    OBVIOUS
  <2>2. \A s : Row(t, s).series = s /\ Row(t, s).count \in Nat
    BY <1>9 DEF Row
  <2> HIDE DEF rows
  <2> QED
    BY <2>1, <2>2
<1> HIDE DEF rows
<1>11. \A j, k \in 1 .. M : rows[j].series = rows[k].series => j = k
  BY <1>2, <1>3, <1>7, <1>10
<1>12. RowsOk(rows)
  BY <1>4, <1>7, <1>8, <1>10, <1>11 DEF RowsOk
<1> QED
  BY <1>5, <1>12

LEMMA RowsOkInit == Init => RowsOk(view)
BY DEF Init, RowsOk

LEMMA RowsOkNext == StoreInv /\ StoreInv' /\ RowsOk(view) /\ [Next]_vars => RowsOk(view)'
<1> SUFFICES ASSUME StoreInv, StoreInv', RowsOk(view), [Next]_vars PROVE RowsOk(view')
  OBVIOUS
<1>1. CASE Periodic \/ Snapshot
  <2>1. view' = measurement_view_rebuild(table') /\ table' \in [Slots -> Samples \cup {Free}]
    BY <1>1 DEF Periodic, Snapshot, measurement_revision, StoreInv, StoreTypes
  <2> QED
    BY <2>1, RebuiltIs
<1>2. CASE AddBle \/ AddOneWire
  <2>1. UNCHANGED view
    BY <1>2, AddIs DEF measurement_store_add
  <2> QED
    BY <2>1
<1>3. CASE Tick \/ Configure \/ UNCHANGED vars
  BY <1>3 DEF Tick, Configure, vars
<1> QED
  BY <1>1, <1>2, <1>3 DEF Next

\* What is sent to narodmon.ru is never cut: it has the averages of all rows of
\* the first MaxDevices devices in the view, and for each of these the count of
\* the row with most samples, unless a BLE sensor has the id of a 1-Wire one
\* (measurement_store_build_narodmon_payload, app_narodmon_build_payload).
THEOREM AlwaysPayloadIsComplete == DistinctIds => (Spec => []PayloadIsComplete)
<1> SUFFICES ASSUME DistinctIds PROVE Spec => []PayloadIsComplete
  OBVIOUS
<1>1. RowsOk(view) => PayloadIsComplete
  BY CompleteIs, PayloadIsCompleteFor
<1> QED
  BY <1>1, StoreInvInit, StoreInvNext, RowsOkInit, RowsOkNext, PTL DEF Spec
=============================================================================
