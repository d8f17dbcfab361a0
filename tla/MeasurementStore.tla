-------------------------- MODULE MeasurementStore --------------------------
(***************************************************************************)
(* The store of sensor measurements: a flat table of samples shared by all *)
(* series (a series is one field of one device), and the view of averages  *)
(* that the web pages and the uploaders read.  Everything runs on core 0;  *)
(* BLE samples carry the present time, 1-Wire samples the time at which    *)
(* core 1 read the sensor.                                                 *)
(*                                                                         *)
(* Times are true times; the firmware sees them modulo Wrap, its 32-bit    *)
(* millisecond clock.  A sample's value is its number, so that samples can *)
(* be told apart and a wrong sum is seen.                                  *)
(***************************************************************************)
EXTENDS Integers, FiniteSets, FiniteSetsExt, SequencesExt

CONSTANTS
  BleSeries, OneWireSeries,    \* the series of the two sources
  TableSize, ViewSize,         \* MEASUREMENT_STORE_TABLE_SIZE, _VIEW_SIZE
  Wrap,                        \* modulus of the clock, 2^32 ms
  RevisionInterval,            \* MEASUREMENT_STORE_REVISION_INTERVAL_MS
  RetentionMin, RetentionMax,  \* range of measurement_retention_ms
  CountMax,                    \* APP_CONFIG_MEASUREMENT_MAX_COUNT_MAX
  Settings,                    \* the <<retention, count>> settings that occur
  PayloadSize,                 \* APP_NARODMON_PAYLOAD_MAX_LEN
  LineLength,                  \* NARODMON_LINE_..._MAX_LEN, header and trailer too
  MaxNow, MaxSamples, MaxConfigures,  \* bounds on time, samples, changes
  Free                         \* MEASUREMENT_FIELD_NONE

Series == BleSeries \cup OneWireSeries
Slots == 1 .. TableSize
Times == 0 .. MaxNow

Samples == [series : Series, value : 1 .. MaxSamples, at : Times]

ASSUME StoreAssumption ==
  /\ TableSize \in Nat \ {0} /\ ViewSize \in Nat /\ Wrap \in Nat \ {0}
  /\ RevisionInterval \in Nat /\ CountMax \in Nat
  /\ RetentionMin \in Nat /\ RetentionMax \in Nat /\ RetentionMin <= RetentionMax
  /\ Settings \subseteq Nat \X Nat
  /\ PayloadSize \in Nat
  /\ LineLength \in [{"header", "trailer", "UPTIME", "TEMP", "RH", "MB2BAT", "SIGNAL"} -> Nat \ {0}]
  /\ MaxNow \in Nat /\ MaxSamples \in Nat /\ MaxConfigures \in Nat
  /\ Free \notin Samples

\* A series is a device and a field of it.
ASSUME SeriesAssumption ==
  /\ \A s \in BleSeries : s = <<s[1], s[2]>> /\ s[2] \in {"battery", "temperature", "humidity"}
  /\ \A s \in OneWireSeries : s = <<s[1], s[2]>> /\ s[2] = "1wire_temperature"

VARIABLES
  now,            \* the clock
  table,          \* measurement_table
  view,           \* measurement_view, its rows in use in order
  retention_ms, max_count, last_revision_ms,
  history,        \* every sample handed to the store, in order
  configures      \* how often the settings were changed

vars == <<now, table, view, retention_ms, max_count, last_revision_ms,
          history, configures>>

-----------------------------------------------------------------------------
(* The table.                                                              *)

Used(t) == {i \in Slots : t[i] # Free}

OfSeries(t, s) == {i \in Used(t) : t[i].series = s}

\* The age as the firmware computes it: 0 when the clock reads less than the
\* timestamp.
Age(time, at) ==
  LET clock == time % Wrap
      timestamp == at % Wrap
  IN  IF clock >= timestamp THEN clock - timestamp ELSE 0

\* Variants: keep a sample too long, or not long enough.
PruneLate(t, time) ==
  [i \in Slots |->
     IF t[i] # Free /\ Age(time, t[i].at) > retention_ms + 1 THEN Free ELSE t[i]]

PruneEarly(t, time) ==
  [i \in Slots |->
     IF t[i] # Free /\ Age(time, t[i].at) >= retention_ms THEN Free ELSE t[i]]

measurement_table_prune(t, time) ==
  [i \in Slots |->
     IF t[i] # Free /\ Age(time, t[i].at) > retention_ms THEN Free ELSE t[i]]

\* Slot i is found before slot j: it is older, or as old and lower.
Precedes(t, time, i, j) ==
  \/ Age(time, t[i].at) > Age(time, t[j].at)
  \/ Age(time, t[i].at) = Age(time, t[j].at) /\ i < j

\* Variant: finds the youngest.
FindYoungest(t, time, candidates) ==
  CHOOSE i \in candidates : \A j \in candidates \ {i} : Precedes(t, time, j, i)

measurement_find_oldest(t, time, candidates) ==
  CHOOSE i \in candidates : \A j \in candidates \ {i} : Precedes(t, time, i, j)

\* The loop frees the oldest of the series until fewer than max_count remain:
\* these are the slots that at least max_count - 1 others of it follow.
measurement_enforce_series_limit(t, time, s) ==
  LET followers(i) == {j \in OfSeries(t, s) : j # i /\ Precedes(t, time, i, j)}
  IN  [i \in Slots |->
         IF /\ max_count # 0
            /\ i \in OfSeries(t, s)
            /\ Cardinality(followers(i)) >= max_count - 1
         THEN Free ELSE t[i]]

\* The slot a new sample goes to: the first free one, else the oldest sample's.
SlotFor(t, time) ==
  IF Used(t) # Slots THEN Min(Slots \ Used(t))
                     ELSE measurement_find_oldest(t, time, Slots)

measurement_store_add(s, time) ==
  LET sample == [series |-> s, value |-> Len(history) + 1, at |-> time]
      room == measurement_enforce_series_limit(
                measurement_table_prune(table, time), time, s)
  IN  /\ table' = [room EXCEPT ![SlotFor(room, time)] = sample]
      /\ history' = Append(history, sample)
      /\ UNCHANGED <<now, view, retention_ms, max_count, last_revision_ms, configures>>

-----------------------------------------------------------------------------
(* The view.                                                               *)

\* The n-th of a set of slots.
Nth(S, n) == CHOOSE i \in S : Cardinality({j \in S : j <= i}) = n

\* The slots with the first sample of a series, and the row made of all of them.
Firsts(t) == {i \in Used(t) : \A j \in OfSeries(t, t[i].series) : i <= j}

Row(t, s) == [series |-> s,
              sum |-> SumSet({t[j].value : j \in OfSeries(t, s)}),
              count |-> Cardinality(OfSeries(t, s))]

\* One row per series in the order of the first sample of each, as many as
\* there are rows; average_value is kept as the sum and the count.
measurement_view_rebuild(t) ==
  [k \in 1 .. Min({ViewSize, Cardinality(Firsts(t))}) |-> Row(t, t[Nth(Firsts(t), k)].series)]

measurement_revision ==
  /\ table' = measurement_table_prune(table, now)
  /\ view' = measurement_view_rebuild(table')
  /\ last_revision_ms' = now
  /\ UNCHANGED <<now, retention_ms, max_count, history, configures>>

-----------------------------------------------------------------------------
(* The payload for narodmon.ru, the text sent in one attempt: a header, a  *)
(* line for the time since the boot, one for each row of the view, one for *)
(* each device, and a trailer.  Lines have their greatest length.          *)

\* Variant: the signal lines are not counted.
MaxDevicesWithoutSignals ==
  ((PayloadSize - LineLength["header"] - LineLength["trailer"] - LineLength["UPTIME"])
     \div (LineLength["TEMP"] + LineLength["RH"] + LineLength["MB2BAT"])) - 1

\* NARODMON_MAX_DEVICES
MaxDevices ==
  ((PayloadSize - LineLength["header"] - LineLength["trailer"] - LineLength["UPTIME"])
     \div (LineLength["TEMP"] + LineLength["RH"] + LineLength["MB2BAT"]
            + LineLength["SIGNAL"])) - 1

Metric(row) ==
  CASE row.series[2] \in {"temperature", "1wire_temperature"} -> "TEMP"
    [] row.series[2] = "humidity" -> "RH"
    [] row.series[2] = "battery" -> "MB2BAT"

Line(kind, device, value) == [kind |-> kind, device |-> device, value |-> value]

TextLength(lines) ==
  LET upTo[n \in 0 .. Len(lines)] ==
        IF n = 0 THEN 0 ELSE upTo[n - 1] + LineLength[lines[n].kind]
  IN  upTo[Len(lines)]

\* snprintf needs room for the terminator, too.
Fits(lines, line) ==
  LineLength["header"] + TextLength(lines) + LineLength[line.kind] < PayloadSize

\* Appends lines up to the first that does not fit.
Appended(lines, more) ==
  LET fitting == {n \in 0 .. Len(more) :
                    \A k \in 1 .. n : Fits(lines \o SubSeq(more, 1, k - 1), more[k])}
  IN  lines \o SubSeq(more, 1, Max(fitting))

\* narodmon_find_or_add_signal_entry finds none: a further device is left out.
LeftOut(devices, device) == device \notin ToSet(devices) /\ Len(devices) >= MaxDevices

\* A row's line, in the first loop; open until one does not fit.  For every
\* device in it the greatest count of the rows written is kept.
MetricWritten(acc, row) ==
  LET device == row.series[1]
      line == Line(Metric(row), device, <<row.sum, row.count>>)
      devices == IF device \in ToSet(acc.devices) THEN acc.devices
                                                  ELSE Append(acc.devices, device)
      signal(d) == IF d \in DOMAIN acc.signal THEN acc.signal[d] ELSE 0
  IN  IF ~acc.open \/ LeftOut(acc.devices, device) THEN acc
      ELSE IF ~Fits(acc.lines, line)
      THEN [acc EXCEPT !.open = FALSE, !.devices = devices,
                       !.signal = [d \in ToSet(devices) |-> signal(d)]]
      ELSE [acc EXCEPT !.lines = Append(@, line), !.devices = devices,
                       !.signal = [d \in ToSet(devices) |->
                                     IF d = device THEN Max({signal(d), row.count}) ELSE signal(d)]]

\* The lines, none if there is no metric.
measurement_store_build_narodmon_payload(rows) ==
  LET uptime == Appended(<<>>, <<Line("UPTIME", "", <<>>)>>)
      after[n \in 0 .. Len(rows)] ==
        IF n = 0 THEN [lines |-> uptime, open |-> TRUE, devices |-> <<>>, signal |-> <<>>]
        ELSE MetricWritten(after[n - 1], rows[n])
      metrics == after[Len(rows)]
      signals == [k \in DOMAIN metrics.devices |->
                    Line("SIGNAL", metrics.devices[k], metrics.signal[metrics.devices[k]])]
  IN  IF uptime = <<>> \/ metrics.lines = uptime THEN <<>>
      ELSE Appended(metrics.lines, signals)

\* No payload, if there are no lines or the trailer does not fit.
app_narodmon_build_payload(rows) ==
  LET lines == measurement_store_build_narodmon_payload(rows)
  IN  IF LineLength["header"] + TextLength(lines) + LineLength["trailer"] + 1 > PayloadSize
      THEN <<>> ELSE lines

-----------------------------------------------------------------------------
(* What calls the store.                                                   *)

Clamp(x, lo, hi) == IF x < lo THEN lo ELSE IF x > hi THEN hi ELSE x

Apply(setting) ==
  /\ retention_ms' = Clamp(setting[1], RetentionMin, RetentionMax)
  /\ max_count' = IF setting[2] > CountMax THEN CountMax ELSE setting[2]

\* measurement_store_init and the first measurement_store_configure.
Init ==
  /\ now = 0
  /\ table = [i \in Slots |-> Free]
  /\ view = <<>>
  /\ \E setting \in Settings :
       /\ retention_ms = Clamp(setting[1], RetentionMin, RetentionMax)
       /\ max_count = IF setting[2] > CountMax THEN CountMax ELSE setting[2]
  /\ last_revision_ms = 0
  /\ history = <<>>
  /\ configures = 0

Tick ==
  /\ now < MaxNow
  /\ now' = now + 1
  /\ UNCHANGED <<table, view, retention_ms, max_count, last_revision_ms,
                 history, configures>>

\* ble_bthome_store_measurement
AddBle ==
  /\ Len(history) < MaxSamples
  /\ \E s \in BleSeries : measurement_store_add(s, now)

\* onewire_handle_temperature: core 1 stamped the samples, in reading order;
\* how long one waits for core 0 (which may be joining the Wi-Fi) is open.
AddOneWire ==
  /\ Len(history) < MaxSamples
  /\ \E s \in OneWireSeries :
       LET stamps == {history[i].at : i \in {j \in DOMAIN history :
                                               history[j].series \in OneWireSeries}}
       IN  \E time \in Max(stamps \cup {0}) .. now :
             measurement_store_add(s, time)

\* app_web_apply_config
Configure ==
  /\ configures < MaxConfigures
  /\ configures' = configures + 1
  /\ \E setting \in Settings : Apply(setting)
  /\ UNCHANGED <<now, table, view, last_revision_ms, history>>

\* measurement_store_periodic; the elapsed time is an unsigned difference.
Periodic ==
  /\ ((now % Wrap) - (last_revision_ms % Wrap)) % Wrap >= RevisionInterval
  /\ measurement_revision

\* measurement_store_snapshot, called by app_mqtt_poll.
Snapshot == measurement_revision

Next == Tick \/ AddBle \/ AddOneWire \/ Configure \/ Periodic \/ Snapshot

Spec == Init /\ [][Next]_vars

-----------------------------------------------------------------------------
\* The samples of a series that a revision at a time may average: no older than
\* the retention, unless the clock has wrapped since they were taken.
Fresh(s, time) ==
  {n \in DOMAIN history :
     /\ history[n].series = s
     /\ \/ time - history[n].at <= retention_ms
        \/ time \div Wrap # history[n].at \div Wrap}

\* "Measurement Retention: maximum measurement storage time": whatever was
\* evicted, however late samples came and however the settings changed, every
\* average in the view is that of samples received for its series, each
\* counted once, and none older than the retention at the revision; only
\* samples from before a wrap of the clock, which have no age, may stay
\* (README.md, measurement_table_prune).
AveragesAreFresh ==
  [][ view' # view \/ last_revision_ms' # last_revision_ms =>
        \A k \in DOMAIN view' :
          \E S \in SUBSET Fresh(view'[k].series, last_revision_ms') :
             /\ S # {}
             /\ view'[k].sum = SumSet(S)
             /\ view'[k].count = Cardinality(S) ]_vars

\* The clock has not wrapped since any of these samples was taken.
Unwrapped(samples) == \A sample \in samples : sample.at \div Wrap = now \div Wrap

\* The samples a series should be averaged over at a time: the last max_count
\* ones received, of those no older than the retention.
Window(s, time) ==
  {n \in DOMAIN history :
     /\ history[n].series = s
     /\ time - history[n].at <= retention_ms
     /\ \/ max_count = 0
        \/ Cardinality({m \in n + 1 .. Len(history) : history[m].series = s}) < max_count}

\* Samples of one series with equal times cannot be told apart by age, and
\* the table does not keep their order.
DistinctTimes ==
  \A m, n \in DOMAIN history :
    history[m].series = history[n].series /\ history[m].at = history[n].at => m = n

\* As long as the table cannot have overflowed and the settings did not change,
\* every revision leaves in the view exactly the sums and counts of the
\* windows of the series that have samples, no series twice, and misses one
\* only when all rows are taken (measurement_view_rebuild).
ViewIsExact ==
  [][ (view' # view \/ last_revision_ms' # last_revision_ms)
        /\ configures = 0 /\ Len(history) <= TableSize /\ DistinctTimes /\ Unwrapped(ToSet(history)) =>
      LET window(s) == Window(s, last_revision_ms')
          live == {s \in Series : window(s) # {}}
          shown == {view'[k].series : k \in DOMAIN view'}
      IN  /\ \A k \in DOMAIN view' :
               /\ view'[k].sum = SumSet(window(view'[k].series))
               /\ view'[k].count = Cardinality(window(view'[k].series))
          /\ Cardinality(shown) = Len(view')
          /\ shown \subseteq live
          /\ shown = live \/ Len(view') = ViewSize ]_vars

\* Unless the clock wrapped after a sample, no step gives up a sample without one of three
\* reasons: it is older than the retention; its series already has max_count
\* later samples; or the table was full, and then nothing older than both it
\* and the sample stored stays behind (measurement_store_add).
LosesOnlyForAReason ==
  [][ \A i \in Used(table) :
        LET lost == table[i]
            kept == Used(table')
        IN  (\A j \in kept : table'[j] # lost) /\ Unwrapped(ToSet(history')) =>
              \/ now - lost.at > retention_ms
              \/ /\ max_count # 0
                 /\ Cardinality({j \in kept : /\ table'[j].series = lost.series
                                              /\ table'[j].at >= lost.at}) >= max_count
              \/ /\ kept = Slots /\ Used(table) = Slots
                 /\ \A j \in kept : \/ table'[j].at >= lost.at
                                    \/ table'[j].at >= table'[i].at ]_vars

\* No BLE sensor has the id of a 1-Wire one: both are four bytes of an address.
DistinctIds == \A s \in BleSeries, r \in OneWireSeries : s[1] # r[1]

\* What is sent to narodmon.ru has the averages of all rows of the first
\* MaxDevices devices in the view, and for each of these devices the count of
\* the row with most samples: that many devices always fit, so that no line
\* is cut and no device goes without its signal
\* (measurement_store_build_narodmon_payload).
PayloadIsComplete ==
  LET deviceOf(k) == view[k].series[1]
      firsts == {k \in DOMAIN view : \A j \in 1 .. k - 1 : deviceOf(j) # deviceOf(k)}
      sent == {deviceOf(k) : k \in {f \in firsts :
                                       Cardinality({j \in firsts : j <= f}) <= MaxDevices}}
      lines == app_narodmon_build_payload(view)
      of(kinds) == {<<lines[k].kind, lines[k].device, lines[k].value>> :
                      k \in {j \in DOMAIN lines : lines[j].kind \in kinds}}
      rows == {k \in DOMAIN view : deviceOf(k) \in sent}
  IN  /\ of({"TEMP", "RH", "MB2BAT"}) =
           {<<Metric(view[k]), deviceOf(k), <<view[k].sum, view[k].count>>>> : k \in rows}
      /\ of({"SIGNAL"}) =
           {<<"SIGNAL", d, Max({view[k].count : k \in {j \in rows : deviceOf(j) = d}})>> : d \in sent}
=============================================================================
