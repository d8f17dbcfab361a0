---------------------------- MODULE OneWireSource ---------------------------
(***************************************************************************)
(* Core 0's side of the 1-Wire sensors: a state machine, stepped by        *)
(* onewire_source_periodic in every pass of the main loop, that polls the  *)
(* enabled buses one after the other, and the table of sensors for the web *)
(* page.  Temperatures and error counts are left out.  onewire_next_poll_ms*)
(* is kept as whether it has been reached, last_seen_ms as the order in    *)
(* which the sensors were last seen since the 32-bit clock wrapped, and    *)
(* which were not seen since: their last_seen_ms are the greater ones.     *)
(***************************************************************************)
EXTENDS OneWireQueue, SequencesExt

CONSTANT DeviceTableSize  \* ONEWIRE_DEVICE_TABLE_SIZE

DeviceSlots == 1 .. DeviceTableSize

VARIABLES
  source,        \* where core 0 is: in the loop or in onewire_source_periodic
  state,         \* onewire_source_state
  current_bus,   \* onewire_current_bus
  bus_enabled,   \* onewire_bus_enabled
  due,           \* onewire_next_poll_ms has been reached
  received,      \* the response being handled
  devices,       \* onewire_devices
  last_seen,     \* the slots in use, least recently seen first, and
  before_wrap    \* those last seen before the clock wrapped

seenVars == <<last_seen, before_wrap>>
sourceVars == <<source, state, current_bus, bus_enabled, due, received, devices, seenVars>>

Devices == [gpio : Buses, rom : Roms, present : BOOLEAN]

ASSUME SourceAssumption == DeviceTableSize \in Nat \ {0} /\ Nothing \notin Devices

SourceTypeOK ==
  /\ source \in {"loop", "remove", "release", "publish"}
  /\ state \in {"idle", "wait_start", "wait_readnext"}
  /\ current_bus \in 1 .. BusCount + 1
  /\ bus_enabled \in [Buses -> BOOLEAN]
  /\ due \in BOOLEAN
  /\ received \in Responses \cup {Nothing}
  /\ devices \in [DeviceSlots -> Devices \cup {Nothing}]
  /\ last_seen \in Seq(DeviceSlots)
  /\ before_wrap \subseteq {d \in DeviceSlots : devices[d] # Nothing}
  /\ ToSet(last_seen) = {d \in DeviceSlots : devices[d] # Nothing} \ before_wrap
  /\ Len(last_seen) = Cardinality(ToSet(last_seen))

\* After onewire_source_init and the first onewire_source_apply_config.
SourceInit ==
  /\ source = "loop" /\ state = "idle" /\ current_bus = 1
  /\ bus_enabled \in [Buses -> BOOLEAN]
  /\ due = TRUE
  /\ received = Nothing
  /\ devices = [d \in DeviceSlots |-> Nothing]
  /\ last_seen = <<>> /\ before_wrap = {}

-----------------------------------------------------------------------------
\* Clears present for the sensors of the given buses.
Absent(buses) ==
  [d \in DeviceSlots |->
     IF devices[d] # Nothing /\ devices[d].gpio \in buses
     THEN [devices[d] EXCEPT !.present = FALSE] ELSE devices[d]]

\* The full table gives up the row with the least last_seen_ms; of those seen
\* before the wrap, which that is is not kept.
LeastSeen == IF last_seen # <<>> THEN {Head(last_seen)} ELSE before_wrap

\* Variant: a full table gives up the row seen last.
FindOrReplaceLast(e) ==
  LET same == {d \in DeviceSlots : /\ devices[d] # Nothing
                                   /\ devices[d].gpio = e.gpio /\ devices[d].rom = e.rom}
      free == {d \in DeviceSlots : devices[d] = Nothing}
  IN  IF same \cup free # {} THEN {Min(IF same # {} THEN same ELSE free)}
      ELSE IF last_seen # <<>> THEN {Last(last_seen)} ELSE before_wrap

\* The row for the sensor, or those that it may be.
onewire_find_or_alloc_device(e) ==
  LET same == {d \in DeviceSlots : /\ devices[d] # Nothing
                                   /\ devices[d].gpio = e.gpio /\ devices[d].rom = e.rom}
      free == {d \in DeviceSlots : devices[d] = Nothing}
  IN  IF same # {} THEN {Min(same)} ELSE IF free # {} THEN {Min(free)} ELSE LeastSeen

onewire_handle_temperature(e) ==
  \E d \in onewire_find_or_alloc_device(e) :
    /\ devices' = [devices EXCEPT ![d] =
                     [gpio |-> e.gpio, rom |-> e.rom, present |-> TRUE]]
    /\ last_seen' = Append(RemoveFirst(last_seen, d), d)
    /\ before_wrap' = before_wrap \ {d}

\* onewire_worker_send, up to the publication.
Send(c) ==
  /\ command_queue' = Written(command_queue, c)
  /\ source' = "publish"
  /\ UNCHANGED <<state, due>>

\* onewire_start_next_bus from bus b on.  The poll time is in the future both
\* after onewire_finish_cycle and after a command that found no room.
onewire_start_next_bus(b, next) ==
  LET enabled == {n \in b .. BusCount : bus_enabled[n]}
  IN  /\ current_bus' = IF enabled = {} THEN BusCount + 1 ELSE Min(enabled)
      /\ IF enabled = {} \/ IsFull(command_queue)
         THEN /\ state' = "idle" /\ due' = FALSE /\ source' = next
              /\ UNCHANGED command_queue
         ELSE Send([type |-> "start", gpio |-> current_bus'])

onewire_finish_bus == onewire_start_next_bus(current_bus + 1, "remove")

ReadNextOrFinish ==
  IF IsFull(command_queue)
  THEN onewire_finish_bus
  ELSE Send([type |-> "readnext"]) /\ UNCHANGED current_bus

\* A response finds the next reading asked for or the bus finished; one that
\* nobody waits for is ignored.
onewire_handle_response(r) ==
  LET goes_on == \/ state = "wait_start" /\ r.type = "start_ok"
                 \/ state = "wait_readnext" /\ r.type = "temperature"
  IN  IF state = "idle"
      THEN /\ source' = "remove"
           /\ UNCHANGED <<command_queue, state, due, current_bus, devices, seenVars>>
      ELSE /\ IF goes_on THEN ReadNextOrFinish ELSE onewire_finish_bus
           /\ IF goes_on /\ state = "wait_readnext"
              THEN onewire_handle_temperature(r)
              ELSE UNCHANGED <<devices, seenVars>>

-----------------------------------------------------------------------------
PeriodicBegin ==
  /\ source = "loop"
  /\ source' = "remove"
  /\ UNCHANGED <<queueVars, state, current_bus, bus_enabled, due, received, devices, seenVars>>

\* onewire_worker_try_get_response up to the copy of the entry.
PeriodicRemove ==
  /\ source = "remove" /\ ~IsEmpty(response_queue)
  /\ received' = Oldest(response_queue)
  /\ source' = "release"
  /\ UNCHANGED <<queueVars, state, current_bus, bus_enabled, due, devices, seenVars>>

\* The rest of it, and the response.
PeriodicHandle ==
  /\ source = "release"
  /\ response_queue' = Released(response_queue)
  /\ onewire_handle_response(received)
  /\ received' = Nothing
  /\ UNCHANGED <<event, bus_enabled>>

\* Variant: publishes without __sev.
PublishSilently ==
  /\ source = "publish"
  /\ command_queue' = Published(command_queue)
  /\ state' = IF command_queue.entries[command_queue.write_index].type = "start"
              THEN "wait_start" ELSE "wait_readnext"
  /\ source' = IF state = "idle" THEN "loop" ELSE "remove"
  /\ UNCHANGED <<event, response_queue, current_bus, bus_enabled, due, received, devices, seenVars>>

\* onewire_command_queue_try_add publishes; the state follows the command.
\* A source that was idle has started a cycle, and the call ends.
PeriodicPublish ==
  /\ source = "publish"
  /\ command_queue' = Published(command_queue)
  /\ event' = TRUE
  /\ state' = IF command_queue.entries[command_queue.write_index].type = "start"
              THEN "wait_start" ELSE "wait_readnext"
  /\ source' = IF state = "idle" THEN "loop" ELSE "remove"
  /\ UNCHANGED <<response_queue, current_bus, bus_enabled, due, received, devices, seenVars>>

\* Variant: a cycle starts with the sensors of the last one still present.
EndKeepingPresent ==
  /\ source = "remove" /\ IsEmpty(response_queue)
  /\ IF state = "idle" /\ due
     THEN onewire_start_next_bus(1, "loop")
     ELSE source' = "loop" /\ UNCHANGED <<command_queue, state, due, current_bus>>
  /\ UNCHANGED <<response_queue, event, bus_enabled, received, devices, seenVars>>

\* No response is left: start a cycle if it is time.
PeriodicEnd ==
  /\ source = "remove" /\ IsEmpty(response_queue)
  /\ IF state = "idle" /\ due
     THEN /\ devices' = Absent(Buses)
          /\ onewire_start_next_bus(1, "loop")
     ELSE /\ source' = "loop"
          /\ UNCHANGED <<command_queue, state, due, current_bus, devices>>
  /\ UNCHANGED <<response_queue, event, bus_enabled, received, seenVars>>

\* Variants: a change of the settings restarts the cycle, or its order.
ApplyConfigRestarting ==
  /\ source = "loop"
  /\ bus_enabled' \in [Buses -> BOOLEAN]
  /\ state' = "idle" /\ due' = TRUE
  /\ UNCHANGED <<queueVars, source, current_bus, received, devices, seenVars>>

ApplyConfigRewinding ==
  /\ source = "loop"
  /\ bus_enabled' \in [Buses -> BOOLEAN]
  /\ current_bus' = 1
  /\ UNCHANGED <<queueVars, source, state, due, received, devices, seenVars>>

\* onewire_source_apply_config, from app_web_apply_config
ApplyConfig ==
  /\ source = "loop"
  /\ bus_enabled' \in [Buses -> BOOLEAN]
  /\ due' = (due \/ state = "idle")
  /\ devices' = Absent({b \in Buses : ~bus_enabled'[b]})
  /\ UNCHANGED <<queueVars, source, state, current_bus, received, seenVars>>

\* The poll interval ends.
Elapse ==
  /\ state = "idle" /\ ~due
  /\ due' = TRUE
  /\ UNCHANGED <<queueVars, source, state, current_bus, bus_enabled, received, devices, seenVars>>

PeriodicStep ==
  PeriodicBegin \/ PeriodicRemove \/ PeriodicHandle \/ PeriodicPublish \/ PeriodicEnd
=============================================================================
