------------------------------ MODULE OneWire -------------------------------
(***************************************************************************)
(* The 1-Wire subsystem: the two cores, interleaved at every access to the *)
(* queues they share.                                                      *)
(***************************************************************************)
EXTENDS OneWireWorker, OneWireSource

vars == <<queueVars, workerVars, sourceVars>>

Init == QueueInit /\ WorkerInit /\ SourceInit

Core0 == PeriodicStep /\ UNCHANGED workerVars
Core1 == WorkerStep /\ UNCHANGED sourceVars
Config == ApplyConfig /\ UNCHANGED workerVars
Time == Elapse /\ UNCHANGED workerVars

\* The millisecond clock of 32 bits wraps.  A reading on its way keeps the time
\* it was made at, so that for the table the clock wraps after it.
ClockWraps ==
  /\ worker \in {"remove", "wait", "release"} /\ IsEmpty(response_queue)
  /\ before_wrap' = before_wrap \cup ToSet(last_seen) /\ last_seen' = <<>>
  /\ UNCHANGED <<queueVars, workerVars, source, state, current_bus, bus_enabled, due,
                 received, devices>>

Next == Core0 \/ Core1 \/ Config \/ Time \/ ClockWraps

\* Both cores keep running and time keeps passing.
Spec == Init /\ [][Next]_vars /\ WF_vars(Core0) /\ WF_vars(Core1) /\ WF_vars(Time)

-----------------------------------------------------------------------------
\* Types of all the state.
TypeOK ==
  /\ command_queue \in Queues(Commands) /\ response_queue \in Queues(Responses)
  /\ event \in BOOLEAN
  /\ WorkerTypeOK /\ SourceTypeOK

\* What is under way: a command or response in a queue or in a core's hands.
UnderWay ==
  (IF IsEmpty(command_queue) THEN 0 ELSE 1)
    + (IF worker \in {"add", "wait_room", "publish"} THEN 1 ELSE 0)
    + (IF IsEmpty(response_queue) THEN 0 ELSE 1)

\* The source waits exactly when one command or its response is under way, so
\* that a response always finds the source in the state it answers to, and
\* neither core ever meets a full queue: the worker would then sleep in a
\* __wfe that nothing ends, as taking a response does no __sev
\* (onewire_worker_main, onewire_source_periodic).
OneRequestAtATime ==
  /\ UnderWay <= 1
  /\ source # "publish" => (UnderWay = 1 <=> state # "idle")
  /\ worker # "wait_room"

\* A response is of the kind the source waits for, and a temperature comes
\* from the bus being polled (onewire_handle_response).
AnswersTheRequest ==
  source = "release" =>
    \/ state = "wait_start" /\ received.type \in {"start_ok", "start_error"}
    \/ state = "wait_readnext" /\ received.type = "readnext_none"
    \/ /\ state = "wait_readnext" /\ received.type = "temperature"
       /\ received.gpio = current_bus

\* The row of a sensor that was seen in this cycle is never given to another,
\* however the sensors were exchanged before: the table holds all that the
\* buses can have.  Only while there are rows from before the wrap of the clock,
\* which pass for younger than any, this may happen
\* (onewire_find_or_alloc_device).
KeepsPresentSensors ==
  [][ \A d \in DeviceSlots :
        before_wrap = {} /\ devices[d] # Nothing /\ devices[d].present =>
          /\ devices'[d].gpio = devices[d].gpio
          /\ devices'[d].rom = devices[d].rom ]_vars

\* A polling cycle ends, whatever the buses and the settings do.
CycleEnds == state # "idle" ~> state = "idle"

\* The sensors of a bus that stays disabled are in the end shown as absent,
\* also when a cycle was reading them as it was disabled
\* (onewire_source_apply_config, onewire_handle_temperature).
DisabledGoesAbsent ==
  \A b \in Buses :
    <>[](~bus_enabled[b]) =>
      <>[](\A d \in DeviceSlots :
             devices[d] # Nothing /\ devices[d].gpio = b => ~devices[d].present)
=============================================================================
