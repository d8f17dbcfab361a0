---------------------------- MODULE OneWireWorker ---------------------------
(***************************************************************************)
(* Core 1: takes one command at a time, drives the bus and answers with    *)
(* one response.  What a bus search finds (OneWireBus) and whether a       *)
(* conversion starts is up to the hardware; whether a sensor can be read   *)
(* makes no difference to what follows, and is left out.                   *)
(***************************************************************************)
EXTENDS OneWireQueue

CONSTANT DeviceLimit  \* ONEWIRE_WORKER_DEVICE_LIMIT

ASSUME WorkerAssumption == DeviceLimit \in Nat

VARIABLES
  worker,         \* where onewire_worker_main is
  command,        \* its command
  response,       \* its response
  worker_gpio,    \* onewire_worker_gpio
  worker_roms,    \* onewire_worker_roms, device_count of them
  device_index    \* onewire_worker_device_index

workerVars == <<worker, command, response, worker_gpio, worker_roms, device_index>>

WorkerTypeOK ==
  /\ worker \in {"remove", "wait", "release", "add", "wait_room", "publish"}
  /\ command \in Commands \cup {Nothing}
  /\ response \in Responses \cup {Nothing}
  /\ worker_gpio \in Buses
  /\ worker_roms \in Seq(Roms) /\ Len(worker_roms) <= DeviceLimit
  /\ device_index \in 0 .. Len(worker_roms)

WorkerInit ==
  /\ worker = "remove" /\ command = Nothing /\ response = Nothing
  /\ worker_gpio = 1 /\ worker_roms = <<>> /\ device_index = 0

\* The results of onewire_bus_search, up to the limit (OneWireBus); a sensor taken
\* off the bus during the search can make another appear twice.
SearchResults == UNION {[1 .. n -> Roms] : n \in 0 .. DeviceLimit}

\* onewire_command_queue_try_remove up to the copy of the entry.
WorkerRemove ==
  /\ worker = "remove"
  /\ IF IsEmpty(command_queue)
     THEN worker' = "wait" /\ UNCHANGED command
     ELSE worker' = "release" /\ command' = Oldest(command_queue)
  /\ UNCHANGED <<queueVars, response, worker_gpio, worker_roms, device_index>>

\* __wfe, in either of the two loops: sleeps until the event register is set.
WorkerWake ==
  /\ worker \in {"wait", "wait_room"} /\ event
  /\ event' = FALSE
  /\ worker' = IF worker = "wait" THEN "remove" ELSE "add"
  /\ UNCHANGED <<command_queue, response_queue, command, response, worker_gpio,
                 worker_roms, device_index>>

\* The rest of try_remove, and the handler, which is done with the command.
WorkerHandle(handler) ==
  /\ worker = "release"
  /\ command_queue' = Released(command_queue)
  /\ worker' = "add"
  /\ handler
  /\ command' = Nothing
  /\ UNCHANGED <<response_queue, event>>

onewire_worker_handle_start ==
  /\ command.type = "start"
  /\ worker_gpio' = command.gpio
  /\ device_index' = 0
  /\ \E roms \in SearchResults :
       \/ /\ worker_roms' = roms
          /\ response' = [type |-> "start_ok"]
       \/ /\ roms # <<>>   \* the conversion does not start
          /\ worker_roms' = <<>>
          /\ response' = [type |-> "start_error"]

onewire_worker_handle_readnext ==
  /\ command.type = "readnext"
  /\ IF device_index >= Len(worker_roms)
     THEN /\ response' = [type |-> "readnext_none"]
          /\ UNCHANGED device_index
     ELSE /\ device_index' = device_index + 1
          /\ response' = [type |-> "temperature", gpio |-> worker_gpio,
                          rom |-> worker_roms[device_index + 1]]
  /\ UNCHANGED <<worker_gpio, worker_roms>>

\* onewire_response_queue_try_add up to the store of the entry.
WorkerAdd ==
  /\ worker = "add"
  /\ IF IsFull(response_queue)
     THEN worker' = "wait_room" /\ UNCHANGED response_queue
     ELSE worker' = "publish" /\ response_queue' = Written(response_queue, response)
  /\ UNCHANGED <<command_queue, event, command, response, worker_gpio,
                 worker_roms, device_index>>

\* The rest of try_add; __sev sets the event register of both cores.  The
\* response is cleared before it is used again.
WorkerPublish ==
  /\ worker = "publish"
  /\ response_queue' = Published(response_queue)
  /\ event' = TRUE
  /\ worker' = "remove"
  /\ response' = Nothing
  /\ UNCHANGED <<command_queue, command, worker_gpio, worker_roms, device_index>>

WorkerStep ==
  \/ WorkerRemove
  \/ WorkerWake
  \/ WorkerHandle(onewire_worker_handle_start)
  \/ WorkerHandle(onewire_worker_handle_readnext)
  \/ WorkerAdd
  \/ WorkerPublish
=============================================================================
