--------------------------- MODULE OneWireProofs ----------------------------
(***************************************************************************)
(* Between the cores there is at most one command or response, wherever    *)
(* each of them is in its accesses to the queues, and a response answers   *)
(* what the source waits for.                                              *)
(*                                                                         *)
(* The invariants do not say where the request is.  The inductive one      *)
(* follows it round: nobody has one, core 0 is about to publish a command, *)
(* the command is in its queue, core 1 is answering, or the response is in *)
(* its queue.  In each place the queues, both program counters and the     *)
(* state of the source are tied together.                                  *)
(*                                                                         *)
(* And the row of a sensor that was seen in this cycle is not given away:  *)
(* the readings of a cycle are counted, and there are never more rows seen *)
(* in it, which stand last in the order, than the table has.               *)
(*                                                                         *)
(* The last part is about the search of one bus, which is a process of its *)
(* own: of a bus left alone it finds the sensors in order, and of one that *)
(* changes, or is shorted, it makes up none.                               *)
(***************************************************************************)
EXTENDS OneWire, OneWireBus, FiniteSetTheorems, SequenceTheorems, WellFoundedInduction, TLAPS

\* A queue with one entry, and the entry that is to be published next.
HoldsOne(q) == q.write_index = onewire_queue_next_index(q.read_index)
Unpublished(q) == q.entries[q.write_index]

-----------------------------------------------------------------------------
(* The ring buffers.                                                       *)

\* A set of numbers that is not empty has a least element.
LEMMA LeastNumber ==
  ASSUME NEW T, T \subseteq Nat, T # {}
  PROVE  \E x \in T : \A y \in T : x <= y
<1>1. PICK x \in T : \A y \in T : ~(<<y, x>> \in OpToRel(<, Nat))
  BY NatLessThanWellFounded, WFMin
<1>2. ASSUME NEW y \in T PROVE x <= y
  <2>1. <<y, x>> \in Nat \X Nat /\ <<y, x>> \notin OpToRel(<, Nat)
    BY <1>1
  <2>2. ~(y < x)
    BY <2>1 DEF OpToRel
  <2> QED BY <2>2
<1> QED BY <1>2

\* Min finds it.
LEMMA MinIsLeast ==
  ASSUME NEW T, T \subseteq Nat, T # {}
  PROVE  Min(T) \in T
  BY LeastNumber DEF Min

\* With two slots or more the next index is another one.
LEMMA NextIndex ==
  ASSUME NEW i \in Indices
  PROVE  onewire_queue_next_index(i) \in Indices \ {i}
<1>1. CASE i + 1 = SlotCount
  BY <1>1, QueueAssumption DEF Indices, onewire_queue_next_index
<1>2. CASE i + 1 < SlotCount
  BY <1>2, QueueAssumption DEF Indices, onewire_queue_next_index
<1> QED
  BY <1>1, <1>2, QueueAssumption DEF Indices

\* An empty queue has room.
LEMMA EmptyHasRoom ==
  ASSUME NEW E, NEW q \in Queues(E), IsEmpty(q)
  PROVE  ~IsFull(q)
  BY NextIndex DEF Queues, IsEmpty, IsFull

\* An entry that is written is not yet seen.
LEMMA WrittenIs ==
  ASSUME NEW E, NEW q \in Queues(E), NEW e \in E, IsEmpty(q)
  PROVE  /\ Written(q, e) \in Queues(E) /\ IsEmpty(Written(q, e))
         /\ Unpublished(Written(q, e)) = e
  BY DEF Queues, IsEmpty, Written, Unpublished

\* Once published it is the oldest, and the only one.
LEMMA PublishedIs ==
  ASSUME NEW E, NEW q \in Queues(E), IsEmpty(q)
  PROVE  /\ Published(q) \in Queues(E) /\ HoldsOne(Published(q)) /\ ~IsEmpty(Published(q))
         /\ Oldest(Published(q)) = Unpublished(q)
  BY NextIndex DEF Queues, IsEmpty, Published, Unpublished, Oldest, HoldsOne

\* When it is released the queue is empty.
LEMMA ReleasedIs ==
  ASSUME NEW E, NEW q \in Queues(E), HoldsOne(q)
  PROVE  Released(q) \in Queues(E) /\ IsEmpty(Released(q)) /\ ~IsEmpty(q)
  BY NextIndex DEF Queues, IsEmpty, Released, HoldsOne

\* The first queue.
LEMMA EmptyQueueIs == \A E : EmptyQueue \in Queues(E) /\ IsEmpty(EmptyQueue)
  BY QueueAssumption DEF EmptyQueue, Queues, IsEmpty, Indices

-----------------------------------------------------------------------------
(* Where the request is.                                                   *)

\* The command c is for the bus being polled.
Asks(c) ==
  \/ c.type = "start" /\ c.gpio = current_bus
  \/ c.type = "readnext" /\ worker_gpio = current_bus

\* The response r is one that the source waits for.
Answers(r) ==
  \/ state = "wait_start" /\ r.type \in {"start_ok", "start_error"}
  \/ state = "wait_readnext" /\ r.type = "readnext_none"
  \/ state = "wait_readnext" /\ r.type = "temperature" /\ r.gpio = current_bus

Resting ==
  /\ IsEmpty(command_queue) /\ IsEmpty(response_queue)
  /\ worker \in {"remove", "wait"} /\ source \in {"loop", "remove"} /\ state = "idle"

Sending ==
  /\ IsEmpty(command_queue) /\ IsEmpty(response_queue)
  /\ worker \in {"remove", "wait"} /\ source = "publish"
  /\ state \in {"idle", "wait_start", "wait_readnext"}
  /\ Unpublished(command_queue) \in Commands /\ Asks(Unpublished(command_queue))

Commanded ==
  /\ HoldsOne(command_queue) /\ IsEmpty(response_queue)
  /\ worker \in {"remove", "wait", "release"} /\ source \in {"loop", "remove"}
  /\ Oldest(command_queue) \in Commands /\ Asks(Oldest(command_queue))
  /\ state = IF Oldest(command_queue).type = "start" THEN "wait_start" ELSE "wait_readnext"
  /\ worker = "release" => command = Oldest(command_queue)

Answering ==
  /\ IsEmpty(command_queue) /\ IsEmpty(response_queue)
  /\ worker \in {"add", "publish"} /\ source \in {"loop", "remove"}
  /\ worker_gpio = current_bus
  /\ response \in Responses /\ Answers(response)
  /\ worker = "publish" => Unpublished(response_queue) = response

Answered ==
  /\ IsEmpty(command_queue) /\ HoldsOne(response_queue)
  /\ worker \in {"remove", "wait"} /\ source \in {"loop", "remove", "release"}
  /\ worker_gpio = current_bus
  /\ Oldest(response_queue) \in Responses /\ Answers(Oldest(response_queue))
  /\ source = "release" => received = Oldest(response_queue)

Types ==
  /\ command_queue \in Queues(Commands) /\ response_queue \in Queues(Responses)
  /\ WorkerTypeOK
  /\ current_bus \in 1 .. BusCount + 1

RequestInv == Types /\ (Resting \/ Sending \/ Commanded \/ Answering \/ Answered)

\* Nobody has a request when the cores start.
LEMMA RequestInit == Init => RequestInv
<1> SUFFICES ASSUME Init PROVE RequestInv
  OBVIOUS
<1>1. /\ command_queue \in Queues(Commands) /\ IsEmpty(command_queue)
      /\ response_queue \in Queues(Responses) /\ IsEmpty(response_queue)
  BY EmptyQueueIs DEF Init, QueueInit
<1>2. WorkerTypeOK /\ worker = "remove"
  BY WorkerAssumption, QueueAssumption DEF Init, WorkerInit, WorkerTypeOK, Buses
<1>3. current_bus \in 1 .. BusCount + 1 /\ source = "loop" /\ state = "idle"
  BY QueueAssumption DEF Init, SourceInit
<1> QED
  BY <1>1, <1>2, <1>3 DEF RequestInv, Types, Resting

-----------------------------------------------------------------------------
(* The steps of core 1.                                                    *)

\* Core 1 takes no response from a queue and no command that is not there.
LEMMA WorkerRemoveKeeps == RequestInv /\ WorkerRemove /\ UNCHANGED sourceVars => RequestInv'
<1> SUFFICES ASSUME RequestInv, WorkerRemove, UNCHANGED sourceVars PROVE RequestInv'
  OBVIOUS
<1> USE DEF RequestInv, Types, WorkerTypeOK, WorkerRemove, queueVars, sourceVars, Asks, Answers
<1>1. CASE Resting
  BY <1>1 DEF Resting
<1>2. CASE Sending
  BY <1>2 DEF Sending
<1>3. CASE Commanded
  BY <1>3, ReleasedIs DEF Commanded
<1>4. CASE Answering
  BY <1>4 DEF Answering
<1>5. CASE Answered
  BY <1>5 DEF Answered
<1> QED BY <1>1, <1>2, <1>3, <1>4, <1>5

\* It wakes only from waiting for a command.
LEMMA WorkerWakeKeeps == RequestInv /\ WorkerWake /\ UNCHANGED sourceVars => RequestInv'
<1> SUFFICES ASSUME RequestInv, WorkerWake, UNCHANGED sourceVars PROVE RequestInv'
  OBVIOUS
<1> USE DEF RequestInv, Types, WorkerTypeOK, WorkerWake, sourceVars, Asks, Answers
<1>1. CASE Resting
  BY <1>1 DEF Resting
<1>2. CASE Sending
  BY <1>2 DEF Sending
<1>3. CASE Commanded
  BY <1>3 DEF Commanded
<1>4. CASE Answering
  BY <1>4 DEF Answering
<1>5. CASE Answered
  BY <1>5 DEF Answered
<1> QED BY <1>1, <1>2, <1>3, <1>4, <1>5

\* What a search finds is a list of sensors within the limit.
LEMMA SearchFinds ==
  ASSUME NEW found \in SearchResults
  PROVE  found \in Seq(Roms) /\ Len(found) \in 0 .. DeviceLimit
<1>1. PICK n \in 0 .. DeviceLimit : found \in [1 .. n -> Roms]
  BY DEF SearchResults
<1>2. n \in Nat /\ found \in Seq(Roms)
  BY <1>1, WorkerAssumption
<1>3. Len(found) = n
  BY <1>1, <1>2
<1> QED BY <1>1, <1>2, <1>3

\* The handler of a command takes it from the queue and has the answer to it.
LEMMA WorkerHandleKeeps ==
  ASSUME RequestInv, UNCHANGED sourceVars,
         \/ WorkerHandle(onewire_worker_handle_start)
         \/ WorkerHandle(onewire_worker_handle_readnext)
  PROVE  RequestInv'
<1>1. /\ Commanded /\ worker = "release" /\ command = Oldest(command_queue) /\ command \in Commands
      /\ worker' = "add" /\ command' = Nothing /\ UNCHANGED response_queue
      /\ command_queue' = Released(command_queue)
  BY DEF RequestInv, WorkerHandle, Resting, Sending, Commanded, Answering, Answered
<1>2. command_queue' \in Queues(Commands) /\ IsEmpty(command_queue')
  BY <1>1, ReleasedIs DEF RequestInv, Types, Commanded
<1>3. CASE WorkerHandle(onewire_worker_handle_start)
  <2>1. command.type = "start" /\ command.gpio \in Buses /\ command.gpio = current_bus
    BY <1>1, <1>3 DEF WorkerHandle, onewire_worker_handle_start, Commanded, Asks, Commands
  <2>2. worker_gpio' = command.gpio /\ device_index' = 0
    BY <1>3 DEF WorkerHandle, onewire_worker_handle_start
  <2>3. response' \in Responses /\ response'.type \in {"start_ok", "start_error"}
    BY <1>3 DEF WorkerHandle, onewire_worker_handle_start, Responses
  <2>4. worker_roms' \in Seq(Roms) /\ Len(worker_roms') \in 0 .. DeviceLimit
    <3>1. PICK found \in SearchResults : worker_roms' = found \/ worker_roms' = <<>>
      BY <1>3 DEF WorkerHandle, onewire_worker_handle_start
    <3>2. <<>> \in Seq(Roms) /\ Len(<<>>) = 0 /\ 0 \in 0 .. DeviceLimit
      BY WorkerAssumption
    <3>3. found \in Seq(Roms) /\ Len(found) \in 0 .. DeviceLimit
      BY SearchFinds
    <3> QED BY <3>1, <3>2, <3>3, Zenon
  <2>5. Types'
    BY <1>1, <1>2, <2>1, <2>2, <2>3, <2>4, WorkerAssumption
       DEF RequestInv, Types, WorkerTypeOK, sourceVars
  <2>6. Answering'
    BY <1>1, <1>2, <2>1, <2>2, <2>3 DEF Commanded, Answering, Answers, sourceVars
  <2> QED BY <2>5, <2>6 DEF RequestInv
<1>4. CASE WorkerHandle(onewire_worker_handle_readnext)
  <2>1. command.type = "readnext" /\ worker_gpio = current_bus /\ state = "wait_readnext"
    BY <1>1, <1>4 DEF WorkerHandle, onewire_worker_handle_readnext, Commanded, Asks
  <2>2. /\ UNCHANGED <<worker_gpio, worker_roms>> /\ device_index' \in 0 .. Len(worker_roms)
        /\ response' \in Responses
        /\ \/ response'.type = "readnext_none"
           \/ response'.type = "temperature" /\ response'.gpio = current_bus
    <3>1. CASE device_index >= Len(worker_roms)
      <4>1. device_index \in 0 .. Len(worker_roms)
        BY DEF RequestInv, Types, WorkerTypeOK
      <4>2. /\ response' = [type |-> "readnext_none"]
            /\ UNCHANGED <<device_index, worker_gpio, worker_roms>>
        BY <1>4, <3>1 DEF WorkerHandle, onewire_worker_handle_readnext
      <4>3. response' \in Responses /\ response'.type = "readnext_none"
        BY <4>2 DEF Responses
      <4> QED
        BY <4>1, <4>2, <4>3
    <3>2. CASE ~(device_index >= Len(worker_roms))
      <4>1. /\ device_index + 1 \in 1 .. Len(worker_roms)
            /\ worker_roms[device_index + 1] \in Roms /\ worker_gpio \in Buses
        BY <3>2 DEF RequestInv, Types, WorkerTypeOK
      <4>2. /\ device_index' = device_index + 1
            /\ UNCHANGED <<worker_gpio, worker_roms>>
            /\ response' = [type |-> "temperature", gpio |-> worker_gpio,
                            rom |-> worker_roms[device_index + 1]]
        BY <1>4, <3>2 DEF WorkerHandle, onewire_worker_handle_readnext
      <4> QED
        BY <2>1, <4>1, <4>2 DEF Responses
    <3> QED BY <3>1, <3>2
  <2>3. Types'
    BY <1>1, <1>2, <2>2 DEF RequestInv, Types, WorkerTypeOK, sourceVars
  <2>4. Answering'
    BY <1>1, <1>2, <2>1, <2>2 DEF Commanded, Answering, Answers, sourceVars
  <2> QED BY <2>3, <2>4 DEF RequestInv
<1> QED BY <1>3, <1>4

\* Core 1 finds room for its response, and writes it.
LEMMA WorkerAddKeeps == RequestInv /\ WorkerAdd /\ UNCHANGED sourceVars => RequestInv'
<1> SUFFICES ASSUME RequestInv, WorkerAdd, UNCHANGED sourceVars PROVE RequestInv'
  OBVIOUS
<1>1. Answering /\ worker = "add"
  BY DEF RequestInv, WorkerAdd, Resting, Sending, Commanded, Answering, Answered
<1>2. /\ response_queue \in Queues(Responses) /\ response \in Responses /\ IsEmpty(response_queue)
      /\ ~IsFull(response_queue)
  BY <1>1, EmptyHasRoom DEF RequestInv, Types, Answering
<1>3. worker' = "publish" /\ response_queue' = Written(response_queue, response)
  BY <1>2 DEF WorkerAdd
<1>4. /\ response_queue' \in Queues(Responses) /\ IsEmpty(response_queue')
      /\ Unpublished(response_queue') = response
  BY <1>2, <1>3, WrittenIs
<1>5. Types'
  BY <1>3, <1>4 DEF RequestInv, Types, WorkerTypeOK, WorkerAdd, sourceVars
<1>6. Answering'
  BY <1>1, <1>3, <1>4 DEF Answering, Answers, WorkerAdd, sourceVars
<1> QED BY <1>5, <1>6 DEF RequestInv

\* Then it publishes it.
LEMMA WorkerPublishKeeps == RequestInv /\ WorkerPublish /\ UNCHANGED sourceVars => RequestInv'
<1> SUFFICES ASSUME RequestInv, WorkerPublish, UNCHANGED sourceVars PROVE RequestInv'
  OBVIOUS
<1>1. Answering /\ worker = "publish"
  BY DEF RequestInv, WorkerPublish, Resting, Sending, Commanded, Answering, Answered
<1>2. /\ response_queue' \in Queues(Responses) /\ HoldsOne(response_queue')
      /\ Oldest(response_queue') = response
  BY <1>1, PublishedIs DEF WorkerPublish, RequestInv, Types, Answering
<1>3. Types'
  BY <1>2 DEF RequestInv, Types, WorkerTypeOK, WorkerPublish, sourceVars
<1>4. Answered'
  BY <1>1, <1>2 DEF Answering, Answered, Answers, WorkerPublish, sourceVars
<1> QED BY <1>3, <1>4 DEF RequestInv

-----------------------------------------------------------------------------
(* The steps of core 0.                                                    *)

\* The next bus is started, or the cycle is over.
LEMMA StartsNextBus ==
  ASSUME RequestInv, IsEmpty(command_queue), NEW b \in Nat \ {0}, NEW next,
         onewire_start_next_bus(b, next)
  PROVE  /\ current_bus' \in 1 .. BusCount + 1
         /\ command_queue' \in Queues(Commands) /\ IsEmpty(command_queue')
         /\ \/ state' = "idle" /\ source' = next
            \/ /\ source' = "publish" /\ UNCHANGED state
               /\ Unpublished(command_queue') = [type |-> "start", gpio |-> current_bus']
               /\ current_bus' \in Buses
<1> DEFINE enabled == {n \in b .. BusCount : bus_enabled[n]}
<1>1. command_queue \in Queues(Commands) /\ ~IsFull(command_queue)
  BY EmptyHasRoom DEF RequestInv, Types
<1>2. CASE enabled = {}
  <2>1. current_bus' = BusCount + 1 /\ state' = "idle" /\ source' = next /\ UNCHANGED command_queue
    BY <1>2 DEF onewire_start_next_bus
  <2> QED BY <1>1, <2>1, QueueAssumption
<1>3. CASE enabled # {}
  <2>1. enabled \subseteq Nat /\ enabled \subseteq 1 .. BusCount
    BY QueueAssumption
  <2>2. Min(enabled) \in 1 .. BusCount
    BY <1>3, <2>1, MinIsLeast
  <2>3. /\ current_bus' = Min(enabled)
        /\ Send([type |-> "start", gpio |-> current_bus'])
    BY <1>1, <1>3 DEF onewire_start_next_bus
  <2> HIDE DEF enabled
  <2>4. [type |-> "start", gpio |-> current_bus'] \in Commands
    BY <2>2, <2>3 DEF Commands, Buses
  <2>5. /\ command_queue' \in Queues(Commands) /\ IsEmpty(command_queue')
        /\ Unpublished(command_queue') = [type |-> "start", gpio |-> current_bus']
    BY <1>1, <2>3, <2>4, WrittenIs DEF Send
  <2> QED
    BY <2>2, <2>3, <2>5, QueueAssumption DEF Send, Buses
<1> QED BY <1>2, <1>3

\* Core 0 enters the handler, or takes the response that is there.
LEMMA PeriodicBeginKeeps ==
  RequestInv /\ (PeriodicBegin \/ PeriodicRemove) /\ UNCHANGED workerVars => RequestInv'
<1> SUFFICES ASSUME RequestInv, PeriodicBegin \/ PeriodicRemove, UNCHANGED workerVars PROVE RequestInv'
  OBVIOUS
<1> USE DEF RequestInv, Types, WorkerTypeOK, PeriodicBegin, PeriodicRemove, queueVars, workerVars,
            Asks, Answers
<1>1. CASE Resting
  BY <1>1 DEF Resting
<1>2. CASE Sending
  BY <1>2 DEF Sending
<1>3. CASE Commanded
  BY <1>3 DEF Commanded
<1>4. CASE Answering
  BY <1>4 DEF Answering
<1>5. CASE Answered
  BY <1>5 DEF Answered
<1> QED BY <1>1, <1>2, <1>3, <1>4, <1>5

\* A command is published while nothing else is under way.
LEMMA PeriodicPublishKeeps ==
  RequestInv /\ PeriodicPublish /\ UNCHANGED workerVars => RequestInv'
<1> SUFFICES ASSUME RequestInv, PeriodicPublish, UNCHANGED workerVars PROVE RequestInv'
  OBVIOUS
<1>1. Sending
  BY DEF RequestInv, PeriodicPublish, Resting, Sending, Commanded, Answering, Answered
<1>2. /\ command_queue' \in Queues(Commands) /\ HoldsOne(command_queue')
      /\ Oldest(command_queue') = Unpublished(command_queue)
  BY <1>1, PublishedIs DEF PeriodicPublish, RequestInv, Types, Sending
<1>3. state' = IF Unpublished(command_queue).type = "start" THEN "wait_start" ELSE "wait_readnext"
  BY DEF PeriodicPublish, Unpublished
<1>4. Types'
  BY <1>2 DEF RequestInv, Types, WorkerTypeOK, PeriodicPublish, workerVars
<1>5. Commanded'
  BY <1>1, <1>2, <1>3 DEF Sending, Commanded, Asks, PeriodicPublish, workerVars
<1> QED BY <1>4, <1>5 DEF RequestInv

\* With no response left, a cycle is started or not.
LEMMA PeriodicEndKeeps == RequestInv /\ PeriodicEnd /\ UNCHANGED workerVars => RequestInv'
<1> SUFFICES ASSUME RequestInv, PeriodicEnd, UNCHANGED workerVars PROVE RequestInv'
  OBVIOUS
<1>1. CASE state = "idle" /\ due
  <2>1. Resting /\ onewire_start_next_bus(1, "loop") /\ UNCHANGED response_queue
    BY <1>1 DEF RequestInv, PeriodicEnd, Resting, Sending, Commanded, Answering, Answered, Answers
  <2>2. /\ current_bus' \in 1 .. BusCount + 1
        /\ command_queue' \in Queues(Commands) /\ IsEmpty(command_queue')
        /\ \/ state' = "idle" /\ source' = "loop"
           \/ /\ source' = "publish" /\ UNCHANGED state
              /\ Unpublished(command_queue') = [type |-> "start", gpio |-> current_bus']
              /\ current_bus' \in Buses
    BY <2>1, StartsNextBus DEF Resting
  <2>3. Types'
    BY <2>1, <2>2 DEF RequestInv, Types, WorkerTypeOK, workerVars
  <2>4. Resting' \/ Sending'
    BY <2>1, <2>2 DEF Resting, Sending, Asks, Commands, workerVars
  <2> QED BY <2>3, <2>4 DEF RequestInv
<1>2. CASE ~(state = "idle" /\ due)
  <2>1. /\ source = "remove" /\ source' = "loop"
        /\ UNCHANGED <<command_queue, response_queue, state, current_bus, workerVars>>
    BY <1>2 DEF PeriodicEnd
  <2> QED
    BY <2>1 DEF RequestInv, Types, WorkerTypeOK, workerVars, Resting, Sending, Commanded, Answering,
                Answered, Asks, Answers
<1> QED BY <1>1, <1>2

\* A response is released and answered by the next command or the end of the bus.
LEMMA PeriodicHandleKeeps == RequestInv /\ PeriodicHandle /\ UNCHANGED workerVars => RequestInv'
<1> SUFFICES ASSUME RequestInv, PeriodicHandle, UNCHANGED workerVars PROVE RequestInv'
  OBVIOUS
<1>1. Answered /\ source = "release" /\ received = Oldest(response_queue) /\ state # "idle"
  BY DEF RequestInv, PeriodicHandle, Resting, Sending, Commanded, Answering, Answered, Answers
<1>2. /\ response_queue' \in Queues(Responses) /\ IsEmpty(response_queue')
      /\ command_queue \in Queues(Commands) /\ IsEmpty(command_queue) /\ ~IsFull(command_queue)
  BY <1>1, ReleasedIs, EmptyHasRoom DEF PeriodicHandle, RequestInv, Types, Answered
<1>3. CASE onewire_finish_bus
  <2>1. current_bus + 1 \in Nat \ {0} /\ onewire_start_next_bus(current_bus + 1, "remove")
    BY <1>3, QueueAssumption DEF onewire_finish_bus, RequestInv, Types
  <2>2. /\ current_bus' \in 1 .. BusCount + 1
        /\ command_queue' \in Queues(Commands) /\ IsEmpty(command_queue')
        /\ \/ state' = "idle" /\ source' = "remove"
           \/ /\ source' = "publish" /\ UNCHANGED state
              /\ Unpublished(command_queue') = [type |-> "start", gpio |-> current_bus']
              /\ current_bus' \in Buses
    BY <1>2, <2>1, StartsNextBus
  <2>3. Types'
    BY <1>2, <2>2 DEF RequestInv, Types, WorkerTypeOK, workerVars
  <2>4. Resting' \/ Sending'
    BY <1>1, <1>2, <2>2 DEF Answered, Answers, Resting, Sending, Asks, Commands, workerVars
  <2> QED BY <2>3, <2>4 DEF RequestInv
<1>4. CASE Send([type |-> "readnext"]) /\ UNCHANGED current_bus
  <2>1. [type |-> "readnext"] \in Commands
    BY DEF Commands
  <2>2. /\ command_queue' \in Queues(Commands) /\ IsEmpty(command_queue')
        /\ Unpublished(command_queue') = [type |-> "readnext"]
    BY <1>2, <1>4, <2>1, WrittenIs DEF Send
  <2>3. Types'
    BY <1>2, <1>4, <2>2 DEF RequestInv, Types, WorkerTypeOK, workerVars
  <2>4. Sending'
    BY <1>1, <1>2, <1>4, <2>1, <2>2 DEF Send, Answered, Answers, Sending, Asks, workerVars
  <2> QED BY <2>3, <2>4 DEF RequestInv
<1> QED
  BY <1>1, <1>2, <1>3, <1>4 DEF PeriodicHandle, onewire_handle_response, ReadNextOrFinish

-----------------------------------------------------------------------------
\* Every step of either core keeps the invariant.
LEMMA RequestNext == RequestInv /\ [Next]_vars => RequestInv'
<1> SUFFICES ASSUME RequestInv, [Next]_vars PROVE RequestInv'
  OBVIOUS
<1>1. CASE Core0
  BY <1>1, PeriodicBeginKeeps, PeriodicHandleKeeps, PeriodicPublishKeeps, PeriodicEndKeeps
     DEF Core0, PeriodicStep
<1>2. CASE Core1
  BY <1>2, WorkerRemoveKeeps, WorkerWakeKeeps, WorkerHandleKeeps, WorkerAddKeeps, WorkerPublishKeeps
     DEF Core1, WorkerStep
<1>3. CASE UNCHANGED <<command_queue, response_queue, source, state, current_bus, received, workerVars>>
  BY <1>3 DEF RequestInv, Types, WorkerTypeOK, workerVars, Resting, Sending, Commanded, Answering,
              Answered, Asks, Answers
<1>4. CASE Config
  BY <1>3, <1>4, Zenon DEF Config, ApplyConfig, queueVars
<1>5. CASE Time
  BY <1>3, <1>5, Zenon DEF Time, Elapse, queueVars
<1>6. CASE ClockWraps
  BY <1>3, <1>6, Zenon DEF ClockWraps, queueVars
<1>7. CASE UNCHANGED vars
  BY <1>3, <1>7 DEF vars, queueVars, sourceVars
<1> QED BY <1>1, <1>2, <1>4, <1>5, <1>6, <1>7 DEF Next

\* Hence it always holds.
LEMMA AlwaysRequestInv == Spec => []RequestInv
  BY RequestInit, RequestNext, PTL DEF Spec

\* For queues of any size and any number of buses, the cores never have two
\* requests between them, and core 1 never sleeps for want of room.
THEOREM AlwaysOneRequest == Spec => []OneRequestAtATime
<1>1. RequestInv => OneRequestAtATime
  <2> SUFFICES ASSUME RequestInv PROVE OneRequestAtATime
    OBVIOUS
  <2>1. /\ HoldsOne(command_queue) => ~IsEmpty(command_queue)
        /\ HoldsOne(response_queue) => ~IsEmpty(response_queue)
    BY ReleasedIs DEF RequestInv, Types
  <2> QED
    BY <2>1 DEF RequestInv, OneRequestAtATime, UnderWay, Resting, Sending, Commanded, Answering,
                Answered, Answers
<1> QED BY <1>1, AlwaysRequestInv, PTL

\* A response is of the kind the source waits for and from the bus it polls.
THEOREM AlwaysAnswersTheRequest == Spec => []AnswersTheRequest
<1>1. RequestInv => AnswersTheRequest
  BY DEF RequestInv, AnswersTheRequest, Resting, Sending, Commanded, Answering, Answered, Answers
<1> QED BY <1>1, AlwaysRequestInv, PTL
-----------------------------------------------------------------------------
(***************************************************************************)
(* The table of sensors.  No more readings are handled in a cycle than the *)
(* table has rows, so that the row seen longest ago was not seen in it.    *)
(* The rows seen in this cycle are the last of last_seen, as many at most  *)
(* as readings were handled; how many these are is told by the bus and by  *)
(* the index of the worker, less the reading that is on its way.           *)
(***************************************************************************)

\* All that buses before b can have.
Before(b) == (b - 1) * DeviceLimit

SeenAtMost(n) ==
  \E m \in 0 .. Len(last_seen) :
    /\ Len(last_seen) - m <= n
    /\ \A k \in 1 .. m : ~devices[last_seen[k]].present

\* The readings handled when the command c is on its way, and the response r.
Asked(c) == SeenAtMost(Before(current_bus) + IF c.type = "start" THEN 0 ELSE device_index)

Told(r) ==
  IF r.type = "temperature"
  THEN device_index \in Nat \ {0} /\ SeenAtMost(Before(current_bus) + (device_index - 1))
  ELSE SeenAtMost(Before(current_bus) + device_index)

CountInv ==
  /\ source = "publish" => Asked(Unpublished(command_queue))
  /\ ~IsEmpty(command_queue) => Asked(Oldest(command_queue))
  /\ worker \in {"add", "publish"} => Told(response)
  /\ ~IsEmpty(response_queue) => Told(Oldest(response_queue))

InUse == {d \in DeviceSlots : devices[d] # Nothing}

AreDistinct(s) == \A j, k \in 1 .. Len(s) : s[j] = s[k] => j = k

TableInv ==
  /\ devices \in [DeviceSlots -> Devices \cup {Nothing}]
  /\ last_seen \in Seq(DeviceSlots) /\ AreDistinct(last_seen)
  /\ before_wrap \subseteq InUse
  /\ ToSet(last_seen) = InUse \ before_wrap

CycleInv == RequestInv /\ TableInv /\ CountInv

\* A bus has a number of sensors before it.
LEMMA BeforeIsNat == \A b \in 1 .. BusCount + 1 : Before(b) \in Nat
<1> SUFFICES ASSUME NEW b \in 1 .. BusCount + 1 PROVE Before(b) \in Nat
  OBVIOUS
<1>1. b - 1 \in Nat /\ DeviceLimit \in Nat
  BY QueueAssumption, WorkerAssumption
<1>2. \A u, l \in Nat : u * l \in Nat
  OBVIOUS
<1> QED
  BY <1>1, <1>2 DEF Before

\* The buses share the table.
LEMMA BeforeGrows ==
  ASSUME NEW b \in 1 .. BusCount, NEW c \in b + 1 .. BusCount + 1
  PROVE  /\ Before(b) \in Nat /\ Before(c) \in Nat
         /\ Before(b) + DeviceLimit <= Before(c) /\ Before(c) <= BusCount * DeviceLimit
<1> DEFINE x == c - b - 1
           y == BusCount + 1 - c
<1>1. b - 1 \in Nat /\ x \in Nat /\ y \in Nat /\ DeviceLimit \in Nat /\ BusCount \in Nat /\ b \in Nat /\ c \in Nat
  BY QueueAssumption, WorkerAssumption
<1>2. c - 1 = (b - 1) + x + 1 /\ BusCount = (c - 1) + y
  BY <1>1
<1>3. \A u, v, l \in Nat : (u + v) * l = u * l + v * l /\ u * l \in Nat /\ v * l \in Nat
  OBVIOUS
<1>4. (c - 1) * DeviceLimit = (b - 1) * DeviceLimit + x * DeviceLimit + DeviceLimit
  BY <1>1, <1>2
<1>5. BusCount * DeviceLimit = (c - 1) * DeviceLimit + y * DeviceLimit
  BY <1>1, <1>2
<1>6. /\ x * DeviceLimit \in Nat /\ y * DeviceLimit \in Nat /\ (b - 1) * DeviceLimit \in Nat
      /\ (c - 1) * DeviceLimit \in Nat /\ BusCount * DeviceLimit \in Nat
  BY <1>1
<1> HIDE DEF x, y
<1>7. \A p, q, r, s, t, l \in Nat : q = p + r + l /\ s = q + t => p + l <= q /\ q <= s
  OBVIOUS
<1> QED
  BY <1>1, <1>4, <1>5, <1>6, <1>7 DEF Before

\* Without d a sequence keeps the order of the others.
LEMMA RemovedIs ==
  ASSUME NEW s \in Seq(DeviceSlots), AreDistinct(s), NEW d \in DeviceSlots
  PROVE  \E p \in 1 .. Len(s) + 1 :
           /\ p <= Len(s) => s[p] = d
           /\ p > Len(s) => \A k \in 1 .. Len(s) : s[k] # d
           /\ Append(RemoveFirst(s, d), d) \in Seq(DeviceSlots)
           /\ Len(Append(RemoveFirst(s, d), d)) = IF p <= Len(s) THEN Len(s) ELSE Len(s) + 1
           /\ \A k \in 1 .. Len(Append(RemoveFirst(s, d), d)) :
                Append(RemoveFirst(s, d), d)[k] =
                  IF k = Len(Append(RemoveFirst(s, d), d)) THEN d
                  ELSE IF k < p THEN s[k] ELSE s[k + 1]
<1>0. Len(s) \in Nat
  OBVIOUS
<1>1. CASE \E i \in 1 .. Len(s) : s[i] = d
  <2> DEFINE places == {i \in 1 .. Len(s) : s[i] = d}
             p == Min(places)
             r == SubSeq(s, 1, p - 1) \o SubSeq(s, p + 1, Len(s))
  <2>1. places \subseteq Nat /\ places # {}
    BY <1>0, <1>1
  <2>2. p \in places
    BY <2>1, MinIsLeast
  <2>3. p \in 1 .. Len(s) /\ s[p] = d
    BY <2>2
  <2>4. RemoveFirst(s, d) = r
    BY <1>1, <2>1 DEF RemoveFirst, RemoveAt, SelectInSeq
  <2> HIDE DEF p
  <2>5. /\ SubSeq(s, 1, p - 1) \in Seq(DeviceSlots) /\ Len(SubSeq(s, 1, p - 1)) = p - 1
        /\ \A k \in 1 .. p - 1 : SubSeq(s, 1, p - 1)[k] = s[k]
    BY <1>0, <2>3
  <2>6. /\ SubSeq(s, p + 1, Len(s)) \in Seq(DeviceSlots) /\ Len(SubSeq(s, p + 1, Len(s))) = Len(s) - p
        /\ \A k \in 1 .. Len(s) - p : SubSeq(s, p + 1, Len(s))[k] = s[p + k]
    BY <1>0, <2>3
  <2>7. /\ r \in Seq(DeviceSlots) /\ Len(r) = Len(s) - 1
        /\ \A k \in 1 .. Len(s) - 1 : r[k] = IF k < p THEN s[k] ELSE s[k + 1]
    <3> DEFINE a == SubSeq(s, 1, p - 1)
               b == SubSeq(s, p + 1, Len(s))
    <3>1. a \in Seq(DeviceSlots) /\ b \in Seq(DeviceSlots) /\ Len(a) = p - 1 /\ Len(b) = Len(s) - p
      BY <2>5, <2>6
    <3>2. r = a \o b
      OBVIOUS
    <3> HIDE DEF a, b, r
    <3>3. /\ r \in Seq(DeviceSlots) /\ Len(r) = (p - 1) + (Len(s) - p)
          /\ \A k \in 1 .. (p - 1) + (Len(s) - p) :
               r[k] = IF k <= p - 1 THEN a[k] ELSE b[k - (p - 1)]
      <4>1. Len(a \o b) = Len(a) + Len(b) /\ a \o b \in Seq(DeviceSlots)
        BY <3>1
      <4>2. ASSUME NEW k \in 1 .. Len(a) + Len(b)
            PROVE (a \o b)[k] = IF k <= Len(a) THEN a[k] ELSE b[k - Len(a)]
        BY <3>1
      <4> QED
        BY <3>1, <3>2, <4>1, <4>2
    <3> USE DEF a, b
    <3>4. ASSUME NEW k \in 1 .. Len(s) - 1, k <= p - 1 PROVE r[k] = s[k]
      BY <1>0, <2>3, <2>5, <3>3, <3>4
    <3>5. ASSUME NEW k \in 1 .. Len(s) - 1, ~(k <= p - 1) PROVE r[k] = s[k + 1]
      <4>1. k - (p - 1) \in 1 .. Len(s) - p /\ p + (k - (p - 1)) = k + 1
        BY <1>0, <2>3, <3>5
      <4>2. k \in 1 .. (p - 1) + (Len(s) - p) /\ r[k] = b[k - (p - 1)]
        BY <1>0, <2>3, <3>3, <3>5
      <4> QED
        BY <2>6, <4>1, <4>2
    <3> HIDE DEF r
    <3> QED
      BY <1>0, <2>3, <3>3, <3>4, <3>5
  <2> HIDE DEF r
  <2>8. /\ Append(r, d) \in Seq(DeviceSlots) /\ Len(Append(r, d)) = Len(s)
        /\ \A k \in 1 .. Len(s) :
             Append(r, d)[k] = IF k = Len(s) THEN d ELSE IF k < p THEN s[k] ELSE s[k + 1]
    BY <1>0, <2>3, <2>7
  <2> QED
    BY <1>0, <2>3, <2>4, <2>8
<1>2. CASE ~ \E i \in 1 .. Len(s) : s[i] = d
  <2>1. RemoveFirst(s, d) = s
    BY <1>2 DEF RemoveFirst
  <2>2. /\ Append(s, d) \in Seq(DeviceSlots) /\ Len(Append(s, d)) = Len(s) + 1
        /\ \A k \in 1 .. Len(s) + 1 : Append(s, d)[k] = IF k = Len(s) + 1 THEN d ELSE s[k]
    BY <1>0
  <2>3. Len(s) + 1 \in 1 .. Len(s) + 1
    BY <1>0
  <2> QED
    BY <1>0, <1>2, <2>1, <2>2, <2>3
<1> QED
  BY <1>1, <1>2

\* A full table has as many rows in order as there are.
LEMMA FullTable ==
  ASSUME TableInv, InUse = DeviceSlots, before_wrap = {}
  PROVE  Len(last_seen) >= DeviceTableSize /\ last_seen # <<>>
<1>1. DeviceTableSize \in Nat \ {0} /\ Len(last_seen) \in Nat /\ last_seen \in Seq(DeviceSlots)
  BY SourceAssumption DEF TableInv
<1>2. ToSet(last_seen) = DeviceSlots
  BY DEF TableInv
<1>3. [k \in 1 .. Len(last_seen) |-> last_seen[k]] \in Surjection(1 .. Len(last_seen), DeviceSlots)
  BY <1>1, <1>2 DEF Surjection, ToSet
<1>4. Cardinality(DeviceSlots) <= Len(last_seen)
  BY <1>1, <1>3, FS_SurjCardinalityBound DEF ExistsSurjection
<1>5. Cardinality(DeviceSlots) = DeviceTableSize
  BY <1>1, FS_Interval DEF DeviceSlots
<1> QED
  BY <1>1, <1>4, <1>5

\* The row for a reading is its own, a free one, or, in a full table, the least.
LEMMA RowIs ==
  ASSUME TableInv, NEW e, NEW d \in onewire_find_or_alloc_device(e)
  PROVE  /\ d \in DeviceSlots
         /\ \/ devices[d] = Nothing
            \/ devices[d].gpio = e.gpio /\ devices[d].rom = e.rom
            \/ /\ InUse = DeviceSlots
               /\ IF last_seen # <<>> THEN d = last_seen[1] ELSE d \in before_wrap
<1> DEFINE same == {i \in DeviceSlots : /\ devices[i] # Nothing
                                        /\ devices[i].gpio = e.gpio /\ devices[i].rom = e.rom}
           free == {i \in DeviceSlots : devices[i] = Nothing}
<1>1. same \subseteq Nat /\ free \subseteq Nat
  BY DEF DeviceSlots
<1>2. CASE same # {}
  BY <1>1, <1>2, MinIsLeast DEF onewire_find_or_alloc_device
<1>3. CASE same = {} /\ free # {}
  BY <1>1, <1>3, MinIsLeast DEF onewire_find_or_alloc_device
<1>4. CASE same = {} /\ free = {}
  <2>1. d \in LeastSeen /\ InUse = DeviceSlots
    BY <1>4 DEF onewire_find_or_alloc_device, InUse
  <2>2. CASE last_seen # <<>>
    <3>1. d = last_seen[1] /\ last_seen[1] \in DeviceSlots
      BY <2>1, <2>2 DEF LeastSeen, TableInv
    <3> QED
      BY <2>1, <2>2, <3>1
  <2>3. CASE last_seen = <<>>
    BY <2>1, <2>3 DEF LeastSeen, TableInv, InUse
  <2> QED
    BY <2>2, <2>3
<1> QED
  BY <1>2, <1>3, <1>4

\* A reading makes its row the last of those seen.
LEMMA RowIsSeen ==
  ASSUME TableInv, NEW n \in Nat, SeenAtMost(n), NEW d \in DeviceSlots, NEW row \in Devices,
         devices' = [devices EXCEPT ![d] = row],
         last_seen' = Append(RemoveFirst(last_seen, d), d), before_wrap' = before_wrap \ {d}
  PROVE  TableInv' /\ SeenAtMost(n + 1)'
<1> DEFINE len == Len(last_seen)
<1>1. last_seen \in Seq(DeviceSlots) /\ AreDistinct(last_seen) /\ len \in Nat
  BY DEF TableInv
<1>2. PICK p \in 1 .. len + 1 :
           /\ p <= len => last_seen[p] = d
           /\ p > len => \A k \in 1 .. len : last_seen[k] # d
           /\ last_seen' \in Seq(DeviceSlots)
           /\ Len(last_seen') = IF p <= len THEN len ELSE len + 1
           /\ \A k \in 1 .. Len(last_seen') :
                last_seen'[k] = IF k = Len(last_seen') THEN d
                                ELSE IF k < p THEN last_seen[k] ELSE last_seen[k + 1]
  <2> DEFINE q == Append(RemoveFirst(last_seen, d), d)
  <2>1. \E p \in 1 .. len + 1 :
           /\ p <= len => last_seen[p] = d
           /\ p > len => \A k \in 1 .. len : last_seen[k] # d
           /\ q \in Seq(DeviceSlots)
           /\ Len(q) = IF p <= len THEN len ELSE len + 1
           /\ \A k \in 1 .. Len(q) :
                q[k] = IF k = Len(q) THEN d ELSE IF k < p THEN last_seen[k] ELSE last_seen[k + 1]
    <3> HIDE DEF TableInv
    <3> QED
      BY ONLY <1>1, RemovedIs, d \in DeviceSlots
  <2>2. last_seen' = q
    OBVIOUS
  <2> HIDE DEF q
  <2> QED
    BY <2>1, <2>2
<1> DEFINE from(k) == IF k < p THEN k ELSE k + 1
<1>3. ASSUME NEW k \in 1 .. Len(last_seen'), k # Len(last_seen')
      PROVE  from(k) \in 1 .. len /\ last_seen'[k] = last_seen[from(k)] /\ last_seen'[k] # d
  <2>1. from(k) \in 1 .. len /\ from(k) # p
    BY <1>1, <1>2, <1>3
  <2>2. last_seen'[k] = last_seen[from(k)]
    BY <1>2, <1>3
  <2>3. last_seen[from(k)] # d
    <3>1. CASE p <= len
      <4>1. p \in 1 .. len /\ last_seen[p] = d
        BY <1>1, <1>2, <3>1
      <4> QED
        BY <1>1, <2>1, <4>1 DEF AreDistinct
    <3>2. CASE p > len
      BY <1>2, <2>1, <3>2
    <3> QED
      BY <1>1, <1>2, <3>1, <3>2
  <2> QED
    BY <2>1, <2>2, <2>3
<1>4. last_seen'[Len(last_seen')] = d /\ Len(last_seen') \in 1 .. len + 1
  BY <1>1, <1>2
<1>5. AreDistinct(last_seen')
  <2> SUFFICES ASSUME NEW j \in 1 .. Len(last_seen'), NEW k \in 1 .. Len(last_seen'),
                      last_seen'[j] = last_seen'[k]
               PROVE  j = k
    BY DEF AreDistinct
  <2>1. CASE j = Len(last_seen') \/ k = Len(last_seen')
    BY <1>3, <1>4, <2>1
  <2>2. CASE j # Len(last_seen') /\ k # Len(last_seen')
    <3>1. from(j) = from(k)
      BY <1>1, <1>3, <2>2 DEF AreDistinct
    <3> QED
      BY <1>2, <3>1
  <2> QED
    BY <2>1, <2>2
<1>6. ToSet(last_seen') = ToSet(last_seen) \cup {d}
  <2>1. ASSUME NEW x \in ToSet(last_seen') PROVE x \in ToSet(last_seen) \cup {d}
    <3>1. PICK k \in 1 .. Len(last_seen') : x = last_seen'[k]
      BY <1>2, <2>1 DEF ToSet
    <3> QED
      BY <1>1, <1>3, <1>4, <3>1 DEF ToSet
  <2>2. ASSUME NEW x \in ToSet(last_seen), x # d PROVE x \in ToSet(last_seen')
    <3>1. PICK k \in 1 .. len : x = last_seen[k]
      BY <1>1, <2>2 DEF ToSet
    <3>2. k # p
      BY <1>2, <2>2, <3>1
    <3>3. PICK i \in 1 .. Len(last_seen') : i # Len(last_seen') /\ k = from(i)
      <4>1. CASE k < p
        BY <1>1, <1>2, <4>1
      <4>2. CASE k > p
        <5>1. k - 1 \in 1 .. Len(last_seen') /\ k - 1 # Len(last_seen') /\ k = from(k - 1)
          BY <1>1, <1>2, <4>2
        <5> QED
          BY <5>1
      <4> QED
        BY <1>1, <1>2, <3>2, <4>1, <4>2
    <3>4. x = last_seen'[i] /\ i \in DOMAIN last_seen'
      BY <1>2, <1>3, <3>1, <3>3
    <3> QED
      BY <3>4 DEF ToSet
  <2>3. d \in ToSet(last_seen')
    BY <1>2, <1>4 DEF ToSet
  <2> QED
    BY <2>1, <2>2, <2>3
<1>7. /\ devices' \in [DeviceSlots -> Devices \cup {Nothing}] /\ row # Nothing
      /\ devices'[d] = row /\ \A i \in DeviceSlots \ {d} : devices'[i] = devices[i]
  BY SourceAssumption DEF TableInv
<1>8. InUse' = InUse \cup {d}
  BY <1>7 DEF InUse
<1>9. TableInv'
  BY <1>2, <1>5, <1>6, <1>7, <1>8 DEF TableInv
<1>10. PICK m \in 0 .. len : len - m <= n /\ \A k \in 1 .. m : ~devices[last_seen[k]].present
  BY DEF SeenAtMost
<1>11. \E i \in 0 .. Len(last_seen') :
         /\ Len(last_seen') - i <= n + 1
         /\ \A k \in 1 .. i : ~devices'[last_seen'[k]].present
  <2> DEFINE i == IF p <= m THEN m - 1 ELSE m
  <2>1. i \in 0 .. Len(last_seen') /\ Len(last_seen') - i <= n + 1
    BY <1>1, <1>2, <1>10
  <2>2. ASSUME NEW k \in 1 .. i PROVE ~devices'[last_seen'[k]].present
    <3>1. k \in 1 .. Len(last_seen') /\ k # Len(last_seen') /\ from(k) \in 1 .. m
      BY <1>1, <1>2, <1>10
    <3>2. last_seen'[k] = last_seen[from(k)] /\ last_seen'[k] # d /\ from(k) \in 1 .. len
      BY <1>3, <3>1
    <3>3. last_seen[from(k)] \in DeviceSlots
      BY <1>1, <3>2
    <3>4. devices'[last_seen'[k]] = devices[last_seen[from(k)]]
      BY <1>7, <3>2, <3>3
    <3> QED
      BY <1>10, <3>1, <3>4
  <2> HIDE DEF i
  <2> QED
    BY <2>1, <2>2
<1> QED
  BY <1>9, <1>11 DEF SeenAtMost

\* Making rows absent changes neither.
LEMMA AbsentKeeps ==
  ASSUME TableInv, NEW n \in Int, NEW buses, devices' = Absent(buses), UNCHANGED seenVars
  PROVE  TableInv' /\ (SeenAtMost(n) => SeenAtMost(n)')
<1>1. ASSUME NEW d \in DeviceSlots
      PROVE  /\ devices'[d] \in Devices \cup {Nothing} /\ (devices'[d] = Nothing <=> devices[d] = Nothing)
             /\ devices'[d] # Nothing /\ devices'[d].present => devices[d].present
  BY SourceAssumption DEF TableInv, Absent, Devices
<1> QED
  BY <1>1 DEF TableInv, SeenAtMost, seenVars, InUse, Absent
-----------------------------------------------------------------------------
(* The steps of both cores, once more.                                     *)

\* The numbers that are added.
LEMMA CountTypes ==
  ASSUME Types
  PROVE  Before(current_bus) \in Nat /\ device_index \in Nat /\ device_index <= DeviceLimit
<1>1. Before(current_bus) \in Nat
  BY BeforeIsNat DEF Types
<1>2. Len(worker_roms) \in Nat /\ Len(worker_roms) <= DeviceLimit /\ device_index \in 0 .. Len(worker_roms)
  BY DEF Types, WorkerTypeOK
<1> QED
  BY <1>1, <1>2, WorkerAssumption

\* What leaves the request where it is and sees nothing.
LEMMA CountUnchanged ==
  ASSUME CountInv, Types, UNCHANGED <<command_queue, response_queue, source, current_bus, workerVars>>,
         \A n \in Nat : SeenAtMost(n) => SeenAtMost(n)'
  PROVE  CountInv'
<1>1. PICK b \in Nat : b = Before(current_bus)
  BY CountTypes
<1>2. Before(current_bus)' = b
  BY <1>1 DEF Before
<1>3. PICK i \in Nat : i = device_index
  BY CountTypes
<1>4. device_index' = i /\ worker' = worker /\ response' = response
  BY <1>3 DEF workerVars
<1>5. ASSUME NEW c PROVE (Asked(c) => Asked(c)') /\ (Told(c) => Told(c)')
  <2>1. /\ b + 0 \in Nat /\ b + i \in Nat /\ i \in Nat \ {0} => b + (i - 1) \in Nat
    OBVIOUS
  <2>2. Asked(c) => Asked(c)'
    BY <1>1, <1>2, <1>3, <1>4, <2>1 DEF Asked
  <2>3. Told(c) => Told(c)'
    BY <1>1, <1>2, <1>3, <1>4, <2>1 DEF Told
  <2> QED
    BY <2>2, <2>3
<1>6. PICK c, d, e, r : /\ c = Unpublished(command_queue) /\ d = Oldest(command_queue)
                        /\ e = Oldest(response_queue) /\ r = response
  OBVIOUS
<1>7. /\ Unpublished(command_queue)' = c /\ Oldest(command_queue)' = d /\ Oldest(response_queue)' = e
      /\ response' = r
      /\ IsEmpty(command_queue)' = IsEmpty(command_queue)
      /\ IsEmpty(response_queue)' = IsEmpty(response_queue)
  BY <1>4, <1>6 DEF Unpublished, Oldest, IsEmpty
<1> QED
  BY <1>4, <1>5, <1>6, <1>7 DEF CountInv

\* Core 1 does not touch the table; it counts the reading it hands over.
LEMMA WorkerCounts ==
  ASSUME RequestInv, CountInv, WorkerStep, UNCHANGED sourceVars
  PROVE  CountInv'
<1>0. Types /\ Before(current_bus) \in Nat /\ device_index \in Nat
  BY CountTypes DEF RequestInv
<1>1. /\ UNCHANGED <<source, state, current_bus, devices, last_seen>>
      /\ \A n : SeenAtMost(n)' = SeenAtMost(n)
      /\ Before(current_bus)' = Before(current_bus)
  BY DEF sourceVars, seenVars, SeenAtMost, Before
<1> USE DEF CountInv
<1>2. CASE WorkerRemove
  BY <1>1, <1>2 DEF WorkerRemove, queueVars, Asked, Told, IsEmpty, Oldest, Unpublished
<1>3. CASE WorkerWake
  <2>1. worker' = "remove"
    BY <1>3 DEF WorkerWake, RequestInv, Resting, Sending, Commanded, Answering, Answered
  <2> QED
    BY <1>1, <1>3, <2>1 DEF WorkerWake, Asked, Told, IsEmpty, Oldest, Unpublished
<1>4. ASSUME NEW handler \in BOOLEAN, WorkerHandle(handler)
      PROVE  /\ source' # "publish" /\ IsEmpty(command_queue)' /\ IsEmpty(response_queue)'
             /\ worker' = "add" /\ Asked(command) /\ command \in Commands
  <2>1. /\ Commanded /\ worker = "release" /\ command = Oldest(command_queue) /\ command \in Commands
        /\ UNCHANGED response_queue /\ command_queue' = Released(command_queue) /\ worker' = "add"
    BY <1>4 DEF RequestInv, WorkerHandle, Resting, Sending, Commanded, Answering, Answered
  <2>2. IsEmpty(command_queue') /\ ~IsEmpty(command_queue)
    BY <2>1, <1>0, ReleasedIs DEF Types, Commanded
  <2> QED
    BY <1>1, <2>1, <2>2 DEF Commanded, IsEmpty
<1>5. CASE WorkerHandle(onewire_worker_handle_start)
  <2>1. /\ source' # "publish" /\ IsEmpty(command_queue)' /\ IsEmpty(response_queue)'
        /\ worker' = "add" /\ Asked(command) /\ command \in Commands
    BY <1>4, <1>5 DEF WorkerHandle
  <2>2. /\ command.type = "start" /\ device_index' = 0
        /\ response' \in {[type |-> "start_ok"], [type |-> "start_error"]}
    BY <1>5 DEF WorkerHandle, onewire_worker_handle_start
  <2>3. Told(response)'
    BY <1>0, <1>1, <2>1, <2>2 DEF Asked, Told
  <2> QED
    BY <2>1, <2>3
<1>6. CASE WorkerHandle(onewire_worker_handle_readnext)
  <2>1. /\ source' # "publish" /\ IsEmpty(command_queue)' /\ IsEmpty(response_queue)'
        /\ worker' = "add" /\ Asked(command) /\ command \in Commands
    BY <1>4, <1>6 DEF WorkerHandle
  <2>2. command.type = "readnext"
    BY <1>6 DEF WorkerHandle, onewire_worker_handle_readnext
  <2>3. SeenAtMost(Before(current_bus) + device_index)
    BY <2>1, <2>2 DEF Asked
  <2>4. \/ response'.type = "readnext_none" /\ device_index' = device_index
        \/ response'.type = "temperature" /\ device_index' = device_index + 1
    BY <1>6 DEF WorkerHandle, onewire_worker_handle_readnext
  <2>5. device_index + 1 \in Nat \ {0} /\ (device_index + 1) - 1 = device_index
    BY <1>0
  <2>6. Told(response)'
    BY <1>1, <2>3, <2>4, <2>5 DEF Told
  <2> QED
    BY <2>1, <2>6
<1>7. CASE WorkerAdd
  <2>1. Answering /\ worker = "add"
    BY <1>7 DEF RequestInv, WorkerAdd, Resting, Sending, Commanded, Answering, Answered
  <2>2. IsEmpty(response_queue) /\ ~IsFull(response_queue) /\ response \in Responses
    BY <2>1, <1>0, EmptyHasRoom DEF Types, Answering
  <2>3. worker' = "publish" /\ response_queue' = Written(response_queue, response)
    BY <1>7, <2>2 DEF WorkerAdd
  <2>4. IsEmpty(response_queue')
    BY <1>0, <2>2, <2>3, WrittenIs DEF Types
  <2> QED
    BY <1>1, <1>7, <2>1, <2>3, <2>4 DEF WorkerAdd, Asked, Told, IsEmpty, Oldest, Unpublished
<1>8. CASE WorkerPublish
  <2>1. Answering /\ worker = "publish"
    BY <1>8 DEF RequestInv, WorkerPublish, Resting, Sending, Commanded, Answering, Answered
  <2>2. Oldest(response_queue') = response /\ Told(response)
    BY <1>0, <1>8, <2>1, PublishedIs DEF WorkerPublish, Types, Answering
  <2> QED
    BY <1>1, <1>8, <2>1, <2>2 DEF WorkerPublish, Answering, Asked, Told, IsEmpty, Oldest, Unpublished
<1> QED
  BY <1>2, <1>3, <1>5, <1>6, <1>7, <1>8 DEF WorkerStep
\* The answer from a core of which the reading is handled, in the table.
LEMMA HandledIs ==
  ASSUME RequestInv, TableInv, CountInv, PeriodicHandle, UNCHANGED workerVars,
         NEW n \in Nat, n = Before(current_bus) + device_index
  PROVE  TableInv' /\ SeenAtMost(n)' /\ state # "idle" /\ current_bus \in Buses
<1>0. Types /\ Before(current_bus) \in Nat /\ device_index \in Nat
  BY CountTypes DEF RequestInv
<1>1. /\ Answered /\ source = "release" /\ received = Oldest(response_queue) /\ state # "idle"
      /\ current_bus \in Buses
  BY DEF RequestInv, Types, WorkerTypeOK, PeriodicHandle, Resting, Sending, Commanded, Answering,
         Answered, Answers
<1>2. Told(received)
  BY <1>0, <1>1, ReleasedIs DEF CountInv, Types, Answered
<1>3. /\ received \in Responses
      /\ state = "wait_readnext" /\ received.type = "temperature" => received.gpio = current_bus
      /\ state = "wait_start" => received.type # "temperature"
  BY <1>1 DEF Answered, Answers
<1>4. CASE state = "wait_readnext" /\ received.type = "temperature"
  <2>1. PICK d \in onewire_find_or_alloc_device(received) :
          /\ devices' = [devices EXCEPT ![d] = [gpio |-> received.gpio, rom |-> received.rom, present |-> TRUE]]
          /\ last_seen' = Append(RemoveFirst(last_seen, d), d)
          /\ before_wrap' = before_wrap \ {d}
    BY <1>4 DEF PeriodicHandle, onewire_handle_response, onewire_handle_temperature
  <2>2. d \in DeviceSlots
    BY <2>1, RowIs
  <2>3. [gpio |-> received.gpio, rom |-> received.rom, present |-> TRUE] \in Devices
    BY <1>3, <1>4 DEF Responses, Devices
  <2>4. PICK i \in Nat : i = Before(current_bus) + (device_index - 1)
    BY <1>0, <1>2, <1>4 DEF Told
  <2>5. SeenAtMost(i) /\ i + 1 = n
    BY <1>0, <1>2, <1>4, <2>4 DEF Told
  <2>6. TableInv' /\ SeenAtMost(i + 1)'
    BY <2>1, <2>2, <2>3, <2>5, RowIsSeen
  <2>7. SeenAtMost(n)'
    BY <2>5, <2>6
  <2> QED
    BY <1>1, <2>6, <2>7
<1>5. CASE ~(state = "wait_readnext" /\ received.type = "temperature")
  <2>1. UNCHANGED <<devices, seenVars>>
    BY <1>1, <1>3, <1>5 DEF PeriodicHandle, onewire_handle_response
  <2>2. SeenAtMost(n)
    BY <1>1, <1>2, <1>3, <1>5 DEF Told, Answered, Answers
  <2>3. TableInv' /\ SeenAtMost(n)'
    BY <2>1, <2>2 DEF TableInv, seenVars, SeenAtMost, InUse
  <2> QED
    BY <1>1, <2>3
<1> QED
  BY <1>4, <1>5

\* The next bus can have as many as the buses before it.
LEMMA NextBusIsLater ==
  ASSUME current_bus \in Buses, NEW next, onewire_start_next_bus(current_bus + 1, next)
  PROVE  current_bus' \in current_bus + 1 .. BusCount + 1
<1> DEFINE enabled == {n \in current_bus + 1 .. BusCount : bus_enabled[n]}
<1>1. current_bus \in Nat /\ BusCount \in Nat /\ current_bus <= BusCount /\ enabled \subseteq Nat
  BY QueueAssumption DEF Buses
<1>2. current_bus' = IF enabled = {} THEN BusCount + 1 ELSE Min(enabled)
  BY DEF onewire_start_next_bus
<1>3. enabled # {} => Min(enabled) \in enabled
  BY <1>1, MinIsLeast
<1> QED
  BY <1>1, <1>2, <1>3

\* A response that is handled leaves a command for what was handled.
LEMMA HandleCounts ==
  ASSUME RequestInv, TableInv, CountInv, PeriodicHandle, UNCHANGED workerVars
  PROVE  TableInv' /\ CountInv'
<1>0. Types /\ Before(current_bus) \in Nat /\ device_index \in Nat /\ device_index <= DeviceLimit
  BY CountTypes DEF RequestInv
<1>1. Answered
  BY DEF RequestInv, PeriodicHandle, Resting, Sending, Commanded, Answering, Answered
<1> PICK n \in Nat : n = Before(current_bus) + device_index
  BY <1>0
<1>2. TableInv' /\ SeenAtMost(n)' /\ state # "idle" /\ current_bus \in Buses
  BY HandledIs
<1>3. /\ IsEmpty(response_queue') /\ IsEmpty(command_queue) /\ ~IsFull(command_queue)
      /\ command_queue \in Queues(Commands) /\ worker' \notin {"add", "publish"}
      /\ device_index' = device_index
  BY <1>0, <1>1, ReleasedIs, EmptyHasRoom DEF PeriodicHandle, Types, Answered, workerVars
<1>4. CASE onewire_finish_bus
  <2>1. onewire_start_next_bus(current_bus + 1, "remove") /\ current_bus + 1 \in Nat \ {0}
    BY <1>4, <1>2 DEF onewire_finish_bus, Buses
  <2>2. current_bus' \in current_bus + 1 .. BusCount + 1
    BY <1>2, <2>1, NextBusIsLater
  <2>3. n <= Before(current_bus') /\ Before(current_bus') \in Nat
    <3>1. Before(current_bus') \in Nat /\ Before(current_bus) + DeviceLimit <= Before(current_bus')
      BY <1>2, <2>2, BeforeGrows DEF Buses
    <3> QED
      BY <1>0, <3>1, WorkerAssumption
  <2>4. PICK k \in Nat : k = Before(current_bus') /\ n <= k
    BY <2>3
  <2>5. SeenAtMost(k)'
    <3>1. PICK m \in 0 .. Len(last_seen') :
            /\ Len(last_seen') - m <= n
            /\ \A i \in 1 .. m : ~devices'[last_seen'[i]].present
      BY <1>2 DEF SeenAtMost
    <3>2. Len(last_seen') - m <= k
      BY <1>2, <2>4, <3>1 DEF TableInv
    <3> QED
      BY <3>1, <3>2 DEF SeenAtMost
  <2>6. /\ IsEmpty(command_queue')
        /\ \/ source' = "remove"
           \/ Unpublished(command_queue') = [type |-> "start", gpio |-> current_bus']
    BY <1>3, <2>1, StartsNextBus
  <2>7. source' = "publish" => Asked(Unpublished(command_queue))'
    <3>1. Before(current_bus') + 0 = k
      BY <2>4
    <3> QED
      BY <2>5, <2>6, <3>1 DEF Asked, Unpublished, Before
  <2> QED
    BY <1>2, <1>3, <2>6, <2>7 DEF CountInv, IsEmpty
<1>5. CASE Send([type |-> "readnext"]) /\ UNCHANGED current_bus
  <2>1. [type |-> "readnext"] \in Commands
    BY DEF Commands
  <2>2. /\ IsEmpty(command_queue') /\ Unpublished(command_queue') = [type |-> "readnext"]
    BY <1>3, <1>5, <2>1, WrittenIs DEF Send
  <2>3. Asked(Unpublished(command_queue))'
    BY <1>2, <1>3, <1>5, <2>2 DEF Asked, Unpublished, Before
  <2> QED
    BY <1>2, <1>3, <2>2, <2>3 DEF CountInv, IsEmpty
<1> QED
  BY <1>2, <1>3, <1>4, <1>5 DEF PeriodicHandle, onewire_handle_response, ReadNextOrFinish
\* A cycle begins with all sensors absent.
LEMMA EndCounts ==
  ASSUME RequestInv, TableInv, CountInv, PeriodicEnd, UNCHANGED workerVars
  PROVE  TableInv' /\ CountInv'
<1>0. Types /\ Before(current_bus) \in Nat /\ device_index \in Nat
  BY CountTypes DEF RequestInv
<1>1. CASE state = "idle" /\ due
  <2>1. /\ Resting /\ devices' = Absent(Buses) /\ onewire_start_next_bus(1, "loop")
        /\ UNCHANGED <<response_queue, seenVars>>
    BY <1>1 DEF RequestInv, PeriodicEnd, Resting, Sending, Commanded, Answering, Answered, Answers
  <2>2. TableInv'
    BY <2>1, AbsentKeeps, 0 \in Int
  <2>3. /\ current_bus' \in 1 .. BusCount + 1 /\ IsEmpty(command_queue')
        /\ \/ source' = "loop"
           \/ Unpublished(command_queue') = [type |-> "start", gpio |-> current_bus']
    BY <2>1, StartsNextBus DEF Resting
  <2>4. Before(current_bus)' \in Nat
    <3>1. current_bus' \in 1 .. BusCount + 1
      BY <2>3
    <3> QED
      BY <3>1, BeforeIsNat, Zenon DEF Before
  <2>5. ASSUME NEW n \in Nat PROVE SeenAtMost(n)'
    <3>1. Len(last_seen') \in 0 .. Len(last_seen') /\ Len(last_seen') - Len(last_seen') <= n
      BY <2>2 DEF TableInv
    <3>2. ASSUME NEW k \in 1 .. Len(last_seen') PROVE ~devices'[last_seen'[k]].present
      <4>1. last_seen'[k] \in DeviceSlots /\ devices'[last_seen'[k]] # Nothing
        BY <2>2 DEF TableInv, ToSet, InUse
      <4>2. \A d \in DeviceSlots : devices[d] \in Devices \cup {Nothing}
        BY DEF TableInv
      <4> QED
        BY <2>1, <4>1, <4>2 DEF Absent, Devices
    <3> QED
      BY <3>1, <3>2 DEF SeenAtMost
  <2>6. source' = "publish" => Asked(Unpublished(command_queue))'
    <3>1. PICK n \in Nat : n = Before(current_bus)'
      BY <2>4
    <3>2. SeenAtMost(n)' /\ n + 0 = n
      BY <2>5
    <3> QED
      BY <2>3, <3>1, <3>2 DEF Asked, Unpublished
  <2> QED
    BY <2>1, <2>2, <2>3, <2>6 DEF CountInv, Resting, IsEmpty, workerVars
<1>2. CASE ~(state = "idle" /\ due)
  <2>1. /\ source' = "loop"
        /\ UNCHANGED <<command_queue, response_queue, current_bus, devices, seenVars, workerVars>>
    BY <1>2 DEF PeriodicEnd
  <2> QED
    BY <2>1 DEF TableInv, CountInv, seenVars, workerVars, InUse, SeenAtMost, Asked, Told, Before,
                IsEmpty, Oldest, Unpublished
<1> QED
  BY <1>1, <1>2

\* The other steps of core 0 carry the request on.
LEMMA SourceCounts ==
  ASSUME RequestInv, TableInv, CountInv, PeriodicBegin \/ PeriodicRemove \/ PeriodicPublish,
         UNCHANGED workerVars
  PROVE  TableInv' /\ CountInv'
<1>1. UNCHANGED <<response_queue, current_bus, devices, last_seen, before_wrap, worker, response, device_index>>
  BY DEF PeriodicBegin, PeriodicRemove, PeriodicPublish, queueVars, seenVars, workerVars
<1>2. TableInv'
  BY <1>1 DEF TableInv, InUse
<1>3. CASE PeriodicBegin \/ PeriodicRemove
  <2>1. source' # "publish" /\ UNCHANGED command_queue
    BY <1>3 DEF PeriodicBegin, PeriodicRemove, queueVars
  <2> QED
    BY <1>1, <1>2, <2>1 DEF CountInv, SeenAtMost, Asked, Told, Before, IsEmpty, Oldest
<1>4. CASE PeriodicPublish
  <2>1. Sending /\ Types
    BY <1>4 DEF RequestInv, PeriodicPublish, Resting, Sending, Commanded, Answering, Answered
  <2>2. Oldest(command_queue') = Unpublished(command_queue)
    BY <1>4, <2>1, PublishedIs DEF PeriodicPublish, Types, Sending
  <2>3. source' # "publish" /\ Asked(Unpublished(command_queue))
    BY <1>4, <2>1 DEF PeriodicPublish, CountInv, Sending
  <2>4. Asked(Oldest(command_queue))'
    BY <1>1, <2>2, <2>3 DEF Asked, SeenAtMost, Before, Oldest
  <2> QED
    BY <1>1, <1>2, <2>1, <2>3, <2>4 DEF CountInv, Sending, SeenAtMost, Told, Before, IsEmpty, Oldest
<1> QED
  BY <1>3, <1>4

\* Every step keeps table and count.
LEMMA CycleNext == CycleInv /\ [Next]_vars => CycleInv'
<1> SUFFICES ASSUME RequestInv, TableInv, CountInv, [Next]_vars PROVE CycleInv'
  BY DEF CycleInv
<1>0. RequestInv' /\ Types
  BY RequestNext DEF RequestInv
<1>1. CASE Core0
  BY <1>0, <1>1, SourceCounts, EndCounts, HandleCounts DEF Core0, PeriodicStep, CycleInv
<1>2. CASE Core1
  <2>1. CountInv'
    BY <1>2, WorkerCounts DEF Core1
  <2>2. TableInv'
    BY <1>2 DEF Core1, sourceVars, seenVars, TableInv, InUse
  <2> QED
    BY <1>0, <2>1, <2>2 DEF CycleInv
<1>3. CASE Config
  <2>1. /\ UNCHANGED <<command_queue, response_queue, source, current_bus, workerVars, seenVars>>
        /\ devices' = Absent({b \in Buses : ~bus_enabled'[b]})
    BY <1>3 DEF Config, ApplyConfig, queueVars
  <2>2. TableInv' /\ \A n \in Nat : SeenAtMost(n) => SeenAtMost(n)'
    BY <2>1, AbsentKeeps, 0 \in Int
  <2> QED
    BY <1>0, <2>1, <2>2, CountUnchanged DEF CycleInv
<1>4. CASE ClockWraps
  <2>1. /\ UNCHANGED <<command_queue, response_queue, source, current_bus, workerVars, devices>>
        /\ before_wrap' = before_wrap \cup ToSet(last_seen) /\ last_seen' = <<>>
    BY <1>4 DEF ClockWraps, queueVars
  <2>2. TableInv'
    BY <2>1 DEF TableInv, AreDistinct, ToSet, InUse
  <2>3. ASSUME NEW n \in Nat PROVE SeenAtMost(n)'
    BY <2>1 DEF SeenAtMost
  <2> QED
    BY <1>0, <2>1, <2>2, <2>3, CountUnchanged DEF CycleInv
<1>5. CASE UNCHANGED <<command_queue, response_queue, source, current_bus, workerVars, devices, seenVars>>
  <2>1. TableInv' /\ \A n \in Nat : SeenAtMost(n) => SeenAtMost(n)'
    BY <1>5 DEF seenVars, TableInv, InUse, SeenAtMost
  <2> QED
    BY <1>0, <1>5, <2>1, CountUnchanged DEF CycleInv
<1>6. CASE Time
  BY <1>5, <1>6, Zenon DEF Time, Elapse, queueVars
<1>7. CASE UNCHANGED vars
  BY <1>5, <1>7 DEF vars, queueVars, sourceVars
<1> QED
  BY <1>1, <1>2, <1>3, <1>4, <1>6, <1>7 DEF Next

\* They hold at first.
LEMMA CycleInit == Init => CycleInv
<1> SUFFICES ASSUME Init PROVE CycleInv
  OBVIOUS
<1>1. /\ devices = [d \in DeviceSlots |-> Nothing] /\ last_seen = <<>> /\ before_wrap = {}
      /\ source = "loop"
  BY DEF Init, SourceInit
<1>2. TableInv
  BY <1>1 DEF TableInv, AreDistinct, ToSet, InUse
<1>3. IsEmpty(command_queue) /\ IsEmpty(response_queue) /\ worker = "remove"
  BY EmptyQueueIs DEF Init, QueueInit, WorkerInit
<1> QED
  BY <1>1, <1>2, <1>3, RequestInit DEF CycleInv, CountInv

\* A row of which the sensor was seen in this cycle is not given away.
LEMMA PresentIsKept ==
  ASSUME DeviceTableSize >= BusCount * DeviceLimit, CycleInv, [Next]_vars, before_wrap = {},
         NEW d \in DeviceSlots, devices[d] # Nothing, devices[d].present
  PROVE  devices'[d].gpio = devices[d].gpio /\ devices'[d].rom = devices[d].rom
<1>0. /\ RequestInv /\ TableInv /\ CountInv /\ devices[d] \in Devices
  BY DEF CycleInv, TableInv
<1>1. \/ UNCHANGED devices
      \/ \E buses : devices' = Absent(buses)
      \/ PeriodicHandle /\ UNCHANGED workerVars
  BY DEF Next, Core0, PeriodicStep, PeriodicBegin, PeriodicRemove, PeriodicPublish, PeriodicEnd,
         Core1, Config, ApplyConfig, Time, Elapse, ClockWraps, vars, sourceVars
<1>2. ASSUME NEW buses, devices' = Absent(buses)
      PROVE  devices'[d].gpio = devices[d].gpio /\ devices'[d].rom = devices[d].rom
  BY <1>0, <1>2 DEF Absent, Devices
<1>3. CASE PeriodicHandle /\ UNCHANGED workerVars
  <2>0. Types /\ Before(current_bus) \in Nat /\ device_index \in Nat /\ device_index <= DeviceLimit
    BY <1>0, CountTypes DEF RequestInv
  <2>1. /\ Answered /\ received = Oldest(response_queue) /\ current_bus \in Buses
        /\ Told(received)
    BY <1>0, <1>3, ReleasedIs
       DEF RequestInv, Types, WorkerTypeOK, CountInv, PeriodicHandle, Resting, Sending, Commanded,
           Answering, Answered
  <2>2. CASE UNCHANGED devices
    BY <2>2
  <2>3. CASE received.type = "temperature" /\ onewire_handle_temperature(received)
    <3>1. PICK e \in onewire_find_or_alloc_device(received) :
            devices' = [devices EXCEPT ![e] = [gpio |-> received.gpio, rom |-> received.rom, present |-> TRUE]]
      BY <2>3 DEF onewire_handle_temperature
    <3>2. CASE e # d
      BY <1>0, <3>1, <3>2 DEF TableInv
    <3>3. CASE e = d /\ devices[d].gpio = received.gpio /\ devices[d].rom = received.rom
      BY <1>0, <3>1, <3>3 DEF TableInv
    <3>4. CASE e = d /\ InUse = DeviceSlots /\ (last_seen # <<>> => d = last_seen[1])
      <4>1. Len(last_seen) >= DeviceTableSize /\ d = last_seen[1]
        BY <1>0, <3>4, FullTable
      <4>2. PICK m \in 0 .. Len(last_seen) :
              /\ Len(last_seen) - m <= Before(current_bus) + (device_index - 1)
              /\ \A k \in 1 .. m : ~devices[last_seen[k]].present
        BY <2>1, <2>3 DEF Told, SeenAtMost
      <4>3. Before(current_bus) + DeviceLimit <= BusCount * DeviceLimit
        <5>1. BusCount + 1 \in current_bus + 1 .. BusCount + 1 /\ BusCount + 1 \in Int
          BY <2>1, QueueAssumption DEF Buses
        <5>2. /\ Before(current_bus) + DeviceLimit <= Before(BusCount + 1)
              /\ Before(BusCount + 1) <= BusCount * DeviceLimit /\ Before(BusCount + 1) \in Nat
          BY <2>1, <5>1, BeforeGrows DEF Buses
        <5>3. BusCount * DeviceLimit \in Nat /\ DeviceLimit \in Nat
          BY QueueAssumption, WorkerAssumption
        <5> QED
          BY <2>0, <5>2, <5>3
      <4>4. 1 \in 1 .. m
        <5>1. /\ BusCount * DeviceLimit \in Nat /\ DeviceLimit \in Nat /\ DeviceTableSize \in Nat
              /\ Len(last_seen) \in Nat
          BY <1>0, QueueAssumption, WorkerAssumption, SourceAssumption DEF TableInv
        <5> QED
          BY <2>0, <4>1, <4>2, <4>3, <5>1
      <4> QED
        BY <4>1, <4>2, <4>4
    <3> QED
      BY <1>0, <3>1, <3>2, <3>3, <3>4, RowIs
  <2> QED
    BY <1>3, <2>1, <2>2, <2>3 DEF PeriodicHandle, onewire_handle_response, Answered, Answers
<1> QED
  BY <1>1, <1>2, <1>3

\* With a table that holds what all buses can have (32 rows for two buses of 16
\* in the code), the row of a sensor seen in this cycle is never given to
\* another, except while rows from before the wrap of the clock are left.
THEOREM AlwaysKeepsPresentSensors ==
  DeviceTableSize >= BusCount * DeviceLimit => (Spec => KeepsPresentSensors)
<1> SUFFICES ASSUME DeviceTableSize >= BusCount * DeviceLimit PROVE Spec => KeepsPresentSensors
  OBVIOUS
<1>1. CycleInv /\ [Next]_vars =>
        [ \A d \in DeviceSlots :
            before_wrap = {} /\ devices[d] # Nothing /\ devices[d].present =>
              /\ devices'[d].gpio = devices[d].gpio
              /\ devices'[d].rom = devices[d].rom ]_vars
  BY PresentIsKept
<1> QED
  BY <1>1, CycleInit, CycleNext, PTL DEF KeepsPresentSensors, Spec

-----------------------------------------------------------------------------
(* The search of a bus.                                                    *)
(*                                                                         *)
(* A bus that is left alone is a tree of bits, and the search walks it     *)
(* through from left to right.  What stands in rom is, up to the present   *)
(* bit, the beginning of the first device behind those found; the last     *)
(* turn, where it went to 0 and a device goes to 1, is where the next pass *)
(* leaves the way of this one.                                             *)

\* Two codes agree in their first n bits.
Agree(c, d, n) == \A b \in 1 .. n : c[b] = d[b]

\* On the way to c the wire tells of devices with either bit, and c goes to 0.
Turn(B, c, b) == c[b] = 0 /\ \E d \in B : Agree(d, c, b - 1) /\ d[b] = 1

\* z is the last turn in the first n bits, 0 if there is none.
IsLastTurn(B, c, n, z) ==
  /\ z \in 0 .. n /\ (z > 0 => Turn(B, c, z))
  /\ \A b \in z + 1 .. n : ~Turn(B, c, b)

\* Behind bit l no device leaves the way of c to a 0.
KeepsLeft(B, c, l, n) ==
  \A b \in l + 1 .. n : c[b] = 1 => \A d \in B : Agree(d, c, b - 1) => d[b] = 1

\* s holds the first of the devices, in order, all of them sensors.
FirstOnes(B, s) ==
  /\ \A k \in 1 .. Len(s) : s[k] \in B /\ s[k] \in Ds18b20s
  /\ \A j, k \in 1 .. Len(s) : j < k => Precedes(s[j], s[k])
  /\ \A d \in B, k \in 1 .. Len(s) : (\A j \in 1 .. Len(s) : s[j] # d) => Precedes(s[k], d)

\* c is the first of the devices behind those in s.
IsNext(B, s, c) ==
  /\ c \in B /\ \A k \in 1 .. Len(s) : s[k] # c
  /\ \A d \in B : d = c \/ Precedes(c, d) \/ \E k \in 1 .. Len(s) : s[k] = d

\* c leads up to bit i to the first device behind those in s, the last of which
\* has its last turn at l; z is the last turn of c so far.
LeadsOn(B, s, l, c, i, z) ==
  /\ \E d \in B : Agree(d, c, i)
  /\ IsLastTurn(B, c, i, z) /\ KeepsLeft(B, c, l, i)
  /\ IF s = <<>> THEN l = 0
     ELSE /\ l > 0 /\ IsLastTurn(B, s[Len(s)], RomBits, l)
          /\ IF i < l THEN c = s[Len(s)] ELSE Agree(c, s[Len(s)], l - 1) /\ c[l] = 1

\* The bit that is read when the devices on the way to c send x in place i, and
\* the way that is taken there.
Reads(B, c, i, x) == IF \A d \in B : Agree(d, c, i - 1) => d[i] = x THEN 1 ELSE 0
WayOn(B, c, l, i) ==
  IF Reads(B, c, i, 1) # Reads(B, c, i, 0) THEN Reads(B, c, i, 1)
  ELSE IF i < l THEN c[i] ELSE IF i = l THEN 1 ELSE 0

\* The search between two steps, on a bus left alone.
QuietInv ==
  /\ FirstOnes(bus, roms) /\ Len(roms) <= Capacity
  /\ step = "pass" =>
       IF roms = <<>> THEN last_discrepancy = 0 /\ ~last_device
       ELSE /\ rom = roms[Len(roms)] /\ (last_device <=> last_discrepancy = 0)
            /\ IsLastTurn(bus, rom, RomBits, last_discrepancy)
  /\ step = "bits" =>
       /\ Len(roms) < Capacity /\ listening = {d \in bus : Agree(d, rom, id_bit_number - 1)}
       /\ LeadsOn(bus, roms, last_discrepancy, rom, id_bit_number - 1, last_zero)
  /\ step = "done" =>
       \A d \in bus : \/ \E k \in 1 .. Len(roms) : roms[k] = d
                      \/ Len(roms) = Capacity
                      \/ \E e \in bus \ Ds18b20s : e = d \/ Precedes(e, d)

\* A shorted bus reads as one device with the ROM of zeros, which is no sensor.
ShortedInv ==
  /\ roms = <<>>
  /\ step # "done" => /\ last_discrepancy = 0 /\ ~last_device
                      /\ \A b \in 1 .. id_bit_number - 1 : rom[b] = 0

BusTypes ==
  /\ bus \subseteq RomCodes /\ shorted \in BOOLEAN /\ changes \in Nat
  /\ step \in {"pass", "bits", "done"} /\ rom \in RomCodes
  /\ last_discrepancy \in 0 .. RomBits /\ last_zero \in 0 .. RomBits /\ last_device \in BOOLEAN
  /\ id_bit_number \in 1 .. RomBits /\ roms \in Seq(RomCodes)
  /\ listening \subseteq bus

SearchInv ==
  /\ BusTypes
  /\ changes = 0 => IF shorted THEN ShortedInv ELSE QuietInv

\* Codes with the same bits are the same.
LEMMA SameBits ==
  ASSUME NEW c \in RomCodes, NEW d \in RomCodes, \A b \in 1 .. RomBits : c[b] = d[b]
  PROVE  c = d
<1>1. c = [b \in 1 .. RomBits |-> c[b]] /\ d = [b \in 1 .. RomBits |-> d[b]]
  BY DEF RomCodes, BitNumbers
<1>2. [b \in 1 .. RomBits |-> c[b]] = [b \in 1 .. RomBits |-> d[b]]
  OBVIOUS
<1> QED
  BY <1>1, <1>2

\* Different codes have a first bit in which they differ.
LEMMA FirstDifference ==
  ASSUME NEW c \in RomCodes, NEW d \in RomCodes, c # d
  PROVE  \E b \in 1 .. RomBits : c[b] # d[b] /\ Agree(c, d, b - 1)
<1> DEFINE T == {b \in 1 .. RomBits : c[b] # d[b]}
<1>1. T # {}
  BY SameBits
<1>2. RomBits \in Nat /\ T \subseteq Nat
  BY BusAssumption
<1>3. PICK b \in T : \A a \in T : b <= a
  BY <1>1, <1>2, LeastNumber
<1>4. ASSUME NEW a \in 1 .. b - 1 PROVE c[a] = d[a]
  BY <1>2, <1>3
<1> QED
  BY <1>3, <1>4 DEF Agree

\* The order of codes: one of two is first, and only one of them.
LEMMA OrderIs ==
  ASSUME NEW c \in RomCodes, NEW d \in RomCodes
  PROVE  /\ c = d \/ Precedes(c, d) \/ Precedes(d, c)
         /\ ~(Precedes(c, d) /\ Precedes(d, c)) /\ ~Precedes(c, c)
<1>0. RomBits \in Nat /\ \A b \in 1 .. RomBits : c[b] \in {0, 1} /\ d[b] \in {0, 1}
  BY BusAssumption DEF RomCodes, BitNumbers
<1>1. ASSUME c # d PROVE Precedes(c, d) \/ Precedes(d, c)
  <2>1. PICK b \in 1 .. RomBits : c[b] # d[b] /\ Agree(c, d, b - 1)
    BY <1>1, FirstDifference
  <2>2. c[b] < d[b] \/ d[b] < c[b]
    BY <1>0, <2>1
  <2> QED
    BY <2>1, <2>2 DEF Precedes, Agree, BitNumbers
<1>2. ASSUME Precedes(c, d), Precedes(d, c) PROVE FALSE
  <2>1. PICK a \in 1 .. RomBits : c[a] < d[a] /\ \A x \in 1 .. a - 1 : c[x] = d[x]
    BY <1>2 DEF Precedes, BitNumbers
  <2>2. PICK b \in 1 .. RomBits : d[b] < c[b] /\ \A x \in 1 .. b - 1 : d[x] = c[x]
    BY <1>2 DEF Precedes, BitNumbers
  <2>3. a \in 1 .. b - 1 \/ b \in 1 .. a - 1 \/ a = b
    BY <1>0
  <2> QED
    BY <1>0, <2>1, <2>2, <2>3
<1>3. ~Precedes(c, c)
  BY <1>0 DEF Precedes, BitNumbers
<1> QED
  BY <1>1, <1>2, <1>3

\* At the end of a pass, what the way has led to is the first device behind
\* those found.
LEMMA LeadsToNext ==
  ASSUME NEW B \in SUBSET RomCodes, NEW s \in Seq(RomCodes), FirstOnes(B, s), NEW l, l \in 0 .. RomBits,
         NEW c \in RomCodes, NEW z, LeadsOn(B, s, l, c, RomBits, z)
  PROVE  IsNext(B, s, c)
<1>0. RomBits \in Nat /\ Len(s) \in Nat
  BY BusAssumption
<1>1. c \in B
  <2>1. PICK d \in B : Agree(d, c, RomBits)
    BY DEF LeadsOn
  <2>2. d = c
    BY <2>1, SameBits DEF Agree
  <2> QED
    BY <2>1, <2>2
<1>b. \A x \in RomCodes : \A b \in 1 .. RomBits : x[b] \in {0, 1}
  BY DEF RomCodes, BitNumbers
<1>c. KeepsLeft(B, c, l, RomBits)
  BY DEF LeadsOn
<1>2. CASE s = <<>>
  <2>1. l = 0
    BY <1>2 DEF LeadsOn
  <2>2. ASSUME NEW d \in B, d # c PROVE Precedes(c, d)
    <3>1. PICK b \in 1 .. RomBits : c[b] # d[b] /\ Agree(c, d, b - 1)
      BY <2>2, FirstDifference
    <3>2. c[b] # 1
      BY <1>0, <1>c, <2>1, <3>1 DEF KeepsLeft, Agree
    <3>3. c[b] < d[b]
      BY <1>b, <3>1, <3>2
    <3> QED
      BY <3>1, <3>3 DEF Precedes, Agree, BitNumbers
  <2> QED
    BY <1>1, <1>2, <2>2 DEF IsNext
<1>3. CASE s # <<>>
  <2> DEFINE last == s[Len(s)]
  <2>0. Len(s) \in 1 .. Len(s) /\ last \in RomCodes /\ last \in B
    BY <1>0, <1>3 DEF FirstOnes
  <2>1. /\ l \in 1 .. RomBits /\ IsLastTurn(B, last, RomBits, l)
        /\ Agree(c, last, l - 1) /\ c[l] = 1
    BY <1>0, <1>3 DEF LeadsOn
  <2>2. last[l] = 0
    BY <1>0, <2>1 DEF IsLastTurn, Turn
  <2>3. Precedes(last, c)
    BY <2>1, <2>2 DEF Precedes, Agree, BitNumbers
  <2> HIDE DEF last
  <2>4. ASSUME NEW k \in 1 .. Len(s) PROVE s[k] # c
    <3>1. CASE k = Len(s)
      BY <2>0, <2>3, <3>1, OrderIs DEF last
    <3>2. CASE k < Len(s)
      <4>1. Precedes(s[k], last) /\ s[k] \in RomCodes
        BY <2>0, <3>2 DEF FirstOnes, last
      <4> QED
        BY <2>0, <2>3, <4>1, OrderIs
    <3> QED
      BY <1>0, <3>1, <3>2
  <2>5. ASSUME NEW d \in B, d # c, \A k \in 1 .. Len(s) : s[k] # d PROVE Precedes(c, d)
    <3>0. Precedes(last, d) /\ d # last
      BY <2>0, <2>5 DEF FirstOnes, last
    <3>1. PICK b \in 1 .. RomBits : c[b] # d[b] /\ Agree(c, d, b - 1)
      BY <2>5, FirstDifference
    <3>2. CASE c[b] = 1
      <4>1. d[b] = 0
        BY <1>b, <3>1, <3>2
      <4>2. CASE b > l
        <5>1. b \in l + 1 .. RomBits /\ Agree(d, c, b - 1)
          BY <1>0, <3>1, <4>2 DEF Agree
        <5> QED
          BY <1>c, <3>2, <4>1, <5>1 DEF KeepsLeft
      <4>3. CASE b = l
        <5>1. PICK a \in 1 .. RomBits : last[a] < d[a] /\ \A x \in 1 .. a - 1 : last[x] = d[x]
          BY <3>0 DEF Precedes, BitNumbers
        <5>2. \A x \in 1 .. l : last[x] = d[x]
          BY <1>0, <2>1, <2>2, <3>1, <4>1, <4>3 DEF Agree
        <5>3. ~(a \in 1 .. l) /\ last[a] = 0 /\ d[a] = 1
          BY <1>b, <2>0, <5>1, <5>2
        <5>4. a \in l + 1 .. RomBits
          BY <1>0, <5>3
        <5>5. Turn(B, last, a)
          BY <5>1, <5>3 DEF Turn, Agree
        <5> QED
          BY <2>1, <5>4, <5>5 DEF IsLastTurn
      <4>4. CASE b < l
        <5>1. \A x \in 1 .. b : c[x] = last[x]
          BY <1>0, <2>1, <4>4 DEF Agree
        <5>2. d[b] < last[b]
          BY <1>0, <3>2, <4>1, <5>1
        <5>3. \A x \in 1 .. b - 1 : d[x] = last[x]
          BY <1>0, <3>1, <5>1 DEF Agree
        <5>4. Precedes(d, last)
          BY <5>2, <5>3 DEF Precedes, BitNumbers
        <5> QED
          BY <2>0, <3>0, <5>4, OrderIs
      <4> QED
        BY <1>0, <4>2, <4>3, <4>4
    <3>3. CASE c[b] # 1
      <4>1. c[b] < d[b]
        BY <1>b, <3>1, <3>3
      <4> QED
        BY <3>1, <4>1 DEF Precedes, Agree, BitNumbers
    <3> QED
      BY <3>2, <3>3
  <2> QED
    BY <1>1, <2>4, <2>5 DEF IsNext
<1> QED
  BY <1>2, <1>3

\* A bit is read from the devices that are on the way, and the way goes on.
LEMMA BitKept ==
  ASSUME NEW B \in SUBSET RomCodes, NEW s \in Seq(RomCodes), FirstOnes(B, s), NEW l \in 0 .. RomBits,
         NEW c \in RomCodes, NEW i \in 1 .. RomBits, NEW z, LeadsOn(B, s, l, c, i - 1, z)
  PROVE  /\ Reads(B, c, i, 1) = 0 \/ Reads(B, c, i, 0) = 0
         /\ WayOn(B, c, l, i) \in {0, 1}
         /\ LeadsOn(B, s, l, [c EXCEPT ![i] = WayOn(B, c, l, i)], i,
                    IF Reads(B, c, i, 1) = Reads(B, c, i, 0) /\ WayOn(B, c, l, i) = 0 THEN i ELSE z)
<1>w1. PICK w1 : w1 = Reads(B, c, i, 1)
  OBVIOUS
<1>w0. PICK w0 : w0 = Reads(B, c, i, 0)
  OBVIOUS
<1>v. PICK v : v = WayOn(B, c, l, i)
  OBVIOUS
<1>W. SUFFICES /\ w1 = 0 \/ w0 = 0
               /\ v \in {0, 1}
               /\ LeadsOn(B, s, l, [c EXCEPT ![i] = v], i, IF w1 = w0 /\ v = 0 THEN i ELSE z)
  BY <1>w1, <1>w0, <1>v
<1>x. /\ w1 = IF \A d \in B : Agree(d, c, i - 1) => d[i] = 1 THEN 1 ELSE 0
      /\ w0 = IF \A d \in B : Agree(d, c, i - 1) => d[i] = 0 THEN 1 ELSE 0
      /\ v = IF w1 # w0 THEN w1 ELSE IF i < l THEN c[i] ELSE IF i = l THEN 1 ELSE 0
  BY <1>w1, <1>w0, <1>v DEF Reads, WayOn
<1> DEFINE k == [c EXCEPT ![i] = v]
           z1 == IF w1 = w0 /\ v = 0 THEN i ELSE z
<1>0. RomBits \in Nat /\ Len(s) \in Nat /\ i \in Nat /\ l \in Nat
  BY BusAssumption
<1>b. \A x \in RomCodes : \A b \in 1 .. RomBits : x[b] \in {0, 1}
  BY DEF RomCodes, BitNumbers
<1>w. w1 \in {0, 1} /\ w0 \in {0, 1}
  BY <1>x
<1>d. PICK d0 \in B : Agree(d0, c, i - 1)
  BY DEF LeadsOn
<1>d0. d0[i] \in {0, 1} /\ c[i] \in {0, 1}
  BY <1>b
<1>1. w1 = 0 \/ w0 = 0
  BY <1>x, <1>d, <1>d0
<1>2. v \in {0, 1}
  BY <1>x, <1>w, <1>d0
<1>k. /\ k \in RomCodes /\ k[i] = v /\ \A b \in 1 .. i - 1 : k[b] = c[b]
      /\ \A b \in 1 .. RomBits : b # i => k[b] = c[b]
  BY <1>0, <1>2 DEF RomCodes, BitNumbers
<1>a. \A n \in 0 .. i - 1 : \A d : Agree(d, k, n) <=> Agree(d, c, n)
  BY <1>0, <1>k DEF Agree
<1>s. \A d : Agree(d, k, i) <=> Agree(d, c, i - 1) /\ d[i] = v
  BY <1>0, <1>k DEF Agree
<1>t. \A b \in 1 .. i - 1 : Turn(B, k, b) <=> Turn(B, c, b)
  <2> TAKE b \in 1 .. i - 1
  <2>1. b - 1 \in 0 .. i - 1 /\ k[b] = c[b]
    BY <1>0, <1>k
  <2> QED
    BY <1>a, <2>1 DEF Turn
<1>e. i - 1 \in 0 .. i - 1
  BY <1>0
<1>ti. Turn(B, k, i) <=> v = 0 /\ \E d \in B : Agree(d, c, i - 1) /\ d[i] = 1
  BY <1>k, <1>a, <1>e DEF Turn
<1>z. z \in 0 .. i - 1 /\ (z > 0 => Turn(B, c, z)) /\ \A b \in z + 1 .. i - 1 : ~Turn(B, c, b)
  BY DEF LeadsOn, IsLastTurn
<1>l. KeepsLeft(B, c, l, i - 1)
  BY DEF LeadsOn
<1> HIDE DEF k
\* There is a device on it.
<1>3. \E d \in B : Agree(d, k, i)
  <2>1. \E d \in B : Agree(d, c, i - 1) /\ d[i] = v
    <3>1. CASE w1 = 1
      BY <1>x, <1>1, <1>d, <3>1
    <3>2. CASE w0 = 1
      BY <1>x, <1>1, <1>d, <3>2
    <3>3. CASE w1 = 0 /\ w0 = 0
      <4>1. PICK d \in B : Agree(d, c, i - 1) /\ d[i] # 1
        BY <1>x, <3>3
      <4>2. PICK e \in B : Agree(e, c, i - 1) /\ e[i] # 0
        BY <1>x, <3>3
      <4>3. d[i] = 0 /\ e[i] = 1
        BY <1>b, <4>1, <4>2
      <4> QED
        BY <1>2, <4>1, <4>2, <4>3
    <3> QED
      BY <1>w, <3>1, <3>2, <3>3
  <2> QED
    BY <1>s, <2>1
\* Its last turn is here, or where it was.
<1>4. IsLastTurn(B, k, i, z1)
  <2>1. CASE w1 = w0 /\ v = 0
    <3>1. PICK e \in B : Agree(e, c, i - 1) /\ e[i] # 0
      BY <1>x, <1>1, <2>1
    <3>2. e[i] = 1
      BY <1>b, <3>1
    <3>3. Turn(B, k, i)
      BY <1>ti, <2>1, <3>1, <3>2
    <3>4. z1 = i /\ i \in 0 .. i /\ i + 1 .. i = {}
      BY <1>0, <2>1
    <3> QED
      BY <3>3, <3>4 DEF IsLastTurn
  <2>2. CASE ~(w1 = w0 /\ v = 0)
    <3>1. ~Turn(B, k, i)
      <4>1. SUFFICES ASSUME v = 0, NEW e \in B, Agree(e, c, i - 1), e[i] = 1 PROVE FALSE
        BY <1>ti
      <4>2. w1 # w0 /\ w1 = 0
        BY <1>x, <2>2, <4>1
      <4>3. w0 = 1
        BY <1>w, <4>2
      <4> QED
        BY <1>x, <4>1, <4>3
    <3>2. z1 = z /\ z \in 0 .. i
      BY <1>0, <1>z, <2>2
    <3>3. z > 0 => Turn(B, k, z)
      BY <1>0, <1>z, <1>t
    <3>4. \A b \in z + 1 .. i : ~Turn(B, k, b)
      <4> TAKE b \in z + 1 .. i
      <4>1. b = i \/ (b \in z + 1 .. i - 1 /\ b \in 1 .. i - 1)
        BY <1>0, <1>z
      <4> QED
        BY <1>z, <1>t, <3>1, <4>1
    <3> QED
      BY <3>2, <3>3, <3>4 DEF IsLastTurn
  <2> QED
    BY <2>1, <2>2
\* Nothing is left on its left hand.
<1>5. KeepsLeft(B, k, l, i)
  <2>1. SUFFICES ASSUME NEW b \in l + 1 .. i, k[b] = 1, NEW d \in B, Agree(d, k, b - 1) PROVE d[b] = 1
    BY DEF KeepsLeft
  <2>2. CASE b = i
    <3>1. w1 = 1
      BY <1>x, <1>0, <1>k, <1>w, <2>1, <2>2
    <3>2. Agree(d, c, i - 1)
      BY <1>a, <1>e, <2>1, <2>2
    <3> QED
      BY <1>x, <2>2, <3>1, <3>2
  <2>3. CASE b # i
    <3>1. b \in l + 1 .. i - 1 /\ b \in 1 .. i - 1 /\ b - 1 \in 0 .. i - 1
      BY <1>0, <2>3
    <3>2. Agree(d, c, b - 1) /\ c[b] = 1
      BY <1>a, <1>k, <2>1, <3>1
    <3> QED
      BY <1>l, <3>1, <3>2 DEF KeepsLeft
  <2> QED
    BY <2>2, <2>3
\* Up to the last turn of the device before it follows that one.
<1>6. CASE s = <<>>
  BY <1>1, <1>2, <1>3, <1>4, <1>5, <1>6 DEF LeadsOn, k
<1>7. CASE s # <<>>
  <2> DEFINE last == s[Len(s)]
  <2>0. Len(s) \in 1 .. Len(s) /\ last \in RomCodes /\ last \in B
    BY <1>0, <1>7 DEF FirstOnes
  <2>1. /\ l > 0 /\ IsLastTurn(B, last, RomBits, l)
        /\ IF i - 1 < l THEN c = last ELSE Agree(c, last, l - 1) /\ c[l] = 1
    BY <1>7 DEF LeadsOn
  <2> HIDE DEF last
  <2>2. CASE i < l
    <3>1. c = last /\ i - 1 < l
      BY <1>0, <2>1, <2>2
    <3>2. Agree(last, c, i - 1)
      BY <3>1 DEF Agree
    <3>3. v = c[i]
      <4>1. CASE w1 # w0
        <5>1. CASE w1 = 1
          BY <1>x, <2>0, <3>1, <3>2, <4>1, <5>1
        <5>2. CASE w0 = 1
          BY <1>x, <1>1, <2>0, <3>1, <3>2, <4>1, <5>2
        <5> QED
          BY <1>w, <4>1, <5>1, <5>2
      <4>2. CASE w1 = w0
        BY <1>x, <2>2, <4>2
      <4> QED
        BY <4>1, <4>2
    <3>4. \A b \in 1 .. RomBits : k[b] = last[b]
      BY <1>k, <3>1, <3>3
    <3>5. k = last
      BY <1>k, <2>0, <3>4, SameBits
    <3> QED
      BY <1>1, <1>2, <1>3, <1>4, <1>5, <1>7, <2>1, <2>2, <3>5 DEF LeadsOn, k, last
  <2>3. CASE i = l
    <3>1. c = last /\ i - 1 < l
      BY <1>0, <2>1, <2>3
    <3>2. last[l] = 0 /\ \E d \in B : Agree(d, last, l - 1) /\ d[l] = 1
      BY <2>1 DEF IsLastTurn, Turn
    <3>3. Agree(last, c, i - 1)
      BY <3>1 DEF Agree
    <3>4. w1 = 0
      BY <1>x, <2>0, <2>3, <3>1, <3>2, <3>3
    <3>5. w0 = 0
      BY <1>x, <2>3, <3>1, <3>2
    <3>6. v = 1
      BY <1>x, <1>0, <2>3, <3>4, <3>5
    <3>7. Agree(k, last, l - 1) /\ k[l] = 1 /\ ~(i < l)
      BY <1>0, <1>k, <2>3, <3>1, <3>6 DEF Agree
    <3> QED
      BY <1>1, <1>2, <1>3, <1>4, <1>5, <1>7, <2>1, <3>7 DEF LeadsOn, k, last
  <2>4. CASE i > l
    <3>1. Agree(c, last, l - 1) /\ c[l] = 1 /\ ~(i < l)
      BY <1>0, <2>1, <2>4
    <3>2. l \in 1 .. i - 1 /\ \A b \in 1 .. l - 1 : b \in 1 .. i - 1
      BY <1>0, <2>1, <2>4
    <3>3. Agree(k, last, l - 1) /\ k[l] = 1
      BY <1>k, <3>1, <3>2 DEF Agree
    <3> QED
      BY <1>1, <1>2, <1>3, <1>4, <1>5, <1>7, <2>1, <3>1, <3>3 DEF LeadsOn, k, last
  <2> QED
    BY <1>0, <2>2, <2>3, <2>4
<1> QED
  BY <1>6, <1>7

\* The first device behind those found is the next of them.
LEMMA NextIsFound ==
  ASSUME NEW B \in SUBSET RomCodes, NEW s \in Seq(RomCodes), FirstOnes(B, s), NEW c \in RomCodes,
         c \in Ds18b20s, IsNext(B, s, c)
  PROVE  FirstOnes(B, Append(s, c))
<1> DEFINE t == Append(s, c)
<1>0. /\ c \in B /\ \A k \in 1 .. Len(s) : s[k] # c
      /\ \A d \in B : d = c \/ Precedes(c, d) \/ \E k \in 1 .. Len(s) : s[k] = d
  BY DEF IsNext
<1>1. /\ Len(s) \in Nat /\ Len(t) = Len(s) + 1 /\ t[Len(s) + 1] = c
      /\ \A k \in 1 .. Len(s) : t[k] = s[k]
  OBVIOUS
<1> HIDE DEF t
<1>2. \A k \in 1 .. Len(t) : k \in 1 .. Len(s) \/ k = Len(s) + 1
  BY <1>1
<1>3. Len(s) + 1 \in 1 .. Len(t) /\ \A k \in 1 .. Len(s) : k \in 1 .. Len(t)
  BY <1>1
<1>4. \A k \in 1 .. Len(t) : t[k] \in B /\ t[k] \in Ds18b20s
  BY <1>0, <1>1, <1>2 DEF FirstOnes
<1>5. ASSUME NEW j \in 1 .. Len(t), NEW k \in 1 .. Len(t), j < k PROVE Precedes(t[j], t[k])
  <2>1. j \in 1 .. Len(s)
    BY <1>1, <1>2, <1>5
  <2>2. CASE k \in 1 .. Len(s)
    BY <1>1, <1>5, <2>1, <2>2 DEF FirstOnes
  <2>3. CASE k = Len(s) + 1
    BY <1>0, <1>1, <2>1, <2>3 DEF FirstOnes
  <2> QED
    BY <1>2, <2>2, <2>3
<1>6. ASSUME NEW d \in B, NEW k \in 1 .. Len(t), \A j \in 1 .. Len(t) : t[j] # d
      PROVE  Precedes(t[k], d)
  <2>1. d # c /\ \A j \in 1 .. Len(s) : s[j] # d
    BY <1>1, <1>3, <1>6
  <2>2. CASE k \in 1 .. Len(s)
    BY <1>1, <2>1, <2>2 DEF FirstOnes
  <2>3. CASE k = Len(s) + 1
    BY <1>0, <1>1, <2>1, <2>3
  <2> QED
    BY <1>2, <2>2, <2>3
<1> QED
  BY <1>4, <1>5, <1>6 DEF FirstOnes, t

\* The types are kept.
LEMMA NoRomIs == NoRom \in RomCodes /\ \A B \in SUBSET BusDevices : B \subseteq RomCodes
  BY BusAssumption DEF NoRom, RomCodes, BitNumbers

LEMMA BusTypesInit == BusInit => BusTypes
<1>1. /\ RomBits \in Nat \ {0} /\ 0 \in 0 .. RomBits /\ 1 \in 1 .. RomBits /\ 0 \in Nat
      /\ <<>> \in Seq(RomCodes)
  BY BusAssumption
<1> QED
  BY <1>1, NoRomIs DEF BusInit, BusTypes

LEMMA BitTypes ==
  BusTypes /\ (ReadsBit \/ ReadsBitLate) =>
    /\ step' \in {"pass", "bits", "done"} /\ rom' \in RomCodes
    /\ last_discrepancy' \in 0 .. RomBits /\ last_zero' \in 0 .. RomBits /\ last_device' \in BOOLEAN
    /\ id_bit_number' \in 1 .. RomBits /\ roms' \in Seq(RomCodes)
    /\ listening' \subseteq listening
<1> SUFFICES ASSUME BusTypes, ReadsBit \/ ReadsBitLate
             PROVE  /\ step' \in {"pass", "bits", "done"} /\ rom' \in RomCodes
                    /\ last_discrepancy' \in 0 .. RomBits /\ last_zero' \in 0 .. RomBits
                    /\ last_device' \in BOOLEAN
                    /\ id_bit_number' \in 1 .. RomBits /\ roms' \in Seq(RomCodes)
                    /\ listening' \subseteq listening
  OBVIOUS
<1>w. PICK w1 \in {0, 1}, w0 \in {0, 1} : SearchBit(w1, w0)
  BY DEF ReadsBit, ReadsBitLate, Wire
<1> DEFINE direction == Direction(w1, w0)
           code == [rom EXCEPT ![id_bit_number] = direction]
           zero == IF w1 = w0 /\ direction = 0 THEN id_bit_number ELSE last_zero
<1>0. RomBits \in Nat /\ id_bit_number \in 1 .. RomBits /\ rom \in RomCodes
  BY BusAssumption DEF BusTypes
<1>1. direction \in {0, 1}
  BY <1>0 DEF Direction, RomCodes, BitNumbers
<1>2. code \in RomCodes /\ zero \in 0 .. RomBits
  BY <1>0, <1>1 DEF BusTypes, RomCodes, BitNumbers
<1>3. CASE w1 = 1 /\ w0 = 1
  BY <1>w, <1>3 DEF SearchBit, SearchEnds, passVars, BusTypes
<1>4. CASE ~(w1 = 1 /\ w0 = 1) /\ id_bit_number < RomBits
  <2>1. /\ rom' = code /\ listening' \subseteq listening /\ last_zero' = zero
        /\ id_bit_number' = id_bit_number + 1
        /\ UNCHANGED <<step, last_discrepancy, last_device, roms>>
    BY <1>w, <1>4 DEF SearchBit
  <2> QED
    BY <1>0, <1>2, <1>4, <2>1 DEF BusTypes
<1>5. CASE ~(w1 = 1 /\ w0 = 1) /\ ~(id_bit_number < RomBits)
  <2>1. /\ rom' = code /\ listening' \subseteq listening /\ last_zero' = 0
        /\ id_bit_number' = 1 /\ PassEnds(code, zero)
    BY <1>w, <1>5 DEF SearchBit
  <2>2. /\ last_discrepancy' = zero /\ last_device' \in BOOLEAN /\ step' \in {"pass", "done"}
        /\ roms' = roms \/ roms' = Append(roms, code)
    BY <2>1 DEF PassEnds
  <2> QED
    BY <1>0, <1>2, <2>1, <2>2 DEF BusTypes
<1> QED
  BY <1>3, <1>4, <1>5

LEMMA BusTypesNext == BusTypes /\ [BusNext]_searchVars => BusTypes'
<1> SUFFICES ASSUME BusTypes, [BusNext]_searchVars PROVE BusTypes'
  OBVIOUS
<1>1. ASSUME NEW d \in BusDevices, Connect(d) \/ Disconnect(d) PROVE BusTypes'
  BY <1>1, BusAssumption DEF Connect, Disconnect, BusTypes, busVars, passVars
<1>2. CASE Short \/ Stall
  <2>1. /\ changes' = changes + 1 /\ shorted' \in BOOLEAN /\ listening' = {}
        /\ UNCHANGED <<bus, step, rom, last_discrepancy, last_device, last_zero, id_bit_number, roms>>
    BY <1>2 DEF Short, Stall, BusTypes
  <2> QED
    BY <2>1 DEF BusTypes
<1>3. CASE PassBegins
  BY <1>3, BusAssumption DEF PassBegins, SearchEnds, BusTypes, busVars, passVars
<1>4. CASE ReadsBit \/ ReadsBitLate
  <2>1. UNCHANGED <<bus, shorted>> /\ changes' \in {changes, changes + 1}
    BY <1>4 DEF ReadsBit, ReadsBitLate, busVars
  <2>2. /\ step' \in {"pass", "bits", "done"} /\ rom' \in RomCodes
        /\ last_discrepancy' \in 0 .. RomBits /\ last_zero' \in 0 .. RomBits /\ last_device' \in BOOLEAN
        /\ id_bit_number' \in 1 .. RomBits /\ roms' \in Seq(RomCodes)
        /\ listening' \subseteq listening
    BY <1>4, BitTypes
  <2> QED
    BY <2>1, <2>2 DEF BusTypes
<1>5. CASE Again
  <2>1. /\ RomBits \in Nat \ {0} /\ 0 \in 0 .. RomBits /\ 1 \in 1 .. RomBits /\ 0 \in Nat
        /\ <<>> \in Seq(RomCodes)
    BY BusAssumption
  <2> QED
    BY <1>5, <2>1, NoRomIs DEF Again, BusTypes
<1>6. CASE UNCHANGED searchVars
  BY <1>6 DEF searchVars, BusTypes, busVars, passVars
<1> QED
  BY <1>1, <1>2, <1>3, <1>4, <1>5, <1>6 DEF BusNext

\* A pass begins, or the search ends: nothing is left to be found.
LEMMA QuietBegins ==
  BusTypes /\ ~shorted /\ QuietInv /\ PassBegins => QuietInv'
<1> SUFFICES ASSUME BusTypes, ~shorted, QuietInv, PassBegins PROVE QuietInv'
  OBVIOUS
<1>0. RomBits \in Nat /\ Len(roms) \in Nat /\ Capacity \in Nat
  BY BusAssumption DEF BusTypes
<1>1. bus' = bus /\ roms' = roms /\ rom' = rom /\ last_discrepancy' = last_discrepancy
  BY DEF PassBegins, SearchEnds, busVars
<1>2. /\ step = "pass" /\ FirstOnes(bus, roms) /\ Len(roms) <= Capacity
      /\ bus \subseteq RomCodes /\ rom \in RomCodes
  BY DEF PassBegins, QuietInv, BusTypes
<1>3. CASE Len(roms) < Capacity /\ ~last_device /\ Present
  <2>1. /\ step' = "bits" /\ listening' = bus /\ id_bit_number' = 1 /\ last_zero' = 0
        /\ bus # {} /\ last_device' = last_device
    BY <1>3 DEF PassBegins, Present
  <2>2. \A d : Agree(d, rom, 0)
    BY DEF Agree
  <2>3. IsLastTurn(bus, rom, 0, 0) /\ KeepsLeft(bus, rom, last_discrepancy, 0)
    BY <1>0 DEF IsLastTurn, KeepsLeft, BusTypes
  <2>4. LeadsOn(bus, roms, last_discrepancy, rom, 0, 0)
    <3>1. CASE roms = <<>>
      BY <1>2, <2>1, <2>2, <2>3, <3>1 DEF LeadsOn, QuietInv
    <3>2. CASE roms # <<>>
      <4>1. /\ rom = roms[Len(roms)] /\ last_discrepancy # 0
            /\ IsLastTurn(bus, rom, RomBits, last_discrepancy)
        BY <1>2, <1>3, <3>2 DEF QuietInv
      <4>2. 0 < last_discrepancy
        BY <1>0, <4>1 DEF BusTypes
      <4> QED
        BY <2>1, <2>2, <2>3, <3>2, <4>1, <4>2 DEF LeadsOn
    <3> QED
      BY <3>1, <3>2
  <2>5. id_bit_number' - 1 = 0
    BY <2>1
  <2>6. listening' = {d \in bus : Agree(d, rom, 0)}
    BY <2>1, <2>2
  <2> QED
    BY <1>1, <1>2, <1>3, <2>1, <2>4, <2>5, <2>6 DEF QuietInv
<1>4. CASE ~(Len(roms) < Capacity /\ ~last_device /\ Present)
  <2>1. step' = "done"
    BY <1>4 DEF PassBegins, SearchEnds
  <2>2. ASSUME NEW d \in bus, ~(\E k \in 1 .. Len(roms) : roms[k] = d), Len(roms) # Capacity PROVE FALSE
    <3>1. last_device
      BY <1>0, <1>2, <1>4, <2>2 DEF Present
    <3>2. /\ roms # <<>> /\ rom = roms[Len(roms)]
          /\ IsLastTurn(bus, rom, RomBits, 0)
      BY <1>2, <3>1 DEF QuietInv
    <3>3. Len(roms) \in 1 .. Len(roms)
      BY <1>0, <3>2 DEF BusTypes
    <3>4. Precedes(rom, d)
      BY <1>2, <2>2, <3>2, <3>3 DEF FirstOnes
    <3>5. PICK b \in 1 .. RomBits : rom[b] < d[b] /\ \A a \in 1 .. b - 1 : rom[a] = d[a]
      BY <3>4 DEF Precedes, BitNumbers
    <3>6. rom[b] = 0 /\ d[b] = 1
      <4>1. rom[b] \in {0, 1} /\ d[b] \in {0, 1}
        BY <1>2, <2>2, <3>5 DEF RomCodes, BitNumbers
      <4> QED
        BY <3>5, <4>1
    <3>7. Turn(bus, rom, b)
      BY <3>5, <3>6 DEF Turn, Agree
    <3>8. b \in 0 + 1 .. RomBits
      BY <3>5
    <3> QED
      BY <3>2, <3>7, <3>8 DEF IsLastTurn
  <2> QED
    BY <1>1, <1>2, <2>1, <2>2 DEF QuietInv
<1> QED
  BY <1>3, <1>4

\* A bit is read and sent.
LEMMA QuietBit ==
  BusTypes /\ ~shorted /\ QuietInv /\ ReadsBit => QuietInv'
<1> SUFFICES ASSUME BusTypes, ~shorted, QuietInv, ReadsBit PROVE QuietInv'
  OBVIOUS
<1> DEFINE i == id_bit_number
           L == {d \in bus : Agree(d, rom, i - 1)}
<1>w. PICK w1, w0 : w1 = Wire(1) /\ w0 = Wire(0) /\ SearchBit(w1, w0)
  BY DEF ReadsBit
<1> DEFINE v == Direction(w1, w0)
           c == [rom EXCEPT ![i] = v]
           z == IF w1 = w0 /\ v = 0 THEN i ELSE last_zero
<1>0. /\ RomBits \in Nat /\ i \in 1 .. RomBits /\ bus \in SUBSET RomCodes /\ roms \in Seq(RomCodes)
      /\ rom \in RomCodes /\ last_discrepancy \in 0 .. RomBits /\ Len(roms) \in Nat /\ Capacity \in Nat
  BY BusAssumption DEF BusTypes
<1>1. /\ step = "bits" /\ FirstOnes(bus, roms) /\ Len(roms) < Capacity /\ listening = L
      /\ LeadsOn(bus, roms, last_discrepancy, rom, i - 1, last_zero)
  BY <1>w DEF SearchBit, QuietInv
<1>2. w1 = Reads(bus, rom, i, 1) /\ w0 = Reads(bus, rom, i, 0)
  BY <1>w, <1>1 DEF Wire, Reads
<1>4. v = WayOn(bus, rom, last_discrepancy, i)
  BY <1>2 DEF Direction, WayOn
<1>b. bus' = bus
  BY DEF ReadsBit, busVars
<1> HIDE DEF v
<1>5. /\ w1 = 0 \/ w0 = 0
      /\ v \in {0, 1}
      /\ LeadsOn(bus, roms, last_discrepancy, c, i, z)
  <2>1. /\ Reads(bus, rom, i, 1) = 0 \/ Reads(bus, rom, i, 0) = 0
        /\ WayOn(bus, rom, last_discrepancy, i) \in {0, 1}
        /\ LeadsOn(bus, roms, last_discrepancy,
                   [rom EXCEPT ![i] = WayOn(bus, rom, last_discrepancy, i)], i,
                   IF /\ Reads(bus, rom, i, 1) = Reads(bus, rom, i, 0)
                      /\ WayOn(bus, rom, last_discrepancy, i) = 0 THEN i ELSE last_zero)
    BY <1>0, <1>1, BitKept
  <2> QED
    BY <1>2, <1>4, <2>1
<1>6. /\ c \in RomCodes
      /\ \A d : Agree(d, c, i) <=> Agree(d, rom, i - 1) /\ d[i] = v
  <2>1. c \in RomCodes /\ c[i] = v /\ \A b \in 1 .. i - 1 : c[b] = rom[b]
    BY <1>0, <1>5 DEF RomCodes, BitNumbers
  <2> QED
    BY <1>0, <2>1 DEF Agree
<1>7. /\ rom' = c
      /\ listening' = {d \in listening : d[i] = v}
      /\ IF i < RomBits
         THEN /\ id_bit_number' = i + 1 /\ last_zero' = z
              /\ UNCHANGED <<step, last_discrepancy, last_device, roms>>
         ELSE PassEnds(c, z)
  <2>1. ~(w1 = 1 /\ w0 = 1)
    BY <1>5
  <2> QED
    BY <1>w, <2>1 DEF SearchBit, v
<1> HIDE DEF c, z
<1>8. CASE i < RomBits
  <2>1. /\ id_bit_number' = i + 1 /\ last_zero' = z /\ step' = "bits"
        /\ last_discrepancy' = last_discrepancy /\ roms' = roms
    BY <1>1, <1>7, <1>8
  <2>2. id_bit_number' - 1 = i
    BY <1>0, <2>1
  <2>3. listening' = {d \in bus : Agree(d, c, i)}
    BY <1>1, <1>6, <1>7
  <2> QED
    BY <1>0, <1>1, <1>b, <1>5, <1>7, <2>1, <2>2, <2>3 DEF QuietInv
<1>9. CASE ~(i < RomBits)
  <2>0. i = RomBits
    BY <1>0, <1>9
  <2>1. IsNext(bus, roms, c)
    <3>1. LeadsOn(bus, roms, last_discrepancy, c, RomBits, z)
      BY <1>5, <2>0
    <3>2. c \in RomCodes /\ FirstOnes(bus, roms)
      BY <1>1, <1>6
    <3> QED
      BY <1>0, <3>1, <3>2, LeadsToNext
  <2>2. /\ last_discrepancy' = z /\ (last_device' <=> z = 0)
        /\ IF c \in Ds18b20s THEN step' = "pass" /\ roms' = Append(roms, c)
                             ELSE step' = "done" /\ UNCHANGED roms
    BY <1>7, <1>9 DEF PassEnds, IsDs18b20
  <2>3. CASE c \in Ds18b20s
    <3>1. FirstOnes(bus, roms')
      BY <1>0, <1>1, <1>6, <2>1, <2>2, <2>3, NextIsFound
    <3>2. roms' # <<>> /\ roms'[Len(roms')] = c /\ Len(roms') = Len(roms) + 1
      BY <1>0, <1>6, <2>2, <2>3
    <3>3. Len(roms') <= Capacity
      BY <1>0, <1>1, <3>2
    <3>4. IsLastTurn(bus, c, RomBits, z)
      BY <1>5, <2>0 DEF LeadsOn
    <3> QED
      BY <1>b, <1>7, <2>2, <2>3, <3>1, <3>2, <3>3, <3>4 DEF QuietInv
  <2>4. CASE c \notin Ds18b20s
    <3>1. step' = "done" /\ roms' = roms /\ Len(roms) <= Capacity
      BY <1>0, <1>1, <2>2, <2>4
    <3> QED
      BY <1>b, <1>1, <2>1, <2>4, <3>1 DEF QuietInv, IsNext
  <2> QED
    BY <2>3, <2>4
<1> QED
  BY <1>8, <1>9

\* On a shorted wire both bits are read as 0, and the ROM of zeros ends the search.
LEMMA ShortedBegins == BusTypes /\ shorted /\ ShortedInv /\ PassBegins => ShortedInv'
  BY DEF ShortedInv, PassBegins, SearchEnds

LEMMA ShortedBit == BusTypes /\ shorted /\ ShortedInv /\ ReadsBit => ShortedInv'
<1> SUFFICES ASSUME BusTypes, shorted, ShortedInv, ReadsBit PROVE ShortedInv'
  OBVIOUS
<1> DEFINE i == id_bit_number
           c == [rom EXCEPT ![i] = 0]
<1>0. /\ RomBits \in Nat /\ i \in 1 .. RomBits /\ rom \in RomCodes
      /\ last_discrepancy = 0 /\ roms = <<>> /\ \A b \in 1 .. i - 1 : rom[b] = 0
  BY BusAssumption DEF BusTypes, ShortedInv, ReadsBit, SearchBit
<1>1. PICK w1, w0 : w1 = 0 /\ w0 = 0 /\ SearchBit(w1, w0)
  BY DEF ReadsBit, Wire
<1>2. Direction(w1, w0) = 0
  BY <1>0, <1>1 DEF Direction
<1>v. PICK v : v = Direction(w1, w0)
  OBVIOUS
<1>3. /\ step = "bits" /\ rom' = c
      /\ IF i < RomBits THEN /\ id_bit_number' = i + 1
                             /\ UNCHANGED <<step, last_discrepancy, last_device, roms>>
                        ELSE IF c \in Ds18b20s THEN roms' = Append(roms, c)
                             ELSE step' = "done" /\ UNCHANGED roms
  <2>1. v = 0 /\ w1 = w0 /\ ~(w1 = 1)
    BY <1>1, <1>2, <1>v
  <2>2. /\ step = "bits" /\ rom' = [rom EXCEPT ![i] = v]
        /\ IF i < RomBits THEN /\ id_bit_number' = i + 1
                               /\ UNCHANGED <<step, last_discrepancy, last_device, roms>>
           ELSE PassEnds([rom EXCEPT ![i] = v], IF w1 = w0 /\ v = 0 THEN i ELSE last_zero)
    BY <1>1, <1>v, <2>1 DEF SearchBit
  <2> QED
    BY <2>1, <2>2 DEF PassEnds, IsDs18b20
<1>4. c \in RomCodes /\ \A b \in 1 .. i : c[b] = 0
  BY <1>0 DEF RomCodes, BitNumbers
<1> HIDE DEF c
<1>5. CASE i < RomBits
  <2>1. id_bit_number' - 1 = i
    BY <1>0, <1>3, <1>5
  <2> QED
    BY <1>3, <1>4, <1>5, <2>1 DEF ShortedInv
<1>6. CASE ~(i < RomBits)
  <2>1. i = RomBits
    BY <1>0, <1>6
  <2>2. c = NoRom
    <3>1. \A b \in 1 .. RomBits : c[b] = NoRom[b]
      BY <1>4, <2>1 DEF NoRom, BitNumbers
    <3> QED
      BY <1>4, <3>1, NoRomIs, SameBits
  <2>3. c \notin Ds18b20s
    BY <2>2, BusAssumption DEF NoRom
  <2> QED
    BY <1>0, <1>3, <1>6, <2>3 DEF ShortedInv
<1> QED
  BY <1>5, <1>6

LEMMA SearchInit == BusInit => SearchInv
<1> SUFFICES ASSUME BusInit PROVE SearchInv
  OBVIOUS
<1>1. BusTypes
  BY BusTypesInit
<1>2. FirstOnes(bus, <<>>)
  BY DEF FirstOnes
<1>3. Len(roms) <= Capacity
  BY BusAssumption DEF BusInit
<1> QED
  BY <1>1, <1>2, <1>3 DEF BusInit, SearchInv, ShortedInv, QuietInv, NoRom

LEMMA SearchNext == SearchInv /\ [BusNext]_searchVars => SearchInv'
<1> SUFFICES ASSUME SearchInv, [BusNext]_searchVars PROVE SearchInv'
  OBVIOUS
<1>0. BusTypes /\ BusTypes'
  BY BusTypesNext DEF SearchInv
<1>1. SUFFICES ASSUME changes' = 0 PROVE (IF shorted THEN ShortedInv ELSE QuietInv)'
  BY <1>0 DEF SearchInv
<1>2. CASE \E d \in BusDevices : Connect(d) \/ Disconnect(d)
  BY <1>0, <1>1, <1>2 DEF Connect, Disconnect, BusTypes
<1>3. CASE Short \/ Stall \/ ReadsBitLate
  BY <1>0, <1>1, <1>3 DEF Short, Stall, ReadsBitLate, BusTypes
<1>4. CASE PassBegins \/ ReadsBit
  <2>1. changes = 0 /\ shorted' = shorted
    BY <1>1, <1>4 DEF PassBegins, ReadsBit, busVars
  <2> QED
    BY <1>0, <1>4, <2>1, QuietBegins, QuietBit, ShortedBegins, ShortedBit DEF SearchInv
<1>5. CASE Again
  <2>1. FirstOnes(bus', <<>>)
    BY DEF FirstOnes
  <2>2. Len(roms') <= Capacity
    BY <1>5, BusAssumption DEF Again
  <2> QED
    BY <1>5, <2>1, <2>2 DEF Again, ShortedInv, QuietInv, NoRom
<1>6. CASE UNCHANGED searchVars
  BY <1>1, <1>6 DEF searchVars, busVars, passVars, SearchInv, ShortedInv, QuietInv
<1> QED
  BY <1>2, <1>3, <1>4, <1>5, <1>6 DEF BusNext

LEMMA AlwaysSearchInv == BusSpec => []SearchInv
  BY SearchInit, SearchNext, PTL DEF BusSpec

\* For all buses, capacities and sets of devices: a search that nothing
\* disturbs finds the sensors in order, but for those that the capacity or a
\* device of another kind before them hides (onewire_bus_search,
\* onewire_search_next).
THEOREM AlwaysSearchIsComplete == BusSpec => []SearchIsComplete
<1>1. SearchInv => SearchIsComplete
  <2> SUFFICES ASSUME SearchInv, step = "done", changes = 0
               PROVE  /\ ToSet(roms) \subseteq bus \cap Ds18b20s /\ Len(roms) <= Capacity
                      /\ \A i, j \in DOMAIN roms : i < j => Precedes(roms[i], roms[j])
                      /\ IF shorted THEN roms = <<>>
                         ELSE \A d \in bus \ ToSet(roms) :
                                /\ \A i \in DOMAIN roms : Precedes(roms[i], d)
                                /\ \/ Len(roms) = Capacity
                                   \/ \E e \in bus \ Ds18b20s : e = d \/ Precedes(e, d)
    BY DEF SearchIsComplete
  <2>0. DOMAIN roms = 1 .. Len(roms) /\ ToSet(roms) = {roms[k] : k \in 1 .. Len(roms)}
    BY DEF SearchInv, BusTypes, ToSet
  <2>1. CASE shorted
    <3>1. roms = <<>> /\ Capacity \in Nat
      BY <2>1, BusAssumption DEF SearchInv, ShortedInv
    <3>2. Len(roms) = 0 /\ 1 .. 0 = {}
      BY <3>1
    <3>3. Len(roms) <= Capacity
      BY <3>1, <3>2
    <3> QED
      BY <2>0, <2>1, <3>1, <3>2, <3>3
  <2>2. CASE ~shorted
    BY <2>0, <2>2 DEF SearchInv, QuietInv, FirstOnes
  <2> QED
    BY <2>1, <2>2
<1> QED
  BY <1>1, AlwaysSearchInv, PTL

-----------------------------------------------------------------------------
(* Of a bus that changes.                                                  *)
(*                                                                         *)
(* A pass follows devices of the bus until the last of them falls silent.  *)
(* From there on an idle wire reads 1 and 1, which ends the search, and    *)
(* only a shorted one leads on: along the pass before up to its last       *)
(* discrepancy, and then along zeros.  Left of the bit that is read next,  *)
(* rom is therefore the beginning of one device up to some bit n, and such *)
(* a splice behind it.                                                     *)

\* How a pass goes on after the pass that found c, on a shorted wire.
Blind(c, l, b) == IF b < l THEN c[b] ELSE IF b = l THEN 1 ELSE 0

\* The first i bits of r are those of a device in M up to bit n, and blind behind
\* it; the bits that follow still are those of the pass before, as far as it counts.
Follows(M, r, c, l, n, i) ==
  /\ n = 0 \/ \E d \in M : Agree(d, r, n)
  /\ \A b \in n + 1 .. i : r[b] = Blind(c, l, b)
  /\ \A b \in i + 1 .. RomBits : b < l => r[b] = c[b]

LastFound == IF roms = <<>> THEN NoRom ELSE roms[Len(roms)]

FoundInv ==
  /\ BusTypes
  /\ bus \subseteq met /\ met \subseteq BusDevices /\ (shorted => listening = {})
  /\ \A k \in 1 .. Len(roms) : roms[k] \in met /\ roms[k] \in Ds18b20s
  /\ step # "done" =>
       /\ roms = <<>> => last_discrepancy = 0
       /\ last_discrepancy > 0 => LastFound[last_discrepancy] = 0
  /\ step = "pass" => \A b \in 1 .. RomBits : b < last_discrepancy => rom[b] = LastFound[b]
  /\ step = "bits" =>
       /\ last_zero < id_bit_number /\ (last_zero > 0 => rom[last_zero] = 0)
       /\ \E n \in 0 .. id_bit_number - 1 :
            /\ Follows(met, rom, LastFound, last_discrepancy, n, id_bit_number - 1)
            /\ \A d \in listening : n = id_bit_number - 1 /\ Agree(d, rom, id_bit_number - 1)

LEMMA LastFoundIs ==
  ASSUME FoundInv
  PROVE  /\ LastFound \in RomCodes
         /\ roms # <<>> => LastFound \in met /\ LastFound \in Ds18b20s
<1>1. Len(roms) \in Nat /\ (roms # <<>> => Len(roms) \in 1 .. Len(roms))
  BY DEF FoundInv, BusTypes
<1> QED
  BY <1>1, NoRomIs DEF LastFound, FoundInv, BusTypes

\* The wire is read as the devices that listen make it, or as a shorted one; where
\* none of them listens and it is not shorted, the search ends.
LEMMA WayIs ==
  FoundInv /\ (ReadsBit \/ ReadsBitLate) =>
    \E w1, w0, v \in {0, 1} :
      /\ SearchBit(w1, w0) /\ v = Direction(w1, w0)
      /\ \/ w1 = 1 /\ w0 = 1
         \/ \E d \in listening : d[id_bit_number] = v /\ ~(w1 = 1 /\ w0 = 1)
         \/ /\ listening = {} /\ shorted /\ w1 = 0 /\ w0 = 0
            /\ v = Blind(rom, last_discrepancy, id_bit_number)
<1> SUFFICES ASSUME FoundInv, ReadsBit \/ ReadsBitLate
             PROVE  \E w1, w0, v \in {0, 1} :
                      /\ SearchBit(w1, w0) /\ v = Direction(w1, w0)
                      /\ \/ w1 = 1 /\ w0 = 1
                         \/ \E d \in listening : d[id_bit_number] = v /\ ~(w1 = 1 /\ w0 = 1)
                         \/ /\ listening = {} /\ shorted /\ w1 = 0 /\ w0 = 0
                            /\ v = Blind(rom, last_discrepancy, id_bit_number)
  OBVIOUS
<1>0. /\ id_bit_number \in 1 .. RomBits /\ rom[id_bit_number] \in {0, 1}
      /\ \A d \in listening : d[id_bit_number] \in {0, 1}
      /\ shorted => listening = {}
  BY DEF FoundInv, BusTypes, RomCodes, BitNumbers
<1>1. PICK w1 \in {0, 1}, w0 \in {0, 1} :
        /\ SearchBit(w1, w0)
        /\ (w1 = Wire(1) /\ w0 = Wire(0)) \/ (~shorted /\ (w1 = 1 \/ w1 = Wire(1)) /\ (w0 = 1 \/ w0 = Wire(0)))
  <2>1. Wire(1) \in {0, 1} /\ Wire(0) \in {0, 1}
    BY DEF Wire
  <2>2. CASE ReadsBit
    BY <2>1, <2>2 DEF ReadsBit
  <2>3. CASE ReadsBitLate
    BY <2>1, <2>3 DEF ReadsBitLate
  <2> QED
    BY <2>2, <2>3
<1>v. PICK v : v = Direction(w1, w0)
  OBVIOUS
<1>2. /\ v = IF w1 # w0 THEN w1 ELSE Blind(rom, last_discrepancy, id_bit_number)
      /\ v \in {0, 1}
  BY <1>0, <1>v DEF Direction, Blind
<1>3. CASE listening # {}
  <2>1. PICK d0 \in listening : TRUE
    BY <1>3
  <2>2. ~shorted
    BY <1>0, <1>3
  <2>3. CASE w1 = 0 /\ w0 = 0
    <3>1. PICK d \in listening : d[id_bit_number] # 1
      BY <1>1, <2>2, <2>3 DEF Wire
    <3>2. PICK e \in listening : e[id_bit_number] # 0
      BY <1>1, <2>2, <2>3 DEF Wire
    <3>3. d[id_bit_number] = 0 /\ e[id_bit_number] = 1
      BY <1>0, <3>1, <3>2
    <3> QED
      BY <1>1, <1>v, <1>2, <2>3, <3>3
  <2>4. CASE w1 = 1 /\ w0 = 0
    <3>1. PICK e \in listening : e[id_bit_number] # 0
      BY <1>1, <2>2, <2>4 DEF Wire
    <3>2. e[id_bit_number] = 1 /\ v = 1
      BY <1>0, <1>2, <2>4, <3>1
    <3> QED
      BY <1>1, <1>v, <1>2, <2>4, <3>2
  <2>5. CASE w1 = 0 /\ w0 = 1
    <3>1. PICK d \in listening : d[id_bit_number] # 1
      BY <1>1, <2>2, <2>5 DEF Wire
    <3>2. d[id_bit_number] = 0 /\ v = 0
      BY <1>0, <1>2, <2>5, <3>1
    <3> QED
      BY <1>1, <1>v, <1>2, <2>5, <3>2
  <2>6. CASE w1 = 1 /\ w0 = 1
    BY <1>1, <1>v, <1>2, <2>6
  <2> QED
    BY <2>3, <2>4, <2>5, <2>6
<1>4. CASE listening = {}
  <2>1. CASE shorted
    <3>1. w1 = 0 /\ w0 = 0
      BY <1>1, <2>1 DEF Wire
    <3> QED
      BY <1>1, <1>v, <1>2, <1>4, <2>1, <3>1
  <2>2. CASE ~shorted
    <3>1. w1 = 1 /\ w0 = 1
      BY <1>1, <1>4, <2>2 DEF Wire
    <3> QED
      BY <1>1, <1>v, <1>2, <3>1
  <2> QED
    BY <2>1, <2>2
<1> QED
  BY <1>3, <1>4

\* What a pass has gone through at its last bit, if it is the ROM of a sensor, is
\* that of a device that was met.
LEMMA SpliceIsMet ==
  ASSUME FoundInv, NoSplices, step = "bits", NEW c \in RomCodes, c \in Ds18b20s,
         NEW n \in 0 .. RomBits - 1, Follows(met, c, LastFound, last_discrepancy, n, RomBits)
  PROVE  c \in met
<1> DEFINE l == last_discrepancy
<1>0. /\ RomBits \in Nat \ {0} /\ l \in 0 .. RomBits /\ met \subseteq BusDevices
      /\ (roms = <<>> => l = 0) /\ (l > 0 => LastFound[l] = 0) /\ Ds18b20s \subseteq BusDevices
  BY BusAssumption DEF FoundInv, BusTypes
<1>b. \A b \in n + 1 .. RomBits : c[b] = Blind(LastFound, l, b)
  BY DEF Follows
<1>1. \E d \in met : Agree(d, c, n)
  <2>1. CASE roms # <<>>
    <3>1. n = 0 => Agree(LastFound, c, n)
      BY DEF Agree
    <3> QED
      BY <2>1, <3>1, LastFoundIs DEF Follows
  <2>2. CASE roms = <<>> /\ n = 0
    <3>1. \A b \in 1 .. RomBits : c[b] = NoRom[b]
      BY <1>0, <1>b, <2>2 DEF Blind, NoRom, BitNumbers
    <3>2. c = NoRom
      BY <3>1, NoRomIs, SameBits
    <3> QED
      BY <3>2, BusAssumption DEF NoRom
  <2>3. CASE n # 0
    BY <2>3 DEF Follows
  <2> QED
    BY <2>1, <2>2, <2>3
<1>2. PICK d \in met : Agree(d, c, n)
  BY <1>1
<1>3. PICK p \in Ds18b20s : (l > 0 => p[l] = 0 /\ \A b \in 1 .. RomBits : p[b] = LastFound[b])
  <2>1. CASE l > 0
    BY <1>0, <2>1, LastFoundIs
  <2>2. CASE ~(l > 0)
    BY <2>2
  <2> QED
    BY <2>1, <2>2
<1>4. \A b \in 1 .. RomBits : c[b] = Splice(d, p, n, l)[b]
  <2> TAKE b \in 1 .. RomBits
  <2>1. CASE b <= n
    BY <1>0, <1>2, <2>1 DEF Splice, Agree, BitNumbers
  <2>2. CASE ~(b <= n)
    <3>1. c[b] = Blind(LastFound, l, b)
      BY <1>0, <1>b, <2>2
    <3> QED
      BY <1>0, <1>3, <2>2, <3>1 DEF Splice, Blind, BitNumbers
  <2> QED
    BY <2>1, <2>2
<1>5. c = Splice(d, p, n, l)
  <2>1. c = [b \in BitNumbers |-> c[b]]
    BY DEF RomCodes
  <2>2. Splice(d, p, n, l) = [b \in BitNumbers |-> Splice(d, p, n, l)[b]]
    BY DEF Splice
  <2> QED
    BY <1>4, <2>1, <2>2 DEF BitNumbers
<1>6. d \in BusDevices /\ p \in Ds18b20s /\ n \in 0 .. RomBits - 1 /\ l \in 0 .. RomBits
      /\ (l > 0 => p[l] = 0)
  BY <1>0, <1>2, <1>3
<1> HIDE DEF l
<1>7. c = d
  BY <1>5, <1>6 DEF NoSplices
<1> QED
  BY <1>2, <1>7

LEMMA FoundBit ==
  FoundInv /\ (ReadsBit \/ ReadsBitLate) /\ (NoSplices \/ ~shorted) => FoundInv'
<1> SUFFICES ASSUME FoundInv, ReadsBit \/ ReadsBitLate, NoSplices \/ ~shorted PROVE FoundInv'
  OBVIOUS
<1>t. BusTypes'
  <2>1. [BusNext]_searchVars
    BY DEF BusNext
  <2> QED
    BY <2>1, BusTypesNext DEF FoundInv
<1>u. UNCHANGED <<bus, shorted, met>>
  BY DEF ReadsBit, ReadsBitLate, busVars
<1> DEFINE i == id_bit_number
           l == last_discrepancy
<1>1. PICK w1, w0, v \in {0, 1} :
        /\ SearchBit(w1, w0) /\ v = Direction(w1, w0)
        /\ \/ w1 = 1 /\ w0 = 1
           \/ \E d \in listening : d[id_bit_number] = v /\ ~(w1 = 1 /\ w0 = 1)
           \/ /\ listening = {} /\ shorted /\ w1 = 0 /\ w0 = 0
              /\ v = Blind(rom, last_discrepancy, id_bit_number)
  BY WayIs
<1> DEFINE c == [rom EXCEPT ![i] = v]
           z == IF w1 = w0 /\ v = 0 THEN i ELSE last_zero
<1>0. /\ RomBits \in Nat \ {0} /\ i \in 1 .. RomBits /\ l \in 0 .. RomBits /\ rom \in RomCodes
      /\ roms \in Seq(RomCodes) /\ Len(roms) \in Nat /\ last_zero \in 0 .. RomBits
      /\ bus \subseteq met /\ met \subseteq BusDevices /\ (shorted => listening = {})
      /\ listening \subseteq bus /\ bus \subseteq RomCodes
  BY BusAssumption DEF FoundInv, BusTypes
<1>r. \A k \in 1 .. Len(roms) : roms[k] \in met /\ roms[k] \in Ds18b20s
  BY DEF FoundInv
<1>s. step = "bits"
  BY <1>1 DEF SearchBit
<1>2. /\ roms = <<>> => l = 0
      /\ l > 0 => LastFound[l] = 0
      /\ last_zero < i /\ (last_zero > 0 => rom[last_zero] = 0)
  BY <1>s DEF FoundInv
<1>3. PICK n \in 0 .. i - 1 :
        /\ Follows(met, rom, LastFound, l, n, i - 1)
        /\ \A d \in listening : n = i - 1 /\ Agree(d, rom, i - 1)
  BY <1>s DEF FoundInv
<1>4. CASE w1 = 1 /\ w0 = 1
  <2>1. step' = "done" /\ roms' = roms /\ listening' = listening
    BY <1>1, <1>4 DEF SearchBit, SearchEnds, passVars
  <2> QED
    BY <1>0, <1>r, <1>t, <1>u, <2>1 DEF FoundInv
<1>5. CASE ~(w1 = 1 /\ w0 = 1)
  <2>1. /\ rom' = c
        /\ listening' = {d \in listening : d[i] = v}
        /\ IF i < RomBits
           THEN /\ id_bit_number' = i + 1 /\ last_zero' = z
                /\ UNCHANGED <<step, last_discrepancy, last_device, roms>>
           ELSE PassEnds(c, z)
    BY <1>1, <1>5 DEF SearchBit
  <2>2. /\ c \in RomCodes /\ c[i] = v /\ \A b \in 1 .. RomBits : b # i => c[b] = rom[b]
    BY <1>0, <1>1 DEF RomCodes, BitNumbers
  <2>3. z \in 0 .. i /\ (z > 0 => c[z] = 0)
    <3>1. CASE w1 = w0 /\ v = 0
      BY <1>0, <2>2, <3>1
    <3>2. CASE ~(w1 = w0 /\ v = 0)
      <4>1. z = last_zero
        BY <3>2
      <4>2. last_zero > 0 => last_zero \in 1 .. RomBits /\ last_zero # i
        BY <1>0, <1>2
      <4> QED
        BY <1>0, <1>2, <2>2, <4>1, <4>2
    <3> QED
      BY <3>1, <3>2
  <2> HIDE DEF c, z
  <2>4. PICK m \in 0 .. i :
          /\ Follows(met, c, LastFound, l, m, i)
          /\ \A d \in listening' : m = i /\ Agree(d, c, i)
          /\ m = i => \E d \in met : Agree(d, c, i)
          /\ m < i => shorted
    <3>1. \A b \in i + 1 .. RomBits : b < l => c[b] = LastFound[b]
      <4> TAKE b \in i + 1 .. RomBits
      <4>1. b \in i - 1 + 1 .. RomBits /\ b \in 1 .. RomBits /\ b # i
        BY <1>0
      <4> QED
        BY <1>3, <2>2, <4>1 DEF Follows
    <3>2. CASE listening # {}
      <4>1. PICK d \in listening : d[i] = v
        BY <1>1, <1>5, <3>2
      <4>2. \A e \in listening : Agree(e, rom, i - 1)
        BY <1>3
      <4>3. \A e \in listening' : Agree(e, c, i)
        <5> TAKE e \in listening'
        <5>1. e \in listening /\ e[i] = v /\ Agree(e, rom, i - 1)
          BY <2>1, <4>2
        <5> QED
          BY <1>0, <2>2, <5>1 DEF Agree
      <4>4. d \in listening' /\ d \in met
        BY <1>0, <2>1, <4>1
      <4>5. i \in 0 .. i /\ i + 1 .. i = {} /\ ~(i < i)
        BY <1>0
      <4>6. Follows(met, c, LastFound, l, i, i)
        BY <3>1, <4>3, <4>4, <4>5 DEF Follows
      <4> QED
        BY <4>3, <4>4, <4>5, <4>6
    <3>3. CASE listening = {}
      <4>1. shorted /\ v = Blind(rom, l, i)
        BY <1>1, <1>5, <3>3
      <4>2. c[i] = Blind(LastFound, l, i)
        <5>1. i \in i - 1 + 1 .. RomBits
          BY <1>0
        <5>2. i < l => rom[i] = LastFound[i]
          BY <1>3, <5>1 DEF Follows
        <5> QED
          BY <2>2, <4>1, <5>2 DEF Blind
      <4>3. \A b \in n + 1 .. i : c[b] = Blind(LastFound, l, b)
        <5> TAKE b \in n + 1 .. i
        <5>1. b = i \/ (b \in n + 1 .. i - 1 /\ b \in 1 .. RomBits /\ b # i)
          BY <1>0
        <5> QED
          BY <1>3, <2>2, <4>2, <5>1 DEF Follows
      <4>4. n = 0 \/ \E d \in met : Agree(d, c, n)
        BY <1>0, <1>3, <2>2 DEF Follows, Agree
      <4>5. n \in 0 .. i /\ ~(n = i)
        BY <1>0
      <4>6. listening' = {}
        BY <2>1, <3>3
      <4> QED
        BY <3>1, <4>1, <4>3, <4>4, <4>5, <4>6 DEF Follows
    <3> QED
      BY <3>2, <3>3
  <2>l. listening' \subseteq listening /\ (shorted => listening' = {})
    BY <1>0, <2>1
  <2>5. CASE i < RomBits
    <3>1. /\ id_bit_number' = i + 1 /\ last_zero' = z /\ step' = "bits" /\ roms' = roms
          /\ last_discrepancy' = l /\ LastFound' = LastFound
      BY <1>s, <2>1, <2>5 DEF LastFound
    <3>2. id_bit_number' - 1 = i /\ z < i + 1
      BY <1>0, <2>3, <3>1
    <3> QED
      BY <1>0, <1>2, <1>r, <1>t, <1>u, <2>1, <2>3, <2>4, <2>l, <3>1, <3>2 DEF FoundInv
  <2>6. CASE ~(i < RomBits)
    <3>0. i = RomBits
      BY <1>0, <2>6
    <3>1. /\ last_discrepancy' = z
          /\ IF c \in Ds18b20s THEN step' = "pass" /\ roms' = Append(roms, c)
                               ELSE step' = "done" /\ UNCHANGED roms
      BY <2>1, <2>6 DEF PassEnds, IsDs18b20
    <3>2. CASE c \in Ds18b20s
      <4>1. c \in met
        <5>1. CASE m = i
          <6>1. PICK d \in met : Agree(d, c, RomBits)
            BY <2>4, <3>0, <5>1
          <6>2. d \in RomCodes
            BY <1>0, <6>1, NoRomIs
          <6> QED
            BY <2>2, <6>1, <6>2, SameBits DEF Agree
        <5>2. CASE m # i
          <6>1. m \in 0 .. RomBits - 1 /\ NoSplices
            BY <1>0, <2>4, <3>0, <5>2
          <6>2. Follows(met, c, LastFound, last_discrepancy, m, RomBits)
            BY <2>4, <3>0
          <6> QED
            BY <1>s, <2>2, <3>2, <6>1, <6>2, SpliceIsMet
        <5> QED
          BY <5>1, <5>2
      <4>2. /\ roms' # <<>> /\ Len(roms') = Len(roms) + 1 /\ roms'[Len(roms')] = c
            /\ \A k \in 1 .. Len(roms') : roms'[k] = c \/ (k \in 1 .. Len(roms) /\ roms'[k] = roms[k])
        BY <1>0, <2>2, <3>1, <3>2
      <4>3. LastFound' = c
        BY <4>2 DEF LastFound
      <4>4. step' = "pass"
        BY <3>1, <3>2
      <4> QED
        BY <1>0, <1>r, <1>t, <1>u, <2>1, <2>3, <2>l, <3>1, <3>2, <4>1, <4>2, <4>3, <4>4 DEF FoundInv
    <3>3. CASE c \notin Ds18b20s
      BY <1>0, <1>r, <1>t, <1>u, <2>l, <3>1, <3>3 DEF FoundInv
    <3> QED
      BY <3>2, <3>3
  <2> QED
    BY <2>5, <2>6
<1> QED
  BY <1>4, <1>5

LEMMA FoundBegins == FoundInv /\ PassBegins => FoundInv'
<1> SUFFICES ASSUME FoundInv, PassBegins PROVE FoundInv'
  OBVIOUS
<1>t. BusTypes'
  <2>1. [BusNext]_searchVars
    BY DEF BusNext
  <2> QED
    BY <2>1, BusTypesNext DEF FoundInv
<1>1. /\ UNCHANGED <<bus, shorted, met, rom, last_discrepancy, roms>> /\ step = "pass"
      /\ LastFound' = LastFound
  BY DEF PassBegins, SearchEnds, busVars, LastFound
<1>2. \/ /\ step' = "bits" /\ id_bit_number' = 1 /\ last_zero' = 0
         /\ listening' = IF shorted THEN {} ELSE bus
      \/ step' = "done" /\ listening' = listening
  BY DEF PassBegins, SearchEnds, passVars
<1>3. CASE step' = "done" /\ listening' = listening
  BY <1>t, <1>1, <1>3 DEF FoundInv
<1>4. CASE /\ step' = "bits" /\ id_bit_number' = 1 /\ last_zero' = 0
           /\ listening' = IF shorted THEN {} ELSE bus
  <2>1. id_bit_number' - 1 = 0 /\ 0 \in 0 .. 0 /\ \A d : Agree(d, rom, 0)
    BY <1>4 DEF Agree
  <2>2. Follows(met, rom, LastFound, last_discrepancy, 0, 0)
    BY <1>1 DEF Follows, FoundInv
  <2>3. listening' \subseteq bus /\ (shorted => listening' = {})
    BY <1>4
  <2> QED
    BY <1>t, <1>1, <1>4, <2>1, <2>2, <2>3 DEF FoundInv
<1> QED
  BY <1>2, <1>3, <1>4

\* Devices come, go and fall silent.
LEMMA FoundChanges ==
  FoundInv /\ (Short \/ Stall \/ \E d \in BusDevices : Connect(d) \/ Disconnect(d)) => FoundInv'
<1> SUFFICES ASSUME FoundInv, Short \/ Stall \/ \E d \in BusDevices : Connect(d) \/ Disconnect(d)
             PROVE  FoundInv'
  OBVIOUS
<1>t. BusTypes'
  <2>1. [BusNext]_searchVars
    BY DEF BusNext
  <2> QED
    BY <2>1, BusTypesNext DEF FoundInv
<1>1. /\ UNCHANGED <<step, rom, last_discrepancy, last_device, last_zero, id_bit_number, roms>>
      /\ LastFound' = LastFound
      /\ met \subseteq met' /\ met' \subseteq BusDevices /\ bus' \subseteq met'
      /\ listening' \subseteq listening /\ (shorted' => listening' = {})
  <2>1. CASE Short \/ Stall
    BY <2>1 DEF Short, Stall, FoundInv, LastFound
  <2>2. CASE \E d \in BusDevices : Connect(d) \/ Disconnect(d)
    BY <2>2 DEF Connect, Disconnect, FoundInv, LastFound, passVars
  <2> QED
    BY <2>1, <2>2
<1>2. ASSUME NEW n, Follows(met, rom, LastFound, last_discrepancy, n, id_bit_number - 1)
      PROVE  Follows(met', rom, LastFound, last_discrepancy, n, id_bit_number - 1)
  BY <1>1, <1>2 DEF Follows
<1>3. \A k \in 1 .. Len(roms) : roms[k] \in met' /\ roms[k] \in Ds18b20s
  BY <1>1 DEF FoundInv
<1>4. ASSUME step = "bits"
      PROVE  \E n \in 0 .. id_bit_number - 1 :
               /\ Follows(met', rom, LastFound, last_discrepancy, n, id_bit_number - 1)
               /\ \A d \in listening' : n = id_bit_number - 1 /\ Agree(d, rom, id_bit_number - 1)
  <2>1. PICK n \in 0 .. id_bit_number - 1 :
          /\ Follows(met, rom, LastFound, last_discrepancy, n, id_bit_number - 1)
          /\ \A d \in listening : n = id_bit_number - 1 /\ Agree(d, rom, id_bit_number - 1)
    BY <1>4 DEF FoundInv
  <2> QED
    BY <1>1, <1>2, <2>1
<1> QED
  BY <1>t, <1>1, <1>3, <1>4 DEF FoundInv

LEMMA FoundInit == BusInit => FoundInv
<1> SUFFICES ASSUME BusInit PROVE FoundInv
  OBVIOUS
<1>1. BusTypes
  BY BusTypesInit
<1>2. 1 .. Len(roms) = {}
  BY DEF BusInit
<1> QED
  BY <1>1, <1>2, BusAssumption DEF BusInit, FoundInv

LEMMA FoundNext == FoundInv /\ (NoSplices \/ ~shorted) /\ [BusNext]_searchVars => FoundInv'
<1> SUFFICES ASSUME FoundInv, NoSplices \/ ~shorted, [BusNext]_searchVars PROVE FoundInv'
  OBVIOUS
<1>1. CASE Short \/ Stall \/ \E d \in BusDevices : Connect(d) \/ Disconnect(d)
  BY <1>1, FoundChanges
<1>2. CASE PassBegins
  BY <1>2, FoundBegins
<1>3. CASE ReadsBit \/ ReadsBitLate
  BY <1>3, FoundBit
<1>4. CASE Again
  <2>1. BusTypes'
    BY BusTypesNext DEF FoundInv
  <2>2. 1 .. Len(roms') = {}
    BY <1>4 DEF Again
  <2> QED
    BY <1>4, <2>1, <2>2, BusAssumption DEF Again, FoundInv
<1>5. CASE UNCHANGED searchVars
  BY <1>5 DEF searchVars, busVars, passVars, FoundInv, BusTypes, LastFound
<1> QED
  BY <1>1, <1>2, <1>3, <1>4, <1>5 DEF BusNext

LEMMA FoundIs == FoundInv => FoundIsConnected
<1> SUFFICES ASSUME FoundInv PROVE FoundIsConnected
  OBVIOUS
<1>1. ToSet(roms) = {roms[k] : k \in 1 .. Len(roms)}
  BY DEF FoundInv, BusTypes, ToSet
<1> QED
  BY <1>1 DEF FoundInv, FoundIsConnected

\* Whatever comes and goes, and however the devices are disturbed: while the wire
\* is not shorted, the bits that a search puts together are those of a device
\* that was on the bus, whatever the CRC lets through (onewire_search_next).
THEOREM FoundUnlessShorted == BusSpec /\ []~shorted => []FoundIsConnected
<1>1. FoundInv /\ ~shorted /\ [BusNext]_searchVars => FoundInv'
  BY FoundNext
<1> QED
  BY <1>1, FoundInit, FoundIs, PTL DEF BusSpec

\* And if the wire is shorted: as long as the CRC tells the ROMs of the sensors
\* from what a search makes up behind the beginning of one, what it reports was
\* on the bus (onewire_search_next, onewire_crc8).
THEOREM AlwaysFoundIsConnected ==
  ASSUME NoSplices
  PROVE  BusSpec => []FoundIsConnected
<1>1. FoundInv /\ [BusNext]_searchVars => FoundInv'
  BY FoundNext
<1> QED
  BY <1>1, FoundInit, FoundIs, PTL DEF BusSpec
=============================================================================
