---------------------------- MODULE OneWireQueue ----------------------------
(***************************************************************************)
(* The two ring buffers between the cores: core 0 puts commands into one   *)
(* and takes responses from the other, core 1 the reverse.  Nothing locks  *)
(* them; an entry is written before the index that publishes it, and read  *)
(* before the index that gives its slot back, so each of these accesses is *)
(* a step of its own.                                                      *)
(***************************************************************************)
EXTENDS Integers, Sequences, FiniteSets

CONSTANTS
  SlotCount,  \* ONEWIRE_QUEUE_SLOT_COUNT
  BusCount,   \* ONEWIRE_BUS_COUNT; bus b is GPIO onewire_gpios[b]
  Roms,       \* sensors that may hang on the buses
  Nothing     \* the contents of an entry that must not be read

Buses == 1 .. BusCount

ASSUME QueueAssumption ==
  SlotCount \in Nat /\ SlotCount >= 2 /\ BusCount \in Nat \ {0} /\ IsFiniteSet(Roms)

Commands == [type : {"start"}, gpio : Buses] \cup [type : {"readnext"}]

Responses ==
  [type : {"start_ok", "start_error", "readnext_none"}]
    \cup [type : {"temperature"}, gpio : Buses, rom : Roms]

ASSUME NothingAssumption == Nothing \notin Commands \cup Responses

Indices == 0 .. SlotCount - 1

Queues(Entries) ==
  [entries : [Indices -> Entries \cup {Nothing}], read_index : Indices, write_index : Indices]

VARIABLES
  command_queue, response_queue,
  event           \* core 1's event register, which __sev sets and __wfe awaits

queueVars == <<command_queue, response_queue, event>>

EmptyQueue ==
  [entries |-> [i \in Indices |-> Nothing], read_index |-> 0, write_index |-> 0]

QueueInit ==
  /\ command_queue = EmptyQueue
  /\ response_queue = EmptyQueue
  /\ event = FALSE

onewire_queue_next_index(i) == (i + 1) % SlotCount

IsEmpty(q) == q.read_index = q.write_index
IsFull(q) == onewire_queue_next_index(q.write_index) = q.read_index

\* Adding: the entry, then its publication.
Written(q, entry) == [q EXCEPT !.entries[q.write_index] = entry]
Published(q) == [q EXCEPT !.write_index = onewire_queue_next_index(@)]

\* Removing: the entry, then its release.  From then on its slot may be
\* overwritten at any time, so that its contents are taken to be lost.
Oldest(q) == q.entries[q.read_index]
Released(q) == [q EXCEPT !.read_index = onewire_queue_next_index(@),
                         !.entries[q.read_index] = Nothing]
=============================================================================
