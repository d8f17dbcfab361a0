--------------------------- MODULE MainLoopProofs ---------------------------
(***************************************************************************)
(* An attempt to send to narodmon.ru waits for one thing at a time and is  *)
(* reported once, wherever the main program is: in its loop, joining the   *)
(* Wi-Fi again or being reset.                                             *)
(*                                                                         *)
(* Neither invariant is inductive.  A new attempt must not meet what an    *)
(* earlier one left: a lookup still pending or an outcome not yet logged.  *)
(* That is ReadyToSend, and it is why the interval between two attempts    *)
(* matters.  The numbers stay in range because lwIP took exactly what the  *)
(* attempt counts as sent.                                                 *)
(***************************************************************************)
EXTENDS MainLoop, TLAPS

\* When the next attempt may start, nothing of the last one is left.
ReadyToSend == send_due => ~busy /\ pending_log = "none" /\ ~lookup

\* lwIP has taken what the attempt counts as sent.
SentIsTaken == busy => taken = sent_offset

\* The types of the uploader's state, and the bound on what lwIP holds, which
\* the proofs treat apart.
UploadTypes ==
  /\ send_due \in BOOLEAN /\ busy \in BOOLEAN
  /\ payload_len \in 0 .. MaxPayload /\ sent_offset \in 0 .. payload_len
  /\ deadline_due \in BOOLEAN
  /\ pending_log \in {"none", "ok", "failed"} /\ logged \subseteq {"boot", "ok", "failed"}
  /\ lookup \in BOOLEAN /\ pcb \in {"none", "opening", "open"}
  /\ taken \in 0 .. MaxPayload /\ acked \in 0 .. taken

Buffered == taken - acked <= SendBuffer

UploadInv ==
  /\ UploadTypes /\ Buffered
  /\ OneOutstanding
  /\ ReportsOneOutcome
  /\ ReadyToSend
  /\ SentIsTaken

ProgramTypes ==
  /\ phase \in Looping \cup {"start", "dead", "detect", "disk", "init", "stuck", "join", "reboot"}
  /\ watchdog \in BOOLEAN /\ mode \in {"client", "ap"} /\ valid \in BOOLEAN
  /\ link \in Links /\ serving \in BOOLEAN
  /\ air \in {"absent", "refusing", "present"} /\ faulty \in BOOLEAN /\ host \in BOOLEAN

IInv == ProgramTypes /\ UploadInv

USE DEF UploadTypes, OneOutstanding, ReportsOneOutcome, Flushed, ReadyToSend, SentIsTaken, UploadInv

-----------------------------------------------------------------------------
(* The steps of the uploader.                                              *)

\* An attempt under way has nothing in the log yet.
LEMMA NothingReported == UploadInv /\ busy => pending_log = "none" /\ logged = {}
  OBVIOUS

\* The bound on the buffer after a step, from the values it leaves.
LEMMA BufferedThen ==
  ASSUME NEW t, NEW a, taken' = t, acked' = a, t - a <= SendBuffer PROVE Buffered'
  BY Zenon DEF Buffered

\* The bound stays when the numbers do.
LEMMA BufferedUnchanged == Buffered /\ UNCHANGED <<taken, acked>> => Buffered'
  BY BufferedThen DEF Buffered

\* An attempt starts with an empty buffer.
LEMMA EmptyBuffer == taken' = 0 /\ acked' = 0 => Buffered'
<1>1. 0 - 0 <= SendBuffer
  BY NarodmonAssumption
<1> QED BY <1>1, BufferedThen

\* An attempt that ends is reported, and nothing of it is left.
LEMMA EndsKeepsInv ==
  ASSUME UploadInv, busy, ~lookup \/ ~lookup', NEW outcome \in {"ok", "failed"}, Ends(outcome),
         UNCHANGED <<send_due, deadline_due, logged, taken>>, lookup' \in BOOLEAN,
         acked' \in 0 .. taken, Buffered'
  PROVE  UploadInv'
<1>1. /\ busy' = FALSE /\ payload_len' = 0 /\ sent_offset' = 0 /\ pcb' = "none"
      /\ pending_log' = outcome /\ ~send_due'
  BY DEF Ends, app_narodmon_reset_state
<1>2. Flushed' = {outcome}
  BY <1>1, NothingReported
<1>3. busy' \in BOOLEAN
  BY Zenon DEF Ends, app_narodmon_reset_state
<1>4. UploadTypes'
  BY <1>1, <1>3, NothingReported, NarodmonAssumption
<1> QED
  BY <1>1, <1>2, <1>4

\* Acknowledgements only empty the buffer.
LEMMA BufferEmpties ==
  ASSUME NEW t \in Nat, NEW a \in 0 .. t, NEW b \in a .. t, NEW size \in Nat, t - a <= size
  PROVE  b \in 0 .. t /\ t - b <= size
  OBVIOUS

\* What fits into the buffer is no more than there is to write.
LEMMA ChunkFits ==
  ASSUME NEW len \in Nat, NEW sent \in 0 .. len, NEW a \in 0 .. sent, NEW b \in a .. sent,
         NEW size \in Nat, sent - a <= size,
         NEW chunk, chunk = IF len - sent < size - (sent - b) THEN len - sent ELSE size - (sent - b)
  PROVE  sent + chunk \in 0 .. len /\ b \in 0 .. sent + chunk /\ (sent + chunk) - b <= size
  OBVIOUS

\* Writing the next part of the payload, after an acknowledgement up to b, keeps
\* the buffer within its size.
LEMMA ChunkKeepsInv ==
  ASSUME UploadInv, pcb # "none", app_narodmon_send_next_chunk,
         NEW b \in acked .. taken, acked' = b, UNCHANGED <<send_due, deadline_due, logged, lookup>>
  PROVE  UploadInv'
<1>1. /\ payload_len \in Nat /\ payload_len <= MaxPayload /\ taken \in Nat
      /\ sent_offset \in 0 .. payload_len /\ taken = sent_offset
      /\ acked \in 0 .. taken /\ taken - acked <= SendBuffer
      /\ SendBuffer \in Nat
  BY NarodmonAssumption DEF Buffered
<1> DEFINE chunk == IF payload_len - sent_offset < SendBuffer - (taken - b)
                    THEN payload_len - sent_offset ELSE SendBuffer - (taken - b)
<1>2. \/ /\ sent_offset' = sent_offset + chunk /\ taken' = taken + chunk
         /\ UNCHANGED <<busy, payload_len, pending_log>> /\ pcb' = "open"
      \/ Ends("failed") /\ UNCHANGED taken
  BY Zenon DEF app_narodmon_send_next_chunk
<1>3. CASE Ends("failed") /\ UNCHANGED taken
  <2>1. b \in 0 .. taken /\ taken - b <= SendBuffer
    BY <1>1, BufferEmpties
  <2>2. Buffered'
    BY <1>3, <2>1, BufferedThen
  <2> QED BY <1>3, <2>1, <2>2, EndsKeepsInv
<1>4. CASE /\ sent_offset' = sent_offset + chunk /\ taken' = taken + chunk
           /\ UNCHANGED <<busy, payload_len, pending_log>> /\ pcb' = "open"
  <2>1. /\ sent_offset + chunk \in 0 .. payload_len
        /\ b \in 0 .. taken + chunk /\ (taken + chunk) - b <= SendBuffer
    BY <1>1, ChunkFits
  <2> HIDE DEF chunk
  <2>2. Buffered'
    BY <1>4, <2>1, BufferedThen, Zenon
  <2>3. taken + chunk \in 0 .. MaxPayload /\ taken + chunk = sent_offset + chunk
    BY <1>1, <2>1, NarodmonAssumption
  <2> QED
    BY <1>1, <1>4, <2>1, <2>2, <2>3
<1> QED
  BY <1>2, <1>3, <1>4

\* The callbacks of lwIP keep the invariant, also those that come too late.
LEMMA NetworkKeepsInv == UploadInv /\ Network => UploadInv'
<1> SUFFICES ASSUME UploadInv, Network PROVE UploadInv'
  OBVIOUS
<1>1. ASSUME NEW found \in BOOLEAN, app_narodmon_dns_found_cb(found) PROVE UploadInv'
  <2>1. CASE Ends("failed") /\ busy
    BY <1>1, <2>1, EndsKeepsInv, BufferedUnchanged DEF app_narodmon_dns_found_cb, loopVars
  <2>2. CASE ~(Ends("failed") /\ busy)
    BY <1>1, <2>2, BufferedUnchanged DEF app_narodmon_dns_found_cb, app_narodmon_start_connect, loopVars, attemptVars
  <2> QED BY <2>1, <2>2
<1>2. CASE app_narodmon_connected_cb
  <2>1. acked \in acked .. taken
    BY NarodmonAssumption
  <2> QED
    BY <1>2, <2>1, ChunkKeepsInv DEF app_narodmon_connected_cb, loopVars
<1>3. ASSUME NEW n \in 1 .. MaxPayload, app_narodmon_sent_cb(n) PROVE UploadInv'
  <2>1. /\ acked' = acked + n /\ acked + n \in acked .. taken
        /\ UNCHANGED <<send_due, deadline_due, logged, lookup>> /\ pcb = "open"
    BY <1>3, NarodmonAssumption DEF app_narodmon_sent_cb, loopVars
  <2>2. CASE Ends("ok") /\ UNCHANGED taken
    <3>1. acked + n \in 0 .. taken /\ taken - (acked + n) <= SendBuffer
      BY <2>1, NarodmonAssumption, BufferEmpties DEF Buffered
    <3>2. Buffered'
      BY <2>1, <2>2, <3>1, BufferedThen, Zenon
    <3> QED
      BY <2>1, <2>2, <3>1, <3>2, EndsKeepsInv
  <2>3. CASE app_narodmon_send_next_chunk
    BY <2>1, <2>3, ChunkKeepsInv
  <2> QED BY <1>3, <2>2, <2>3 DEF app_narodmon_sent_cb
<1>4. CASE app_narodmon_recv_cb
  BY <1>4, EndsKeepsInv, BufferedUnchanged DEF app_narodmon_recv_cb, loopVars
<1>5. CASE app_narodmon_err_cb
  BY <1>5, EndsKeepsInv, BufferedUnchanged DEF app_narodmon_err_cb, loopVars
<1> QED
  BY <1>1, <1>2, <1>3, <1>4, <1>5 DEF Network

\* So does the poll, whether it only writes the log or gives the attempt up.
LEMMA PollKeepsInv == UploadInv /\ app_narodmon_poll => UploadInv'
<1> SUFFICES ASSUME UploadInv, app_narodmon_poll PROVE UploadInv'
  OBVIOUS
<1>1. CASE busy /\ deadline_due
  <2>1. busy' \in BOOLEAN
    BY <1>1, Zenon DEF app_narodmon_poll, app_narodmon_reset_state
  <2>2. Flushed = {} /\ logged' = {"failed"} /\ pending_log' \in {"none", "failed"}
    BY <1>1, NothingReported DEF app_narodmon_poll
  <2>3. Flushed' = {"failed"}
    BY <2>2
  <2>4. /\ ~busy' /\ payload_len' = 0 /\ sent_offset' = 0 /\ pcb' = "none"
        /\ UNCHANGED <<send_due, deadline_due, lookup, taken, acked>>
    BY <1>1 DEF app_narodmon_poll, app_narodmon_reset_state
  <2> QED
    BY <1>1, <2>1, <2>2, <2>3, <2>4, NarodmonAssumption, BufferedUnchanged
<1>2. CASE ~(busy /\ deadline_due)
  BY <1>2, BufferedUnchanged DEF app_narodmon_poll, attemptVars
<1> QED BY <1>1, <1>2

\* And the start of an attempt, which meets nothing of the last one.
LEMMA StartKeepsInv == UploadInv /\ app_narodmon_start_send => UploadInv'
<1> SUFFICES ASSUME UploadInv, app_narodmon_start_send PROVE UploadInv'
  OBVIOUS
<1>1. ~busy /\ pending_log = "none" /\ ~lookup /\ pcb = "none" /\ ~send_due'
  BY DEF app_narodmon_start_send
<1>2. send_due' \in BOOLEAN
  BY Zenon DEF app_narodmon_start_send
<1>3. CASE UNCHANGED uploadVars
  BY <1>1, <1>3, <1>2, BufferedUnchanged DEF uploadVars, attemptVars, lwipVars
<1>4. CASE StartFails /\ deadline_due' = FALSE /\ taken' = 0 /\ acked' = 0
  <2>1. busy' \in BOOLEAN /\ deadline_due' \in BOOLEAN
    BY <1>4, Zenon DEF StartFails, app_narodmon_reset_state
  <2> QED
    BY <1>1, <1>4, <1>2, <2>1, NarodmonAssumption, EmptyBuffer DEF StartFails, app_narodmon_reset_state
<1>5. ASSUME NEW n \in 1 .. MaxPayload, Start(n), deadline_due' = FALSE, taken' = 0, acked' = 0
      PROVE  UploadInv'
  <2>1. busy' \in BOOLEAN /\ deadline_due' \in BOOLEAN /\ lookup' \in BOOLEAN
    BY <1>5, Zenon DEF Start, UploadInv, UploadTypes
  <2> QED
    BY <1>1, <1>5, <1>2, <2>1, NarodmonAssumption, EmptyBuffer DEF Start
<1> QED
  BY <1>3, <1>4, <1>5 DEF app_narodmon_start_send

\* A reset ends everything, with what the boot logs.
LEMMA ResetKeepsInv == NarodmonReset => UploadInv'
<1> SUFFICES ASSUME NarodmonReset PROVE UploadInv'
  OBVIOUS
<1>1. {send_due', busy', deadline_due', lookup'} \subseteq BOOLEAN
  BY Zenon DEF NarodmonReset
<1> QED
  BY <1>1, NarodmonAssumption, EmptyBuffer DEF NarodmonReset

-----------------------------------------------------------------------------
(* The main program.                                                       *)

USE DEF ProgramTypes, Links, Looping, IInv

\* The invariant holds when the device starts.
LEMMA InvInit == Init => IInv
<1> SUFFICES ASSUME Init PROVE IInv
  OBVIOUS
<1>1. {send_due, busy, deadline_due, lookup, watchdog, serving, faulty} \subseteq BOOLEAN
  BY Zenon DEF Init, NarodmonInit
<1> QED
  BY <1>1, NarodmonAssumption DEF Init, NarodmonInit, Buffered

\* What leaves the uploader alone keeps its invariant.
LEMMA UploadUnchanged == UploadInv /\ UNCHANGED <<send_due, uploadVars>> => UploadInv'
  BY BufferedUnchanged DEF uploadVars, attemptVars, lwipVars

\* Going to another place of the program keeps it.
LEMMA GoesKeepsInv ==
  ASSUME IInv, NEW place \in Looping \cup {"start", "dead", "detect", "disk", "init", "stuck", "join", "reboot"},
         Goes(place), watchdog' \in BOOLEAN, mode' \in {"client", "ap"}, valid' \in BOOLEAN,
         link' \in Links, serving' \in BOOLEAN
  PROVE  IInv'
  BY UploadUnchanged DEF Goes, worldVars

\* So does a reset of the device.
LEMMA ResetKeepsAll == IInv /\ Reset => IInv'
  BY ResetKeepsInv DEF Reset, worldVars

\* Every step of the program, the network and the surroundings keeps it.
LEMMA InvNext == IInv /\ [Next]_vars => IInv'
<1> SUFFICES ASSUME IInv, [Next]_vars PROVE IInv'
  OBVIOUS
<1>1. CASE Program
  <2>1. CASE InitRadio \/ DetectHost \/ InitFails
    <3>1. watchdog' \in BOOLEAN
      BY <2>1, Zenon DEF InitRadio, DetectHost, InitFails, deviceVars, IInv, ProgramTypes
    <3> QED
      BY <2>1, <3>1, GoesKeepsInv DEF InitRadio, DetectHost, InitFails, deviceVars
  <2>2. CASE init_network_services
    BY <2>2, GoesKeepsInv DEF init_network_services, StartsJoining
  <2>3. CASE Joined \/ JoinFails
    BY <2>3, GoesKeepsInv DEF Joined, JoinFails, deviceVars
  <2>4. CASE RebootAfterLog
    BY <2>4, ResetKeepsAll DEF RebootAfterLog
  <2>5. CASE NetworkEnds \/ SendsNothing
    BY <2>5, GoesKeepsInv DEF NetworkEnds, SendsNothing, deviceVars
  <2>6. CASE Polls
    BY <2>6, PollKeepsInv DEF Polls, app_narodmon_poll, deviceVars, worldVars
  <2>7. CASE ChecksLink
    BY <2>7, GoesKeepsInv DEF ChecksLink, StartsJoining
  <2>8. CASE Sends
    BY <2>8, StartKeepsInv DEF Sends, app_narodmon_start_send, deviceVars, worldVars
  <2> QED
    BY <1>1, <2>1, <2>2, <2>3, <2>4, <2>5, <2>6, <2>7, <2>8 DEF Program
<1>2. CASE JoinRetries
  BY <1>2, GoesKeepsInv DEF JoinRetries, StartsJoining
<1>3. CASE WatchdogFires \/ WebReboots \/ PowerCycle
  BY <1>3, ResetKeepsAll DEF WatchdogFires, WebReboots, PowerCycle
<1>4. ASSUME NEW m \in {"client", "ap"}, Saves(m) PROVE IInv'
  BY <1>4, UploadUnchanged DEF Saves, loopVars, worldVars
<1>5. CASE EditsSettings
  BY <1>5, UploadUnchanged DEF EditsSettings, worldVars
<1>6. CASE WorldChanges
  <2>1. /\ air' \in {"absent", "refusing", "present"} /\ faulty' \in BOOLEAN /\ host' \in BOOLEAN
        /\ UNCHANGED <<loopVars, uploadVars, deviceVars>>
    BY <1>6, Zenon DEF WorldChanges, IInv, ProgramTypes
  <2> QED
    BY <2>1, UploadUnchanged DEF loopVars, deviceVars
<1>7. CASE LinkComesUp \/ LinkFails
  BY <1>7, UploadUnchanged DEF LinkComesUp, LinkFails, LinkBecomes, loopVars, worldVars
<1>8. CASE Uploads
  <2>1. CASE Network
    <3>1. UNCHANGED phase
      BY <2>1 DEF Network, app_narodmon_dns_found_cb, app_narodmon_connected_cb,
                  app_narodmon_sent_cb, app_narodmon_recv_cb, app_narodmon_err_cb, loopVars
    <3> QED
      BY <1>8, <2>1, <3>1, NetworkKeepsInv DEF Uploads, deviceVars, worldVars
  <2>2. CASE DeadlineReached \/ SendReached
    <3>1. CASE DeadlineReached
      <4>1. deadline_due' \in BOOLEAN
        BY <3>1, Zenon DEF DeadlineReached
      <4> QED
        BY <1>8, <3>1, <4>1, BufferedUnchanged
           DEF Uploads, DeadlineReached, loopVars, attemptVars, lwipVars, deviceVars, worldVars
    <3>2. CASE SendReached
      <4>1. send_due' \in BOOLEAN
        BY <3>2, Zenon DEF SendReached
      <4> QED
        BY <1>8, <3>2, <4>1, BufferedUnchanged
           DEF Uploads, SendReached, uploadVars, attemptVars, lwipVars, deviceVars, worldVars
    <3> QED BY <2>2, <3>1, <3>2
  <2> QED BY <1>8, <2>1, <2>2 DEF Uploads
<1>9. CASE UNCHANGED vars
  BY <1>9, UploadUnchanged DEF vars, loopVars, deviceVars, worldVars
<1> QED
  BY <1>1, <1>2, <1>3, <1>4, <1>5, <1>6, <1>7, <1>8, <1>9 DEF Next

\* Hence it always holds.
LEMMA AlwaysIInv == Spec => []IInv
  BY InvInit, InvNext, PTL DEF Spec

\* The program and the uploader stay in their states: the part of the payload
\* that is sent, and what lwIP holds of it, never exceed the payload and the
\* send buffer (app_narodmon_send_next_chunk).
THEOREM TypeCorrect == Spec => []TypeOK
<1>1. IInv => TypeOK
  BY DEF TypeOK, NarodmonTypeOK, Buffered
<1> QED BY <1>1, AlwaysIInv, PTL

\* For any sizes of payload and send buffer, an attempt waits for its lookup or
\* its connection, never for both or neither, and no connection outlives it.
THEOREM AlwaysOneOutstanding == Spec => []OneOutstanding
<1>1. IInv => OneOutstanding
  OBVIOUS
<1> QED BY <1>1, AlwaysIInv, PTL

\* Every attempt that has ended is reported, as sent or as failed but not both.
THEOREM AlwaysOneOutcome == Spec => []ReportsOneOutcome
<1>1. IInv => ReportsOneOutcome
  OBVIOUS
<1> QED BY <1>1, AlwaysIInv, PTL
=============================================================================
