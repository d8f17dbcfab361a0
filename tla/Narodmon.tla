------------------------------ MODULE Narodmon ------------------------------
(***************************************************************************)
(* The uploader to narodmon.ru: one TCP connection per attempt, driven by  *)
(* callbacks of lwIP.  The main loop (MainLoop) polls the network, which   *)
(* runs them, then calls app_narodmon_poll, and starts an attempt when it  *)
(* is time.                                                                *)
(*                                                                         *)
(* The payload is kept as its length; dns_pending and connected, which     *)
(* nothing reads, are left out.  Texts of the log are kept as outcomes.    *)
(***************************************************************************)
EXTENDS Integers

CONSTANTS
  MaxPayload,  \* bound on the length of a payload, in units
  SendBuffer   \* TCP_SND_BUF, in units

ASSUME NarodmonAssumption == MaxPayload \in Nat /\ SendBuffer \in Nat \ {0}

VARIABLES
  phase,         \* where the main program is
  send_due,      \* next_narodmon_send has been reached
  busy, payload_len, sent_offset,
  deadline_due,  \* deadline_ms has been reached
  pending_log,   \* the deferred log event
  logged,        \* what was logged since the last attempt started, or the boot
  \* lwIP
  lookup,        \* a DNS request is pending
  pcb,           \* the connection with callbacks of ours: "none", "opening", "open"
  taken, acked   \* units tcp_write took from this attempt, and acknowledged ones

loopVars == <<phase, send_due>>
attemptVars == <<busy, payload_len, sent_offset>>
lwipVars == <<lookup, pcb, taken, acked>>
uploadVars == <<attemptVars, deadline_due, pending_log, logged, lwipVars>>

NarodmonInit ==
  /\ send_due = FALSE
  /\ busy = FALSE /\ payload_len = 0 /\ sent_offset = 0
  /\ deadline_due = FALSE /\ pending_log = "none" /\ logged = {"boot"}
  /\ lookup = FALSE /\ pcb = "none" /\ taken = 0 /\ acked = 0

\* The device is reset.
NarodmonReset ==
  /\ send_due' = FALSE
  /\ busy' = FALSE /\ payload_len' = 0 /\ sent_offset' = 0
  /\ deadline_due' = FALSE /\ pending_log' = "none" /\ logged' = {"boot"}
  /\ lookup' = FALSE /\ pcb' = "none" /\ taken' = 0 /\ acked' = 0

-----------------------------------------------------------------------------
app_narodmon_reset_state ==
  busy' = FALSE /\ payload_len' = 0 /\ sent_offset' = 0

\* The attempt ends and its outcome is deferred.  Whether the connection was
\* closed, aborted or lost, no callback of it is left.
Ends(outcome) ==
  /\ app_narodmon_reset_state
  /\ pending_log' = outcome
  /\ pcb' = "none"

\* A connection is opened; if there is no memory for it, or tcp_connect
\* fails and it is aborted, the attempt ends.
app_narodmon_start_connect ==
  \/ pcb' = "opening" /\ UNCHANGED <<attemptVars, pending_log>>
  \/ Ends("failed")

\* Writes what fits into the send buffer; tcp_write or tcp_output may fail.
app_narodmon_send_next_chunk ==
  LET remaining == payload_len - sent_offset
      room == SendBuffer - (taken - acked')
      chunk == IF remaining < room THEN remaining ELSE room
  IN  \/ /\ sent_offset' = sent_offset + chunk
         /\ taken' = taken + chunk
         /\ UNCHANGED <<busy, payload_len, pending_log>>
         /\ pcb' = "open"
      \/ chunk > 0 /\ Ends("failed") /\ UNCHANGED taken

-----------------------------------------------------------------------------
(* The callbacks.                                                          *)

\* The network is polled first in every pass, again while the Wi-Fi is being
\* joined, and when the loop waits before the next attempt is started.
CallbacksRun == phase \in {"network", "join", "send"}

\* Variant: an answer after the timeout opens a connection.
DnsFoundAlways(found) ==
  /\ CallbacksRun /\ lookup /\ lookup' = FALSE
  /\ IF found THEN app_narodmon_start_connect ELSE Ends("failed")
  /\ UNCHANGED <<loopVars, deadline_due, logged, taken, acked>>

\* An answer that comes after the timeout finds no attempt and is ignored.
app_narodmon_dns_found_cb(found) ==
  /\ CallbacksRun /\ lookup /\ lookup' = FALSE
  /\ IF ~busy THEN UNCHANGED <<attemptVars, pending_log, pcb>>
     ELSE IF found THEN app_narodmon_start_connect ELSE Ends("failed")
  /\ UNCHANGED <<loopVars, deadline_due, logged, taken, acked>>

app_narodmon_connected_cb ==
  /\ CallbacksRun /\ pcb = "opening"
  /\ acked' = acked
  /\ app_narodmon_send_next_chunk
  /\ UNCHANGED <<loopVars, deadline_due, logged, lookup>>

\* n more units are acknowledged.
app_narodmon_sent_cb(n) ==
  /\ CallbacksRun /\ pcb = "open"
  /\ n <= taken - acked
  /\ acked' = acked + n
  /\ IF sent_offset >= payload_len
     THEN Ends("ok") /\ UNCHANGED taken
     ELSE app_narodmon_send_next_chunk
  /\ UNCHANGED <<loopVars, deadline_due, logged, lookup>>

\* Only an error matters; data and the end of the server's data do not.
app_narodmon_recv_cb ==
  /\ CallbacksRun /\ pcb = "open"
  /\ Ends("failed")
  /\ UNCHANGED <<loopVars, deadline_due, logged, lookup, taken, acked>>

\* Variant: the state is reset and nothing reported.
ErrCbSilent ==
  /\ CallbacksRun /\ pcb # "none" /\ pcb' = "none"
  /\ app_narodmon_reset_state
  /\ UNCHANGED <<loopVars, deadline_due, pending_log, logged, lookup, taken, acked>>

\* lwIP has given the connection up and freed it.
app_narodmon_err_cb ==
  /\ CallbacksRun /\ pcb # "none"
  /\ Ends("failed")
  /\ UNCHANGED <<loopVars, deadline_due, logged, lookup, taken, acked>>

Network ==
  \/ \E found \in BOOLEAN : app_narodmon_dns_found_cb(found)
  \/ app_narodmon_connected_cb
  \/ \E n \in 1 .. MaxPayload : app_narodmon_sent_cb(n)
  \/ app_narodmon_recv_cb
  \/ app_narodmon_err_cb

-----------------------------------------------------------------------------
(* What the main loop calls.                                               *)

Flushed == IF pending_log = "none" THEN logged ELSE logged \cup {pending_log}

\* Variant: a connection is given up, a lookup is waited for.
PollPatiently ==
  /\ phase = "poll" /\ phase' = "link"
  /\ IF busy /\ deadline_due /\ pcb # "none"
     THEN Ends("failed") /\ logged' = Flushed \cup {"failed"}
     ELSE /\ logged' = Flushed /\ pending_log' = "none"
          /\ UNCHANGED <<attemptVars, pcb>>
  /\ UNCHANGED <<send_due, deadline_due, lookup, taken, acked>>

\* tcp_abort calls app_narodmon_err_cb, which defers a second line.
app_narodmon_poll ==
  /\ phase = "poll" /\ phase' = "link"
  /\ IF busy /\ deadline_due
     THEN /\ app_narodmon_reset_state
          /\ logged' = Flushed \cup {"failed"}
          /\ pending_log' = IF pcb # "none" THEN "failed" ELSE "none"
          /\ pcb' = "none"
     ELSE /\ logged' = Flushed /\ pending_log' = "none"
          /\ UNCHANGED <<attemptVars, pcb>>
  /\ UNCHANGED <<send_due, deadline_due, lookup, taken, acked>>

\* The payload of n units is sent off: the name is known, asked for, or no
\* lookup can be made.
Start(n) ==
  /\ busy' = TRUE /\ payload_len' = n /\ sent_offset' = 0
  /\ \/ pcb' = "opening" /\ UNCHANGED <<lookup, pending_log>> /\ logged' = {}
     \/ lookup' = TRUE /\ UNCHANGED <<pcb, pending_log>> /\ logged' = {}

StartFails ==
  /\ app_narodmon_reset_state
  /\ \/ pending_log' = "failed" /\ logged' = {}
     \/ UNCHANGED pending_log /\ logged' = {"failed"}
  /\ UNCHANGED <<pcb, lookup>>

\* Nothing happens while an attempt is under way, or without measurements.
app_narodmon_start_send ==
  /\ phase = "send" /\ phase' = "network"
  /\ send_due /\ send_due' = FALSE
  /\ \/ UNCHANGED uploadVars
     \/ /\ ~busy
        /\ StartFails \/ \E n \in 1 .. MaxPayload : Start(n)
        /\ deadline_due' = FALSE /\ taken' = 0 /\ acked' = 0

\* Ten seconds after the start.
DeadlineReached ==
  /\ ~deadline_due /\ deadline_due' = TRUE
  /\ UNCHANGED <<loopVars, attemptVars, pending_log, logged, lwipVars>>

\* Five minutes after the last one.  By then an attempt has met its deadline of
\* ten seconds in many polls, and lwIP has ended its lookup.
SendReached ==
  /\ ~send_due /\ send_due' = TRUE
  /\ ~busy /\ pending_log = "none" /\ ~lookup
  /\ UNCHANGED <<phase, uploadVars>>

-----------------------------------------------------------------------------
NarodmonTypeOK ==
  /\ send_due \in BOOLEAN
  /\ busy \in BOOLEAN /\ payload_len \in 0 .. MaxPayload
  /\ sent_offset \in 0 .. payload_len
  /\ deadline_due \in BOOLEAN
  /\ pending_log \in {"none", "ok", "failed"} /\ logged \subseteq {"boot", "ok", "failed"}
  /\ lookup \in BOOLEAN /\ pcb \in {"none", "opening", "open"}
  /\ taken \in 0 .. MaxPayload /\ acked \in 0 .. taken
  /\ taken - acked <= SendBuffer

\* An attempt under way waits for exactly one thing, an answer to its lookup or
\* its connection; no connection outlives its attempt, also when the name is
\* resolved after the timeout (app_narodmon_dns_found_cb, app_narodmon_poll).
OneOutstanding ==
  /\ busy => (lookup <=> pcb = "none")
  /\ pcb # "none" => busy

\* Every attempt is reported, and none as both sent and failed, although only
\* one event can be deferred at a time (app_narodmon_defer_log).
ReportsOneOutcome ==
  /\ ~({"ok", "failed"} \subseteq Flushed)
  /\ busy <=> Flushed = {}

\* An attempt ends, whatever the network, the Wi-Fi and the rest of the device do
\* (deadline_ms in app_narodmon_poll).
SendEnds == busy ~> ~busy
=============================================================================
