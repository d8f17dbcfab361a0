-------------------------------- MODULE Mqtt --------------------------------
(***************************************************************************)
(* The MQTT uploader.  app_mqtt_poll runs once in every pass of the main   *)
(* loop and does all the work; the callbacks of lwIP, which run in other   *)
(* parts of the pass, only record results for it.  Here a poll is a        *)
(* sequence of steps that nothing interrupts.                              *)
(*                                                                         *)
(* Times are kept as whether they have been reached.  Wording and topics   *)
(* are left out; a sample is its number in the batch.                      *)
(***************************************************************************)
EXTENDS Integers, FiniteSets

CONSTANTS
  Hosts,       \* host names of brokers
  Unusable,    \* no host, or a password without a user name
  MaxBatch,    \* bound on the samples of a snapshot
  RetryMin, RetryMax  \* MQTT_RETRY_MIN_MS, MQTT_RETRY_MAX_MS

ASSUME MqttAssumption ==
  /\ Unusable \notin Hosts
  /\ MaxBatch \in Nat
  /\ RetryMin \in Nat \ {0} /\ RetryMax \in Nat /\ RetryMin <= RetryMax

Configs == [enabled : BOOLEAN, host : Hosts \cup {Unusable}]

VARIABLES
  pc,                \* the part of app_mqtt_poll to run next
  mqtt_config, config_changed, state, retry_ms,
  deadline_due, connect_due, send_due,  \* deadline_ms, next_connect_ms, next_send_ms
  broker_address, dns_done, dns_valid,
  connection_changed, connection_accepted,  \* connection_result
  publish_pending, publish_done, publish_ok,  \* publish_result
  sample_count, sample_index,
  \* lwIP
  lookups,           \* DNS requests; current if with the present dns_generation
  connection, peer,  \* the client's connection, and to whom
  requests,          \* publications that await their acknowledgement
  acked              \* samples of this batch that the broker acknowledged

pollVars == <<mqtt_config, config_changed, state, retry_ms>>
timeVars == <<deadline_due, connect_due, send_due>>
dnsVars == <<broker_address, dns_done, dns_valid>>
resultVars == <<connection_changed, connection_accepted, publish_done, publish_ok>>
batchVars == <<publish_pending, sample_count, sample_index>>
lwipVars == <<lookups, connection, peer, requests, acked>>
vars == <<pc, pollVars, timeVars, dnsVars, resultVars, batchVars, lwipVars>>

Init ==
  /\ pc = "idle"
  /\ mqtt_config = [enabled |-> FALSE, host |-> Unusable] /\ config_changed = FALSE
  /\ state = "disabled" /\ retry_ms = RetryMin
  /\ deadline_due = TRUE /\ connect_due = TRUE /\ send_due = TRUE
  /\ broker_address = Unusable /\ dns_done = FALSE /\ dns_valid = FALSE
  /\ connection_changed = FALSE /\ connection_accepted = FALSE
  /\ publish_pending = FALSE /\ publish_done = FALSE /\ publish_ok = FALSE
  /\ sample_count = 0 /\ sample_index = 0
  /\ lookups = {} /\ connection = "none" /\ peer = Unusable
  /\ requests = {} /\ acked = {}

-----------------------------------------------------------------------------
(* Steps of app_mqtt_poll.                                                 *)

Stale == {[l EXCEPT !.current = FALSE] : l \in lookups}

\* Variant: still waits for a publication of the last connection.
ForgetBatch ==
  /\ dns_done' = FALSE /\ connection_changed' = FALSE
  /\ publish_done' = FALSE
  /\ sample_count' = 0 /\ sample_index' = 0
  /\ UNCHANGED publish_pending

\* Forgets what the callbacks recorded and the rest of the batch.
ForgetResults ==
  /\ dns_done' = FALSE /\ connection_changed' = FALSE
  /\ publish_pending' = FALSE /\ publish_done' = FALSE
  /\ sample_count' = 0 /\ sample_index' = 0

\* Variant: leaves the connection open.
ForgetClient ==
  /\ lookups' = Stale
  /\ ForgetResults
  /\ UNCHANGED <<connection, requests, acked, peer, dns_valid, connection_accepted, publish_ok>>

\* mqtt_disconnect drops the connection and its requests, with no callback.
disconnect_client ==
  /\ connection' = "none" /\ requests' = {} /\ acked' = {}
  /\ lookups' = Stale
  /\ ForgetResults
  /\ UNCHANGED <<peer, dns_valid, connection_accepted, publish_ok>>

retry_later ==
  /\ disconnect_client
  /\ state' = "waiting" /\ connect_due' = FALSE
  /\ retry_ms' = IF retry_ms * 2 > RetryMax THEN RetryMax ELSE retry_ms * 2
  /\ pc' = "idle"
  /\ UNCHANGED <<mqtt_config, config_changed, deadline_due, send_due, broker_address>>

\* The head of the poll takes over a changed configuration.
PollConfig ==
  /\ pc = "idle" /\ config_changed
  /\ disconnect_client
  /\ config_changed' = FALSE /\ retry_ms' = RetryMin /\ connect_due' = TRUE
  /\ state' = IF mqtt_config.enabled /\ mqtt_config.host # Unusable
              THEN "waiting" ELSE "disabled"
  /\ pc' = IF state' = "disabled" THEN "idle" ELSE "connect"
  /\ UNCHANGED <<mqtt_config, deadline_due, send_due, broker_address>>

\* Otherwise it looks at the result of the connection first.
PollConnection ==
  /\ pc = "idle" /\ ~config_changed /\ state # "disabled"
  /\ IF connection_changed /\ ~connection_accepted
     THEN retry_later
     ELSE /\ connection_changed' = FALSE
          /\ IF connection_changed
             THEN state' = "connected" /\ send_due' = TRUE /\ retry_ms' = RetryMin
             ELSE UNCHANGED <<state, send_due, retry_ms>>
          /\ pc' = "connect"
          /\ UNCHANGED <<mqtt_config, config_changed, deadline_due, connect_due, dnsVars,
                         connection_accepted, publish_done, publish_ok, batchVars, lwipVars>>

\* A DNS lookup starts: it succeeds from the cache, or is under way.
StartLookup ==
  /\ state' = "resolving" /\ deadline_due' = FALSE
  /\ \/ /\ broker_address' = mqtt_config.host /\ dns_valid' = TRUE /\ dns_done' = TRUE
        /\ lookups' = Stale
     \/ /\ dns_done' = FALSE
        /\ lookups' = Stale \cup {[host |-> mqtt_config.host, current |-> TRUE]}
        /\ UNCHANGED <<broker_address, dns_valid>>
  /\ pc' = "resolved"
  /\ UNCHANGED <<mqtt_config, config_changed, retry_ms, connect_due, send_due, resultVars,
                 batchVars, connection, peer, requests, acked>>

\* No memory for a client, no MAC address, or the lookup is refused.
PollConnect ==
  /\ pc = "connect"
  /\ IF state # "waiting"
     THEN pc' = "resolved" /\ UNCHANGED <<pollVars, timeVars, dnsVars, resultVars, batchVars, lwipVars>>
     ELSE IF ~connect_due
     THEN pc' = "idle" /\ UNCHANGED <<pollVars, timeVars, dnsVars, resultVars, batchVars, lwipVars>>
     ELSE StartLookup \/ retry_later

\* mqtt_client_connect, unless it fails at once.
Connect ==
  /\ state' = "connecting" /\ deadline_due' = FALSE /\ dns_done' = FALSE
  /\ connection' = "opening" /\ peer' = broker_address
  /\ pc' = "idle"
  /\ UNCHANGED <<mqtt_config, config_changed, retry_ms, connect_due, send_due,
                 broker_address, dns_valid, resultVars, batchVars, lookups, requests, acked>>

PollResolved ==
  /\ pc = "resolved"
  /\ IF state = "resolving" /\ dns_done
     THEN (dns_valid /\ Connect) \/ retry_later
     ELSE IF state \in {"resolving", "connecting"} /\ deadline_due
     THEN retry_later
     ELSE /\ pc' = IF state = "connected" THEN "acknowledge" ELSE "idle"
          /\ UNCHANGED <<pollVars, timeVars, dnsVars, resultVars, batchVars, lwipVars>>

\* Variant: takes any result for success.
PollAcknowledgeAny ==
  /\ pc = "acknowledge"
  /\ publish_done' = FALSE
  /\ IF publish_done
     THEN /\ publish_pending' = FALSE /\ sample_index' = sample_index + 1
          /\ sample_count' = IF sample_index' = sample_count THEN 0 ELSE sample_count
     ELSE UNCHANGED batchVars
  /\ pc' = "snapshot"
  /\ UNCHANGED <<pollVars, timeVars, dnsVars, connection_changed, connection_accepted,
                 publish_ok, lwipVars>>

\* The result of the last publication; after the last one the batch is sent.
PollAcknowledge ==
  /\ pc = "acknowledge"
  /\ IF publish_done /\ ~publish_ok
     THEN retry_later
     ELSE /\ IF publish_done
             THEN /\ publish_done' = FALSE /\ publish_pending' = FALSE
                  /\ sample_index' = sample_index + 1
                  /\ deadline_due' = FALSE
                  /\ sample_count' = IF sample_index' = sample_count THEN 0 ELSE sample_count
             ELSE UNCHANGED <<publish_done, publish_pending, sample_index, deadline_due, sample_count>>
          /\ pc' = "snapshot"
          /\ UNCHANGED <<pollVars, connect_due, send_due, dnsVars, connection_changed,
                         connection_accepted, publish_ok, lwipVars>>

\* A new batch, from measurement_store_snapshot, when it is time.
PollSnapshot ==
  /\ pc = "snapshot"
  /\ IF sample_count = 0 /\ send_due
     THEN /\ sample_count' \in 0 .. MaxBatch
          /\ sample_index' = 0 /\ send_due' = FALSE /\ deadline_due' = FALSE
          /\ acked' = {}
     ELSE UNCHANGED <<sample_count, sample_index, send_due, deadline_due, acked>>
  /\ pc' = IF sample_count' = 0 THEN "idle" ELSE "publish"
  /\ UNCHANGED <<pollVars, connect_due, dnsVars, resultVars, publish_pending,
                 lookups, connection, peer, requests>>

\* Variant: no deadline for the acknowledgement.
PollPublishPatiently ==
  /\ pc = "publish" /\ pc' = "idle"
  /\ publish_pending' = TRUE
  /\ requests' = IF publish_pending THEN requests ELSE requests \cup {sample_index}
  /\ UNCHANGED <<pollVars, timeVars, dnsVars, resultVars, sample_count, sample_index,
                 lookups, connection, peer, acked>>

\* mqtt_publish may lack memory (ERR_MEM), which is tried again, or fail.
PollPublish ==
  /\ pc = "publish"
  /\ IF deadline_due
     THEN retry_later
     ELSE \/ /\ IF publish_pending
                THEN UNCHANGED <<publish_pending, requests>>
                ELSE \/ /\ connection = "open"
                        /\ publish_pending' = TRUE /\ requests' = requests \cup {sample_index}
                     \/ UNCHANGED <<publish_pending, requests>>
             /\ pc' = "idle"
             /\ UNCHANGED <<pollVars, timeVars, dnsVars, resultVars, sample_count, sample_index,
                            lookups, connection, peer, acked>>
          \/ ~publish_pending /\ retry_later

Poll ==
  \/ PollConfig \/ PollConnection \/ PollConnect \/ PollResolved
  \/ PollAcknowledge \/ PollSnapshot \/ PollPublish

-----------------------------------------------------------------------------
(* Callbacks and other parts of the pass, between two polls.               *)

app_mqtt_apply_config ==
  /\ pc = "idle"
  /\ mqtt_config' \in Configs \ {mqtt_config}
  /\ config_changed' = TRUE
  /\ UNCHANGED <<pc, state, retry_ms, timeVars, dnsVars, resultVars, batchVars, lwipVars>>

\* Variant: takes the answer to any lookup.
DnsFoundAny(l, found) ==
  /\ pc = "idle"
  /\ lookups' = lookups \ {l}
  /\ IF state = "resolving"
     THEN /\ dns_valid' = found /\ dns_done' = TRUE
          /\ broker_address' = IF found THEN l.host ELSE broker_address
     ELSE UNCHANGED dnsVars
  /\ UNCHANGED <<pc, pollVars, timeVars, resultVars, batchVars, connection, peer, requests, acked>>

\* The answer to lookup l, an address if found; recorded if l is the last one.
dns_found(l, found) ==
  /\ pc = "idle"
  /\ lookups' = lookups \ {l}
  /\ IF state = "resolving" /\ l.current
     THEN /\ dns_valid' = found /\ dns_done' = TRUE
          /\ broker_address' = IF found THEN l.host ELSE broker_address
     ELSE UNCHANGED dnsVars
  /\ UNCHANGED <<pc, pollVars, timeVars, resultVars, batchVars, connection, peer, requests, acked>>

connection_callback(accepted) ==
  /\ connection_accepted' = accepted /\ connection_changed' = TRUE
  /\ UNCHANGED <<pc, pollVars, timeVars, dnsVars, publish_done, publish_ok, batchVars,
                 lookups, peer, acked>>

publish_callback(ok) ==
  /\ publish_ok' = ok /\ publish_done' = TRUE
  /\ UNCHANGED <<pc, pollVars, timeVars, dnsVars, connection_changed, connection_accepted,
                 batchVars, lookups, connection, peer>>

\* The broker accepts the connection.
Accepted ==
  /\ pc = "idle" /\ connection = "opening"
  /\ connection' = "open"
  /\ connection_callback(TRUE)
  /\ UNCHANGED requests

\* The connection is refused or breaks; its requests are dropped silently.
Closed ==
  /\ pc = "idle" /\ connection # "none"
  /\ connection' = "none" /\ requests' = {}
  /\ connection_callback(FALSE)

\* A publication is acknowledged, or given up by lwIP.
Acknowledged(r, ok) ==
  /\ pc = "idle"
  /\ requests' = requests \ {r}
  /\ acked' = IF ok THEN acked \cup {r} ELSE acked
  /\ publish_callback(ok)

Network ==
  \/ \E l \in lookups, found \in BOOLEAN : dns_found(l, found)
  \/ Accepted \/ Closed
  \/ \E r \in requests, ok \in BOOLEAN : Acknowledged(r, ok)

\* A time is reached; polls read the clock once, so between two of them.
Elapse(due) ==
  /\ pc = "idle" /\ ~due
  /\ due' = TRUE
  /\ UNCHANGED <<pc, pollVars, dnsVars, resultVars, batchVars, lwipVars>>

DeadlineReached == Elapse(deadline_due) /\ UNCHANGED <<connect_due, send_due>>
ConnectReached == Elapse(connect_due) /\ UNCHANGED <<deadline_due, send_due>>
SendReached == Elapse(send_due) /\ UNCHANGED <<deadline_due, connect_due>>

Next ==
  \/ Poll \/ app_mqtt_apply_config \/ Network
  \/ DeadlineReached \/ ConnectReached \/ SendReached

\* The main loop polls and time passes; nothing is assumed of the network.
Spec ==
  /\ Init /\ [][Next]_vars
  /\ WF_vars(Poll)
  /\ SF_vars(DeadlineReached) /\ SF_vars(ConnectReached) /\ SF_vars(SendReached)

-----------------------------------------------------------------------------
\* Types of all the state.
TypeOK ==
  /\ pc \in {"idle", "connect", "resolved", "acknowledge", "snapshot", "publish"}
  /\ mqtt_config \in Configs /\ config_changed \in BOOLEAN
  /\ state \in {"disabled", "waiting", "resolving", "connecting", "connected"}
  /\ retry_ms \in RetryMin .. RetryMax
  /\ deadline_due \in BOOLEAN /\ connect_due \in BOOLEAN /\ send_due \in BOOLEAN
  /\ broker_address \in Hosts \cup {Unusable}
  /\ dns_done \in BOOLEAN /\ dns_valid \in BOOLEAN
  /\ connection_changed \in BOOLEAN /\ connection_accepted \in BOOLEAN
  /\ publish_pending \in BOOLEAN /\ publish_done \in BOOLEAN /\ publish_ok \in BOOLEAN
  /\ sample_count \in 0 .. MaxBatch /\ sample_index \in 0 .. MaxBatch
  /\ lookups \subseteq [host : Hosts, current : BOOLEAN]
  /\ connection \in {"none", "opening", "open"} /\ peer \in Hosts \cup {Unusable}
  /\ requests \subseteq 0 .. MaxBatch - 1 /\ acked \subseteq 0 .. MaxBatch - 1

\* The client is only ever connected to the host of the settings in force,
\* although DNS answers for earlier settings may still come in ("DNS cannot
\* be cancelled. Ignore callbacks from previous attempts", disconnect_client).
ConnectsToConfiguredHost ==
  connection # "none" /\ ~config_changed => peer = mqtt_config.host

\* Between two polls the client's connection is where the state says it is, or
\* a callback has recorded that it changed: no connection is left open behind
\* a retry, a timeout or a change of settings, and none is lost unnoticed.
StateTracksConnection ==
  pc = "idle" /\ ~connection_changed =>
    CASE state = "connecting" -> connection = "opening"
      [] state = "connected"  -> connection = "open"
      [] OTHER                -> connection = "none" /\ requests = {}

\* A publication is awaited exactly when one is with the client or its result
\* has been recorded, it is the current sample's, and all before it arrived.
PublishesInOrder ==
  pc = "idle" /\ ~connection_changed /\ state = "connected" =>
    /\ publish_pending <=> (requests # {} \/ publish_done)
    /\ requests \subseteq {sample_index}
    /\ 0 .. sample_index - 1 \subseteq acked \/ sample_count = 0

\* "MQTT sent %u values": a batch ends as sent only when the broker has
\* acknowledged every sample of it (app_mqtt_poll).
SentMeansAcknowledged ==
  [][ pc = "acknowledge" /\ sample_count > 0 /\ sample_count' = 0 /\ state' = "connected" =>
        acked = 0 .. sample_count - 1 ]_vars

\* A batch ends, sent or given up, whatever the broker acknowledges.
BatchEnds == sample_count > 0 ~> sample_count = 0
=============================================================================
