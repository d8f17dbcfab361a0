----------------------------- MODULE MqttProofs -----------------------------
(***************************************************************************)
(* The client is only connected to the host of the settings in force, its  *)
(* state says where its connection is, and samples are published in order  *)
(* and counted as sent only once acknowledged.                             *)
(*                                                                         *)
(* None of this is inductive by itself.  The host is right because an      *)
(* address is only used while it is the answer to the last lookup, and the *)
(* last lookup was for the host of the settings.  The rest holds because   *)
(* between two polls a callback may have moved the connection away from    *)
(* the state, but only in the one way that it recorded, and because no     *)
(* poll goes past its head with such a record unread.                      *)
(***************************************************************************)
EXTENDS Mqtt, TLAPS

Lookups == [host : Hosts \cup {Unusable}, current : BOOLEAN]

\* While the settings have not changed since the last poll, a lookup in
\* progress and a recorded answer are for their host.
LookupIsForHost ==
  ~config_changed /\ state = "resolving" =>
    /\ \A l \in lookups : l.current => l.host = mqtt_config.host
    /\ dns_done /\ dns_valid => broker_address = mqtt_config.host

HostInv ==
  /\ mqtt_config \in Configs
  /\ lookups \subseteq Lookups
  /\ LookupIsForHost
  /\ ConnectsToConfiguredHost

USE DEF Configs, Lookups, LookupIsForHost, ConnectsToConfiguredHost, HostInv

\* A lookup made stale is not current: dns_generation has moved on.
LEMMA StaleLookups ==
  ASSUME lookups \subseteq Lookups
  PROVE  Stale \subseteq Lookups /\ \A l \in Stale : ~l.current
  BY DEF Stale

\* The invariant holds at first: nothing is looked up or connected.
LEMMA HostInit == Init => HostInv
  BY DEF Init

\* Giving up an attempt leaves nothing that could name a wrong host.
LEMMA RetryKeepsHost == HostInv /\ retry_later => HostInv'
  BY StaleLookups DEF retry_later, disconnect_client

\* Each part of app_mqtt_poll keeps the invariant.
LEMMA PollKeepsHost == HostInv /\ Poll => HostInv'
<1> SUFFICES ASSUME HostInv, Poll PROVE HostInv'
  OBVIOUS
<1>1. CASE PollConfig
  BY <1>1, StaleLookups DEF PollConfig, disconnect_client
<1>2. CASE PollConnection
  BY <1>2, RetryKeepsHost DEF PollConnection, dnsVars, lwipVars
<1>3. CASE PollConnect
  <2>1. CASE StartLookup
    <3> DEFINE new == [host |-> mqtt_config.host, current |-> TRUE]
    <3>1. new \in Lookups /\ new.host = mqtt_config.host
      OBVIOUS
    <3>2. lookups' = Stale \/ lookups' = Stale \cup {new}
      BY <2>1 DEF StartLookup
    <3>3. lookups' \subseteq Lookups /\ \A l \in lookups' : l.current => l.host = mqtt_config.host
      BY <3>1, <3>2, StaleLookups
    <3>4. /\ UNCHANGED <<mqtt_config, config_changed, connection, peer>>
          /\ dns_done' => broker_address' = mqtt_config.host
      BY <2>1 DEF StartLookup
    <3> QED BY <3>3, <3>4
  <2>2. CASE ~StartLookup
    BY <1>3, <2>2, RetryKeepsHost DEF PollConnect, pollVars, dnsVars, lwipVars
  <2> QED BY <2>1, <2>2
<1>4. CASE PollResolved
  <2>1. CASE Connect /\ state = "resolving" /\ dns_done /\ dns_valid
    BY <2>1 DEF Connect
  <2>2. CASE ~(Connect /\ state = "resolving" /\ dns_done /\ dns_valid)
    BY <1>4, <2>2, RetryKeepsHost DEF PollResolved, pollVars, dnsVars, lwipVars
  <2> QED BY <2>1, <2>2
<1>5. CASE PollAcknowledge
  BY <1>5, RetryKeepsHost DEF PollAcknowledge, pollVars, dnsVars, lwipVars
<1>6. CASE PollSnapshot
  BY <1>6 DEF PollSnapshot, pollVars, dnsVars
<1>7. CASE PollPublish
  BY <1>7, RetryKeepsHost DEF PollPublish, pollVars, dnsVars
<1> QED
  BY <1>1, <1>2, <1>3, <1>4, <1>5, <1>6, <1>7 DEF Poll

\* So do the answers of the network, however late.
LEMMA NetworkKeepsHost == HostInv /\ Network => HostInv'
<1> SUFFICES ASSUME HostInv, Network PROVE HostInv'
  OBVIOUS
<1>1. ASSUME NEW l \in lookups, NEW found \in BOOLEAN, dns_found(l, found) PROVE HostInv'
  BY <1>1 DEF dns_found, pollVars, dnsVars
<1>2. CASE Accepted
  BY <1>2 DEF Accepted, connection_callback, pollVars, dnsVars
<1>3. CASE Closed
  BY <1>3 DEF Closed, connection_callback, pollVars, dnsVars
<1>4. ASSUME NEW r \in requests, NEW ok \in BOOLEAN, Acknowledged(r, ok) PROVE HostInv'
  BY <1>4 DEF Acknowledged, publish_callback, pollVars, dnsVars
<1> QED
  BY <1>1, <1>2, <1>3, <1>4 DEF Network

\* Every step keeps the invariant.
LEMMA HostNext == HostInv /\ [Next]_vars => HostInv'
<1> SUFFICES ASSUME HostInv, [Next]_vars PROVE HostInv'
  OBVIOUS
<1>1. CASE Poll
  BY <1>1, PollKeepsHost
<1>2. CASE app_mqtt_apply_config
  BY <1>2 DEF app_mqtt_apply_config, dnsVars, lwipVars
<1>3. CASE Network
  BY <1>3, NetworkKeepsHost
<1>4. CASE DeadlineReached \/ ConnectReached \/ SendReached
  BY <1>4 DEF DeadlineReached, ConnectReached, SendReached, Elapse, pollVars, dnsVars, lwipVars
<1>5. CASE UNCHANGED vars
  BY <1>5 DEF vars, pollVars, dnsVars, lwipVars
<1> QED
  BY <1>1, <1>2, <1>3, <1>4, <1>5 DEF Next

\* For any hosts and settings, however late DNS answers and callbacks come,
\* app_mqtt_poll never connects to a host other than the configured one.
THEOREM AlwaysConfiguredHost == Spec => []ConnectsToConfiguredHost
<1>1. HostInv => ConnectsToConfiguredHost
  OBVIOUS
<1> QED
  BY <1>1, HostInit, HostNext, PTL DEF Spec

-----------------------------------------------------------------------------
(* The connection and the batch.                                           *)

\* Behind its head a poll has taken over the settings and the last event of
\* the connection; it publishes only while connected.
PollIsCurrent ==
  /\ pc \in {"idle", "connect", "resolved", "acknowledge", "snapshot", "publish"}
  /\ pc # "idle" => ~config_changed /\ ~connection_changed
  /\ pc \in {"acknowledge", "snapshot", "publish"} => state = "connected"
  /\ pc = "publish" => sample_count # 0

\* Where the connection is in each state, also when its last event has not
\* been read.
ConnectionIsKnown ==
  /\ state \in {"disabled", "waiting", "resolving", "connecting", "connected"}
  /\ state \in {"disabled", "waiting", "resolving"} => connection = "none" /\ ~connection_changed
  /\ state = "connecting" =>
       connection = IF ~connection_changed THEN "opening"
                    ELSE IF connection_accepted THEN "open" ELSE "none"
  /\ state = "connected" =>
       /\ connection = IF connection_changed THEN "none" ELSE "open"
       /\ connection_changed => ~connection_accepted

\* The publication awaited is that of the current sample, those before it have
\* arrived, and there is one while its result is outstanding.
BatchIsOrdered ==
  /\ sample_count \in Nat /\ sample_index \in Nat
  /\ state # "connected" =>
       ~publish_pending /\ ~publish_done /\ sample_count = 0 /\ requests = {}
  /\ connection # "open" => requests = {}
  /\ requests \subseteq {sample_index}
  /\ ~connection_changed => (publish_pending <=> (requests # {} \/ publish_done))
  /\ requests # {} => ~publish_done
  /\ publish_pending => sample_count # 0
  /\ publish_done /\ publish_ok => sample_index \in acked
  /\ sample_count # 0 =>
       /\ sample_index < sample_count
       /\ \A i \in Nat : i < sample_index => i \in acked
       /\ \A i \in acked : i \in Nat /\ i <= sample_index

BatchInv == PollIsCurrent /\ ConnectionIsKnown /\ BatchIsOrdered

USE DEF PollIsCurrent, ConnectionIsKnown, BatchIsOrdered

\* The invariant holds at first.
LEMMA BatchInit == Init => BatchInv
  BY DEF Init, BatchInv

\* Giving up an attempt leaves no connection, no request and no batch.
LEMMA RetryKeepsBatch == BatchInv /\ retry_later => BatchInv'
  BY DEF retry_later, disconnect_client, ForgetResults, BatchInv

\* A step to another part of the poll leaves everything else.
LEMMA MovingKeepsBatch ==
  ASSUME BatchInv, UNCHANGED <<pollVars, resultVars, batchVars, lwipVars>>,
         \/ pc' = "idle"
         \/ pc # "idle" /\ pc' = "resolved"
         \/ pc # "idle" /\ pc' = "acknowledge" /\ state = "connected"
  PROVE  BatchInv'
  BY DEF pollVars, resultVars, batchVars, lwipVars, BatchInv

\* Each part of app_mqtt_poll keeps the invariant.
LEMMA PollKeepsBatch == BatchInv /\ Poll => BatchInv'
<1> SUFFICES ASSUME BatchInv, Poll, ~retry_later PROVE BatchInv'
  BY RetryKeepsBatch
<1>1. CASE PollConfig
  BY <1>1 DEF PollConfig, disconnect_client, ForgetResults, BatchInv
<1>2. CASE PollConnection
  <2>1. CASE connection_changed
    BY <1>2, <2>1 DEF PollConnection, batchVars, lwipVars, BatchInv
  <2>2. CASE ~connection_changed
    <3>1. /\ pc = "idle" /\ ~config_changed /\ ~connection_changed' /\ pc' = "connect"
          /\ UNCHANGED <<config_changed, state, connection_accepted, publish_done, publish_ok,
                         batchVars, lwipVars>>
      BY <1>2, <2>2 DEF PollConnection
    <3> QED
      BY <2>2, <3>1 DEF batchVars, lwipVars, BatchInv
  <2> QED BY <2>1, <2>2
<1>3. CASE PollConnect
  <2>1. CASE StartLookup /\ state = "waiting"
    BY <1>3, <2>1 DEF PollConnect, StartLookup, resultVars, batchVars, BatchInv
  <2>2. CASE ~(StartLookup /\ state = "waiting")
    BY <1>3, <2>2, MovingKeepsBatch DEF PollConnect
  <2> QED BY <2>1, <2>2
<1>4. CASE PollResolved
  <2>1. CASE Connect /\ state = "resolving"
    BY <1>4, <2>1 DEF PollResolved, Connect, resultVars, batchVars, BatchInv
  <2>2. CASE ~(Connect /\ state = "resolving")
    BY <1>4, <2>2, MovingKeepsBatch DEF PollResolved
  <2> QED BY <2>1, <2>2
<1>5. CASE PollAcknowledge
  <2>1. CASE publish_done /\ publish_ok
    BY <1>5, <2>1 DEF PollAcknowledge, pollVars, lwipVars, BatchInv
  <2>2. CASE ~(publish_done /\ publish_ok)
    BY <1>5, <2>2 DEF PollAcknowledge, pollVars, lwipVars, BatchInv
  <2> QED BY <2>1, <2>2
<1>6. CASE PollSnapshot
  BY <1>6, MqttAssumption DEF PollSnapshot, pollVars, resultVars, BatchInv
<1>7. CASE PollPublish
  <2>1. CASE UNCHANGED <<publish_pending, requests>>
    BY <1>7, <2>1 DEF PollPublish, pollVars, resultVars, BatchInv
  <2>2. CASE ~UNCHANGED <<publish_pending, requests>>
    <3>1. /\ ~publish_pending /\ publish_pending' /\ requests' = requests \cup {sample_index}
          /\ connection = "open" /\ pc = "publish" /\ pc' = "idle"
          /\ UNCHANGED <<pollVars, resultVars, sample_count, sample_index, connection, acked>>
      BY <1>7, <2>2, Zenon DEF PollPublish
    <3> QED
      BY <3>1 DEF pollVars, resultVars, BatchInv
  <2> QED BY <2>1, <2>2
<1> QED
  BY <1>1, <1>2, <1>3, <1>4, <1>5, <1>6, <1>7 DEF Poll

\* So do the callbacks, between any two polls.
LEMMA NetworkKeepsBatch == BatchInv /\ Network => BatchInv'
<1> SUFFICES ASSUME BatchInv, Network PROVE BatchInv'
  OBVIOUS
<1>1. ASSUME NEW l \in lookups, NEW found \in BOOLEAN, dns_found(l, found) PROVE BatchInv'
  BY <1>1 DEF dns_found, pollVars, resultVars, batchVars, BatchInv
<1>2. CASE Accepted
  BY <1>2 DEF Accepted, connection_callback, pollVars, batchVars, BatchInv
<1>3. CASE Closed
  BY <1>3 DEF Closed, connection_callback, pollVars, batchVars, BatchInv
<1>4. ASSUME NEW r \in requests, NEW ok \in BOOLEAN, Acknowledged(r, ok) PROVE BatchInv'
  <2>1. r = sample_index /\ requests' = {} /\ ~connection_changed /\ state = "connected"
    BY <1>4 DEF Acknowledged, BatchInv
  <2>2. /\ publish_ok' = ok /\ publish_done'
        /\ acked' = IF ok THEN acked \cup {sample_index} ELSE acked
        /\ UNCHANGED <<pc, pollVars, connection_changed, connection_accepted, batchVars, connection>>
    BY <1>4, <2>1 DEF Acknowledged, publish_callback
  <2> QED
    BY <2>1, <2>2 DEF pollVars, batchVars, BatchInv
<1> QED
  BY <1>1, <1>2, <1>3, <1>4 DEF Network

\* Every step keeps the invariant.
LEMMA BatchNext == BatchInv /\ [Next]_vars => BatchInv'
<1> SUFFICES ASSUME BatchInv, [Next]_vars PROVE BatchInv'
  OBVIOUS
<1>1. CASE Poll
  BY <1>1, PollKeepsBatch
<1>2. CASE app_mqtt_apply_config
  BY <1>2 DEF app_mqtt_apply_config, resultVars, batchVars, lwipVars, BatchInv
<1>3. CASE Network
  BY <1>3, NetworkKeepsBatch
<1>4. CASE DeadlineReached \/ ConnectReached \/ SendReached
  <2>1. pc' = pc /\ pc = "idle" /\ UNCHANGED <<pollVars, resultVars, batchVars, lwipVars>>
    BY <1>4, Zenon DEF DeadlineReached, ConnectReached, SendReached, Elapse
  <2> QED BY <2>1, MovingKeepsBatch
<1>5. CASE UNCHANGED vars
  BY <1>5 DEF vars, pollVars, resultVars, batchVars, lwipVars, BatchInv
<1> QED
  BY <1>1, <1>2, <1>3, <1>4, <1>5 DEF Next

\* Hence it always holds.
LEMMA AlwaysBatchInv == Spec => []BatchInv
  BY BatchInit, BatchNext, PTL DEF Spec

\* Between two polls the connection is where the state of the client says, or a
\* callback has recorded what became of it, for any hosts, settings and batches.
THEOREM AlwaysTracksConnection == Spec => []StateTracksConnection
<1>1. BatchInv => StateTracksConnection
  BY DEF StateTracksConnection, BatchInv
<1> QED
  BY <1>1, AlwaysBatchInv, PTL

\* Samples of a batch of any size are published one at a time and in order.
THEOREM AlwaysInOrder == Spec => []PublishesInOrder
<1>1. BatchInv => PublishesInOrder
  BY DEF PublishesInOrder, BatchInv
<1> QED
  BY <1>1, AlwaysBatchInv, PTL

\* "MQTT sent %u values" is logged only for a batch of which the broker has
\* acknowledged every sample and no other (app_mqtt_poll).
THEOREM SentIsAcknowledged == Spec => SentMeansAcknowledged
<1>1. ASSUME BatchInv, BatchInv', [Next]_vars, pc = "acknowledge", sample_count > 0,
             sample_count' = 0, state' = "connected"
      PROVE  acked = 0 .. sample_count - 1
  <2>1. PollAcknowledge
    BY <1>1
       DEF Next, Poll, PollConfig, PollConnection, PollConnect, PollResolved, PollSnapshot,
           PollPublish, app_mqtt_apply_config, Network, dns_found, Accepted, Closed, Acknowledged,
           DeadlineReached, ConnectReached, SendReached, Elapse, vars, batchVars
  <2>2. publish_done /\ publish_ok /\ sample_index + 1 = sample_count
    BY <1>1, <2>1 DEF PollAcknowledge, retry_later
  <2>3. \A i \in Nat : i < sample_count <=> i \in acked
    BY <1>1, <2>2 DEF BatchInv
  <2>4. acked \subseteq Nat /\ sample_count \in Nat
    BY <1>1 DEF BatchInv
  <2>5. \A i : i \in 0 .. sample_count - 1 <=> i \in Nat /\ i < sample_count
    BY <2>4
  <2> QED
    BY <2>3, <2>4, <2>5
<1> QED
  BY <1>1, AlwaysBatchInv, PTL DEF SentMeansAcknowledged, Spec
=============================================================================
