----------------------------- MODULE DhcpServer -----------------------------
(***************************************************************************)
(* The DHCP server of the access point.  Its table of leases keeps, for    *)
(* each address, the owner and the upper half of the time of expiry on a   *)
(* 32-bit clock of milliseconds.                                           *)
(*                                                                         *)
(* The clients (external) follow the protocol: they count a lease from the *)
(* moment they asked for it and heed only answers to their own last        *)
(* transaction.  Their messages are lost, repeated and overtake each other *)
(* on the way; an answer gets there at once or never.                      *)
(***************************************************************************)
EXTENDS Integers, FiniteSets, FiniteSetsExt

CONSTANTS
  Clients, NoMac,
  MaxIp,        \* DHCPS_MAX_IP
  LeaseTime,    \* DEFAULT_LEASE_TIME_S, in ticks
  Unit,         \* ticks that the lower 16 bits of the clock count
  Wrap,         \* ticks after which the clock wraps
  Start,        \* when the first client comes
  MaxNow,       \* bound on the time
  MaxInFlight   \* bound on the messages on their way

ASSUME DhcpAssumption ==
  /\ NoMac \notin Clients
  /\ Start \in Nat /\ {MaxIp, LeaseTime, Unit, Wrap, MaxNow, MaxInFlight} \subseteq Nat \ {0}
  /\ Wrap % (2 * Unit) = 0 /\ LeaseTime + Unit < Wrap \div 2

Addresses == 0 .. MaxIp - 1
NoAddress == -1     \* no "requested IP" option, or not one of Addresses

VARIABLES
  now,          \* cyw43_hal_ticks_ms, without its wrap
  lease,        \* d->lease
  network,      \* the clients' messages on their way
  client,       \* the clients' side
  ends          \* when the last lease of each address really ends

vars == <<now, lease, network, client, ends>>

Idle == [state |-> "idle", ip |-> NoAddress, time |-> 0]

\* dhcp_server_init: the table is cleared.
Init ==
  /\ now = Start /\ network = {}
  /\ lease = [i \in Addresses |-> [mac |-> NoMac, expiry |-> 0]]
  /\ client = [c \in Clients |-> Idle]
  /\ ends = [i \in Addresses |-> 0]

-----------------------------------------------------------------------------
\* A 32-bit difference taken as a signed number.
Signed(x) == LET u == x % Wrap IN IF u < Wrap \div 2 THEN u ELSE u - Wrap

\* Variant: the expiry is not rounded up again.
ExpiredRoundedDown(i) == Signed(lease[i].expiry * Unit - now) < 0

Expired(i) == Signed(lease[i].expiry * Unit + (Unit - 1) - now) < 0

\* Variant: an address is never taken away from its owner.
UnownedOnly(i) == lease[i].mac = NoMac

\* The loop takes the first of these that it meets before the client's own.
Reusable(i) == lease[i].mac = NoMac \/ Expired(i)

Own(c) == {i \in Addresses : lease[i].mac = c}
BeforeOwn(c) == {i \in Addresses : \A j \in Own(c) : i < j}
FirstReusable(c) == LET s == {i \in BeforeOwn(c) : Reusable(i)}
                    IN  IF s = {} THEN {} ELSE {Min(s)}

\* The address a DISCOVER of c is offered, if any.
Offered(c) == IF Own(c) # {} THEN {Min(Own(c))} ELSE FirstReusable(c)

-----------------------------------------------------------------------------
Message(c, type, ip) == [type |-> type, mac |-> c, ip |-> ip, stale |-> FALSE]

\* A new message of a client makes those it has under way stale.
Sending(net, m) ==
  {[n EXCEPT !.stale = @ \/ n.mac = m.mac] : n \in net} \cup {m}

\* A message delivered is gone, or will be delivered again.
Rest(m) == {network, network \ {m}}

\* The answer to m reaches a client in this state.
Heard(m, state) == ~m.stale /\ client[m.mac].state = state

\* dhcp_server_process, DISCOVER: nothing is reserved for the client, which asks
\* for the address if the offer reaches it.
Discover(m) ==
  /\ m.type = "discover"
  /\ lease' = [i \in Addresses |->
       IF i \in FirstReusable(m.mac) /\ Expired(i) THEN [lease[i] EXCEPT !.mac = NoMac]
                                                   ELSE lease[i]]
  /\ \/ network' \in Rest(m) /\ UNCHANGED client
     \/ /\ Heard(m, "selecting")
        /\ \E ip \in Offered(m.mac), rest \in Rest(m) :
             /\ client' = [client EXCEPT ![m.mac] =
                             [state |-> "requesting", ip |-> ip, time |-> now]]
             /\ network' = Sending(rest, Message(m.mac, "request", ip))
  /\ UNCHANGED <<now, ends>>

\* A REQUEST is granted for a free address or one's own.
Grants(m) == m.ip \in Addresses /\ lease[m.ip].mac \in {m.mac, NoMac}

\* dhcp_server_process, REQUEST.
Request(m) ==
  /\ m.type = "request" /\ Grants(m)
  /\ lease' = [lease EXCEPT ![m.ip] =
       [mac |-> m.mac, expiry |-> ((now + LeaseTime) % Wrap) \div Unit]]
  /\ ends' = [ends EXCEPT ![m.ip] = now + LeaseTime]
  /\ network' \in Rest(m)
  /\ \/ UNCHANGED client
     \/ Heard(m, "requesting") /\ client' = [client EXCEPT ![m.mac].state = "bound"]
  /\ UNCHANGED now

\* dhcp_server_process, everything else: a REQUEST without an address, as in a
\* renewal, of another network's or of another client's; other messages.
Ignored(m) ==
  /\ m.type # "discover" /\ ~(m.type = "request" /\ Grants(m))
  /\ network' \in Rest(m)
  /\ UNCHANGED <<now, lease, client, ends>>

-----------------------------------------------------------------------------
Send(c, type, ip) ==
  /\ network' = Sending(network, Message(c, type, ip))
  /\ Cardinality(network') <= MaxInFlight
  /\ UNCHANGED <<now, lease, ends>>

ClientDiscovers(c) ==
  /\ client[c].state # "bound"
  /\ Send(c, "discover", NoAddress)
  /\ client' = [client EXCEPT ![c] = [Idle EXCEPT !.state = "selecting"]]

\* A client that comes back asks at once for the address it remembers.
ClientReboots(c, ip) ==
  /\ client[c].state = "idle"
  /\ Send(c, "request", ip)
  /\ client' = [client EXCEPT ![c] = [state |-> "requesting", ip |-> ip, time |-> now]]

\* A renewal carries no option with the address.  (DECLINE, RELEASE and INFORM
\* are ignored like it.)
ClientRenews(c) ==
  /\ client[c].state = "bound"
  /\ Send(c, "request", NoAddress)
  /\ UNCHANGED client

ClientLeaves(c) ==
  /\ client[c].state # "idle"
  /\ client' = [client EXCEPT ![c] = Idle]
  /\ UNCHANGED <<now, lease, network, ends>>

Lose(m) == network' = network \ {m} /\ UNCHANGED <<now, lease, client, ends>>

\* A client gives its address up when its lease ends.
Tick ==
  /\ now < MaxNow
  /\ now' = now + 1
  /\ client' = [c \in Clients |->
       IF client[c].state \in {"requesting", "bound"} /\ client[c].time + LeaseTime <= now'
       THEN Idle ELSE client[c]]
  /\ UNCHANGED <<lease, network, ends>>

\* The access point reboots, and the clients lose their link.
Reboot ==
  /\ now' = Start /\ network' = {}
  /\ lease' = [i \in Addresses |-> [mac |-> NoMac, expiry |-> 0]]
  /\ client' = [c \in Clients |-> Idle]
  /\ ends' = [i \in Addresses |-> 0]

Next ==
  \/ \E m \in network : Discover(m) \/ Request(m) \/ Ignored(m) \/ Lose(m)
  \/ \E c \in Clients :
       \/ ClientDiscovers(c) \/ ClientRenews(c) \/ ClientLeaves(c)
       \/ \E ip \in Addresses \cup {NoAddress} : ClientReboots(c, ip)
  \/ Tick
  \/ Reboot

Spec == Init /\ [][Next]_vars

-----------------------------------------------------------------------------
\* While the lease that one client was given still runs, no other client has the
\* same address, however late, often or out of order messages arrive and whenever
\* the clock wraps (expiry in dhcp_server_process).
NoSharedAddress ==
  \A c, d \in Clients :
    /\ client[c].state = "bound" /\ client[d].state = "bound"
    /\ client[c].ip = client[d].ip
    => c = d

\* A client is left without an offer only when every address is leased to another,
\* by a lease that runs or is not yet a unit of the expiry over, or that ended so
\* long ago that it counts as running again (the 32-bit comparison in
\* dhcp_server_process).
OfferUnlessFull ==
  \A c \in Clients : Offered(c) = {} =>
    \A i \in Addresses :
      /\ lease[i].mac \notin {c, NoMac}
      /\ now < ends[i] + Unit \/ now > ends[i] + Wrap \div 2
=============================================================================
