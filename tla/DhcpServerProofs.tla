-------------------------- MODULE DhcpServerProofs --------------------------
(***************************************************************************)
(* No two clients of the access point hold one address, and a client gets  *)
(* an offer unless all addresses are leased.                               *)
(*                                                                         *)
(* The first rests on two things.  A client that holds an address is the   *)
(* owner in the table, of a lease that ends no earlier than the client     *)
(* believes (BoundIsLeased): it only ever took an answer to its last       *)
(* request, so that the address granted is the one it asked for            *)
(* (AnswersLastRequest).  And the table does not take a lease for expired  *)
(* before its end, although it keeps only the upper half of a time on a    *)
(* clock that wraps (NotExpiredBefore).                                    *)
(***************************************************************************)
EXTENDS DhcpServer, WellFoundedInduction, TLAPS

-----------------------------------------------------------------------------
(* The clock.                                                              *)

\* Division with remainder.
LEMMA DivMod ==
  ASSUME NEW x \in Int, NEW w \in Nat \ {0}
  PROVE  \E q \in Int, r \in 0 .. w - 1 : q = x \div w /\ r = x % w /\ x = w * q + r
  OBVIOUS

\* The numbers of the configuration.
LEMMA Sizes ==
  /\ Unit \in Nat \ {0} /\ Wrap \in Nat \ {0} /\ LeaseTime \in Nat \ {0} /\ MaxIp \in Nat \ {0}
  /\ Start \in Nat /\ LeaseTime + Unit < Wrap \div 2 /\ Wrap % (2 * Unit) = 0
  BY DhcpAssumption

\* The remainder is the only number in range that differs by a multiple.
LEMMA ModUnique ==
  ASSUME NEW w \in Nat \ {0}, NEW y \in 0 .. w - 1, NEW q \in Int
  PROVE  (y - w * q) % w = y
<1> DEFINE x == y - w * q
<1>1. x \in Int
  OBVIOUS
<1>2. PICK d \in Int, r \in 0 .. w - 1 : r = x % w /\ x = w * d + r
  BY <1>1, DivMod
<1>3. w * (d + q) = y - r
  BY <1>2
<1>4. ASSUME NEW a \in Int, -w < w * a, w * a < w PROVE a = 0
  BY <1>4
<1>5. d + q = 0
  BY <1>3, <1>4
<1> QED
  BY <1>2, <1>3, <1>5

\* Of a time e the table keeps (e % Wrap) \div Unit.  Rounded up again and
\* compared with the clock, it is e and less than a unit more.
LEMMA RoundedUp ==
  ASSUME NEW e \in Nat, NEW n \in Nat
  PROVE  \E s \in 0 .. Unit - 1, q \in Int :
           ((e % Wrap) \div Unit) * Unit + (Unit - 1) - n = ((e - n) + s) - Wrap * q
<1>0. e \in Int /\ Wrap \in Nat \ {0} /\ Unit \in Nat \ {0}
  BY Sizes
<1>1. PICK q \in Int, r \in 0 .. Wrap - 1 : r = e % Wrap /\ e = Wrap * q + r
  BY <1>0, DivMod
<1>2. r \in Int
  BY <1>0
<1>3. PICK d \in Int, s \in 0 .. Unit - 1 : d = r \div Unit /\ r = Unit * d + s
  BY <1>0, <1>2, DivMod, Zenon
<1>4. d * Unit + (Unit - 1) - n = ((e - n) + (Unit - 1 - s)) - Wrap * q
  BY <1>1, <1>3, Sizes
<1>5. Unit - 1 - s \in 0 .. Unit - 1
  BY <1>3, Sizes
<1> QED
  BY <1>1, <1>3, <1>4, <1>5

\* A lease that ends at e has not expired before e.
LEMMA NotExpiredBefore ==
  ASSUME NEW i \in Addresses, NEW e \in Nat, NEW n \in Nat, now = n, n < e, e <= n + LeaseTime,
         lease[i].expiry = (e % Wrap) \div Unit
  PROVE  ~Expired(i)
<1>1. PICK s \in 0 .. Unit - 1, q \in Int :
        lease[i].expiry * Unit + (Unit - 1) - now = ((e - n) + s) - Wrap * q
  BY RoundedUp
<1>2. /\ (e - n) + s \in 0 .. Wrap - 1 /\ (e - n) + s < Wrap \div 2 /\ (e - n) + s >= 0
      /\ Wrap \in Nat \ {0}
  BY Sizes
<1>3. (((e - n) + s) - Wrap * q) % Wrap = (e - n) + s
  BY <1>2, ModUnique
<1>4. Signed(lease[i].expiry * Unit + (Unit - 1) - now) = (e - n) + s
  BY <1>1, <1>2, <1>3, Zenon DEF Signed
<1> QED
  BY <1>2, <1>4 DEF Expired

\* It has expired a unit after e, until the clock has gone half round.
LEMMA ExpiredAfter ==
  ASSUME NEW i \in Addresses, NEW e \in Nat, NEW n \in Nat, now = n,
         e + Unit <= n, n <= e + Wrap \div 2,
         lease[i].expiry = (e % Wrap) \div Unit
  PROVE  Expired(i)
<1>1. PICK s \in 0 .. Unit - 1, q \in Int :
        lease[i].expiry * Unit + (Unit - 1) - now = ((e - n) + s) - Wrap * q
  BY RoundedUp
<1>2. Wrap \in Nat \ {0} /\ Wrap = 2 * (Wrap \div 2) /\ Wrap \div 2 \in Nat
  <2>1. PICK d \in Int : Wrap = (2 * Unit) * d
    BY DivMod, Sizes, Wrap \in Int, 2 * Unit \in Nat \ {0}
  <2>2. Wrap = 2 * (Unit * d) /\ Unit * d \in Int
    BY <2>1, Sizes
  <2> QED BY <2>2, Sizes
<1> DEFINE y == ((e - n) + s) + Wrap
<1>3. y \in 0 .. Wrap - 1 /\ ~(y < Wrap \div 2) /\ y - Wrap < 0
  BY <1>2, Sizes
<1>4. ((e - n) + s) - Wrap * q = y - Wrap * (q + 1)
  BY <1>2
<1> HIDE DEF y
<1>5. (((e - n) + s) - Wrap * q) % Wrap = y
  <2>1. (y - Wrap * (q + 1)) % Wrap = y
    BY <1>2, <1>3, ModUnique, q + 1 \in Int
  <2> QED BY <1>4, <2>1, Zenon
<1>6. Signed(lease[i].expiry * Unit + (Unit - 1) - now) = y - Wrap
  BY <1>1, <1>3, <1>5, Zenon DEF Signed
<1> QED
  BY <1>3, <1>6 DEF Expired

-----------------------------------------------------------------------------
(* The table.                                                              *)

\* A set of numbers that is not empty has a least element, and Min finds it.
LEMMA MinIsIn ==
  ASSUME NEW T, T \subseteq Nat, T # {}
  PROVE  Min(T) \in T
<1>1. PICK x \in T : \A y \in T : ~(<<y, x>> \in OpToRel(<, Nat))
  BY NatLessThanWellFounded, WFMin
<1>2. ASSUME NEW y \in T PROVE x <= y
  <2>1. <<y, x>> \in Nat \X Nat /\ <<y, x>> \notin OpToRel(<, Nat)
    BY <1>1
  <2> QED BY <2>1 DEF OpToRel
<1> QED BY <1>2 DEF Min

\* What is offered, and what may be taken for it, is an address.
LEMMA OfferedIsAddress ==
  ASSUME NEW c
  PROVE  FirstReusable(c) \subseteq Addresses /\ Offered(c) \subseteq Addresses
<1>1. Addresses \subseteq Nat
  BY Sizes DEF Addresses
<1>2. FirstReusable(c) \subseteq Addresses
  <2> DEFINE s == {i \in BeforeOwn(c) : Reusable(i)}
  <2>1. s \subseteq Addresses
    BY DEF BeforeOwn
  <2>2. s # {} => Min(s) \in s
    BY <1>1, <2>1, MinIsIn, Zenon
  <2> QED BY <2>1, <2>2, Zenon DEF FirstReusable
<1>3. Own(c) # {} => Min(Own(c)) \in Addresses
  <2>1. Own(c) \subseteq Addresses
    BY DEF Own
  <2> QED BY <1>1, <2>1, MinIsIn, Zenon
<1> QED BY <1>2, <1>3, Zenon DEF Offered

-----------------------------------------------------------------------------
(* The inductive invariant.                                                *)

States == {"idle", "selecting", "requesting", "bound"}
Messages == [type : {"discover", "request"}, mac : Clients,
             ip : Addresses \cup {NoAddress}, stale : BOOLEAN]
Sides == [state : States, ip : Addresses \cup {NoAddress}, time : Nat]
Entries == [mac : Clients \cup {NoMac}, expiry : Int]

\* Of the times: a lease asked for at t runs at n, one that ends at e is not
\* longer than a lease, it covers one asked for at t, and the table keeps its end.
Runs(t, n) == t <= n /\ n < t + LeaseTime
NoLonger(e, n) == e <= n + LeaseTime
Covers(e, t) == t + LeaseTime <= e
Keeps(l, e) == l.mac # NoMac => l.expiry = (e % Wrap) \div Unit

Types ==
  /\ now \in Nat /\ network \subseteq Messages
  /\ lease \in [Addresses -> Entries] /\ ends \in [Addresses -> Nat]
  /\ client \in [Clients -> Sides]

\* The table has the ends of the leases, which are near.
TableIsRight == \A i \in Addresses : NoLonger(ends[i], now) /\ Keeps(lease[i], ends[i])

\* A client heeds its lease.
LeaseRuns ==
  \A c \in Clients : client[c].state \in {"requesting", "bound"} => Runs(client[c].time, now)

\* What a client holds, the table has for it and no shorter.
BoundIsLeased ==
  \A c \in Clients : client[c].state = "bound" =>
    /\ client[c].ip \in Addresses
    /\ lease[client[c].ip].mac = c /\ Covers(ends[client[c].ip], client[c].time)

\* The answer that a client waits for is to the request it made.
AnswersLastRequest ==
  \A m \in network :
    m.type = "request" /\ ~m.stale /\ client[m.mac].state = "requesting"
    => m.ip = client[m.mac].ip

DhcpInv == Types /\ TableIsRight /\ LeaseRuns /\ BoundIsLeased /\ AnswersLastRequest

\* A lease that runs for a client is not expired in the table.
LEMMA HeldIsNotExpired ==
  ASSUME DhcpInv, NEW c \in Clients, client[c].state = "bound"
  PROVE  ~Expired(client[c].ip)
<1> DEFINE i == client[c].ip
           e == ends[i]
           t == client[c].time
<1>1. i \in Addresses /\ e \in Nat /\ t \in Nat /\ now \in Nat
  BY DEF DhcpInv, Types, BoundIsLeased, Sides
<1>2. Runs(t, now) /\ NoLonger(e, now) /\ Covers(e, t)
  BY <1>1 DEF DhcpInv, LeaseRuns, BoundIsLeased, TableIsRight
<1>3. lease[i].expiry = (e % Wrap) \div Unit
  <2>1. lease[i].mac = c
    BY DEF DhcpInv, BoundIsLeased
  <2> QED BY <1>1, <2>1, DhcpAssumption DEF DhcpInv, TableIsRight, Keeps
<1>4. now < e /\ e <= now + LeaseTime
  BY <1>1, <1>2, Sizes DEF Runs, NoLonger, Covers
<1> HIDE DEF i, e, t
<1>5. ~Expired(i)
  BY <1>1, <1>3, <1>4, NotExpiredBefore
<1> QED BY <1>5 DEF i

-----------------------------------------------------------------------------
(* It is inductive.                                                        *)

\* The program starts with an empty table and idle clients.
LEMMA DhcpInit == Init => DhcpInv
<1> SUFFICES ASSUME Init PROVE DhcpInv
  OBVIOUS
<1>1. Types
  BY Sizes DEF Init, Types, Idle, Sides, States, Entries
<1>2. TableIsRight
  BY Sizes DEF Init, TableIsRight, NoLonger, Keeps
<1>3. LeaseRuns /\ BoundIsLeased /\ AnswersLastRequest
  BY DEF Init, LeaseRuns, BoundIsLeased, AnswersLastRequest, Idle
<1> QED BY <1>1, <1>2, <1>3 DEF DhcpInv

\* Sending adds the message and makes those of the same client stale.
LEMMA SendingIs ==
  ASSUME NEW net, net \subseteq Messages, NEW m \in Messages
  PROVE  /\ Sending(net, m) \subseteq Messages
         /\ \A n \in Sending(net, m) :
              \/ n = m
              \/ n.mac = m.mac /\ n.stale
              \/ n.mac # m.mac /\ n \in net
<1> SUFFICES ASSUME NEW n \in Sending(net, m), n # m
             PROVE  /\ n \in Messages
                    /\ (n.mac = m.mac /\ n.stale) \/ (n.mac # m.mac /\ n \in net)
  OBVIOUS
<1>1. PICK o \in net : n = [o EXCEPT !.stale = o.stale \/ o.mac = m.mac]
  BY DEF Sending
<1>2. o \in Messages /\ o.stale \in BOOLEAN
  BY DEF Messages
<1>3. CASE o.mac = m.mac
  <2>1. n = [o EXCEPT !.stale = TRUE]
    BY <1>1, <1>3
  <2> QED BY <1>2, <1>3, <2>1 DEF Messages
<1>4. CASE o.mac # m.mac
  <2>1. n = o
    BY <1>1, <1>2, <1>4 DEF Messages
  <2> QED BY <1>2, <1>4, <2>1
<1> QED BY <1>3, <1>4

\* What stays on the way was there.
LEMMA RestIs ==
  ASSUME NEW m, NEW rest \in Rest(m), network \subseteq Messages
  PROVE  rest \subseteq network /\ rest \subseteq Messages
  BY DEF Rest

\* DISCOVER: only an expired lease is taken away, and nobody holds it.
LEMMA DiscoverKeeps ==
  ASSUME DhcpInv, NEW m \in network, Discover(m)
  PROVE  DhcpInv'
<1>1. m \in Messages /\ m.mac \in Clients /\ Types /\ now' = now /\ ends' = ends /\ now \in Nat
  BY DEF DhcpInv, Types, Messages, Discover
<1>2. \A i \in Addresses : lease'[i] \in Entries /\ lease'[i].expiry = lease[i].expiry
                            /\ lease'[i].mac \in {lease[i].mac, NoMac}
                            /\ (~Expired(i) => lease'[i] = lease[i])
  BY <1>1 DEF Discover, Types, Entries
<1>3. lease' \in [Addresses -> Entries]
  BY <1>2 DEF Discover
<1>4. TableIsRight'
  <2> SUFFICES ASSUME NEW i \in Addresses PROVE NoLonger(ends'[i], now') /\ Keeps(lease'[i], ends'[i])
    BY DEF TableIsRight
  <2>1. NoLonger(ends[i], now) /\ Keeps(lease[i], ends[i])
    BY DEF DhcpInv, TableIsRight
  <2>2. Keeps(lease'[i], ends[i])
    BY <1>2, <2>1 DEF Keeps
  <2> QED BY <1>1, <2>1, <2>2
<1>5. ASSUME NEW c \in Clients, client[c].state = "bound"
      PROVE  lease'[client[c].ip] = lease[client[c].ip]
  BY <1>2, <1>5, HeldIsNotExpired DEF DhcpInv, BoundIsLeased
<1>6. CASE network' \in Rest(m) /\ UNCHANGED client
  <2>1. network' \subseteq network
    BY <1>1, <1>6, RestIs DEF Types
  <2>2. Types'
    BY <1>1, <1>3, <1>6, <2>1 DEF Types
  <2>3. LeaseRuns' /\ AnswersLastRequest'
    BY <1>1, <1>6, <2>1 DEF DhcpInv, LeaseRuns, AnswersLastRequest
  <2>4. BoundIsLeased'
    BY <1>1, <1>5, <1>6 DEF DhcpInv, BoundIsLeased
  <2> QED BY <1>4, <2>2, <2>3, <2>4 DEF DhcpInv
<1>7. ASSUME NEW ip \in Offered(m.mac), NEW rest \in Rest(m),
             client' = [client EXCEPT ![m.mac] = [state |-> "requesting", ip |-> ip, time |-> now]],
             network' = Sending(rest, Message(m.mac, "request", ip))
      PROVE  DhcpInv'
  <2> DEFINE r == Message(m.mac, "request", ip)
  <2>1. r \in Messages /\ r.mac = m.mac /\ r.ip = ip /\ ip \in Addresses
    BY <1>1, OfferedIsAddress DEF Message, Messages
  <2>2. rest \subseteq network /\ rest \subseteq Messages
    BY <1>1, RestIs DEF Types
  <2> HIDE DEF r
  <2>3. /\ network' \subseteq Messages
        /\ \A n \in network' :
             \/ n = r
             \/ n.mac = m.mac /\ n.stale
             \/ n.mac # m.mac /\ n \in network
    BY <1>7, <2>1, <2>2, SendingIs DEF r
  <2>4. Types'
    BY <1>1, <1>3, <1>7, <2>1, <2>3 DEF Types, Sides, States
  <2>5. /\ client'[m.mac] = [state |-> "requesting", ip |-> ip, time |-> now]
        /\ \A c \in Clients \ {m.mac} : client'[c] = client[c]
    BY <1>1, <1>7 DEF Types
  <2>6. LeaseRuns'
    <3>1. Runs(now, now)
      BY <1>1, Sizes DEF Runs
    <3> QED BY <1>1, <2>5, <3>1 DEF DhcpInv, LeaseRuns
  <2>7. BoundIsLeased'
    BY <1>1, <1>5, <2>5 DEF DhcpInv, BoundIsLeased
  <2>8. AnswersLastRequest'
    BY <1>1, <2>1, <2>3, <2>5 DEF DhcpInv, AnswersLastRequest, Types, Messages
  <2> QED BY <1>4, <2>4, <2>6, <2>7, <2>8 DEF DhcpInv
<1> QED BY <1>6, <1>7 DEF Discover

\* REQUEST: the address was nobody's or the client's own.
LEMMA RequestKeeps ==
  ASSUME DhcpInv, NEW m \in network, Request(m)
  PROVE  DhcpInv'
<1> DEFINE e == now + LeaseTime
           l == [mac |-> m.mac, expiry |-> (e % Wrap) \div Unit]
<1>1. /\ m \in Messages /\ m.mac \in Clients /\ m.ip \in Addresses /\ m.type = "request"
      /\ Types /\ now' = now /\ now \in Nat
      /\ lease[m.ip].mac \in {m.mac, NoMac}
  BY DEF DhcpInv, Types, Messages, Request, Grants
<1>2. e \in Nat /\ l \in Entries /\ NoLonger(e, now) /\ Keeps(l, e) /\ l.mac = m.mac
  <2>1. e \in Nat /\ Wrap \in Nat \ {0} /\ Unit \in Nat \ {0}
    BY <1>1, Sizes
  <2>2. \A x, w, u : x \in Nat /\ w \in Nat \ {0} /\ u \in Nat \ {0} => (x % w) \div u \in Int
    OBVIOUS
  <2>3. (e % Wrap) \div Unit \in Int
    BY <2>1, <2>2
  <2>4. NoLonger(e, now)
    BY <1>1, Sizes DEF NoLonger
  <2> HIDE DEF e
  <2> QED BY <1>1, <2>1, <2>3, <2>4 DEF Entries, Keeps
<1>3. lease' = [lease EXCEPT ![m.ip] = l] /\ ends' = [ends EXCEPT ![m.ip] = e]
  BY DEF Request
<1>4. network' \subseteq network
  BY <1>1, RestIs DEF Request, Types
<1> HIDE DEF l, e
<1>5. /\ lease'[m.ip] = l /\ ends'[m.ip] = e
      /\ \A i \in Addresses \ {m.ip} : lease'[i] = lease[i] /\ ends'[i] = ends[i]
  BY <1>1, <1>3 DEF Types
<1>6. lease' \in [Addresses -> Entries] /\ ends' \in [Addresses -> Nat]
  BY <1>1, <1>2, <1>3 DEF Types
<1>7. TableIsRight'
  BY <1>1, <1>2, <1>5 DEF DhcpInv, TableIsRight
<1>8. ASSUME NEW c \in Clients, client[c].ip \in Addresses,
             client[c].state = "bound" \/ (client[c].state = "requesting" /\ c = m.mac /\ client[c].ip = m.ip)
      PROVE  lease'[client[c].ip].mac = c /\ Covers(ends'[client[c].ip], client[c].time)
  <2>1. CASE client[c].ip = m.ip
    <3>1. c = m.mac
      BY <1>1, <1>8, <2>1, DhcpAssumption DEF DhcpInv, BoundIsLeased
    <3>2. Runs(client[c].time, now) /\ client[c].time \in Nat
      BY <1>8 DEF DhcpInv, LeaseRuns, Types, Sides
    <3>3. Covers(e, client[c].time)
      BY <1>1, <3>2, Sizes DEF Runs, Covers, e
    <3> QED BY <1>2, <1>5, <2>1, <3>1, <3>3
  <2>2. CASE client[c].ip # m.ip
    BY <1>5, <1>8, <2>2 DEF DhcpInv, BoundIsLeased
  <2> QED BY <2>1, <2>2
<1>9. CASE UNCHANGED client
  <2>1. Types' /\ LeaseRuns' /\ AnswersLastRequest'
    BY <1>1, <1>4, <1>6, <1>9 DEF DhcpInv, Types, LeaseRuns, AnswersLastRequest
  <2>2. BoundIsLeased'
    BY <1>8, <1>9 DEF DhcpInv, BoundIsLeased
  <2> QED BY <1>7, <2>1, <2>2 DEF DhcpInv
<1>10. CASE Heard(m, "requesting") /\ client' = [client EXCEPT ![m.mac].state = "bound"]
  <2>1. client[m.mac].state = "requesting" /\ client[m.mac].ip = m.ip
    BY <1>1, <1>10 DEF Heard, DhcpInv, AnswersLastRequest
  <2>2. /\ client'[m.mac] = [client[m.mac] EXCEPT !.state = "bound"]
        /\ \A c \in Clients \ {m.mac} : client'[c] = client[c]
    BY <1>1, <1>10 DEF Types
  <2>3. /\ client'[m.mac] \in Sides /\ client'[m.mac].state = "bound"
        /\ client'[m.mac].ip = m.ip /\ client'[m.mac].time = client[m.mac].time
    BY <1>1, <2>1, <2>2 DEF Types, Sides, States
  <2>4. client' \in [Clients -> Sides]
    BY <1>1, <1>10, <2>3 DEF Types
  <2>5. Types'
    BY <1>1, <1>4, <1>6, <2>4 DEF Types
  <2>6. LeaseRuns'
    BY <1>1, <2>1, <2>2, <2>3 DEF DhcpInv, LeaseRuns
  <2>7. AnswersLastRequest'
    BY <1>4, <2>2, <2>3, <1>1 DEF DhcpInv, AnswersLastRequest, Types, Messages
  <2>8. BoundIsLeased'
    <3> SUFFICES ASSUME NEW c \in Clients, client'[c].state = "bound"
                 PROVE  /\ client'[c].ip \in Addresses /\ lease'[client'[c].ip].mac = c
                        /\ Covers(ends'[client'[c].ip], client'[c].time)
      BY DEF BoundIsLeased
    <3>1. CASE c = m.mac
      BY <1>1, <1>8, <2>1, <2>3, <3>1
    <3>2. CASE c # m.mac
      BY <1>8, <2>2, <3>2 DEF DhcpInv, BoundIsLeased
    <3> QED BY <3>1, <3>2
  <2> QED BY <1>7, <2>5, <2>6, <2>7, <2>8 DEF DhcpInv
<1> QED BY <1>9, <1>10 DEF Request

\* A message that is ignored, lost or gone leaves the rest as it is.
LEMMA NetworkShrinks ==
  ASSUME DhcpInv, network' \subseteq network, UNCHANGED <<now, lease, client, ends>>
  PROVE  DhcpInv'
  BY DEF DhcpInv, Types, TableIsRight, LeaseRuns, BoundIsLeased, AnswersLastRequest

\* A client sends: its request, if it waits for the answer, is the last.
LEMMA SendKeeps ==
  ASSUME DhcpInv, NEW c \in Clients, NEW type \in {"discover", "request"},
         NEW ip \in Addresses \cup {NoAddress}, Send(c, type, ip),
         NEW s \in Sides, client' = [client EXCEPT ![c] = s],
         s.state = "bound" => s = client[c],
         s.state = "requesting" => s.ip = ip /\ s.time = now
  PROVE  DhcpInv'
<1> DEFINE m == Message(c, type, ip)
<1>1. m \in Messages /\ m.mac = c /\ m.ip = ip
  BY DEF Message, Messages
<1> HIDE DEF m
<1>2. Types /\ network \subseteq Messages /\ now \in Nat
  BY DEF DhcpInv, Types
<1>3. /\ network' \subseteq Messages
      /\ \A n \in network' :
           \/ n = m
           \/ n.mac = c /\ n.stale
           \/ n.mac # c /\ n \in network
  BY <1>1, <1>2, SendingIs DEF Send, m
<1>4. UNCHANGED <<now, lease, ends>>
  BY DEF Send
<1>5. client'[c] = s /\ \A d \in Clients \ {c} : client'[d] = client[d]
  BY <1>2 DEF Types
<1>6. Types'
  BY <1>2, <1>3, <1>4 DEF Types
<1>7. TableIsRight'
  BY <1>4 DEF DhcpInv, TableIsRight
<1>8. LeaseRuns'
  <2>1. Runs(now, now)
    BY <1>2, Sizes DEF Runs
  <2> QED BY <1>4, <1>5, <2>1 DEF DhcpInv, LeaseRuns
<1>9. BoundIsLeased'
  BY <1>4, <1>5 DEF DhcpInv, BoundIsLeased
<1>10. AnswersLastRequest'
  BY <1>1, <1>2, <1>3, <1>5 DEF DhcpInv, AnswersLastRequest, Types, Messages
<1> QED BY <1>6, <1>7, <1>8, <1>9, <1>10 DEF DhcpInv

\* A client may go idle whenever it likes.
LEMMA IdleIs == Idle \in Sides /\ Idle.state = "idle"
  BY DEF Idle, Sides, States

\* Time passes: a client gives its address up when its lease ends.
LEMMA TickKeeps ==
  ASSUME DhcpInv, Tick
  PROVE  DhcpInv'
<1>1. Types /\ now \in Nat /\ now' = now + 1 /\ UNCHANGED <<lease, network, ends>>
  BY DEF DhcpInv, Types, Tick
<1>2. ASSUME NEW c \in Clients
      PROVE  /\ client'[c] \in {Idle, client[c]}
             /\ client'[c].state \in {"requesting", "bound"} =>
                  client'[c] = client[c] /\ ~(client[c].time + LeaseTime <= now')
  BY <1>2, IdleIs DEF Tick
<1>3. Types'
  <2>1. client' \in [Clients -> Sides]
    BY <1>1, <1>2, IdleIs DEF Tick, Types
  <2> QED BY <1>1, <2>1 DEF Types
<1>4. TableIsRight'
  <2> SUFFICES ASSUME NEW i \in Addresses PROVE NoLonger(ends[i], now') /\ Keeps(lease[i], ends[i])
    BY <1>1 DEF TableIsRight
  <2>1. NoLonger(ends[i], now) /\ Keeps(lease[i], ends[i]) /\ ends[i] \in Nat
    BY <1>1 DEF DhcpInv, TableIsRight, Types
  <2>2. NoLonger(ends[i], now + 1)
    BY <1>1, <2>1, Sizes DEF NoLonger
  <2> QED BY <1>1, <2>1, <2>2
<1>5. LeaseRuns'
  <2> SUFFICES ASSUME NEW c \in Clients, client'[c].state \in {"requesting", "bound"}
               PROVE  Runs(client'[c].time, now')
    BY DEF LeaseRuns
  <2> DEFINE t == client[c].time
  <2>1. client'[c] = client[c] /\ ~(t + LeaseTime <= now + 1)
    BY <1>1, <1>2
  <2>2. Runs(t, now) /\ t \in Nat
    BY <1>1, <2>1 DEF DhcpInv, LeaseRuns, Types, Sides
  <2> HIDE DEF t
  <2>3. Runs(t, now + 1)
    BY <1>1, <2>1, <2>2, Sizes DEF Runs
  <2> QED BY <1>1, <2>1, <2>3 DEF t
<1>6. BoundIsLeased' /\ AnswersLastRequest'
  <2>1. \A c \in Clients : client'[c].state \in {"requesting", "bound"} => client'[c] = client[c]
    BY <1>2
  <2>2. \A m \in network : m.mac \in Clients
    BY <1>1 DEF Types, Messages
  <2> QED BY <1>1, <2>1, <2>2 DEF DhcpInv, BoundIsLeased, AnswersLastRequest
<1> QED BY <1>3, <1>4, <1>5, <1>6 DEF DhcpInv

\* The access point starts again with an empty table.
LEMMA RebootKeeps == Reboot => DhcpInv'
<1> SUFFICES ASSUME Reboot PROVE DhcpInv'
  OBVIOUS
<1>1. Types'
  BY Sizes DEF Reboot, Types, Idle, Sides, States, Entries
<1>2. TableIsRight'
  <2>1. NoLonger(0, Start)
    BY Sizes DEF NoLonger
  <2>2. \A x : Keeps([mac |-> NoMac, expiry |-> 0], x)
    BY DEF Keeps
  <2> QED BY <2>1, <2>2 DEF Reboot, TableIsRight
<1>3. LeaseRuns' /\ BoundIsLeased' /\ AnswersLastRequest'
  BY DEF Reboot, LeaseRuns, BoundIsLeased, AnswersLastRequest, Idle
<1> QED BY <1>1, <1>2, <1>3 DEF DhcpInv

\* Every step keeps the invariant.
LEMMA DhcpStep == DhcpInv /\ [Next]_vars => DhcpInv'
<1> SUFFICES ASSUME DhcpInv, [Next]_vars PROVE DhcpInv'
  OBVIOUS
<1>0. Types /\ \A c \in Clients : client[c] \in Sides
  BY DEF DhcpInv, Types
<1>1. CASE UNCHANGED vars
  BY <1>1, NetworkShrinks DEF vars
<1>2. ASSUME NEW m \in network, Discover(m) \/ Request(m) \/ Ignored(m) \/ Lose(m)
      PROVE  DhcpInv'
  <2>1. CASE Ignored(m) \/ Lose(m)
    <3>1. network' \subseteq network /\ UNCHANGED <<now, lease, client, ends>>
      BY <2>1 DEF Ignored, Lose, Rest
    <3> QED BY <3>1, NetworkShrinks
  <2> QED BY <1>2, <2>1, DiscoverKeeps, RequestKeeps
<1>3. ASSUME NEW c \in Clients, ClientDiscovers(c) PROVE DhcpInv'
  <2> DEFINE s == [Idle EXCEPT !.state = "selecting"]
  <2>1. s \in Sides /\ s.state = "selecting"
    BY DEF Idle, Sides, States
  <2>2. client' = [client EXCEPT ![c] = s] /\ Send(c, "discover", NoAddress)
    BY <1>3 DEF ClientDiscovers
  <2> HIDE DEF s
  <2> QED BY <2>1, <2>2, SendKeeps
<1>4. ASSUME NEW c \in Clients, NEW ip \in Addresses \cup {NoAddress}, ClientReboots(c, ip)
      PROVE  DhcpInv'
  <2> DEFINE s == [state |-> "requesting", ip |-> ip, time |-> now]
  <2>1. s \in Sides /\ s.state = "requesting" /\ s.ip = ip /\ s.time = now
    BY <1>0 DEF Sides, States, Types
  <2>2. client' = [client EXCEPT ![c] = s] /\ Send(c, "request", ip)
    BY <1>4 DEF ClientReboots
  <2> HIDE DEF s
  <2> QED BY <2>1, <2>2, SendKeeps
<1>5. ASSUME NEW c \in Clients, ClientRenews(c) PROVE DhcpInv'
  <2>1. client' = [client EXCEPT ![c] = client[c]]
    BY <1>0, <1>5 DEF ClientRenews, Types
  <2>2. Send(c, "request", NoAddress) /\ client[c].state = "bound"
    BY <1>5 DEF ClientRenews
  <2> QED BY <1>0, <2>1, <2>2, SendKeeps
<1>6. ASSUME NEW c \in Clients, ClientLeaves(c) PROVE DhcpInv'
  <2>1. /\ UNCHANGED <<now, lease, network, ends>> /\ client' \in [Clients -> Sides]
        /\ client'[c] = Idle /\ \A d \in Clients \ {c} : client'[d] = client[d]
    BY <1>0, <1>6, IdleIs DEF ClientLeaves, Types
  <2>2. Types'
    BY <1>0, <2>1 DEF Types
  <2>3. TableIsRight' /\ LeaseRuns' /\ BoundIsLeased'
    BY <2>1, IdleIs DEF DhcpInv, TableIsRight, LeaseRuns, BoundIsLeased
  <2>4. AnswersLastRequest'
    BY <1>0, <2>1, IdleIs DEF DhcpInv, AnswersLastRequest, Types, Messages
  <2> QED BY <2>2, <2>3, <2>4 DEF DhcpInv
<1> QED
  BY <1>1, <1>2, <1>3, <1>4, <1>5, <1>6, TickKeeps, RebootKeeps DEF Next

-----------------------------------------------------------------------------
(* What follows from it.                                                   *)

\* The invariant holds always.
LEMMA DhcpAlways == Spec => []DhcpInv
  BY DhcpInit, DhcpStep, PTL DEF Spec

\* While the lease that one client was given still runs, no other client has the
\* same address, for any numbers of clients and of addresses, times of the lease
\* and points at which the clock wraps (dhcp_server_process).
THEOREM AlwaysNoSharedAddress == Spec => []NoSharedAddress
<1>1. DhcpInv => NoSharedAddress
  BY DEF DhcpInv, BoundIsLeased, NoSharedAddress
<1> QED BY <1>1, DhcpAlways, PTL

\* A client is left without an offer only when every address is leased to another,
\* by a lease that runs, ended less than a unit ago or ended so long ago that the
\* signed comparison of dhcp_server_process takes it for running.
THEOREM AlwaysOfferUnlessFull == Spec => []OfferUnlessFull
<1>1. ASSUME DhcpInv, NEW c \in Clients, Offered(c) = {}, NEW i \in Addresses
      PROVE  /\ lease[i].mac \notin {c, NoMac}
             /\ now < ends[i] + Unit \/ now > ends[i] + Wrap \div 2
  <2>1. Own(c) = {}
    BY <1>1, Zenon DEF Offered
  <2>2. {j \in BeforeOwn(c) : Reusable(j)} = {}
    BY <1>1, <2>1, Zenon DEF Offered, FirstReusable
  <2>3. lease[i].mac # c /\ i \in BeforeOwn(c)
    BY <2>1 DEF Own, BeforeOwn
  <2>4. lease[i].mac # NoMac /\ ~Expired(i)
    BY <2>2, <2>3 DEF Reusable
  <2>5. /\ ends[i] \in Nat /\ now \in Nat /\ Wrap \div 2 \in Int /\ Unit \in Nat
        /\ lease[i].expiry = (ends[i] % Wrap) \div Unit
    BY <1>1, <2>4, Sizes DEF DhcpInv, Types, TableIsRight, Keeps
  <2>6. ~(ends[i] + Unit <= now /\ now <= ends[i] + Wrap \div 2)
    BY <2>4, <2>5, ExpiredAfter
  <2>7. now < ends[i] + Unit \/ now > ends[i] + Wrap \div 2
    BY <2>5, <2>6
  <2> QED BY <2>3, <2>4, <2>7
<1>2. DhcpInv => OfferUnlessFull
  BY <1>1 DEF OfferUnlessFull
<1> QED BY <1>2, DhcpAlways, PTL
=============================================================================
