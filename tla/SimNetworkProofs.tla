-------------------------- MODULE SimNetworkProofs --------------------------
(***************************************************************************)
(* What the network guarantees for any hosts, servers, connects, endpoints *)
(* and faults.  The invariant has a part for the links, one for servers    *)
(* and connects, and one for datagrams; no part needs another one, except  *)
(* that delays are taken from the links.                                   *)
(***************************************************************************)
EXTENDS SimNetwork, SequenceTheorems, TLAPS

Kinds == {"link", "out", "in"}

\* the overrides are ranges of times
LinksInv ==
  /\ LinksOK
  /\ DOMAIN shape = Kinds /\ shape = [of \in Kinds |-> shape[of]]
  /\ \A k \in Kinds : \A x \in DOMAIN shape[k] : shape[k][x] \in Nat \X Nat

States == {"idle", "waiting", "stashed", "open", "refused", "unknown", "cancelled"}
ConnType == [at : States, server : Servers \cup {NoServer}, woken : BOOLEAN]

\* a server that is bound serves on a host that is up, or was created since that lost power
ListenersInv ==
  /\ ListenersOK
  /\ conn \in [Connects -> ConnType]
  /\ \A a \in DOMAIN listeners : SrvHost[listeners[a]] \in crashed => listeners[a] \in posthumous

Flows == Addrs \X Addrs
Copy  == [number : Nat, nth : Nat, held : BOOLEAN, flow : Flows, to : Endpoints, arrival : Int]
Item  == [number : Nat, held : BOOLEAN, flow : Flows]

DatagramsInv ==
  /\ DatagramsOK
  /\ now \in Nat /\ sent \in Nat
  /\ front \in [Flows -> Int]
  /\ flight \subseteq Copy
  /\ inbox \in [Endpoints -> Seq(Item)]

TypeInv == LinksInv /\ ListenersInv /\ DatagramsInv

----------------------------------------------------------------------------
(* Links.                                                                  *)

\* Every delay that a datagram can draw is a time.
LEMMA DelaysAreTimes ==
  ASSUME LinksInv, NEW a, NEW b, NEW d \in DelaysOn(a, b)
  PROVE  d \in Nat
<1>1. Latency(a, b) \in Nat \X Nat
  BY LinksAssumption DEF LinksInv, Latency, Kinds
<1>. QED BY <1>1 DEF DelaysOn

LEMMA LinksStart == LinksInit => LinksInv
BY DEF LinksInit, LinksInv, LinksOK, Kinds, Nowhere

\* The links are well formed through every fault.
LEMMA LinksStep ==
  ASSUME LinksInv,
         BlockLinks \/ UnblockLinks \/ ShapeLinks \/ (\E h \in Hosts : PowerOff(h) \/ PowerOn(h))
           \/ UNCHANGED linkVars
  PROVE  LinksInv'
<1>1. CASE BlockLinks
  BY <1>1, LinksAssumption DEF BlockLinks, LinksInv, LinksOK
<1>2. CASE UnblockLinks
  BY <1>2 DEF UnblockLinks, LinksInv, LinksOK
<1>3. CASE ShapeLinks
  <2>1. PICK s \in Shapes : shape' = [shape EXCEPT ![s.of] = Put(@, s.at, s.range)]
    BY <1>3 DEF ShapeLinks
  <2>2. s.of \in Kinds /\ s.range \in Nat \X Nat
    BY LinksAssumption DEF Kinds
  <2>3. /\ DOMAIN shape'[s.of] = {s.at} \cup DOMAIN shape[s.of]
        /\ \A x \in DOMAIN shape'[s.of] :
             shape'[s.of][x] = s.range \/ (x \in DOMAIN shape[s.of] /\ shape'[s.of][x] = shape[s.of][x])
    BY <2>1, <2>2 DEF LinksInv, Put
  <2>4. \A k \in Kinds \ {s.of} : shape'[k] = shape[k]
    BY <2>1, <2>2 DEF LinksInv
  <2>5. DOMAIN shape' = Kinds /\ shape' = [of \in Kinds |-> shape'[of]]
    BY <2>1, <2>2 DEF LinksInv
  <2>6. \A k \in Kinds : \A x \in DOMAIN shape'[k] : shape'[k][x] \in Nat \X Nat
    BY <2>2, <2>3, <2>4 DEF LinksInv
  <2>7. LinksOK'
    BY <1>3, <2>2, <2>3, <2>4, LinksAssumption DEF ShapeLinks, LinksInv, LinksOK, Kinds
  <2>. QED BY <2>5, <2>6, <2>7 DEF LinksInv
<1>4. CASE \E h \in Hosts : PowerOff(h) \/ PowerOn(h)
  BY <1>4 DEF PowerOff, PowerOn, LinksInv, LinksOK
<1>5. CASE UNCHANGED linkVars
  BY <1>5 DEF linkVars, LinksInv, LinksOK
<1>. QED BY <1>1, <1>2, <1>3, <1>4, <1>5

----------------------------------------------------------------------------
(* Servers and connects.                                                   *)

LEMMA ListenersStart == LinksInit /\ ListenersInit => ListenersInv
<1>. SUFFICES ASSUME LinksInit, ListenersInit PROVE ListenersInv
  OBVIOUS
<1>1. DOMAIN listeners = {} /\ closed = {} /\ created = {} /\ posthumous = {}
  BY DEF ListenersInit
<1>2. conn \in [Connects -> ConnType] /\ \A c \in Connects : conn[c].at = "idle"
  BY DEF ListenersInit, Idle, ConnType, States
<1>. QED BY <1>1, <1>2 DEF ListenersInv, ListenersOK

\* An action that moves one connect to a server that was created, or to none.
Moves(c) ==
  \/ \E v \in created : \E at \in {"waiting", "stashed", "open"} : Becomes(c, at, v)
  \/ \E at \in {"refused", "unknown", "cancelled"} : Becomes(c, at, NoServer)

LEMMA ConnectMoves ==
  ASSUME ListenersInv, NEW c \in Connects, Moves(c),
         UNCHANGED <<listeners, closed, created, posthumous, names, crashed>>
  PROVE  ListenersInv'
<1>1. PICK r \in ConnType :
        /\ conn' = [conn EXCEPT ![c] = r]
        /\ r.at \in {"waiting", "stashed", "open"} => r.server \in created
  <2>1. CASE \E v \in created : \E at \in {"waiting", "stashed", "open"} : Becomes(c, at, v)
    <3>1. PICK v \in created, at \in {"waiting", "stashed", "open"} : Becomes(c, at, v)
      BY <2>1
    <3>2. [at |-> at, server |-> v, woken |-> FALSE] \in ConnType
      BY DEF ListenersInv, ListenersOK, ConnType, States
    <3>. QED BY <3>1, <3>2 DEF Becomes
  <2>2. CASE \E at \in {"refused", "unknown", "cancelled"} : Becomes(c, at, NoServer)
    <3>1. PICK at \in {"refused", "unknown", "cancelled"} : Becomes(c, at, NoServer)
      BY <2>2
    <3>2. [at |-> at, server |-> NoServer, woken |-> FALSE] \in ConnType
      BY DEF ConnType, States
    <3>. QED BY <3>1, <3>2 DEF Becomes
  <2>. QED BY <2>1, <2>2 DEF Moves
<1>2. /\ conn' \in [Connects -> ConnType] /\ conn'[c] = r
      /\ \A d \in Connects \ {c} : conn'[d] = conn[d]
  BY <1>1 DEF ListenersInv
<1>. QED BY <1>1, <1>2 DEF ListenersInv, ListenersOK, ConnType, States

\* Where a lookup leads.
LEMMA ReachMoves ==
  ASSUME ListenersInv, NEW c \in Connects, Reach(c),
         UNCHANGED <<listeners, closed, created, posthumous, names, crashed>>
  PROVE  ListenersInv'
<1>. DEFINE v == Bound(CliAddr[c])
<1>1. v \in created \cup {NoServer}
  BY DEF ListenersInv, ListenersOK, Bound
<1>2. CASE v \in closed \cup {NoServer}
  <2>1. Moves(c)
    BY <1>2 DEF Reach, Moves
  <2>. QED BY <2>1, ConnectMoves
<1>3. CASE v \notin closed \cup {NoServer}
  <2>1. Moves(c)
    BY <1>1, <1>3 DEF Reach, Establish, Moves
  <2>. QED BY <2>1, ConnectMoves
<1>. QED BY <1>2, <1>3

LEMMA ConnectStep ==
  ASSUME ListenersInv, NEW c \in Connects, UNCHANGED crashed,
         Connect(c) \/ Resume(c) \/ UseSocket(c) \/ CancelConnect(c)
  PROVE  ListenersInv'
<1>. UNCHANGED <<listeners, closed, created, posthumous, names>>
  BY DEF Connect, Resume, UseSocket, CancelConnect
<1>1. CASE Connect(c)
  <2>. DEFINE v == Bound(CliAddr[c])
  <2>1. CASE ~Resolves(CliAddr[c])
    <3>1. Moves(c)
      BY <1>1, <2>1 DEF Connect, Moves
    <3>. QED BY <3>1, ConnectMoves
  <2>2. CASE Resolves(CliAddr[c]) /\ v # NoServer /\ Severed(CliHost[c], SrvHost[v])
    <3>1. v \in created
      BY <2>2 DEF ListenersInv, ListenersOK, Bound
    <3>2. Moves(c)
      BY <1>1, <2>2, <3>1 DEF Connect, Wait, Moves
    <3>. QED BY <3>2, ConnectMoves
  <2>3. CASE Resolves(CliAddr[c]) /\ ~(v # NoServer /\ Severed(CliHost[c], SrvHost[v]))
    <3>1. Reach(c)
      BY <1>1, <2>3 DEF Connect
    <3>. QED BY <3>1, ReachMoves
  <2>. QED BY <2>1, <2>2, <2>3
<1>2. CASE Resume(c)
  <2>1. CASE Severed(CliHost[c], SrvHost[conn[c].server])
    <3>1. conn[c].server \in created
      BY <1>2 DEF Resume, ListenersInv, ListenersOK
    <3>2. Moves(c)
      BY <1>2, <2>1, <3>1 DEF Resume, Wait, Moves
    <3>. QED BY <3>2, ConnectMoves
  <2>2. CASE ~Severed(CliHost[c], SrvHost[conn[c].server])
    <3>1. Reach(c)
      BY <1>2, <2>2 DEF Resume
    <3>. QED BY <3>1, ReachMoves
  <2>. QED BY <2>1, <2>2
<1>3. CASE UseSocket(c)
  <2>1. conn[c].server \in created
    BY <1>3 DEF UseSocket, ListenersInv, ListenersOK
  <2>2. Moves(c)
    BY <1>3, <2>1 DEF UseSocket, Establish, Moves
  <2>. QED BY <2>2, ConnectMoves
<1>4. CASE CancelConnect(c)
  <2>1. Moves(c)
    BY <1>4 DEF CancelConnect, Moves
  <2>. QED BY <2>1, ConnectMoves
<1>. QED BY <1>1, <1>2, <1>3, <1>4

LEMMA ServerStep ==
  ASSUME ListenersInv, NEW v \in Servers, UNCHANGED crashed, CreateServer(v) \/ CloseServer(v)
  PROVE  ListenersInv'
<1>1. CASE CreateServer(v)
  <2>1. /\ DOMAIN listeners' = DOMAIN listeners \cup {SrvAddr[v]}
        /\ listeners'[SrvAddr[v]] = v
        /\ \A a \in DOMAIN listeners \ {SrvAddr[v]} : listeners'[a] = listeners[a]
    BY <1>1 DEF CreateServer, Put
  <2>. QED BY <1>1, <2>1 DEF CreateServer, ListenersInv, ListenersOK
<1>2. CASE CloseServer(v)
  <2>1. /\ DOMAIN listeners' = DOMAIN listeners \ {SrvAddr[v]}
        /\ \A a \in DOMAIN listeners' : listeners'[a] = listeners[a]
    BY <1>2 DEF CloseServer, Unbind
  <2>. QED BY <1>2, <2>1 DEF CloseServer, ListenersInv, ListenersOK
<1>. QED BY <1>1, <1>2

\* A crash leaves no server of the host bound, and none of its connects waiting.
LEMMA CrashOfListeners ==
  ASSUME ListenersInv, NEW h \in Hosts, crashed' = crashed \cup {h},
         CloseServersOf(h), StopTasksOf(h)
  PROVE  ListenersInv'
<1>1. /\ DOMAIN listeners' = {a \in DOMAIN listeners : SrvHost[listeners[a]] # h}
      /\ \A a \in DOMAIN listeners' : listeners'[a] = listeners[a]
      /\ closed' = closed \cup {listeners[a] : a \in {a \in DOMAIN listeners : SrvHost[listeners[a]] = h}}
  BY DEF CloseServersOf, Unbind
<1>2. \A a \in DOMAIN listeners' :
        listeners'[a] \in created' \ closed' /\ SrvAddr[listeners'[a]] = a /\ a \in names'
  BY <1>1 DEF StopTasksOf, ListenersInv, ListenersOK
<1>3. (closed \cup posthumous \subseteq created)' /\ (created \subseteq Servers)'
  BY <1>1 DEF StopTasksOf, ListenersInv, ListenersOK
<1>4. conn' \in [Connects -> ConnType]
  BY DEF StopTasksOf, ListenersInv, ConnType, States, Idle
<1>5. \A c \in Connects : conn'[c] = conn[c] \/ conn'[c].at = "cancelled"
  BY DEF StopTasksOf, Idle
<1>6. ListenersOK'
  BY <1>2, <1>3, <1>5 DEF ListenersInv, ListenersOK, StopTasksOf
<1>7. \A a \in DOMAIN listeners' : SrvHost[listeners'[a]] \in crashed' => listeners'[a] \in posthumous'
  BY <1>1 DEF StopTasksOf, ListenersInv, ListenersOK
<1>. QED BY <1>4, <1>6, <1>7 DEF ListenersInv

LEMMA ReleaseOfConnects ==
  ASSUME ListenersInv, Release, UNCHANGED <<listeners, closed, created, posthumous, names, crashed>>
  PROVE  ListenersInv'
<1>1. conn' \in [Connects -> ConnType]
  BY DEF Release, ListenersInv, ConnType, States
<1>2. \A c \in Connects : conn'[c].at = conn[c].at /\ conn'[c].server = conn[c].server
  BY DEF Release, ListenersInv, ConnType, States
<1>. QED BY <1>1, <1>2 DEF ListenersInv, ListenersOK

----------------------------------------------------------------------------
(* Datagrams.                                                              *)

\* What was not held back: it arrives no later than the front of its flow, in the
\* order of the numbers, and after what the endpoint has received.
OrderInv ==
  /\ \A p \in flight : p.number <= sent /\ (~p.held => p.arrival <= front[p.flow])
  /\ \A p, q \in flight :
       p.flow = q.flow /\ ~p.held /\ ~q.held /\ p.number < q.number => p.arrival < q.arrival
  /\ \A e \in Endpoints : \A i \in DOMAIN inbox[e] : \A p \in flight :
       inbox[e][i].flow = p.flow /\ ~inbox[e][i].held /\ ~p.held => inbox[e][i].number <= p.number
  /\ \A e \in Endpoints : \A i \in DOMAIN inbox[e] : inbox[e][i].number <= sent
  /\ FlowStaysInOrder

LEMMA DatagramsStart == DatagramsInit => DatagramsInv /\ OrderInv
<1>. SUFFICES ASSUME DatagramsInit PROVE DatagramsInv /\ OrderInv
  OBVIOUS
<1>1. inbox \in [Endpoints -> Seq(Item)] /\ \A e \in Endpoints : DOMAIN inbox[e] = {}
  BY DEF DatagramsInit
<1>2. front \in [Flows -> Int] /\ DOMAIN endpoints = {} /\ flight = {}
  BY DEF DatagramsInit, Flows
<1>. QED BY <1>1, <1>2 DEF DatagramsInit, DatagramsInv, DatagramsOK, OrderInv, FlowStaysInOrder

\* A copy that Send may put on its way, and the front after it.
LEMMA CopiesAreTimely ==
  ASSUME DatagramsInv, LinksInv, NEW e \in Endpoints, NEW a \in DOMAIN endpoints,
         NEW last \in Int, NEW nth \in Nat, NEW c \in Copies(e, endpoints[a], last, nth)
  PROVE  /\ c.copy \in Copy /\ c.copy.arrival >= now /\ c.copy.to = endpoints[a]
         /\ c.copy.number = sent + 1 /\ c.copy.flow = <<EpAddr[e], a>>
         /\ c.front \in Int
         /\ c.copy.held => c.front = last
         /\ ~c.copy.held => c.front = c.copy.arrival
         /\ c.front >= last + MinDelay \/ c.front = last
         /\ ~c.copy.held => c.front >= last + MinDelay
<1>. DEFINE d == endpoints[a]
            CopyAt(t, held) == [number |-> sent + 1, nth |-> nth, held |-> held,
                                flow |-> <<EpAddr[e], EpAddr[d]>>, to |-> d, arrival |-> t]
<1>1. d \in Endpoints /\ EpAddr[d] = a /\ <<EpAddr[e], EpAddr[d]>> \in Flows
  BY DEF DatagramsInv, DatagramsOK, Flows, Addrs
<1>2. now \in Nat /\ sent \in Nat /\ MinDelay \in Nat /\ MaxDelay \in Nat
  BY LinksAssumption DEF DatagramsInv
<1>3. PICK delay \in DelaysOn(EpHost[e], EpHost[d]) :
        \/ c = [copy |-> CopyAt(InOrder(now + delay, last), FALSE), front |-> InOrder(now + delay, last)]
        \/ c = [copy |-> CopyAt(HeldBack(now + delay, last), TRUE), front |-> last]
  BY DEF Copies
<1>4. delay \in Nat
  BY DelaysAreTimes
<1>5. CASE c = [copy |-> CopyAt(InOrder(now + delay, last), FALSE), front |-> InOrder(now + delay, last)]
  <2>1. /\ InOrder(now + delay, last) \in Int /\ InOrder(now + delay, last) >= now
        /\ InOrder(now + delay, last) >= last + MinDelay
    BY <1>2, <1>4 DEF InOrder, Later
  <2>2. c.copy = CopyAt(InOrder(now + delay, last), FALSE) /\ c.front = InOrder(now + delay, last)
    BY <1>5
  <2>. QED BY <1>1, <1>2, <2>1, <2>2 DEF Copy
<1>6. CASE c = [copy |-> CopyAt(HeldBack(now + delay, last), TRUE), front |-> last]
  <2>1. HeldBack(now + delay, last) \in Int /\ HeldBack(now + delay, last) >= now
    BY <1>2, <1>4 DEF HeldBack, Later
  <2>2. c.copy = CopyAt(HeldBack(now + delay, last), TRUE) /\ c.front = last
    BY <1>6
  <2>. QED BY <1>1, <1>2, <2>1, <2>2 DEF Copy
<1>. QED BY <1>3, <1>5, <1>6

LEMMA ReceivedAreItems ==
  ASSUME DatagramsInv, NEW e \in Endpoints, NEW i \in DOMAIN inbox[e]
  PROVE  inbox[e][i] \in Item
<1>1. inbox[e] \in Seq(Item)
  BY DEF DatagramsInv
<1>. QED BY <1>1

\* Copies of a new datagram are put on their way, in front of nothing that was not held.
LEMMA SendKeepsOrder ==
  ASSUME DatagramsInv, MinDelay > 0, OrderInv, NEW f \in Flows, NEW new \in SUBSET Copy,
         flight' = flight \cup new, sent' = sent + 1, inbox' = inbox,
         NEW last \in Int, front' = [front EXCEPT ![f] = last], last >= front[f],
         \A p \in new : /\ p.number = sent + 1 /\ p.flow = f
                        /\ ~p.held => front[f] < p.arrival /\ p.arrival <= last
  PROVE  OrderInv'
<1>1. sent \in Nat /\ front \in [Flows -> Int] /\ flight \subseteq Copy
  BY DEF DatagramsInv
<1>2. front'[f] = last /\ \A g \in Flows \ {f} : front'[g] = front[g]
  BY <1>1
<1>3. \A p \in flight : p.number \in Nat /\ p.number <= sent /\ p.flow \in Flows /\ p.arrival \in Int
  BY <1>1 DEF OrderInv, Copy
<1>4. \A p \in new : p.arrival \in Int
  BY DEF Copy
<1>5. \A p \in flight' : p.number <= sent' /\ (~p.held => p.arrival <= front'[p.flow])
  BY <1>1, <1>2, <1>3, <1>4 DEF OrderInv
<1>6. ASSUME NEW p \in flight', NEW q \in flight', p.flow = q.flow, ~p.held, ~q.held,
             p.number < q.number
      PROVE  p.arrival < q.arrival
  <2>1. CASE p \in flight /\ q \in flight
    BY <1>6, <2>1 DEF OrderInv
  <2>2. CASE p \in flight /\ q \in new
    <3>1. p.arrival <= front[f] /\ front[f] < q.arrival /\ front[f] \in Int
      BY <1>1, <1>6, <2>2 DEF OrderInv
    <3>. QED BY <1>3, <1>4, <2>2, <3>1
  <2>3. CASE p \in new
    BY <1>1, <1>3, <1>6, <2>3
  <2>. QED BY <2>1, <2>2, <2>3
<1>7. ASSUME NEW e \in Endpoints, NEW i \in DOMAIN inbox[e]
      PROVE  inbox[e][i].number \in Nat /\ inbox[e][i].number <= sent
  BY ReceivedAreItems DEF Item, OrderInv
<1>8. ASSUME NEW e \in Endpoints, NEW i \in DOMAIN inbox[e], NEW p \in flight',
             inbox[e][i].flow = p.flow, ~inbox[e][i].held, ~p.held
      PROVE  inbox[e][i].number <= p.number
  BY <1>1, <1>7, <1>8 DEF OrderInv
<1>. QED BY <1>1, <1>5, <1>6, <1>7, <1>8 DEF OrderInv, FlowStaysInOrder

LEMMA SendStep ==
  ASSUME LinksInv, DatagramsInv, NEW e, NEW a, Send(e, a)
  PROVE  DatagramsInv' /\ (MinDelay > 0 /\ OrderInv => OrderInv')
<1>0. e \in Endpoints /\ now \in Nat /\ sent \in Nat /\ MinDelay \in Nat
  BY LinksAssumption DEF Send, DatagramsInv, DatagramsOK
<1>1. CASE UNCHANGED <<front, flight>>
  <2>1. DatagramsInv'
    BY <1>0, <1>1 DEF Send, DatagramsInv, DatagramsOK
  <2>2. ASSUME OrderInv PROVE OrderInv'
    <3>1. sent' = sent + 1 /\ UNCHANGED <<front, flight, inbox>>
      BY <1>1 DEF Send
    <3>2. \A p \in flight : p.number \in Nat
      BY DEF DatagramsInv, Copy
    <3>3. \A d \in Endpoints : \A i \in DOMAIN inbox[d] : inbox[d][i].number \in Nat
      BY ReceivedAreItems DEF Item
    <3>. QED BY <1>0, <2>2, <3>1, <3>2, <3>3 DEF OrderInv, FlowStaysInOrder
  <2>. QED BY <2>1, <2>2
<1>2. CASE ~UNCHANGED <<front, flight>>
  <2>. DEFINE d == endpoints[a]
              f == <<EpAddr[e], a>>
  <2>1. a \in DOMAIN endpoints
    BY <1>2 DEF Send, Vanishes
  <2>2. f \in Flows /\ d \in Endpoints /\ d \in opened /\ front[f] \in Int
    BY <1>0, <2>1 DEF DatagramsInv, DatagramsOK, Flows, Addrs
  <2>3. PICK one \in Copies(e, d, front[f], 1) :
          \/ /\ flight' = flight \cup {one.copy}
             /\ front' = [front EXCEPT ![f] = one.front]
          \/ \E two \in Copies(e, d, one.front, 2) :
               /\ flight' = flight \cup {one.copy, two.copy}
               /\ front' = [front EXCEPT ![f] = two.front]
    BY <1>2 DEF Send
  <2>4. /\ one.copy \in Copy /\ one.copy.arrival >= now /\ one.copy.to = d
        /\ one.copy.number = sent + 1 /\ one.copy.flow = f
        /\ one.front \in Int /\ one.front >= front[f]
        /\ ~one.copy.held => one.front = one.copy.arrival /\ one.front >= front[f] + MinDelay
    BY <1>0, <2>1, <2>2, CopiesAreTimely
  <2>5. PICK new \in SUBSET Copy, last \in Int :
          /\ flight' = flight \cup new /\ front' = [front EXCEPT ![f] = last] /\ last >= front[f]
          /\ \A p \in new : /\ p.number = sent + 1 /\ p.flow = f /\ p.arrival >= now /\ p.to = d
                            /\ ~p.held => front[f] + MinDelay <= p.arrival /\ p.arrival <= last
    <3>1. CASE flight' = flight \cup {one.copy} /\ front' = [front EXCEPT ![f] = one.front]
      <4>. one.copy \in Copy /\ one.front \in Int
        BY <2>4
      <4>. WITNESS {one.copy} \in SUBSET Copy, one.front \in Int
      <4>1. ~one.copy.held => front[f] + MinDelay <= one.copy.arrival /\ one.copy.arrival <= one.front
        BY <1>0, <2>2, <2>4
      <4>. QED BY <2>4, <3>1, <4>1
    <3>2. CASE \E two \in Copies(e, d, one.front, 2) :
                 /\ flight' = flight \cup {one.copy, two.copy}
                 /\ front' = [front EXCEPT ![f] = two.front]
      <4>1. PICK two \in Copies(e, d, one.front, 2) :
              /\ flight' = flight \cup {one.copy, two.copy}
              /\ front' = [front EXCEPT ![f] = two.front]
        BY <3>2
      <4>2. /\ two.copy \in Copy /\ two.copy.arrival >= now /\ two.copy.to = d
            /\ two.copy.number = sent + 1 /\ two.copy.flow = f
            /\ two.front \in Int /\ two.front >= one.front
            /\ ~two.copy.held => two.front = two.copy.arrival /\ two.front >= one.front + MinDelay
        BY <1>0, <2>1, <2>4, CopiesAreTimely
      <4>. one.copy \in Copy /\ two.copy \in Copy /\ two.front \in Int
        BY <2>4, <4>2
      <4>. WITNESS {one.copy, two.copy} \in SUBSET Copy, two.front \in Int
      <4>3. \A p \in {one.copy, two.copy} :
              ~p.held => front[f] + MinDelay <= p.arrival /\ p.arrival <= two.front
        BY <1>0, <2>2, <2>4, <4>2
      <4>4. two.front >= front[f]
        BY <2>2, <2>4, <4>2
      <4>. QED BY <2>4, <4>1, <4>2, <4>3, <4>4
    <3>. QED BY <2>3, <3>1, <3>2
  <2>6. DatagramsInv'
    <3>1. front' \in [Flows -> Int] /\ flight' \subseteq Copy
      BY <2>2, <2>5 DEF DatagramsInv
    <3>2. \A p \in flight' : p.arrival >= now /\ p.to \in opened
      BY <2>2, <2>5 DEF DatagramsInv, DatagramsOK
    <3>3. sent' \in Nat /\ UNCHANGED <<now, endpoints, opened, closing, gone, disorder, inbox>>
      BY <1>0 DEF Send
    <3>. QED BY <3>1, <3>2, <3>3 DEF DatagramsInv, DatagramsOK
  <2>7. ASSUME MinDelay > 0, OrderInv PROVE OrderInv'
    <3>1. sent' = sent + 1 /\ inbox' = inbox
      BY DEF Send
    <3>2. \A p \in new : ~p.held => front[f] < p.arrival
      BY <1>0, <2>2, <2>5, <2>7 DEF Copy
    <3>. QED BY <2>2, <2>5, <2>7, <3>1, <3>2, SendKeepsOrder
  <2>. QED BY <2>6, <2>7
<1>. QED BY <1>1, <1>2

\* What arrives was sent after everything of its flow that has arrived: what was
\* sent before it and is on its way still would have had to arrive in the past.
LEMMA DeliverStep ==
  ASSUME DatagramsInv, NEW p \in flight, Deliver(p)
  PROVE  DatagramsInv' /\ (OrderInv => OrderInv')
<1>. DEFINE e == p.to
            n == Len(inbox[e])
<1>1. p \in Copy /\ e \in Endpoints /\ inbox[e] \in Seq(Item) /\ n \in Nat
  BY DEF DatagramsInv, Copy
<1>2. Received(p) \in Item /\ now \in Nat /\ flight \subseteq Copy
  BY <1>1 DEF Received, Copy, Item, DatagramsInv
<1>3. /\ UNCHANGED <<now, endpoints, opened, closing, gone, disorder, front, sent>>
      /\ flight' = flight \ {p} /\ p.arrival = now
  BY DEF Deliver
<1>4. inbox' = inbox \/ inbox' = [inbox EXCEPT ![e] = Append(inbox[e], Received(p))]
  BY DEF Deliver
<1>5. DatagramsInv'
  <2>1. inbox' \in [Endpoints -> Seq(Item)]
    <3>1. Append(inbox[e], Received(p)) \in Seq(Item)
      BY <1>1, <1>2
    <3>. QED BY <1>1, <1>4, <3>1 DEF DatagramsInv
  <2>. QED BY <1>3, <2>1 DEF DatagramsInv, DatagramsOK
<1>6. CASE inbox' = inbox
  BY <1>3, <1>6, <1>5 DEF OrderInv, FlowStaysInOrder
<1>7. CASE inbox' = [inbox EXCEPT ![e] = Append(inbox[e], Received(p))]
  <2>. SUFFICES ASSUME OrderInv PROVE OrderInv'
    BY <1>5
  <2>1. /\ \A d \in Endpoints \ {e} : inbox'[d] = inbox[d]
        /\ DOMAIN inbox[e] = 1 .. n /\ DOMAIN inbox'[e] = 1 .. n + 1
        /\ \A i \in 1 .. n : inbox'[e][i] = inbox[e][i]
        /\ inbox'[e][n + 1] = Received(p)
    BY <1>1, <1>7 DEF DatagramsInv
  <2>2. /\ Received(p).number = p.number /\ Received(p).held = p.held /\ Received(p).flow = p.flow
        /\ p.number \in Nat
    BY <1>1 DEF Received, Copy
  <2>3. ASSUME NEW q \in flight, q.flow = p.flow, ~p.held, ~q.held PROVE p.number <= q.number
    <3>1. q.number < p.number => q.arrival < now
      BY <1>3, <2>3 DEF OrderInv
    <3>2. q.arrival >= now /\ q.arrival \in Int /\ q.number \in Nat
      BY <1>2 DEF DatagramsInv, DatagramsOK, Copy
    <3>. QED BY <1>2, <2>2, <3>1, <3>2
  <2>4. ASSUME NEW d \in Endpoints, NEW i \in DOMAIN inbox'[d], NEW q \in flight',
               inbox'[d][i].flow = q.flow, ~inbox'[d][i].held, ~q.held
        PROVE  inbox'[d][i].number <= q.number
    <3>1. CASE d = e /\ i = n + 1
      BY <1>3, <2>1, <2>2, <2>3, <2>4, <3>1
    <3>2. CASE ~(d = e /\ i = n + 1)
      <4>1. i \in DOMAIN inbox[d] /\ inbox'[d][i] = inbox[d][i]
        BY <1>1, <2>1, <2>4, <3>2, SMTT(30)
      <4>. QED BY <1>3, <2>4, <4>1 DEF OrderInv
    <3>. QED BY <3>1, <3>2
  <2>5. ASSUME NEW d \in Endpoints, NEW i \in DOMAIN inbox'[d]
        PROVE  inbox'[d][i].number <= sent'
    <3>1. CASE d = e /\ i = n + 1
      BY <1>3, <2>1, <2>2, <3>1 DEF OrderInv
    <3>2. CASE ~(d = e /\ i = n + 1)
      <4>1. i \in DOMAIN inbox[d] /\ inbox'[d][i] = inbox[d][i]
        BY <1>1, <2>1, <2>5, <3>2, SMTT(30)
      <4>. QED BY <1>3, <4>1 DEF OrderInv
    <3>. QED BY <3>1, <3>2
  <2>6. ASSUME NEW d \in Endpoints, NEW i \in DOMAIN inbox'[d], NEW j \in DOMAIN inbox'[d],
               i < j, inbox'[d][i].flow = inbox'[d][j].flow, ~inbox'[d][i].held, ~inbox'[d][j].held
        PROVE  inbox'[d][i].number <= inbox'[d][j].number
    <3>1. CASE d # e
      BY <2>1, <2>6, <3>1 DEF OrderInv, FlowStaysInOrder
    <3>2. CASE d = e /\ j = n + 1
      <4>1. i \in 1 .. n /\ inbox'[d][i] = inbox[e][i] /\ inbox'[d][j] = Received(p)
        BY <1>1, <2>1, <2>6, <3>2
      <4>. QED BY <1>1, <2>1, <2>2, <2>6, <3>2, <4>1 DEF OrderInv
    <3>3. CASE d = e /\ j # n + 1
      <4>1. i \in 1 .. n /\ j \in 1 .. n
        BY <1>1, <2>1, <2>6, <3>3
      <4>. QED BY <2>1, <2>6, <3>3, <4>1 DEF OrderInv, FlowStaysInOrder
    <3>. QED BY <3>1, <3>2, <3>3
  <2>7. FlowStaysInOrder'
    BY <2>6 DEF FlowStaysInOrder
  <2>. QED BY <1>3, <2>4, <2>5, <2>7 DEF OrderInv
<1>. QED BY <1>4, <1>5, <1>6, <1>7

LEMMA TickStep ==
  ASSUME DatagramsInv, Tick
  PROVE  DatagramsInv' /\ (OrderInv => OrderInv')
<1>1. /\ UNCHANGED <<endpoints, opened, closing, gone, disorder, front, flight, inbox, sent>>
      /\ \A p \in flight : p.arrival \in Int /\ p.arrival > now
      /\ now \in Nat
  BY DEF Tick, DatagramsInv, Copy
<1>2. now' \in Nat /\ \A p \in flight : p.arrival >= now'
  <2>1. CASE now < MaxTime
    BY <1>1, <2>1 DEF Tick
  <2>2. CASE ~(now < MaxTime)
    <3>1. PICK p \in flight : (\A q \in flight : p.arrival <= q.arrival) /\ now' = p.arrival
      BY <2>2 DEF Tick
    <3>. QED BY <1>1, <3>1
  <2>. QED BY <2>1, <2>2
<1>. QED BY <1>1, <1>2 DEF DatagramsInv, DatagramsOK, OrderInv, FlowStaysInOrder

\* Opening and closing endpoints touches nothing that is on its way.
LEMMA EndpointStep ==
  ASSUME DatagramsInv,
         \/ \E e \in Endpoints : OpenEndpoint(e) \/ CloseEndpoint(e) \/ FinalizeEndpoint(e)
         \/ \E h \in Hosts : DropEndpointsOf(h)
         \/ UNCHANGED datagramVars
  PROVE  DatagramsInv' /\ (OrderInv => OrderInv')
<1>1. UNCHANGED <<now, disorder, front, flight, inbox, sent>>
  BY DEF OpenEndpoint, CloseEndpoint, FinalizeEndpoint, DropEndpointsOf, datagramVars
<1>2. DatagramsOK'
  <2>1. CASE \E e \in Endpoints : OpenEndpoint(e)
    BY <1>1, <2>1 DEF OpenEndpoint, Put, DatagramsInv, DatagramsOK
  <2>2. CASE \E e \in Endpoints : CloseEndpoint(e)
    BY <1>1, <2>2 DEF CloseEndpoint, DatagramsInv, DatagramsOK
  <2>3. CASE \E e \in Endpoints : FinalizeEndpoint(e)
    BY <1>1, <2>3 DEF FinalizeEndpoint, Forget, DatagramsInv, DatagramsOK
  <2>4. CASE \E h \in Hosts : DropEndpointsOf(h)
    BY <1>1, <2>4 DEF DropEndpointsOf, Forget, DatagramsInv, DatagramsOK
  <2>5. CASE UNCHANGED datagramVars
    BY <2>5 DEF datagramVars, DatagramsInv, DatagramsOK
  <2>. QED BY <2>1, <2>2, <2>3, <2>4, <2>5
<1>. QED BY <1>1, <1>2 DEF DatagramsInv, OrderInv, FlowStaysInOrder

LEMMA DatagramStepKeeps ==
  ASSUME LinksInv, DatagramsInv, DatagramsStep
  PROVE  DatagramsInv' /\ (MinDelay > 0 /\ OrderInv => OrderInv')
<1>1. CASE \E e \in Endpoints : OpenEndpoint(e) \/ CloseEndpoint(e) \/ FinalizeEndpoint(e)
  BY <1>1, EndpointStep
<1>2. CASE \E r \in Routes : Send(r[1], r[2])
  BY <1>2, SendStep
<1>3. CASE \E p \in flight : Deliver(p)
  BY <1>3, DeliverStep
<1>4. CASE Tick
  BY <1>4, TickStep
<1>. QED BY <1>1, <1>2, <1>3, <1>4 DEF DatagramsStep

----------------------------------------------------------------------------
(* The network.                                                            *)

LEMMA NetworkStart == Init => TypeInv /\ OrderInv
BY LinksStart, ListenersStart, DatagramsStart DEF Init, TypeInv

LEMMA NetworkStep ==
  ASSUME TypeInv, [Next]_vars
  PROVE  TypeInv' /\ (MinDelay > 0 /\ OrderInv => OrderInv')
<1>. LinksInv /\ ListenersInv /\ DatagramsInv
  BY DEF TypeInv
<1>1. CASE StreamStep
  <2>1. LinksInv' /\ DatagramsInv' /\ (OrderInv => OrderInv')
    BY <1>1, LinksStep, EndpointStep DEF StreamStep
  <2>2. ListenersInv'
    BY <1>1, ConnectStep, ServerStep DEF StreamStep, ListenersStep, linkVars
  <2>. QED BY <2>1, <2>2 DEF TypeInv
<1>2. CASE DatagramStep
  <2>1. LinksInv' /\ ListenersInv'
    BY <1>2, LinksStep DEF DatagramStep, linkVars, listenerVars, ListenersInv, ListenersOK
  <2>2. DatagramsInv' /\ (MinDelay > 0 /\ OrderInv => OrderInv')
    BY <1>2, DatagramStepKeeps DEF DatagramStep
  <2>. QED BY <2>1, <2>2 DEF TypeInv
<1>3. CASE Block \/ Shape
  <2>1. LinksInv' /\ DatagramsInv' /\ (OrderInv => OrderInv')
    BY <1>3, LinksStep, EndpointStep DEF Block, Shape
  <2>2. ListenersInv'
    BY <1>3 DEF Block, Shape, BlockLinks, ShapeLinks, listenerVars, ListenersInv, ListenersOK
  <2>. QED BY <2>1, <2>2 DEF TypeInv
<1>4. CASE Unblock
  <2>1. LinksInv' /\ DatagramsInv' /\ (OrderInv => OrderInv')
    BY <1>4, LinksStep, EndpointStep DEF Unblock
  <2>2. ListenersInv'
    BY <1>4, ReleaseOfConnects DEF Unblock, UnblockLinks
  <2>. QED BY <2>1, <2>2 DEF TypeInv
<1>5. CASE \E h \in Hosts : Crash(h)
  <2>1. PICK h \in Hosts : Crash(h)
    BY <1>5
  <2>2. LinksInv' /\ DatagramsInv' /\ (OrderInv => OrderInv')
    BY <2>1, LinksStep, EndpointStep DEF Crash
  <2>3. ListenersInv'
    BY <2>1, CrashOfListeners DEF Crash, PowerOff
  <2>. QED BY <2>2, <2>3 DEF TypeInv
<1>6. CASE \E h \in Hosts : Restart(h)
  <2>1. PICK h \in Hosts : Restart(h)
    BY <1>6
  <2>2. LinksInv' /\ DatagramsInv' /\ (OrderInv => OrderInv')
    BY <2>1, LinksStep, EndpointStep DEF Restart
  <2>3. ListenersInv'
    BY <2>1 DEF Restart, PowerOn, listenerVars, ListenersInv, ListenersOK
  <2>. QED BY <2>2, <2>3 DEF TypeInv
<1>7. CASE UNCHANGED vars
  <2>1. LinksInv' /\ DatagramsInv' /\ (OrderInv => OrderInv')
    BY <1>7, LinksStep, EndpointStep DEF vars
  <2>2. ListenersInv'
    BY <1>7 DEF vars, linkVars, listenerVars, ListenersInv, ListenersOK
  <2>. QED BY <2>1, <2>2 DEF TypeInv
<1>. QED BY <1>1, <1>2, <1>3, <1>4, <1>5, <1>6, <1>7 DEF Next

\* What is bound is open, what is waited for was created, and no datagram is late, for
\* any hosts, servers, connects, endpoints and faults (_listeners, _datagram_endpoints).
THEOREM TypeCorrect == Spec => []TypeOK
<1>1. Init => TypeInv
  BY NetworkStart
<1>2. TypeInv /\ [Next]_vars => TypeInv'
  BY NetworkStep
<1>3. TypeInv => TypeOK
  BY DEF TypeInv, LinksInv, ListenersInv, DatagramsInv, TypeOK
<1>. QED BY <1>1, <1>2, <1>3, PTL DEF Spec

\* A flow of datagrams stays in order if the least delay of the network is positive
\* (_route_datagram): with a least delay of zero two of them may land at one instant.
THEOREM FlowsStayInOrder == MinDelay > 0 /\ Spec => []FlowStaysInOrder
<1>. DEFINE IInv == MinDelay > 0 /\ TypeInv /\ OrderInv
<1>1. MinDelay > 0 /\ Init => IInv
  BY NetworkStart
<1>2. IInv /\ [Next]_vars => IInv'
  BY NetworkStep
<1>3. IInv => FlowStaysInOrder
  BY DEF OrderInv
<1>. QED BY <1>1, <1>2, <1>3, PTL DEF Spec

----------------------------------------------------------------------------
(* Connects.                                                               *)

\* No connect sleeps over a heal (_wait_until_unblocked, _release): whatever else
\* happens while it waits only severs more links, and each release wakes all.
THEOREM HealsReachEveryone == Spec => []NoConnectSleepsOverAHeal
<1>. DEFINE IInv == TypeInv /\ NoConnectSleepsOverAHeal
<1>1. Init => IInv
  BY NetworkStart DEF Init, ListenersInit, Idle, NoConnectSleepsOverAHeal
<1>2. ASSUME IInv, [Next]_vars PROVE NoConnectSleepsOverAHeal'
  <2>. ListenersInv /\ conn \in [Connects -> ConnType]
    BY <1>2 DEF TypeInv, ListenersInv
  <2>1. CASE StreamStep
    <3>1. UNCHANGED blocked
      BY <2>1 DEF StreamStep, linkVars
    <3>2. CASE \E v \in Servers : CreateServer(v) \/ CloseServer(v)
      BY <1>2, <3>1, <3>2 DEF CreateServer, CloseServer, NoConnectSleepsOverAHeal, Severed
    <3>3. CASE \E c \in Connects : Connect(c) \/ Resume(c) \/ UseSocket(c) \/ CancelConnect(c)
      <4>1. PICK c \in Connects : Connect(c) \/ Resume(c) \/ UseSocket(c) \/ CancelConnect(c)
        BY <3>3
      <4>2. \A d \in Connects \ {c} : conn'[d] = conn[d]
        BY <4>1 DEF Connect, Resume, UseSocket, CancelConnect, Reach, Wait, Establish, Becomes
      <4>3. conn'[c].at = "waiting" => Severed(CliHost[c], SrvHost[conn'[c].server])
        BY <4>1 DEF Connect, Resume, UseSocket, CancelConnect, Reach, Wait, Establish, Becomes
      <4>. QED BY <1>2, <3>1, <4>2, <4>3 DEF NoConnectSleepsOverAHeal, Severed
    <3>. QED BY <2>1, <3>2, <3>3 DEF StreamStep, ListenersStep
  <2>2. CASE DatagramStep
    BY <1>2, <2>2 DEF DatagramStep, linkVars, listenerVars, NoConnectSleepsOverAHeal, Severed
  <2>3. CASE Block
    BY <1>2, <2>3 DEF Block, BlockLinks, listenerVars, NoConnectSleepsOverAHeal, Severed
  <2>4. CASE Unblock
    BY <2>4 DEF Unblock, Release, NoConnectSleepsOverAHeal, ConnType
  <2>5. CASE Shape
    BY <1>2, <2>5 DEF Shape, ShapeLinks, listenerVars, NoConnectSleepsOverAHeal, Severed
  <2>6. CASE \E h \in Hosts : Crash(h)
    <3>1. UNCHANGED blocked /\ \A c \in Connects : conn'[c] = conn[c] \/ conn'[c].at = "cancelled"
      BY <2>6 DEF Crash, PowerOff, StopTasksOf, Idle
    <3>. QED BY <1>2, <3>1 DEF NoConnectSleepsOverAHeal, Severed
  <2>7. CASE \E h \in Hosts : Restart(h)
    BY <1>2, <2>7 DEF Restart, PowerOn, listenerVars, NoConnectSleepsOverAHeal, Severed
  <2>8. CASE UNCHANGED vars
    BY <1>2, <2>8 DEF vars, linkVars, listenerVars, NoConnectSleepsOverAHeal, Severed
  <2>. QED BY <1>2, <2>1, <2>2, <2>3, <2>4, <2>5, <2>6, <2>7, <2>8 DEF Next
<1>3. IInv /\ [Next]_vars => IInv'
  BY <1>2, NetworkStep
<1>. QED BY <1>1, <1>3, PTL DEF Spec

\* A connect is let through to the server that is bound to its address, which is open,
\* and on a host that is up unless code of a dead host has bound it since the power cut;
\* the link works unless that server has replaced, on another host, the one whose link
\* was tested (_reach_listener, create_server).  From the invariant that a bound server
\* of a dead host was created since the cut: a crash closes all others.
THEOREM ConnectsReachLiveServers == Spec => ReachesALiveServer
<1>. DEFINE Let(c) == LET v == conn'[c].server
                      IN  conn[c].at \in {"idle", "waiting"} /\ conn'[c].at \in {"stashed", "open"} =>
                            /\ listeners[CliAddr[c]] = v /\ v \notin closed
                            /\ SrvHost[v] \in crashed => v \in posthumous
                            /\ conn[c].at = "idle" \/ SrvHost[v] = SrvHost[conn[c].server] =>
                                 ~Severed(CliHost[c], SrvHost[v])
<1>1. Init => TypeInv
  BY NetworkStart
<1>2. TypeInv /\ [Next]_vars => TypeInv'
  BY NetworkStep
<1>3. ASSUME TypeInv, [Next]_vars, NEW c \in Connects PROVE Let(c)
  <2>. SUFFICES ASSUME conn[c].at \in {"idle", "waiting"}, conn'[c].at \in {"stashed", "open"}
                PROVE  LET v == conn'[c].server
                       IN  /\ listeners[CliAddr[c]] = v /\ v \notin closed
                           /\ SrvHost[v] \in crashed => v \in posthumous
                           /\ conn[c].at = "idle" \/ SrvHost[v] = SrvHost[conn[c].server] =>
                                ~Severed(CliHost[c], SrvHost[v])
    OBVIOUS
  <2>. ListenersInv /\ conn \in [Connects -> ConnType]
    BY <1>3 DEF TypeInv, ListenersInv
  <2>1. StreamStep /\ ListenersStep
    BY <1>3 DEF Next, vars, StreamStep, DatagramStep, Block, Shape, Unblock, Release, Crash,
                StopTasksOf, Restart, listenerVars, Idle, ConnType
  <2>2. Connect(c) \/ Resume(c)
    <3>1. conn' # conn
      OBVIOUS
    <3>2. PICK d \in Connects : Connect(d) \/ Resume(d) \/ UseSocket(d) \/ CancelConnect(d)
      BY <2>1, <3>1 DEF ListenersStep, CreateServer, CloseServer
    <3>3. d # c => conn'[c] = conn[c]
      BY <3>2 DEF Connect, Resume, UseSocket, CancelConnect, Reach, Wait, Establish, Becomes
    <3>4. d = c
      BY <3>3
    <3>. QED BY <3>2, <3>4 DEF UseSocket, CancelConnect, Becomes
  <2>3. Reach(c)
    BY <2>2 DEF Connect, Resume, Wait, Becomes
  <2>4. /\ conn'[c].server = Bound(CliAddr[c])
        /\ Bound(CliAddr[c]) \notin closed \cup {NoServer}
    BY <2>3 DEF Reach, Establish, Becomes
  <2>5. /\ listeners[CliAddr[c]] = conn'[c].server /\ conn'[c].server \notin closed
        /\ SrvHost[conn'[c].server] \in crashed => conn'[c].server \in posthumous
    BY <2>4 DEF Bound, ListenersInv
  <2>6. CASE Connect(c)
    <3>1. conn[c].at = "idle" /\ ~Severed(CliHost[c], SrvHost[conn'[c].server])
      BY <2>4, <2>6 DEF Connect, Wait, Becomes
    <3>. QED BY <2>5, <3>1
  <2>7. CASE Resume(c)
    <3>1. conn[c].at = "waiting" /\ ~Severed(CliHost[c], SrvHost[conn[c].server])
      BY <2>7 DEF Resume, Wait, Becomes
    <3>. QED BY <2>5, <3>1
  <2>. QED BY <2>2, <2>6, <2>7
<1>4. TypeInv /\ [Next]_vars => [\A c \in Connects : Let(c)]_vars
  BY <1>3
<1>. QED BY <1>1, <1>2, <1>4, PTL DEF Spec, ReachesALiveServer
=============================================================================
