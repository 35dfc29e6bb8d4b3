----------------------------- MODULE Datagrams -----------------------------
(***************************************************************************)
(* Datagram endpoints (SimDatagramTransport and _route_datagram of         *)
(* src/simloom/_net.py): a datagram may vanish, be lost, be duplicated, be *)
(* delayed and be held back, by draws; each copy is a timer that hands it  *)
(* to the endpoint that was bound when it was sent.  A flow (source and    *)
(* destination address) has a front, the arrival of its last copy that was *)
(* not held back, and no later copy arrives before it.                     *)
(***************************************************************************)
EXTENDS Links, Sequences

CONSTANTS
  Endpoints,        \* the calls of create_datagram_endpoint, each at most once
  EpHost, EpAddr,   \* per endpoint: its host and its address
  Disorders,        \* sets of what may happen on the way: loss, dup, reorder
  Routes,           \* pairs of a sending endpoint and an address
  MaxSends,         \* bound on the datagrams
  MaxTime           \* bound on the time at which something is sent

ASSUME DatagramsAssumption ==
  MaxSends \in Nat /\ MaxTime \in Nat /\ Disorders \subseteq SUBSET {"loss", "dup", "reorder"}

VARIABLES
  now,        \* the virtual time
  endpoints,  \* _datagram_endpoints: address to endpoint
  opened, closing, gone,  \* endpoints that were opened, that close, that are closed
  disorder,   \* the faults that are switched on
  front,      \* _udp_arrival: flow to arrival
  flight,     \* copies on their way
  inbox,      \* per endpoint: what it received
  sent        \* datagrams sent so far, and their numbers

datagramVars == <<now, endpoints, opened, closing, gone, disorder, front, flight, inbox, sent>>

Addrs == {EpAddr[e] : e \in Endpoints}

DatagramsInit ==
  /\ now = 0 /\ endpoints = [a \in {} |-> 0]
  /\ opened = {} /\ closing = {} /\ gone = {}
  /\ disorder \in Disorders \cup {{}}
  /\ front = [f \in Addrs \X Addrs |-> 0]
  /\ flight = {} /\ inbox = [e \in Endpoints |-> <<>>] /\ sent = 0

DatagramsOK ==
  /\ \A a \in DOMAIN endpoints : endpoints[a] \in opened \ gone /\ EpAddr[endpoints[a]] = a
  /\ gone \subseteq closing /\ closing \subseteq opened /\ opened \subseteq Endpoints
  /\ \A p \in flight : p.arrival >= now /\ p.to \in opened

Later(a, b) == IF a > b THEN a ELSE b

OpenEndpoint(e) ==
  /\ e \notin opened /\ EpAddr[e] \notin DOMAIN endpoints
  /\ opened' = opened \cup {e}
  /\ endpoints' = Put(endpoints, EpAddr[e], e)
  /\ UNCHANGED <<now, closing, gone, disorder, front, flight, inbox, sent>>

\* close() refuses what is sent from now on; the endpoint is unbound a step later
CloseEndpoint(e) ==
  /\ e \in opened \ closing
  /\ closing' = closing \cup {e}
  /\ UNCHANGED <<now, endpoints, opened, gone, disorder, front, flight, inbox, sent>>

Forget(es) == [a \in {a \in DOMAIN endpoints : endpoints[a] \notin es} |-> endpoints[a]]

FinalizeEndpoint(e) ==
  /\ e \in closing \ gone
  /\ gone' = gone \cup {e}
  /\ endpoints' = Forget({e})
  /\ UNCHANGED <<now, opened, closing, disorder, front, flight, inbox, sent>>

\* _drop_on_crash of the endpoints of a host that are bound
DropEndpointsOf(h) ==
  LET down == {e \in opened \ gone : EpHost[e] = h}
  IN  /\ closing' = closing \cup down /\ gone' = gone \cup down
      /\ endpoints' = Forget(down)
      /\ UNCHANGED <<now, opened, disorder, front, flight, inbox, sent>>

\* [mutant] a copy may land at the front
InOrderMut(arrival, last) == Later(arrival, last)

\* strictly later than the front
InOrder(arrival, last) == Later(arrival, last + MinDelay)

\* held back past the front, which stays where it is
HeldBack(arrival, last) == Later(arrival, last) + 5 * MaxDelay

\* what may become of the nth copy of a datagram whose flow has the front last, and the front after it
Copies(e, d, last, nth) ==
  LET arrivals == {now + delay : delay \in DelaysOn(EpHost[e], EpHost[d])}
      Copy(t, held) == [number |-> sent + 1, nth |-> nth, held |-> held,
                        flow |-> <<EpAddr[e], EpAddr[d]>>, to |-> d, arrival |-> t]
  IN  {[copy |-> Copy(InOrder(t, last), FALSE), front |-> InOrder(t, last)] : t \in arrivals}
        \cup IF "reorder" \in disorder
             THEN {[copy |-> Copy(HeldBack(t, last), TRUE), front |-> last] : t \in arrivals}
             ELSE {}

\* a datagram that no endpoint is bound for, or that meets a block, vanishes
Vanishes(e, a) ==
  a \in DOMAIN endpoints => <<EpHost[e], EpHost[endpoints[a]]>> \in blocked

\* _route_datagram: vanished or lost, one copy, or two
Send(e, a) ==
  /\ e \in opened \ closing
  /\ sent < MaxSends /\ now <= MaxTime
  /\ sent' = sent + 1
  /\ \/ (Vanishes(e, a) \/ "loss" \in disorder) /\ UNCHANGED <<front, flight>>
     \/ /\ ~Vanishes(e, a)
        /\ LET d == endpoints[a]
               f == <<EpAddr[e], a>>
           IN  \E one \in Copies(e, d, front[f], 1) :
                 \/ /\ flight' = flight \cup {one.copy}
                    /\ front' = [front EXCEPT ![f] = one.front]
                 \/ /\ "dup" \in disorder
                    /\ \E two \in Copies(e, d, one.front, 2) :
                         /\ flight' = flight \cup {one.copy, two.copy}
                         /\ front' = [front EXCEPT ![f] = two.front]
  /\ UNCHANGED <<now, endpoints, opened, closing, gone, disorder, inbox>>

Received(p) == [number |-> p.number, held |-> p.held, flow |-> p.flow]

\* the timer of a copy fires; timers of one instant fire in any order
Deliver(p) ==
  /\ p \in flight /\ p.arrival = now
  /\ flight' = flight \ {p}
  /\ inbox' = IF p.to \in gone THEN inbox ELSE [inbox EXCEPT ![p.to] = Append(@, Received(p))]
  /\ UNCHANGED <<now, endpoints, opened, closing, gone, disorder, front, sent>>

\* time moves on when nothing is left to do at this instant, by a step while something
\* may still be sent, and to the next arrival after that
Tick ==
  /\ closing = gone /\ \A p \in flight : p.arrival > now
  /\ IF now < MaxTime THEN now' = now + 1
     ELSE \E p \in flight : (\A q \in flight : p.arrival <= q.arrival) /\ now' = p.arrival
  /\ UNCHANGED <<endpoints, opened, closing, gone, disorder, front, flight, inbox, sent>>

DatagramsStep ==
  \/ \E e \in Endpoints : OpenEndpoint(e) \/ CloseEndpoint(e) \/ FinalizeEndpoint(e)
  \/ \E r \in Routes : Send(r[1], r[2])
  \/ \E p \in flight : Deliver(p)
  \/ Tick
=============================================================================
