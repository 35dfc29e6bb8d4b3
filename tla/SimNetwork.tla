----------------------------- MODULE SimNetwork -----------------------------
(***************************************************************************)
(* The network of src/simloom/_net.py around its stream transports, which  *)
(* SimTransport models: listeners, connects and datagrams over links that  *)
(* are blocked, released and shaped, between hosts that crash and restart  *)
(* (Host of src/simloom/_world.py).  A test uses one kind of traffic or    *)
(* the other; they share nothing but the links.                            *)
(***************************************************************************)
EXTENDS Listeners, Datagrams

VARIABLE traffic  \* "streams" or "datagrams"

vars == <<linkVars, listenerVars, datagramVars, traffic>>

\* only datagrams are subject to disorder
Init ==
  /\ LinksInit /\ ListenersInit /\ DatagramsInit
  /\ \/ traffic = "streams" /\ disorder = {}
     \/ traffic = "datagrams" /\ disorder \in Disorders

TypeOK == LinksOK /\ ListenersOK /\ DatagramsOK

\* servers and connects, while the links stay as they are
StreamStep == traffic = "streams" /\ ListenersStep /\ UNCHANGED <<linkVars, datagramVars, traffic>>

\* datagrams, while the links stay as they are
DatagramStep == traffic = "datagrams" /\ DatagramsStep /\ UNCHANGED <<linkVars, listenerVars, traffic>>

\* block, partition
Block == BlockLinks /\ UNCHANGED <<listenerVars, datagramVars, traffic>>

\* unblock, heal: each of them releases whoever waits
Unblock ==
  /\ UnblockLinks /\ Release
  /\ UNCHANGED <<listeners, closed, created, posthumous, names, datagramVars, traffic>>

\* an override of a latency, which is the delay of datagrams here
Shape == traffic = "datagrams" /\ ShapeLinks /\ UNCHANGED <<listenerVars, datagramVars, traffic>>

\* Host.crash, as far as the network is concerned
Crash(h) ==
  /\ PowerOff(h) /\ CloseServersOf(h) /\ StopTasksOf(h) /\ DropEndpointsOf(h)
  /\ UNCHANGED traffic

\* Host.restart: the code of the host runs again
Restart(h) == PowerOn(h) /\ UNCHANGED <<listenerVars, datagramVars, traffic>>

Next ==
  \/ StreamStep \/ DatagramStep \/ Block \/ Unblock \/ Shape
  \/ \E h \in Hosts : Crash(h) \/ Restart(h)

Spec == Init /\ [][Next]_vars

----------------------------------------------------------------------------
(* Properties.                                                             *)

\* The event that connects wait on is replaced by each release.  However releases,
\* new blocks and wakeups interleave, a connect that nothing will wake is one whose
\* link is severed: none sleeps on over a heal.
NoConnectSleepsOverAHeal ==
  \A c \in Connects :
    conn[c].at = "waiting" /\ ~conn[c].woken => Severed(CliHost[c], SrvHost[conn[c].server])

\* A connect that _reach_listener lets through, also one that waited, meets the server
\* that is bound to its address by then.  That server is open, and its host is up: the
\* only listener of a host without power is one that its remaining code has created
\* since the cut, which a connect does reach.  The link works, unless another server,
\* on another host, took the address while the connect waited: its link is not tested.
ReachesALiveServer ==
  [][\A c \in Connects :
       LET v == conn'[c].server
       IN  conn[c].at \in {"idle", "waiting"} /\ conn'[c].at \in {"stashed", "open"} =>
             /\ listeners[CliAddr[c]] = v /\ v \notin closed
             /\ SrvHost[v] \in crashed => v \in posthumous
             /\ conn[c].at = "idle" \/ SrvHost[v] = SrvHost[conn[c].server] =>
                  ~Severed(CliHost[c], SrvHost[v])]_vars

\* "Each datagram lands at a strictly later instant than the last": what was not held
\* back reaches its endpoint in the order in which its flow sent it, also past copies
\* that were, and over links whose latency changes; a copy of a datagram may follow it.
FlowStaysInOrder ==
  \A e \in Endpoints : \A i, j \in DOMAIN inbox[e] :
    i < j /\ inbox[e][i].flow = inbox[e][j].flow /\ ~inbox[e][i].held /\ ~inbox[e][j].held =>
      inbox[e][i].number <= inbox[e][j].number
=============================================================================
