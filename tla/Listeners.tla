----------------------------- MODULE Listeners -----------------------------
(***************************************************************************)
(* Servers and the tasks that connect to them (SimServer, SimDNS,          *)
(* create_server, create_connection, sock_connect, _reach_listener of      *)
(* src/simloom/_net.py).  A connect whose SYN cannot cross a partition     *)
(* waits on an event that the next release sets and forgets; when its task *)
(* runs again it tests its link anew.  Losing power does not stop all code *)
(* of a host: whoever cut it runs on to its next await, its plain          *)
(* callbacks run, and so do the tasks that these create; so no action      *)
(* asks whether its host is up.                                            *)
(***************************************************************************)
EXTENDS Links

CONSTANTS
  Servers,     \* the calls of create_server, each of them at most once
  SrvHost, SrvAddr,  \* per server: the host it serves on, and its address
  Connects,    \* the tasks that connect, each of them once
  CliHost, CliAddr,  \* per task: its host and the address it connects to
  ViaSocket,   \* the tasks that use sock_connect and then create_connection(sock=...)
  NoServer

ASSUME ListenersAssumption == NoServer \notin Servers /\ ViaSocket \subseteq Connects

VARIABLES
  listeners,  \* _listeners: address to server
  closed,     \* servers that have been closed
  created,    \* servers that have been created
  posthumous, \* history: servers created since their host lost power
  names,      \* addresses whose name the DNS knows
  conn        \* per task: how far it is, the server, and whether its wait is over

listenerVars == <<listeners, closed, created, posthumous, names, conn>>

Idle == [at |-> "idle", server |-> NoServer, woken |-> FALSE]

ListenersInit ==
  /\ listeners = [a \in {} |-> NoServer] /\ closed = {} /\ created = {} /\ posthumous = {} /\ names = {}
  /\ conn = [c \in Connects |-> Idle]

ListenersOK ==
  /\ \A a \in DOMAIN listeners :
       listeners[a] \in created \ closed /\ SrvAddr[listeners[a]] = a /\ a \in names
  /\ closed \cup posthumous \subseteq created /\ created \subseteq Servers
  /\ \A c \in Connects :
       /\ conn[c].at \in {"idle", "waiting", "stashed", "open", "refused", "unknown", "cancelled"}
       /\ conn[c].at \in {"waiting", "stashed", "open"} => conn[c].server \in created

Bound(a) == IF a \in DOMAIN listeners THEN listeners[a] ELSE NoServer
Unbind(addrs) == [a \in DOMAIN listeners \ addrs |-> listeners[a]]

\* create_server: the name is registered, and the address must be free; that the owner is up is not asked
CreateServer(v) ==
  /\ v \notin created /\ Bound(SrvAddr[v]) = NoServer
  /\ created' = created \cup {v}
  /\ names' = names \cup {SrvAddr[v]}
  /\ listeners' = Put(listeners, SrvAddr[v], v)
  /\ posthumous' = IF SrvHost[v] \in crashed THEN posthumous \cup {v} ELSE posthumous
  /\ UNCHANGED <<closed, conn>>

\* [mutant] the address stays bound
CloseServerMut(v) ==
  /\ v \in created
  /\ closed' = closed \cup {v}
  /\ UNCHANGED <<listeners, created, posthumous, names, conn>>

\* SimServer.close, once or again: whoever is bound to the address by now is unbound
CloseServer(v) ==
  /\ v \in created
  /\ closed' = closed \cup {v}
  /\ listeners' = Unbind({SrvAddr[v]})
  /\ UNCHANGED <<created, posthumous, names, conn>>

\* [mutant] a crash closes no server
CloseServersOfMut(h) == UNCHANGED <<closed, listeners>>

\* a host that crashes closes the servers that are bound and its own
CloseServersOf(h) ==
  LET down == {a \in DOMAIN listeners : SrvHost[listeners[a]] = h}
  IN  closed' = closed \cup {listeners[a] : a \in down} /\ listeners' = Unbind(down)

\* its tasks stop for good, wherever they waited; and so far all its servers lived to see it
StopTasksOf(h) ==
  /\ posthumous' = {v \in posthumous : SrvHost[v] # h}
  /\ conn' = [c \in Connects |-> IF conn[c].at \in {"waiting", "stashed"} /\ CliHost[c] = h
                                 THEN [Idle EXCEPT !.at = "cancelled"] ELSE conn[c]]
  /\ UNCHANGED <<created, names>>

Becomes(c, at, v) == conn' = [conn EXCEPT ![c] = [at |-> at, server |-> v, woken |-> FALSE]]

\* _finish_connect: a pair of transports, whatever became of the server meanwhile
Establish(c, v) == Becomes(c, "open", v)

\* the listener is looked up, again if the connect has waited
Reach(c) ==
  LET v == Bound(CliAddr[c])
  IN  IF v \in closed \cup {NoServer} THEN Becomes(c, "refused", NoServer)
      ELSE IF c \in ViaSocket THEN Becomes(c, "stashed", v) ELSE Establish(c, v)

Wait(c, v) == Becomes(c, "waiting", v)

\* SimDNS.resolve: only what a server has registered has an address
Resolves(a) == a \in names

\* create_connection or sock_connect is called: a name nobody registered is an
\* error, an address nobody is bound to refuses, and a severed link makes it wait
Connect(c) ==
  /\ conn[c].at = "idle"
  /\ LET v == Bound(CliAddr[c])
     IN  IF ~Resolves(CliAddr[c]) THEN Becomes(c, "unknown", NoServer)
         ELSE IF v # NoServer /\ Severed(CliHost[c], SrvHost[v]) THEN Wait(c, v)
         ELSE Reach(c)
  /\ UNCHANGED <<listeners, closed, created, posthumous, names>>

\* the task runs after a release, and tests the link to the server it had found
Resume(c) ==
  /\ conn[c].at = "waiting" /\ conn[c].woken
  /\ IF Severed(CliHost[c], SrvHost[conn[c].server]) THEN Wait(c, conn[c].server) ELSE Reach(c)
  /\ UNCHANGED <<listeners, closed, created, posthumous, names>>

\* create_connection(sock=...) connects to the server that sock_connect had found
UseSocket(c) ==
  /\ conn[c].at = "stashed"
  /\ Establish(c, conn[c].server)
  /\ UNCHANGED <<listeners, closed, created, posthumous, names>>

\* the caller gives up (wait_for)
CancelConnect(c) ==
  /\ conn[c].at = "waiting"
  /\ Becomes(c, "cancelled", NoServer)
  /\ UNCHANGED <<listeners, closed, created, posthumous, names>>

\* [mutant] the event is set once nothing is blocked any more
ReleaseMut ==
  conn' = [c \in Connects |-> IF conn[c].at = "waiting" /\ blocked' = {}
                              THEN [conn[c] EXCEPT !.woken = TRUE] ELSE conn[c]]

\* _release: the event is set, and everyone who waits on it will run
Release ==
  conn' = [c \in Connects |-> IF conn[c].at = "waiting"
                              THEN [conn[c] EXCEPT !.woken = TRUE] ELSE conn[c]]

ListenersStep ==
  \/ \E v \in Servers : CreateServer(v) \/ CloseServer(v)
  \/ \E c \in Connects : Connect(c) \/ Resume(c) \/ UseSocket(c) \/ CancelConnect(c)
=============================================================================
