------------------------------ MODULE SimRedis ------------------------------
(***************************************************************************)
(* The simulated Redis (src/simloom/_services.py) and the clients of it    *)
(* whose transactions the consistency checker judges.                      *)
(*                                                                         *)
(* A value is a list: GET reads it, SET replaces it by what the client     *)
(* read with one element more, INCR adds an element to it (a counter is    *)
(* the list of what was added to it) and DEL empties it; only keys with a  *)
(* list that is not empty are in the store.  An element stands for the     *)
(* transaction that added it and gets its name when that is executed.      *)
(*                                                                         *)
(* One action is one command: the server answers a command of a connection *)
(* without a break in between, and a client waits for the answer.  A       *)
(* careful client watches the keys it is to read before it reads them and  *)
(* writes with EXEC what depends on them; a careless one reads and writes. *)
(***************************************************************************)
EXTENDS Serializability

CONSTANTS
  Clients, Keys,
  MaxExecuted,  \* bound on the transactions executed
  MaxOps,       \* bound on the operations of all of them
  MaxCommands,  \* bound on the commands of one MULTI
  NoQueue       \* the connection is not inside MULTI

ASSUME RedisAssumption == MaxExecuted \in Nat /\ MaxOps \in Nat /\ MaxCommands \in Nat

VARIABLES
  db,        \* store and version of each key
  watched,   \* per connection: key to version seen at WATCH, for the keys watched
  queue,     \* per connection: commands buffered inside MULTI
  careful,   \* the clients that are careful
  ops,       \* per client: what its transaction has read so far
  executed,  \* the transactions the server has executed
  history    \* those whose client had the answer and recorded them

serverVars == <<db, watched, queue>>
vars == <<serverVars, careful, ops, executed, history>>

Nothing == [k \in {} |-> 0]

Init ==
  /\ db = [store |-> [k \in Keys |-> <<>>], version |-> [k \in Keys |-> 0]]
  /\ watched = [c \in Clients |-> Nothing] /\ queue = [c \in Clients |-> NoQueue]
  /\ careful \in SUBSET Clients
  /\ ops = [c \in Clients |-> <<>>] /\ executed = <<>> /\ history = <<>>

----------------------------------------------------------------------------
(* The server.                                                             *)

Command(name, k, read) == [name |-> name, key |-> k, read |-> read]

\* the element that the next transaction adds
Element == Len(executed) + 1

\* _bump: every write counts, and the deletion of a key that is there
Bumps(d, cmd) ==
  cmd.name \in {"SET", "INCR"} \/ (cmd.name = "DEL" /\ d.store[cmd.key] # <<>>)

\* what a data command leaves of what its key held
Written(held, cmd) ==
  CASE cmd.name = "GET" -> held
    [] cmd.name = "SET" -> Append(cmd.read, Element)
    [] cmd.name = "INCR" -> Append(held, Element)
    [] cmd.name = "DEL" -> <<>>

\* _dispatch of a data command
Dispatch(d, cmd) ==
  [store   |-> [d.store EXCEPT ![cmd.key] = Written(@, cmd)],
   version |-> [d.version EXCEPT ![cmd.key] = IF Bumps(d, cmd) THEN @ + 1 ELSE @]]

\* what the command is to the history of its client
OpOf(d, cmd) ==
  CASE cmd.name = "GET" -> Op("read", cmd.key, d.store[cmd.key])
    [] cmd.name \in {"SET", "INCR"} -> Op("append", cmd.key, <<Element>>)
    [] cmd.name = "DEL" -> Op("del", cmd.key, <<>>)

\* d after the first n of the commands, for each n
Dispatched(d, cmds) ==
  LET after[n \in 0 .. Len(cmds)] == IF n = 0 THEN d ELSE Dispatch(after[n - 1], cmds[n])
  IN  after

DispatchAll(d, cmds) == Dispatched(d, cmds)[Len(cmds)]
OpsOfAll(d, cmds) == [i \in DOMAIN cmds |-> OpOf(Dispatched(d, cmds)[i - 1], cmds[i])]

\* [mutant] EXEC looks at the keys it writes only
ChangedMut(c) == \E k \in DOMAIN watched[c] :
  db.version[k] # watched[c][k] /\ \E i \in DOMAIN queue[c] : queue[c][i].key = k

\* a watched key changed since WATCH
Changed(c) == \E k \in DOMAIN watched[c] : db.version[k] # watched[c][k]

Clear(c) ==
  /\ watched' = [watched EXCEPT ![c] = Nothing]
  /\ queue' = [queue EXCEPT ![c] = NoQueue]

----------------------------------------------------------------------------
(* The clients.                                                            *)

InMulti(c) == queue[c] # NoQueue
HasRead(c, k) == \E i \in DOMAIN ops[c] : ops[c][i].f = "read" /\ ops[c][i].key = k
Read(c, k) == (CHOOSE i \in DOMAIN ops[c] : ops[c][i].f = "read" /\ ops[c][i].key = k)

Queued(c) == IF InMulti(c) THEN Len(queue[c]) ELSE 0
\* the bound MaxOps has room for one more operation of c
Room(c) == Len(FlattenSeq(executed)) + Len(ops[c]) + Queued(c) < MaxOps

\* the transaction is over and forgotten
GiveUp(c) == ops' = [ops EXCEPT ![c] = <<>>]

\* the server executed txn for c, who hears of it or not
Committed(c, txn, heard) ==
  /\ executed' = Append(executed, txn)
  /\ history' = IF heard THEN Append(history, txn) ELSE history
  /\ GiveUp(c)

\* WATCH of several keys, of which a careful client sends one
Watch(c, keys) ==
  /\ c \in careful /\ ~InMulti(c) /\ watched[c] = Nothing /\ keys # {}
  /\ watched' = [watched EXCEPT ![c] =
                   [k \in keys \cup DOMAIN @ |-> IF k \in keys THEN db.version[k] ELSE @[k]]]
  /\ UNCHANGED <<db, queue, careful, ops, executed, history>>

Unwatch(c) ==
  /\ ~InMulti(c) /\ watched[c] # Nothing
  /\ watched' = [watched EXCEPT ![c] = Nothing]
  /\ GiveUp(c)
  /\ UNCHANGED <<db, queue, careful, executed, history>>

Get(c, k) ==
  /\ ~InMulti(c) /\ Room(c) /\ ~HasRead(c, k) /\ (c \in careful => k \in DOMAIN watched[c])
  /\ ops' = [ops EXCEPT ![c] = Append(@, OpOf(db, Command("GET", k, <<>>)))]
  /\ UNCHANGED <<serverVars, careful, executed, history>>

\* a careful client has read what it watches before it writes
Multi(c) ==
  /\ c \in careful /\ ~InMulti(c) /\ \A k \in DOMAIN watched[c] : HasRead(c, k)
  /\ queue' = [queue EXCEPT ![c] = <<>>]
  /\ UNCHANGED <<db, watched, careful, ops, executed, history>>

\* the commands a client may give: it sets what it has read
Commands(c) ==
  {Command("SET", k, ops[c][Read(c, k)].value) : k \in {k \in Keys : HasRead(c, k)}}
    \cup {Command(name, k, <<>>) : name \in {"GET", "INCR", "DEL"}, k \in Keys}

\* inside MULTI every data command is queued; these clients write there, a key once
Queue(c, cmd) ==
  /\ InMulti(c) /\ cmd \in Commands(c) /\ cmd.name \in {"SET", "INCR"} /\ Room(c)
  /\ Len(queue[c]) < MaxCommands /\ \A i \in DOMAIN queue[c] : queue[c][i].key # cmd.key
  /\ queue' = [queue EXCEPT ![c] = Append(@, cmd)]
  /\ UNCHANGED <<db, watched, careful, ops, executed, history>>

Discard(c) ==
  /\ InMulti(c) /\ Clear(c) /\ GiveUp(c)
  /\ UNCHANGED <<db, careful, executed, history>>

\* EXEC runs the queue unless a watched key changed; its answer may be lost
Exec(c, heard) ==
  /\ InMulti(c) /\ Queued(c) + Len(ops[c]) > 0 /\ Clear(c)
  /\ IF Changed(c) THEN GiveUp(c) /\ UNCHANGED <<db, executed, history>>
     ELSE /\ db' = DispatchAll(db, queue[c])
          /\ Committed(c, ops[c] \o OpsOfAll(db, queue[c]), heard)
  /\ UNCHANGED <<careful>>

\* A command outside MULTI takes effect at once.  For a careful client it is a
\* transaction of its own; a careless one ends its transaction with it.
Direct(c, cmd) ==
  /\ ~InMulti(c) /\ cmd \in Commands(c) /\ Room(c)
  /\ c \in careful \/ cmd.name = "GET" => ops[c] = <<>> /\ watched[c] = Nothing
  /\ db' = Dispatch(db, cmd)
  /\ Committed(c, Append(ops[c], OpOf(db, cmd)), TRUE)
  /\ UNCHANGED <<watched, queue, careful>>

\* the connection breaks; a new one has no memory of it
Break(c) ==
  /\ Clear(c) /\ GiveUp(c)
  /\ UNCHANGED <<db, careful, executed, history>>

Next ==
  /\ Len(executed) < MaxExecuted
  /\ \E c \in Clients :
    \/ Unwatch(c) \/ Multi(c) \/ Discard(c) \/ Break(c)
    \/ \E keys \in SUBSET Keys : Watch(c, keys)
    \/ \E k \in Keys : Get(c, k)
    \/ \E cmd \in Commands(c) : Queue(c, cmd) \/ Direct(c, cmd)
    \/ \E heard \in BOOLEAN : Exec(c, heard)

Spec == Init /\ [][Next]_vars

----------------------------------------------------------------------------
(* Properties.                                                             *)

NoDeletion(h) == \A t \in DOMAIN h : \A i \in DOMAIN h[t] : h[t][i].f # "del"

\* "WATCH/MULTI/EXEC optimistic-locking": if all clients are careful, what the server
\* executed has a serial order, whatever breaks or goes unheard on the way.
CarefulIsSerializable == careful = Clients => Serializable(executed)

\* The checker raises no false alarm: if what was executed has a serial order, it finds
\* no cycle in what was recorded of it.
NoFalseAlarm == NoDeletion(executed) /\ Serializable(executed) => CheckSerializable(history)

\* "A serial order exists iff this dependency graph is acyclic": when every
\* transaction was recorded, the checker accepts serializable histories only.
AcyclicIsSerializable ==
  NoDeletion(history) /\ history = executed /\ CheckSerializable(history) => Serializable(history)
=============================================================================
