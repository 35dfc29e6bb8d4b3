------------------------------- MODULE SimHost ------------------------------
(***************************************************************************)
(* A simulated host and its disk (Host and SimDisk of                      *)
(* src/simloom/_world.py): the page cache, fsync, what a power cut leaves, *)
(* and the entries that restart() runs again.                              *)
(*                                                                         *)
(* The programs are arbitrary: code on the host or outside it uses the     *)
(* disk, spawns, crashes and restarts in any order, also on a host that is *)
(* down.  A content is the first bytes of a value; a content that the      *)
(* power cut did not tear is the whole of it.                              *)
(*                                                                         *)
(* restart() calls the factories one after the other.  A factory is any    *)
(* plain callable: before it returns its coroutine or raises it may use    *)
(* the disk, spawn on the host and crash it.  That it restarts the host,   *)
(* or that a factory called by spawn() itself uses the host, is left out.  *)
(***************************************************************************)
EXTENDS Naturals, Sequences, FiniteSets

CONSTANTS
  Paths, Values,
  Size,       \* Size[v]: bytes of a value
  Absent,     \* no file; in the page cache, a pending delete
  Clean,      \* the page cache holds nothing for a path
  Factories,  \* coroutine factories a program spawns
  Raw,        \* a raw coroutine object, spawned without a factory
  Raising,    \* factories that may raise when restart() calls them
  MaxEntries, \* bound on the entries of the host
  MaxCrashes  \* bound on the crashes

ASSUME HostAssumption ==
  /\ Size \in [Values -> Nat \ {0}]
  /\ Absent # Clean
  /\ \A v \in Values : \A n \in 1 .. Size[v] : [of |-> v, upTo |-> n] \notin {Absent, Clean}
  /\ Raw \notin Factories /\ Raising \subseteq Factories
  /\ MaxEntries \in Nat /\ MaxCrashes \in Nat

VARIABLES
  synced,     \* SimDisk._synced
  buffered,   \* SimDisk._buffered
  crashed, generation, entries,
  running,    \* running[f]: live tasks of entry f
  strays,     \* strays[f]: those a restart created after the power was cut again
  todo,       \* what restart() has still to spawn: the factory of the first is
              \* executing; empty when no restart is in progress
  firm,       \* history: what the last fsync fixed, or a power cut made of writes
  written,    \* history: contents given to a path since then
  owed        \* history: owed[f]: entries of f the host was given and has to run

diskVars == <<synced, buffered>>
hostVars == <<crashed, generation, entries, running, strays, todo, owed>>
history  == <<firm, written>>
vars == <<diskVars, hostVars, history>>

\* the whole of a value, and what a file may be: a value or its first bytes
Content(v) == [of |-> v, upTo |-> Size[v]]
Files == {c \in [of : Values, upTo : Nat \ {0}] : c.upTo <= Size[c.of]}
Contents == {Content(v) : v \in Values}
Targets    == Factories \cup {Raw}

TypeOK ==
  /\ synced \in [Paths -> Files \cup {Absent}] /\ firm \in [Paths -> Files \cup {Absent}]
  /\ buffered \in [Paths -> Contents \cup {Clean, Absent}]
  /\ written \in [Paths -> SUBSET (Contents \cup {Absent})]
  /\ crashed \in BOOLEAN /\ generation \in Nat
  /\ entries \in Seq(Targets) /\ todo \in Seq(Factories)
  /\ running \in [Targets -> Nat] /\ strays \in [Targets -> Nat]
  /\ owed \in [Targets -> Nat]

Init ==
  /\ synced = [p \in Paths |-> Absent] /\ buffered = [p \in Paths |-> Clean]
  /\ crashed = FALSE /\ generation = 0 /\ entries = <<>>
  /\ running = [f \in Targets |-> 0] /\ strays = [f \in Targets |-> 0]
  /\ todo = <<>> /\ owed = [f \in Targets |-> 0]
  /\ firm = [p \in Paths |-> Absent] /\ written = [p \in Paths |-> {}]

----------------------------------------------------------------------------
(* SimDisk.                                                                *)

\* what read() and exists() see
View(p) == IF buffered[p] = Clean THEN synced[p] ELSE buffered[p]

Cache(p, c) ==
  /\ buffered' = [buffered EXCEPT ![p] = c]
  /\ written' = [written EXCEPT ![p] = @ \cup {c}]
  /\ UNCHANGED <<synced, hostVars, firm>>

Write(p) == \E v \in Values : Cache(p, Content(v))

\* delete() of a file that is not there raises
Delete(p) == View(p) # Absent /\ Cache(p, Absent)

\* what _commit leaves on the platter
Committed(p) == View(p)

\* fsync(path), and fsync() for every path
Fsync(ps) ==
  /\ synced' = [p \in Paths |-> IF p \in ps THEN Committed(p) ELSE synced[p]]
  /\ buffered' = [p \in Paths |-> IF p \in ps THEN Clean ELSE buffered[p]]
  /\ firm' = [p \in Paths |-> IF p \in ps THEN View(p) ELSE firm[p]]
  /\ written' = [p \in Paths |-> IF p \in ps THEN {} ELSE written[p]]
  /\ UNCHANGED hostVars

\* [mutant] a write may be torn before its first byte
FatesMut(p) ==
  IF buffered[p] \in {Clean, Absent} THEN {synced[p], View(p)}
  ELSE {synced[p]} \cup {[of |-> buffered[p].of, upTo |-> n] : n \in 0 .. buffered[p].upTo}

\* [mutant] a write that is lost takes the file with it
FatesLostMut(p) ==
  IF buffered[p] \in {Clean, Absent} THEN {synced[p], View(p)}
  ELSE {Absent} \cup {[of |-> buffered[p].of, upTo |-> n] : n \in 1 .. buffered[p].upTo}

\* [mutant] what is not in the page cache is taken for gone
FatesForgottenMut(p) ==
  IF buffered[p] \in {Clean, Absent} THEN {Absent, View(p)}
  ELSE {synced[p]} \cup {[of |-> buffered[p].of, upTo |-> n] : n \in 1 .. buffered[p].upTo}

\* what a power cut may make of a path: a delete hit the disk or not; a write is
\* lost, torn after its first byte and before its last, or flushed
Fates(p) ==
  IF buffered[p] \in {Clean, Absent} THEN {synced[p], View(p)}
  ELSE {synced[p]} \cup {[of |-> buffered[p].of, upTo |-> n] : n \in 1 .. buffered[p].upTo}

\* the page cache is gone and the platter holds what `survives' says; that counts
\* as fixed for the paths that were written to, and for no other
Settle(survives) ==
  /\ synced' = survives /\ buffered' = [p \in Paths |-> Clean]
  /\ firm' = [p \in Paths |-> IF written[p] = {} THEN firm[p] ELSE survives[p]]
  /\ written' = [p \in Paths |-> {}]

DropUnsynced == Settle(synced) /\ UNCHANGED hostVars

PowerCut ==
  \E survives \in [Paths -> UNION {Fates(p) : p \in Paths}] :
    (\A p \in Paths : survives[p] \in Fates(p)) /\ Settle(survives)

----------------------------------------------------------------------------
(* Host.                                                                   *)

Occurrences(s, f) == Cardinality({i \in DOMAIN s : s[i] = f})
Counts(s) == [f \in Targets |-> Occurrences(s, f)]

Incr(count, f) == [count EXCEPT ![f] = @ + 1]
Decr(count, f) == [count EXCEPT ![f] = @ - 1]

\* spawn() on a crashed host raises
Spawn(f) ==
  /\ ~crashed /\ Len(entries) + Len(todo) < MaxEntries
  /\ entries' = Append(entries, f)
  /\ running' = Incr(running, f) /\ owed' = Incr(owed, f)
  /\ UNCHANGED <<diskVars, crashed, generation, strays, todo, history>>

\* an entry's task ends by itself; the entry stays
TaskEnds(f) ==
  /\ todo = <<>>
  /\ \/ running[f] > 0 /\ running' = Decr(running, f) /\ UNCHANGED strays
     \/ strays[f] > 0 /\ strays' = Decr(strays, f) /\ UNCHANGED running
  /\ UNCHANGED <<diskVars, crashed, generation, entries, todo, owed, history>>

\* crash() of a crashed host does nothing; the tasks stop for good
Crash ==
  /\ ~crashed /\ generation < MaxCrashes
  /\ crashed' = TRUE
  /\ running' = [f \in Targets |-> 0] /\ strays' = [f \in Targets |-> 0]
  /\ PowerCut
  /\ UNCHANGED <<generation, entries, todo, owed>>

\* [mutant] restart() appends to the entries it did not clear
RestartMut ==
  /\ crashed /\ todo = <<>> /\ \A i \in DOMAIN entries : entries[i] # Raw
  /\ crashed' = FALSE /\ generation' = generation + 1
  /\ todo' = entries
  /\ UNCHANGED <<diskVars, entries, running, strays, owed, history>>

\* restart() raises and changes nothing unless every entry is a factory; it comes
\* to the call of the first
Restart ==
  /\ crashed /\ todo = <<>> /\ \A i \in DOMAIN entries : entries[i] # Raw
  /\ crashed' = FALSE /\ generation' = generation + 1
  /\ todo' = entries /\ entries' = <<>>
  /\ UNCHANGED <<diskVars, running, strays, owed, history>>

\* the factory returns, its entry is kept and its task created
FactoryReturns ==
  /\ todo # <<>> /\ ~crashed
  /\ entries' = Append(entries, Head(todo)) /\ todo' = Tail(todo)
  /\ running' = Incr(running, Head(todo))
  /\ UNCHANGED <<diskVars, crashed, generation, strays, owed, history>>

\* the same when the factory has cut the power: spawn() does not look again, and the
\* next one raises out of restart() with the rest of the entries
FactoryReturnsOnDeadHost ==
  /\ todo # <<>> /\ crashed
  /\ entries' = Append(entries, Head(todo)) /\ todo' = <<>>
  /\ strays' = Incr(strays, Head(todo))
  /\ owed' = Counts(entries')
  /\ UNCHANGED <<diskVars, crashed, generation, running, history>>

\* the factory raises out of restart(): its entry and the rest are forgotten
FactoryRaises ==
  /\ todo # <<>> /\ Head(todo) \in Raising
  /\ todo' = <<>> /\ owed' = Counts(entries)
  /\ UNCHANGED <<diskVars, crashed, generation, entries, running, strays, history>>

Next ==
  \/ \E p \in Paths : Write(p) \/ Delete(p) \/ Fsync({p})
  \/ Fsync(Paths) \/ DropUnsynced
  \/ \E f \in Targets : Spawn(f) \/ TaskEnds(f)
  \/ Crash \/ Restart \/ FactoryReturns \/ FactoryReturnsOnDeadHost \/ FactoryRaises

Spec == Init /\ [][Next]_vars

----------------------------------------------------------------------------
(* Properties.                                                             *)

\* "Only fsync() makes it durable", and it does: a path that nothing was written to
\* since its last fsync, or since the cut that dealt with what was, reads as it did
\* then, across any crashes and restarts.
FsyncedSurvives ==
  \A p \in Paths : written[p] = {} => View(p) = firm[p]

\* A power cut never invents or mixes: each path independently is left as fsync fixed
\* it, or as a prefix, at least one byte, of something written to it since, or gone
\* because it was deleted.
CutLeavesWhatWasWritten ==
  [][crashed' /\ ~crashed =>
       \A p \in Paths :
         \/ View(p)' = firm[p]
         \/ View(p)' = Absent /\ Absent \in written[p]
         \/ /\ View(p)' # Absent /\ View(p)'.upTo > 0
            /\ \E c \in written[p] \ {Absent} :
                 View(p)'.of = c.of /\ View(p)'.upTo <= c.upTo]_vars

\* When a restart runs to its end with the power on, the host runs one task for each
\* entry it was given, none twice and none missing, whatever the factories spawned
\* meanwhile and however often it was restarted before.  Not owed any more is what
\* a factory that raised or cut the power kept restart() from reaching; a task
\* created after such a cut may still run besides.
EveryEntryRunsAgain ==
  [][todo # <<>> /\ todo' = <<>> /\ ~crashed /\ UNCHANGED owed =>
       \A f \in Targets : running'[f] = owed[f] /\ Occurrences(entries', f) = owed[f]]_vars

\* Factories are re-run by restart(): none is ever forgotten.
EntriesAreNeverForgotten ==
  [][Len(entries') + Len(todo') >= Len(entries) + Len(todo)]_vars
=============================================================================
