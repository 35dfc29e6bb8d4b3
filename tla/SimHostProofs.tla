--------------------------- MODULE SimHostProofs ---------------------------
(***************************************************************************)
(* What a host and its disk guarantee for any files, values and entries.   *)
(* DiskInv adds to the type invariant what ties the disk to its history:   *)
(* the platter holds what is fixed, and whatever waits in the page cache   *)
(* was written since.  RestartInv counts the entries: those of the host    *)
(* and those restart() has still to spawn are the ones it was given, and   *)
(* during a restart the tasks are those of the entries spawned so far.     *)
(***************************************************************************)
EXTENDS SimHost, FunctionTheorems, SequenceTheorems, FiniteSetTheorems, TLAPS

DiskInv ==
  /\ synced = firm
  /\ \A p \in Paths : buffered[p] # Clean => buffered[p] \in written[p]

RestartInv ==
  /\ \A f \in Targets : Occurrences(entries, f) + Occurrences(todo, f) = owed[f]
  /\ crashed => \A f \in Targets : running[f] = 0
  /\ todo # <<>> /\ ~crashed => \A f \in Targets : running[f] = Occurrences(entries, f)

IInv == TypeOK /\ DiskInv /\ RestartInv

----------------------------------------------------------------------------
(* Contents.                                                               *)

\* A whole value is a file, and so is every prefix of it but the empty one; no file
\* is taken for a missing one or for a clean cache.
LEMMA ContentsAreFiles ==
  /\ Contents \subseteq Files /\ Absent \notin Files /\ Clean \notin Files
  /\ Clean # Absent
  /\ \A c \in Contents : \A n \in 1 .. c.upTo : [of |-> c.of, upTo |-> n] \in Files
<1>1. \A v \in Values : Size[v] \in Nat \ {0}
  BY HostAssumption
<1>2. \A c \in Contents : c \in Files /\ \A n \in 1 .. c.upTo : [of |-> c.of, upTo |-> n] \in Files
  BY <1>1 DEF Contents, Content, Files
<1>3. ASSUME NEW c \in Files
      PROVE  c # Absent /\ c # Clean
  <2>1. c.of \in Values /\ c.upTo \in 1 .. Size[c.of] /\ c = [of |-> c.of, upTo |-> c.upTo]
    BY <1>1 DEF Files
  <2>2. [of |-> c.of, upTo |-> c.upTo] \notin {Absent, Clean}
    BY <2>1, HostAssumption
  <2>. QED BY <2>1, <2>2
<1>4. Clean # Absent
  BY HostAssumption
<1>. QED BY <1>2, <1>3, <1>4

\* What a program sees of a path is a file or nothing.
LEMMA ViewIsTyped ==
  ASSUME TypeOK, NEW p \in Paths
  PROVE  View(p) \in Files \cup {Absent}
BY ContentsAreFiles DEF TypeOK, View

\* Every fate of a path is a file or nothing.
LEMMA FatesAreTyped ==
  ASSUME TypeOK, NEW p \in Paths, NEW c \in Fates(p)
  PROVE  c \in Files \cup {Absent}
<1>1. CASE buffered[p] \in {Clean, Absent}
  BY <1>1, ViewIsTyped DEF Fates, TypeOK
<1>2. CASE buffered[p] \notin {Clean, Absent}
  BY <1>2, ContentsAreFiles DEF Fates, TypeOK
<1>. QED BY <1>1, <1>2

\* A path that was not written to has only one fate.
LEMMA UntouchedStays ==
  ASSUME IInv, NEW p \in Paths, written[p] = {}, NEW c \in Fates(p)
  PROVE  c = firm[p]
BY DEF IInv, DiskInv, Fates, View

----------------------------------------------------------------------------
(* Counting entries.                                                       *)

\* A count of the entries is a number, and none of an empty sequence.
LEMMA OccurrencesAreCounted ==
  ASSUME NEW S, NEW s \in Seq(S), NEW f
  PROVE  /\ IsFiniteSet({i \in DOMAIN s : s[i] = f})
         /\ Occurrences(s, f) \in Nat
         /\ Occurrences(<<>>, f) = 0
<1>1. IsFiniteSet(1 .. Len(s)) /\ DOMAIN s = 1 .. Len(s)
  BY FS_Interval, LenProperties
<1>2. IsFiniteSet({i \in DOMAIN s : s[i] = f})
  BY <1>1, FS_Subset
<1>3. {i \in DOMAIN <<>> : <<>>[i] = f} = {}
  OBVIOUS
<1>. QED BY <1>2, <1>3, FS_CardinalityType, FS_EmptySet DEF Occurrences

\* Appending an entry counts it once.
LEMMA AppendCounts ==
  ASSUME NEW S, NEW s \in Seq(S), NEW x \in S, NEW f
  PROVE  Occurrences(Append(s, x), f) = Occurrences(s, f) + (IF x = f THEN 1 ELSE 0)
<1>. DEFINE old == {i \in DOMAIN s : s[i] = f}
            new == {i \in DOMAIN Append(s, x) : Append(s, x)[i] = f}
            n == Len(s) + 1
<1>1. /\ DOMAIN s = 1 .. Len(s) /\ Len(s) \in Nat /\ DOMAIN Append(s, x) = 1 .. n
      /\ Append(s, x)[n] = x /\ \A i \in 1 .. Len(s) : Append(s, x)[i] = s[i]
  BY AppendProperties, LenProperties
<1>2. IsFiniteSet(old) /\ n \notin old
  <2>1. IsFiniteSet(old)
    BY OccurrencesAreCounted
  <2>2. \A i \in 1 .. Len(s) : i # n
    BY <1>1
  <2>. QED BY <1>1, <2>1, <2>2
<1>3. CASE x = f
  <2>1. new = old \cup {n}
    BY <1>1, <1>3
  <2>2. Cardinality(new) = Cardinality(old) + 1
    BY <1>2, <2>1, FS_AddElement
  <2>. QED BY <1>3, <2>2 DEF Occurrences
<1>4. CASE x # f
  <2>1. new = old
    BY <1>1, <1>4
  <2>2. Occurrences(s, f) \in Nat
    BY OccurrencesAreCounted
  <2>3. Occurrences(Append(s, x), f) = Occurrences(s, f)
    BY <2>1 DEF Occurrences
  <2>. QED BY <1>4, <2>2, <2>3
<1>. QED BY <1>3, <1>4

\* What is taken off the front was counted once.
LEMMA TailCounts ==
  ASSUME NEW S, NEW s \in Seq(S), s # <<>>, NEW f
  PROVE  Occurrences(s, f) = Occurrences(Tail(s), f) + (IF Head(s) = f THEN 1 ELSE 0)
<1>. DEFINE all == {i \in DOMAIN s : s[i] = f}
            rest == {i \in DOMAIN Tail(s) : Tail(s)[i] = f}
            moved == {i \in all : i > 1}
            Shift == [i \in rest |-> i + 1]
<1>1. /\ DOMAIN s = 1 .. Len(s) /\ Len(s) \in Nat /\ Len(s) > 0 /\ Head(s) = s[1]
      /\ Tail(s) \in Seq(S) /\ DOMAIN Tail(s) = 1 .. Len(s) - 1
      /\ \A i \in 1 .. Len(s) - 1 : Tail(s)[i] = s[i + 1]
  BY LenProperties, EmptySeq, HeadTailProperties
<1>2. IsFiniteSet(all) /\ IsFiniteSet(rest)
  <2>1. IsFiniteSet(all)
    BY OccurrencesAreCounted, ZenonT(60)
  <2>2. IsFiniteSet(rest)
    <3>1. Tail(s) \in Seq(S)
      BY <1>1
    <3>. QED BY <3>1, OccurrencesAreCounted, ZenonT(60)
  <2>. QED BY <2>1, <2>2
<1>3. Shift \in Bijection(rest, moved)
  <2>1. Shift \in [rest -> moved]
    BY <1>1
  <2>2. \A a, b \in rest : Shift[a] = Shift[b] => a = b
    BY <1>1
  <2>3. \A m \in moved : \E a \in rest : Shift[a] = m
    <3>. SUFFICES ASSUME NEW m \in moved PROVE \E a \in rest : Shift[a] = m
      OBVIOUS
    <3>1. m - 1 \in rest /\ (m - 1) + 1 = m
      BY <1>1
    <3>. QED BY <3>1
  <2>. QED BY <2>1, <2>2, <2>3, Fun_IsBij
<1>4. Cardinality(moved) = Cardinality(rest) /\ IsFiniteSet(moved)
  <2>. HIDE DEF all, rest, moved, Shift
  <2>1. ExistsBijection(rest, moved)
    BY <1>3, Fun_ExistsBij
  <2>. QED BY <1>2, <2>1, FS_Bijection
<1>5. CASE Head(s) = f
  <2>1. all = moved \cup {1} /\ 1 \notin moved
    BY <1>1, <1>5
  <2>2. Cardinality(all) = Cardinality(moved) + 1
    BY <1>4, <2>1, FS_AddElement
  <2>. QED BY <1>4, <1>5, <2>2 DEF Occurrences
<1>6. CASE Head(s) # f
  <2>1. all = moved
    BY <1>1, <1>6
  <2>2. Occurrences(s, f) \in Nat
    BY OccurrencesAreCounted
  <2>3. Occurrences(Tail(s), f) = Occurrences(s, f)
    BY <1>4, <2>1 DEF Occurrences
  <2>. QED BY <1>6, <2>2, <2>3
<1>. QED BY <1>5, <1>6

----------------------------------------------------------------------------
(* The inductive invariant.                                                *)

\* Steps of the disk leave the entries alone, and the other way round.
LEMMA HostFrame ==
  ASSUME RestartInv, UNCHANGED hostVars
  PROVE  RestartInv'
BY DEF RestartInv, hostVars, Occurrences

LEMMA DiskFrame ==
  ASSUME DiskInv, UNCHANGED <<diskVars, history>>
  PROVE  DiskInv'
BY DEF DiskInv, diskVars, history

\* Settling the disk keeps its part of the invariant: the paths that were not written
\* to keep what was fixed.
LEMMA SettleStep ==
  ASSUME IInv, NEW survives \in [Paths -> Files \cup {Absent}], Settle(survives),
         \A p \in Paths : written[p] = {} => survives[p] = firm[p]
  PROVE  /\ synced' \in [Paths -> Files \cup {Absent}] /\ firm' \in [Paths -> Files \cup {Absent}]
         /\ buffered' \in [Paths -> Contents \cup {Clean, Absent}]
         /\ written' \in [Paths -> SUBSET (Contents \cup {Absent})]
         /\ DiskInv'
<1>1. synced' = survives /\ \A p \in Paths : firm'[p] = survives[p] /\ buffered'[p] = Clean
  BY DEF Settle
<1>2. firm' = survives
  BY <1>1 DEF Settle
<1>. QED BY <1>1, <1>2 DEF Settle, DiskInv

\* Writes, deletes and syncs keep the invariant, and so does a power cut.
LEMMA DiskStep ==
  ASSUME IInv, \/ \E p \in Paths : Write(p) \/ Delete(p) \/ Fsync({p})
               \/ Fsync(Paths) \/ DropUnsynced
  PROVE  IInv'
<1>1. ASSUME NEW p \in Paths, NEW c \in Contents \cup {Absent}, Cache(p, c)
      PROVE  IInv'
  <2>1. buffered' \in [Paths -> Contents \cup {Clean, Absent}]
    BY <1>1 DEF Cache, IInv, TypeOK
  <2>2. written' \in [Paths -> SUBSET (Contents \cup {Absent})]
    BY <1>1 DEF Cache, IInv, TypeOK
  <2>3. DiskInv'
    BY <1>1 DEF Cache, IInv, TypeOK, DiskInv
  <2>4. RestartInv'
    BY <1>1, HostFrame DEF Cache, IInv
  <2>. QED BY <1>1, <2>1, <2>2, <2>3, <2>4 DEF Cache, IInv, TypeOK, hostVars
<1>2. ASSUME NEW p \in Paths, Write(p) \/ Delete(p)
      PROVE  IInv'
  BY <1>1, <1>2 DEF Write, Delete, Contents
<1>3. ASSUME NEW ps \in SUBSET Paths, Fsync(ps)
      PROVE  IInv'
  <2>1. \A p \in Paths : View(p) \in Files \cup {Absent}
    BY ViewIsTyped DEF IInv
  <2>2. synced' \in [Paths -> Files \cup {Absent}] /\ firm' = synced'
    BY <1>3, <2>1 DEF Fsync, Committed, IInv, TypeOK, DiskInv
  <2>3. buffered' \in [Paths -> Contents \cup {Clean, Absent}]
    BY <1>3 DEF Fsync, IInv, TypeOK
  <2>4. written' \in [Paths -> SUBSET (Contents \cup {Absent})]
    BY <1>3 DEF Fsync, IInv, TypeOK
  <2>5. DiskInv'
    BY <1>3, <2>2 DEF Fsync, IInv, DiskInv
  <2>6. RestartInv'
    BY <1>3, HostFrame DEF Fsync, IInv
  <2>. QED BY <1>3, <2>2, <2>3, <2>4, <2>5, <2>6 DEF Fsync, IInv, TypeOK, hostVars
<1>4. CASE DropUnsynced
  <2>1. synced \in [Paths -> Files \cup {Absent}] /\ synced = firm
    BY DEF IInv, TypeOK, DiskInv
  <2>2. RestartInv'
    BY <1>4, HostFrame DEF DropUnsynced, IInv
  <2>. QED BY <1>4, <2>1, <2>2, SettleStep DEF DropUnsynced, IInv, TypeOK, hostVars
<1>5. \A p \in Paths : {p} \in SUBSET Paths
  OBVIOUS
<1>. QED BY <1>2, <1>3, <1>4, <1>5

LEMMA CrashStep ==
  ASSUME IInv, Crash
  PROVE  IInv'
<1>1. PICK survives \in [Paths -> UNION {Fates(p) : p \in Paths}] :
        (\A p \in Paths : survives[p] \in Fates(p)) /\ Settle(survives)
  BY DEF Crash, PowerCut
<1>2. survives \in [Paths -> Files \cup {Absent}]
  BY <1>1, FatesAreTyped DEF IInv
<1>3. \A p \in Paths : written[p] = {} => survives[p] = firm[p]
  BY <1>1, UntouchedStays
<1>4. running' \in [Targets -> Nat] /\ strays' \in [Targets -> Nat] /\ crashed' \in BOOLEAN
  BY DEF Crash
<1>5. RestartInv'
  BY DEF Crash, IInv, RestartInv, Occurrences
<1>. QED BY <1>1, <1>2, <1>3, <1>4, <1>5, SettleStep DEF Crash, IInv, TypeOK

\* Adding to and taking from a count.
LEMMA Counting ==
  ASSUME NEW count \in [Targets -> Nat], NEW x \in Targets
  PROVE  /\ Incr(count, x) \in [Targets -> Nat]
         /\ count[x] > 0 => Decr(count, x) \in [Targets -> Nat]
         /\ \A f \in Targets : Incr(count, x)[f] = count[f] + (IF x = f THEN 1 ELSE 0)
BY DEF Incr, Decr

LEMMA SpawnStep ==
  ASSUME IInv, NEW x \in Targets, Spawn(x) \/ TaskEnds(x)
  PROVE  IInv'
<1>1. /\ entries \in Seq(Targets) /\ todo \in Seq(Factories)
      /\ running \in [Targets -> Nat] /\ strays \in [Targets -> Nat] /\ owed \in [Targets -> Nat]
  BY DEF IInv, TypeOK
<1>2. DiskInv'
  BY DiskFrame DEF Spawn, TaskEnds, IInv
<1>3. CASE Spawn(x)
  <2>1. entries' = Append(entries, x) /\ running' = Incr(running, x) /\ owed' = Incr(owed, x)
        /\ UNCHANGED <<todo, crashed>> /\ ~crashed
    BY <1>3 DEF Spawn
  <2>2. entries' \in Seq(Targets) /\ running' \in [Targets -> Nat] /\ owed' \in [Targets -> Nat]
    BY <1>1, <2>1, AppendProperties, Counting
  <2>3. \A f \in Targets : Occurrences(entries', f) = Occurrences(entries, f) + (IF x = f THEN 1 ELSE 0)
    BY <1>1, <2>1, AppendCounts
  <2>4. \A f \in Targets : /\ running'[f] = running[f] + (IF x = f THEN 1 ELSE 0)
                           /\ owed'[f] = owed[f] + (IF x = f THEN 1 ELSE 0)
    BY <1>1, <2>1, Counting
  <2>5. \A f \in Targets : Occurrences(entries, f) \in Nat /\ Occurrences(todo, f) \in Nat
    BY <1>1, OccurrencesAreCounted
  <2>6. RestartInv'
    <3>1. \A f \in Targets : Occurrences(entries', f) + Occurrences(todo', f) = owed'[f]
      <4>. SUFFICES ASSUME NEW f \in Targets
                    PROVE  Occurrences(entries', f) + Occurrences(todo, f) = owed'[f]
        BY <2>1
      <4>1. Occurrences(entries, f) + Occurrences(todo, f) = owed[f] /\ owed[f] \in Nat
        BY <1>1 DEF IInv, RestartInv
      <4>. QED BY <2>3, <2>4, <2>5, <4>1
    <3>2. todo' # <<>> => \A f \in Targets : running'[f] = Occurrences(entries', f)
      BY <2>1, <2>3, <2>4 DEF IInv, RestartInv
    <3>. QED BY <2>1, <3>1, <3>2 DEF RestartInv
  <2>. QED BY <1>2, <1>3, <2>2, <2>6 DEF Spawn, IInv, TypeOK, diskVars, history
<1>4. CASE TaskEnds(x)
  <2>1. running' \in [Targets -> Nat] /\ strays' \in [Targets -> Nat]
    <3>1. CASE running[x] > 0 /\ running' = Decr(running, x) /\ UNCHANGED strays
      BY <1>1, <3>1, Counting
    <3>2. CASE strays[x] > 0 /\ strays' = Decr(strays, x) /\ UNCHANGED running
      BY <1>1, <3>2, Counting
    <3>. QED BY <1>4, <3>1, <3>2 DEF TaskEnds
  <2>2. crashed => running' = running
    BY <1>1, <1>4 DEF TaskEnds, IInv, RestartInv
  <2>3. RestartInv'
    BY <1>4, <2>2 DEF TaskEnds, IInv, RestartInv, Occurrences
  <2>. QED BY <1>2, <1>4, <2>1, <2>3 DEF TaskEnds, IInv, TypeOK, diskVars, history
<1>. QED BY <1>3, <1>4

\* restart() keeps the entries; what it does with each is counted.
LEMMA RestartStep ==
  ASSUME IInv, Restart \/ FactoryReturns \/ FactoryReturnsOnDeadHost \/ FactoryRaises
  PROVE  IInv'
<1>1. /\ entries \in Seq(Targets) /\ todo \in Seq(Factories) /\ <<>> \in Seq(Factories) /\ <<>> \in Seq(Targets)
      /\ running \in [Targets -> Nat] /\ strays \in [Targets -> Nat] /\ owed \in [Targets -> Nat]
  BY DEF IInv, TypeOK
<1>2. DiskInv'
  BY DiskFrame DEF Restart, FactoryReturns, FactoryReturnsOnDeadHost, FactoryRaises, IInv
<1>3. \A f \in Targets : Occurrences(entries, f) \in Nat /\ Occurrences(todo, f) \in Nat /\ Occurrences(<<>>, f) = 0
  BY <1>1, OccurrencesAreCounted
<1>4. CASE Restart
  <2>1. entries \in Seq(Factories)
    <3>1. \A i \in 1 .. Len(entries) : entries[i] \in Factories
      BY <1>1, <1>4, LenProperties DEF Restart, Targets
    <3>2. entries \in [1 .. Len(entries) -> Factories] /\ Len(entries) \in Nat
      BY <1>1, <3>1, LenProperties
    <3>. QED BY <3>2, SeqDef
  <2>2. todo' = entries /\ entries' = <<>> /\ todo = <<>> /\ crashed /\ UNCHANGED <<running, owed>>
    BY <1>4 DEF Restart
  <2>3. RestartInv'
    <3>1. \A f \in Targets : Occurrences(entries', f) + Occurrences(todo', f) = owed'[f]
      BY <1>3, <2>2 DEF IInv, RestartInv
    <3>2. \A f \in Targets : running'[f] = 0 /\ Occurrences(entries', f) = 0
      BY <1>3, <2>2 DEF IInv, RestartInv
    <3>. QED BY <3>1, <3>2 DEF RestartInv
  <2>4. crashed' \in BOOLEAN
    BY <1>4, Zenon DEF Restart
  <2>5. generation' \in Nat
    BY <1>4 DEF Restart, IInv, TypeOK
  <2>. QED BY <1>1, <1>2, <1>4, <2>1, <2>2, <2>3, <2>4, <2>5 DEF Restart, IInv, TypeOK, diskVars, history
<1>5. ASSUME todo # <<>>, entries' = Append(entries, Head(todo))
      PROVE  /\ Head(todo) \in Targets /\ entries' \in Seq(Targets) /\ Tail(todo) \in Seq(Factories)
             /\ \A f \in Targets :
                  /\ Occurrences(entries', f) = Occurrences(entries, f) + (IF Head(todo) = f THEN 1 ELSE 0)
                  /\ Occurrences(todo, f) = Occurrences(Tail(todo), f) + (IF Head(todo) = f THEN 1 ELSE 0)
                  /\ Occurrences(Tail(todo), f) \in Nat
  <2>1. Head(todo) \in Targets /\ Tail(todo) \in Seq(Factories)
    BY <1>1, <1>5, HeadTailProperties DEF Targets
  <2>2. entries' \in Seq(Targets)
    BY <1>1, <1>5, <2>1, AppendProperties
  <2>3. \A f \in Targets :
          Occurrences(entries', f) = Occurrences(entries, f) + (IF Head(todo) = f THEN 1 ELSE 0)
    BY <1>1, <1>5, <2>1, AppendCounts
  <2>4. \A f \in Targets :
          Occurrences(todo, f) = Occurrences(Tail(todo), f) + (IF Head(todo) = f THEN 1 ELSE 0)
    BY <1>1, <1>5, TailCounts
  <2>5. \A f \in Targets : Occurrences(Tail(todo), f) \in Nat
    BY <2>1, OccurrencesAreCounted
  <2>. QED BY <2>1, <2>2, <2>3, <2>4, <2>5
<1>6. CASE FactoryReturns
  <2>1. /\ todo # <<>> /\ ~crashed /\ entries' = Append(entries, Head(todo)) /\ todo' = Tail(todo)
        /\ running' = Incr(running, Head(todo)) /\ UNCHANGED <<crashed, owed>>
    BY <1>6 DEF FactoryReturns
  <2>2. running' \in [Targets -> Nat]
        /\ \A f \in Targets : running'[f] = running[f] + (IF Head(todo) = f THEN 1 ELSE 0)
    BY <1>1, <1>5, <2>1, Counting
  <2>3. RestartInv'
    <3>1. \A f \in Targets : Occurrences(entries', f) + Occurrences(todo', f) = owed'[f]
      <4>. SUFFICES ASSUME NEW f \in Targets
                    PROVE  Occurrences(entries', f) + Occurrences(Tail(todo), f) = owed[f]
        BY <2>1
      <4>1. Occurrences(entries, f) + Occurrences(todo, f) = owed[f] /\ Occurrences(entries, f) \in Nat
        BY <1>3 DEF IInv, RestartInv
      <4>2. /\ Occurrences(entries', f) = Occurrences(entries, f) + (IF Head(todo) = f THEN 1 ELSE 0)
            /\ Occurrences(todo, f) = Occurrences(Tail(todo), f) + (IF Head(todo) = f THEN 1 ELSE 0)
            /\ Occurrences(Tail(todo), f) \in Nat
        BY <1>5, <2>1
      <4>. QED BY <4>1, <4>2
    <3>2. \A f \in Targets : running'[f] = Occurrences(entries', f)
      BY <1>5, <2>1, <2>2 DEF IInv, RestartInv
    <3>. QED BY <2>1, <3>1, <3>2 DEF RestartInv
  <2>. QED BY <1>2, <1>5, <1>6, <2>1, <2>2, <2>3 DEF FactoryReturns, IInv, TypeOK, diskVars, history
<1>7. CASE FactoryReturnsOnDeadHost
  <2>1. /\ todo # <<>> /\ crashed /\ entries' = Append(entries, Head(todo)) /\ todo' = <<>>
        /\ strays' = Incr(strays, Head(todo)) /\ UNCHANGED <<crashed, running>>
        /\ owed' = [f \in Targets |-> Occurrences(entries', f)]
    BY <1>7 DEF FactoryReturnsOnDeadHost, Counts
  <2>2. strays' \in [Targets -> Nat]
    BY <1>1, <1>5, <2>1, Counting
  <2>3. \A f \in Targets : Occurrences(entries', f) \in Nat
    <3>1. entries' \in Seq(Targets)
      BY <1>5, <2>1
    <3>. QED BY <3>1, OccurrencesAreCounted
  <2>4. RestartInv'
    BY <1>3, <2>1, <2>3 DEF IInv, RestartInv
  <2>. QED BY <1>1, <1>2, <1>5, <1>7, <2>1, <2>2, <2>3, <2>4 DEF FactoryReturnsOnDeadHost, IInv, TypeOK, diskVars, history
<1>8. CASE FactoryRaises
  <2>1. /\ todo' = <<>> /\ UNCHANGED <<entries, crashed, running>>
        /\ owed' = [f \in Targets |-> Occurrences(entries, f)]
    BY <1>8 DEF FactoryRaises, Counts
  <2>2. RestartInv'
    BY <1>3, <2>1 DEF IInv, RestartInv
  <2>. QED BY <1>1, <1>2, <1>3, <1>8, <2>1, <2>2 DEF FactoryRaises, IInv, TypeOK, diskVars, history
<1>. QED BY <1>4, <1>6, <1>7, <1>8

\* Writes, deletes, syncs, spawns, crashes and restarts keep the invariant.
LEMMA NextIInv ==
  ASSUME IInv, [Next]_vars
  PROVE  IInv'
<1>1. CASE UNCHANGED vars
  <2>1. DiskInv' /\ RestartInv'
    BY <1>1, DiskFrame, HostFrame DEF IInv, vars
  <2>. QED BY <1>1, <2>1 DEF IInv, TypeOK, vars, diskVars, hostVars, history
<1>. QED BY <1>1, DiskStep, CrashStep, SpawnStep, RestartStep DEF Next

\* The invariant holds in every reachable state.
THEOREM Invariance == Spec => []IInv
<1>1. Init => IInv
  <2>. SUFFICES ASSUME Init PROVE IInv
    OBVIOUS
  <2>1. crashed \in BOOLEAN
    BY Zenon DEF Init
  <2>2. entries \in Seq(Targets) /\ todo \in Seq(Factories)
    BY DEF Init
  <2>3. \A f \in Targets : Occurrences(<<>>, f) = 0
    BY <2>2, OccurrencesAreCounted DEF Init
  <2>4. RestartInv
    BY <2>3 DEF Init, RestartInv
  <2>. QED BY <2>1, <2>2, <2>4 DEF Init, IInv, TypeOK, DiskInv
<1>. QED BY <1>1, NextIInv, PTL DEF Spec

----------------------------------------------------------------------------
(* Theorems.                                                               *)

\* Contents, caches and entries are well typed; above all no file is ever empty.
THEOREM TypeCorrect == Spec => []TypeOK
<1>1. IInv => TypeOK
  BY DEF IInv
<1>. QED BY <1>1, Invariance, PTL

\* What was synced and not touched since is what a program reads, whatever crashed.
THEOREM SyncedDataSurvives == Spec => []FsyncedSurvives
<1>1. IInv => FsyncedSurvives
  BY DEF IInv, DiskInv, FsyncedSurvives, View
<1>. QED BY <1>1, Invariance, PTL

\* A power cut leaves each path as it was fixed, or a prefix of a write, or deleted.
THEOREM CutsLeaveWhatWasWritten == Spec => CutLeavesWhatWasWritten
<1>. DEFINE Left(p) ==
       \/ View(p)' = firm[p]
       \/ View(p)' = Absent /\ Absent \in written[p]
       \/ /\ View(p)' # Absent /\ View(p)'.upTo > 0
          /\ \E c \in written[p] \ {Absent} :
               View(p)'.of = c.of /\ View(p)'.upTo <= c.upTo
<1>1. ASSUME IInv, [Next]_vars, crashed', ~crashed, NEW p \in Paths
      PROVE  Left(p)
  <2>1. Crash
    BY <1>1, Zenon DEF Next, Write, Delete, Cache, Fsync, DropUnsynced, Spawn, TaskEnds,
       Restart, FactoryReturns, FactoryReturnsOnDeadHost, FactoryRaises, vars, hostVars
  <2>2. PICK survives \in [Paths -> UNION {Fates(q) : q \in Paths}] :
          (\A q \in Paths : survives[q] \in Fates(q)) /\ Settle(survives)
    BY <2>1 DEF Crash, PowerCut
  <2>3. View(p)' = survives[p] /\ survives[p] \in Fates(p)
    BY <2>2 DEF View, Settle
  <2>4. CASE buffered[p] \in {Clean, Absent}
    <3>1. survives[p] = firm[p] \/ (survives[p] = Absent /\ Absent \in written[p])
      BY <1>1, <2>3, <2>4, ContentsAreFiles DEF Fates, View, IInv, DiskInv
    <3>. QED BY <2>3, <3>1
  <2>5. CASE buffered[p] \notin {Clean, Absent} /\ survives[p] # firm[p]
    <3>1. buffered[p] \in Contents /\ buffered[p] \in written[p] \ {Absent}
      BY <1>1, <2>5 DEF IInv, TypeOK, DiskInv
    <3>2. PICK n \in 1 .. buffered[p].upTo : survives[p] = [of |-> buffered[p].of, upTo |-> n]
      BY <1>1, <2>3, <2>5 DEF Fates, IInv, DiskInv
    <3>3. buffered[p].upTo \in Nat
      BY <3>1, ContentsAreFiles DEF Files
    <3>4. survives[p] # Absent
      BY <3>1, <3>2, ContentsAreFiles
    <3>5. /\ survives[p].of = buffered[p].of /\ survives[p].upTo > 0
          /\ survives[p].upTo <= buffered[p].upTo
      BY <3>2, <3>3
    <3>. QED BY <2>3, <3>1, <3>4, <3>5
  <2>. QED BY <2>3, <2>4, <2>5
<1>2. IInv /\ [Next]_vars => [crashed' /\ ~crashed => \A p \in Paths : Left(p)]_vars
  BY <1>1
<1>. QED BY <1>2, Invariance, PTL DEF Spec, CutLeavesWhatWasWritten

\* When a restart runs to its end with the power on, the host runs one task for each
\* entry it was given, however the factories and earlier crashes went.
THEOREM EntriesRunAgain == Spec => EveryEntryRunsAgain
<1>. DEFINE Ends == todo # <<>> /\ todo' = <<>> /\ ~crashed /\ UNCHANGED owed
            Again == \A f \in Targets : running'[f] = owed[f] /\ Occurrences(entries', f) = owed[f]
<1>1. ASSUME IInv, [Next]_vars, Ends
      PROVE  Again
  <2>1. FactoryReturns \/ FactoryRaises
    BY <1>1, Zenon DEF Next, Write, Delete, Cache, Fsync, DropUnsynced, Spawn, TaskEnds,
       Crash, Restart, FactoryReturnsOnDeadHost, vars, hostVars
  <2>2. IInv'
    BY <1>1, NextIInv
  <2>3. todo' = <<>> /\ owed' = owed /\ entries \in Seq(Targets) /\ todo \in Seq(Factories)
        /\ entries' \in Seq(Targets) /\ todo # <<>> /\ owed \in [Targets -> Nat]
    BY <1>1, <2>2 DEF IInv, TypeOK
  <2>4. \A f \in Targets : Occurrences(entries', f) = owed[f]
    <3>1. \A f \in Targets : Occurrences(entries', f) \in Nat /\ Occurrences(<<>>, f) = 0
      BY <2>3, OccurrencesAreCounted
    <3>2. \A f \in Targets : Occurrences(entries', f) + Occurrences(<<>>, f) = owed[f]
      BY <2>2, <2>3 DEF IInv, RestartInv
    <3>. QED BY <3>1, <3>2
  <2>5. CASE FactoryReturns
    <3>1. entries' = Append(entries, Head(todo)) /\ running' = Incr(running, Head(todo)) /\ ~crashed
      BY <2>5 DEF FactoryReturns
    <3>2. Head(todo) \in Targets /\ running \in [Targets -> Nat]
      BY <1>1, <2>3, HeadTailProperties DEF Targets, IInv, TypeOK
    <3>3. \A f \in Targets : running'[f] = running[f] + (IF Head(todo) = f THEN 1 ELSE 0)
      BY <3>1, <3>2, Counting
    <3>4. \A f \in Targets : Occurrences(entries', f) = Occurrences(entries, f) + (IF Head(todo) = f THEN 1 ELSE 0)
      BY <2>3, <3>1, <3>2, AppendCounts
    <3>5. \A f \in Targets : running[f] = Occurrences(entries, f)
      BY <1>1, <2>3, <3>1 DEF IInv, RestartInv
    <3>. QED BY <2>4, <3>3, <3>4, <3>5
  <2>6. CASE FactoryRaises
    <3>1. running' = running /\ entries' = entries
      BY <2>6 DEF FactoryRaises
    <3>2. \A f \in Targets : running[f] = Occurrences(entries, f)
      BY <1>1 DEF IInv, RestartInv
    <3>. QED BY <2>4, <3>1, <3>2
  <2>. QED BY <2>1, <2>5, <2>6
<1>2. IInv /\ [Next]_vars => [Ends => Again]_vars
  BY <1>1
<1>. QED BY <1>2, Invariance, PTL DEF Spec, EveryEntryRunsAgain
=============================================================================
