-------------------------- MODULE Serializability --------------------------
(***************************************************************************)
(* check_serializable (src/simloom/_consistency.py): the dependency graph  *)
(* of a list-append history, and the shortest cycle in it; and beside it   *)
(* what it decides, the existence of a serial order.                       *)
(*                                                                         *)
(* A transaction is a sequence of operations [f, key, value]: an append of *)
(* one element, a read of a whole list or, which a history cannot record,  *)
(* the deletion of a list; value is the list of one, of all, or of none.   *)
(***************************************************************************)
EXTENDS Naturals, Sequences, FiniteSets, SequencesExt, FiniteSetsExt

Op(f, k, v) == [f |-> f, key |-> k, value |-> v]

\* the operations of kind f in a history, each with the index of its transaction
OpsOf(h, f) == {o \in UNION {{t} \X DOMAIN h[t] : t \in DOMAIN h} : h[o[1]][o[2]].f = f}
ReadsOf(h, k) == {r \in OpsOf(h, "read") : h[r[1]][r[2]].key = k}
KeysRead(h) == {h[r[1]][r[2]].key : r \in OpsOf(h, "read")}
Observed(h, r) == h[r[1]][r[2]].value

\* version_order: the longest list a read of k observed, the first one of that length
VersionOrder(h, k) ==
  LET Before(q, r) == q[1] < r[1] \/ (q[1] = r[1] /\ q[2] <= r[2])
  IN  Observed(h, CHOOSE r \in ReadsOf(h, k) : \A q \in ReadsOf(h, k) :
        \/ Len(Observed(h, q)) < Len(Observed(h, r))
        \/ Len(Observed(h, q)) = Len(Observed(h, r)) /\ Before(r, q))

\* appender: the transactions that append v, of which the code keeps the last; none
\* if whoever appended it is not in the history
Appender(h, v) ==
  LET by == {a[1] : a \in {a \in OpsOf(h, "append") : h[a[1]][a[2]].value = <<v>>}}
  IN  IF by = {} THEN {} ELSE {Max(by)}

\* [mutant] a reader precedes the writer of the last version it saw, too
LastSeenMut(order, observed) ==
  LET at == {i \in DOMAIN order : observed # <<>> /\ order[i] = Last(observed)}
  IN  IF at = {} THEN 0 ELSE Max(at) - 1

\* last_seen: where the last value observed stands in the version order, or nowhere
LastSeen(order, observed) ==
  LET at == {i \in DOMAIN order : observed # <<>> /\ order[i] = Last(observed)}
  IN  IF at = {} THEN 0 ELSE Max(at)

WriteWrite(h, k) ==
  LET order == VersionOrder(h, k)
  IN  UNION {Appender(h, order[i]) \X Appender(h, order[i + 1]) : i \in 1 .. Len(order) - 1}

WriteRead(h, k) ==
  UNION {UNION {Appender(h, v) \X {r[1]} : v \in ToSet(Observed(h, r))} : r \in ReadsOf(h, k)}

ReadWrite(h, k) ==
  LET order == VersionOrder(h, k)
      Later(r) == LastSeen(order, Observed(h, r)) + 1 .. Len(order)
  IN  UNION {UNION {{r[1]} \X Appender(h, order[i]) : i \in Later(r)} : r \in ReadsOf(h, k)}

\* _Graph: no edge from a transaction to itself
Dependencies(h) ==
  {e \in UNION {WriteWrite(h, k) \cup WriteRead(h, k) \cup ReadWrite(h, k) : k \in KeysRead(h)} :
     e[1] # e[2]}

\* the nodes that a walk of n edges reaches from u
Reached(h, u) ==
  LET E == Dependencies(h)
      after[n \in 0 .. Len(h)] ==
        IF n = 0 THEN {u} ELSE {e[2] : e \in {e \in E : e[1] \in after[n - 1]}}
  IN  after

\* _shortest_cycle: the length of the shortest cycle, 0 if there is none
ShortestCycle(h) ==
  LET lengths == {n \in 1 .. Len(h) : \E u \in DOMAIN h : u \in Reached(h, u)[n]}
  IN  IF lengths = {} THEN 0 ELSE Min(lengths)

CheckSerializable(h) == ShortestCycle(h) = 0

----------------------------------------------------------------------------
(* The reference.                                                          *)

\* what key k holds after the first n operations of s, for each n
Contents(s, k) ==
  LET held[n \in 0 .. Len(s)] ==
        IF n = 0 THEN <<>>
        ELSE IF s[n].key # k \/ s[n].f = "read" THEN held[n - 1]
        ELSE IF s[n].f = "del" THEN <<>> ELSE held[n - 1] \o s[n].value
  IN  held

\* one operation after the other, every read observes the whole list
Legal(s) == \A i \in DOMAIN s : s[i].f = "read" => s[i].value = Contents(s, s[i].key)[i - 1]

\* some serial order of the transactions explains every read
Serializable(h) ==
  \E order \in SetToSeqs(DOMAIN h) : Legal(FlattenSeq([i \in DOMAIN order |-> h[order[i]]]))
=============================================================================
