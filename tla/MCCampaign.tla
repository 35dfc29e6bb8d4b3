----------------------------- MODULE MCCampaign -----------------------------
(***************************************************************************)
(* Programs with universes of different lengths, with picks among two and  *)
(* three, and with a draw too wide to be enumerated.                       *)
(***************************************************************************)
EXTENDS Campaign

CONSTANTS boom, bang

pick2 == [label |-> "pick", bound |-> 2]
pick3 == [label |-> "pick", bound |-> 3]
wide  == [label |-> "delay", bound |-> 5]

MCEntropy == [label |-> "entropy.seed", bound |-> 100]

MCSites == {pick2, pick3, wide, MCEntropy}

P2(v) == Draw(pick2, v)
P3(v) == Draw(pick3, v)
W(v)  == Draw(wide, v)

\* two picks among three, more schedules than MaxSchedules
Orders == {<<P3(a), P3(b)>> : a, b \in 0 .. 2}
\* a later pick that only some orders reach
Branches == {<<P2(0), P2(b)>> : b \in 0 .. 1} \cup {<<P2(1), P3(a), P2(0)>> : a \in 0 .. 2}
              \cup {<<P2(1), P3(a), P2(1)>> : a \in 0 .. 2}
\* a delay drawn first
Delayed == {<<W(v), P2(b)>> : v \in 0 .. 4, b \in 0 .. 1}

Result(e, r) == [error |-> e, reached |-> r]

\* the universes of bad fail with boom, those of worse with bang
Failing(universes, bad, worse) ==
  [d \in universes |-> IF d \in worse THEN Result(bang, TRUE)
                       ELSE IF d \in bad THEN Result(boom, TRUE) ELSE Result(Ok, Len(d) > 2)]

\* the programs that fail in at most two universes, from some delay on, or at two delays with a gap
Few(universes) == {bad \in SUBSET universes : Cardinality(bad) <= 2}
MCPrograms ==
  {Failing(Orders, bad, {}) : bad \in Few(Orders)}
    \cup {Failing(Branches, bad, {<<P2(1), P3(2), P2(1)>>}) : bad \in Few(Branches)}
    \cup {Failing(Delayed, {d \in Delayed : d[1].value >= m}, {<<W(3), P2(0)>>}) : m \in 1 .. 5}
    \cup {Failing(Delayed, {d \in Delayed : d[1].value \in {1, 4}}, {})}

\* bang is a kind of boom
MCInstances == [e \in {boom, bang} |-> IF e = boom THEN {boom, bang} ELSE {bang}]

MCSetting(mode, randomness, pool, stop, shrink, budget) ==
  [mode |-> mode, randomness |-> randomness, pool |-> pool, stop |-> stop,
   required |-> pool, shrink |-> shrink, budget |-> budget]

\* a test, explore with its own arguments, the two uses of systematic search, a soak
MCSettings ==
  {MCSetting("explore", TRUE, FALSE, TRUE, TRUE, 40), MCSetting("explore", FALSE, TRUE, FALSE, FALSE, 0),
   MCSetting("explore", FALSE, TRUE, TRUE, TRUE, 3)}
    \cup {MCSetting("systematic", r, FALSE, TRUE, TRUE, 40) : r \in BOOLEAN}
    \cup {MCSetting("enumerate", FALSE, FALSE, FALSE, FALSE, 0)}
    \cup {MCSetting("soak", FALSE, FALSE, s, FALSE, 0) : s \in BOOLEAN}
=============================================================================
