------------------------------ MODULE Universe ------------------------------
(***************************************************************************)
(* A program as the campaigns of simloom see it: a function from the draws *)
(* it consumes to the way it ends.  A universe is one complete sequence of *)
(* draws; the program is the function from its universes to their results. *)
(* After the same draws a program reaches the same draw site, so that its  *)
(* universes are the leaves of a tree.                                     *)
(*                                                                         *)
(* Replaying a tape (replay of src/simloom/_run.py, under FALLBACK and     *)
(* zero, or STRICT) picks one of these leaves.                             *)
(***************************************************************************)
EXTENDS Naturals, Sequences, FiniteSets

CONSTANTS
  Sites,        \* the draw sites: a label and a bound each
  Programs,     \* functions from draw sequences to records [error, reached]
  EntropySite,  \* the draw of patched_environment, with a bound nobody enumerates
  Ok,           \* the run raised nothing
  Misaligned    \* TapeMisalignmentError

ASSUME SitesAssumption == EntropySite \in Sites /\ \A s \in Sites : s.bound \in Nat \ {0}

Draw(s, v) == [site |-> s, value |-> v]

\* What is drawn at a site; two values of the entropy draw stand for its 2^31.
Values(s) == IF s = EntropySite THEN {0, 1} ELSE 0 .. s.bound - 1
Draws == {d \in [site : Sites, value : Nat] : d.value \in Values(d.site)}

\* the first i draws of d are those of e
AgreeUpTo(d, e, i) == Len(d) >= i /\ Len(e) >= i /\ \A j \in 1 .. i : d[j] = e[j]

\* After the same draws comes the same site, each value of a draw has universes of
\* its own, and every run ends: there is a longest one.
IsTree(p) ==
  /\ DOMAIN p \subseteq Seq(Draws)
  /\ \E e \in DOMAIN p : \A d \in DOMAIN p : Len(d) <= Len(e)
  /\ \A d \in DOMAIN p : \A i \in 1 .. Len(d) : \A v \in Values(d[i].site) :
       \E e \in DOMAIN p : AgreeUpTo(d, e, i - 1) /\ Len(e) >= i
                           /\ e[i] = Draw(d[i].site, v)
  /\ \A d, e \in DOMAIN p : \A i \in 1 .. Len(d) :
       AgreeUpTo(d, e, i - 1) => Len(e) >= i /\ e[i].site = d[i].site

ASSUME ProgramsAreTrees ==
  \A p \in Programs : /\ IsTree(p)
                      /\ \A d \in DOMAIN p : \A i \in 1 .. Len(d) : d[i].site # EntropySite

\* With seed_randomness the entropy draw comes first; the program does not depend on it.
EntropyDraws == {Draw(EntropySite, v) : v \in Values(EntropySite)}
WithEntropy(p) ==
  [d \in {<<e>> \o b : e \in EntropyDraws, b \in DOMAIN p} |-> p[Tail(d)]]
Seeded(p, seedRandomness) == IF seedRandomness THEN WithEntropy(p) ELSE p

\* The universe a tape leads to under FALLBACK and zero: its draws are answered by
\* the tape up to the first site that is not the recorded one, then all by zero.
Realised(p, tape) ==
  CHOOSE d \in DOMAIN p : \E n \in 0 .. Len(d) :
    /\ AgreeUpTo(d, tape, n)
    /\ n < Len(d) => n = Len(tape) \/ tape[n + 1].site # d[n + 1].site
    /\ \A i \in n + 1 .. Len(d) : d[i].value = 0

\* The error of a STRICT replay, which answers every draw from the tape.  It fails as
\* misaligned if it meets another site or runs past the end of the tape, and if it ends
\* ok with a part of the tape unread; another error is reported as it is.
StrictError(p, tape) ==
  LET drawn == {d \in DOMAIN p : AgreeUpTo(d, tape, Len(d))}
      left  == {d \in drawn : p[d].error = Ok /\ Len(d) < Len(tape)}
  IN  IF drawn = left THEN Misaligned ELSE p[CHOOSE d \in drawn : TRUE].error

\* _delays, _deviations: the draws that are not the default
Delays(draws) == Cardinality({i \in 1 .. Len(draws) : draws[i].value # 0})
=============================================================================
