----------------------------- MODULE ChoiceTape -----------------------------
(***************************************************************************)
(* The choice tape (src/simloom/_tape.py) in the hands of one run after    *)
(* another (_execute of src/simloom/_run.py): a run draws from its tape in *)
(* the main phase and in teardown, and what it consumed is replayed by a   *)
(* later run, strictly or with a fallback, edited in between or not.       *)
(*                                                                         *)
(* The program is arbitrary: it reaches any draw site at any time, and the *)
(* code that draws may catch the error a draw raises.                      *)
(***************************************************************************)
EXTENDS Naturals, Sequences

CONSTANTS
  Sites,    \* draw sites: records of a label and a bound
  MaxDraws, \* bound on the draws of one run
  MaxRuns,  \* bound on the runs
  Nowhere   \* misaligned_at is None

ASSUME TapeAssumption ==
  /\ \A s \in Sites : s.bound \in Nat \ {0}
  /\ MaxDraws \in Nat /\ MaxRuns \in Nat
  /\ Nowhere \notin Nat

VARIABLES
  isReplay,     \* _recorded is not None
  policy,       \* MisalignmentPolicy
  recorded,     \* _recorded
  draws,        \* _draws; _position is its length
  misalignedAt, \* _misaligned_at
  phase,        \* where _execute stands
  outcome,      \* the outcome so far: ok, or the kind of error
  refused,      \* history: a draw of this run raised TapeMisalignmentError
  runs          \* runs so far, for the bound MaxRuns

tapeVars == <<isReplay, policy, recorded, draws, misalignedAt>>
runVars  == <<phase, outcome, refused, runs>>
vars == <<tapeVars, runVars>>

\* a Draw is a site and a value; __post_init__ checks its range
Draws    == [site : Sites, value : Nat]
InRange(d) == d.value < d.site.bound
Policies == {"strict", "fallback"}
Phases   == {"main", "teardown", "ended"}
Outcomes == {"ok", "error", "misaligned"}

TypeOK ==
  /\ isReplay \in BOOLEAN /\ policy \in Policies
  /\ recorded \in Seq(Draws) /\ draws \in Seq(Draws)
  /\ \A i \in 1 .. Len(draws) : InRange(draws[i])
  /\ \A i \in 1 .. Len(recorded) : InRange(recorded[i])
  /\ misalignedAt \in Nat \cup {Nowhere}
  /\ phase \in Phases /\ outcome \in Outcomes
  /\ refused \in BOOLEAN /\ runs \in Nat

\* the first run generates its universe from a seed
Init ==
  /\ isReplay = FALSE /\ policy = "strict" /\ recorded = <<>>
  /\ draws = <<>> /\ misalignedAt = Nowhere
  /\ phase = "main" /\ outcome = "ok" /\ refused = FALSE /\ runs = 1

----------------------------------------------------------------------------
(* Tape.                                                                   *)

Running == phase \in {"main", "teardown"}

\* [mutant] the draw after a divergence is looked up in the recording again
ConsultingMut == isReplay

\* the recording is still what draws are answered from
Consulting == isReplay /\ misalignedAt = Nowhere

\* [mutant] a draw site is recognised by its label alone
MatchesMut(s) ==
  Len(draws) < Len(recorded) /\ recorded[Len(draws) + 1].site.label = s.label

\* the recording has an answer for site s at this position
Matches(s) == Len(draws) < Len(recorded) /\ recorded[Len(draws) + 1].site = s

\* [mutant] the range of an answer includes the bound
AnswersMut(s) == 0 .. s.bound

\* what the PRNG answers; zero is one of it
Answers(s) == 0 .. s.bound - 1

\* draw() records what it answers
Record(s, v) == draws' = Append(draws, [site |-> s, value |-> v])

\* a draw answered by the recording
ReplayedDraw(s) ==
  /\ Running /\ Consulting /\ Matches(s)
  /\ Record(s, recorded[Len(draws) + 1].value)
  /\ UNCHANGED <<isReplay, policy, recorded, misalignedAt, runVars>>

\* a draw answered by the PRNG, or by zero
FreeDraw(s) ==
  /\ Running /\ ~Consulting /\ Len(draws) < MaxDraws
  /\ \E v \in Answers(s) : Record(s, v)
  /\ UNCHANGED <<isReplay, policy, recorded, misalignedAt, runVars>>

\* _misaligned_at is set, for good
FallBack == misalignedAt' = Len(draws)

\* _diverge under FALLBACK: this draw and all later ones are answered freely
DivergingDraw(s) ==
  /\ Running /\ Consulting /\ ~Matches(s) /\ policy = "fallback" /\ Len(draws) < MaxDraws
  /\ FallBack
  /\ \E v \in Answers(s) : Record(s, v)
  /\ UNCHANGED <<isReplay, policy, recorded, runVars>>

----------------------------------------------------------------------------
(* _execute.                                                               *)

\* [mutant] the tape falls back whatever the error
EndMainWithMut(o) ==
  /\ phase' = "teardown" /\ outcome' = o
  /\ IF o # "ok" /\ Consulting THEN FallBack ELSE UNCHANGED misalignedAt
  /\ UNCHANGED <<isReplay, policy, recorded, draws, runs>>

\* the main phase ends with outcome o; if that is a misalignment the tape falls back
EndMainWith(o) ==
  /\ phase' = "teardown" /\ outcome' = o
  /\ IF o = "misaligned" /\ Consulting THEN FallBack ELSE UNCHANGED misalignedAt
  /\ UNCHANGED <<isReplay, policy, recorded, draws, runs>>

\* [mutant] a replay may leave a part of the recording unread
VerdictMut(o) == o

\* the outcome of a run whose teardown is over: a strict replay must have
\* consumed its whole recording (replay_exact)
Verdict(o) ==
  IF o = "ok" /\ isReplay /\ policy = "strict"
     /\ ~(misalignedAt = Nowhere /\ Len(draws) = Len(recorded))
  THEN "misaligned" ELSE o

EndTeardownWith(o) ==
  /\ phase' = "ended"
  /\ outcome' = Verdict(IF outcome = "ok" THEN o ELSE outcome)
  /\ UNCHANGED <<tapeVars, runs>>

\* _diverge under STRICT raises and consumes nothing.  The draw was made by code
\* that catches the error (a task of the program; gather collects it in
\* teardown) or by the loop, whose phase the error ends.
RefusedDraw(s) ==
  /\ Running /\ Consulting /\ ~Matches(s) /\ policy = "strict"
  /\ refused' = TRUE
  /\ \/ UNCHANGED <<tapeVars, phase, outcome, runs>>
     \/ phase = "main" /\ EndMainWith("misaligned")
     \/ phase = "teardown" /\ EndTeardownWith("misaligned")

\* main returns or raises, perhaps a misalignment that a task of it met earlier
EndMain ==
  /\ phase = "main"
  /\ \E o \in Outcomes : (o = "misaligned" => refused) /\ EndMainWith(o)
  /\ UNCHANGED refused

EndTeardown ==
  /\ phase = "teardown"
  /\ \E o \in {"ok", "error"} : EndTeardownWith(o)
  /\ UNCHANGED refused

\* the tapes a run's draws are edited into: one draw deleted or set to zero
Edits(s) ==
  {s} \cup {SubSeq(s, 1, i - 1) \o SubSeq(s, i + 1, Len(s)) : i \in 1 .. Len(s)}
      \cup {[s EXCEPT ![i].value = 0] : i \in 1 .. Len(s)}

\* the next run replays what this one drew
Replay ==
  /\ phase = "ended" /\ runs < MaxRuns
  /\ isReplay' = TRUE /\ policy' \in Policies /\ recorded' \in Edits(draws)
  /\ draws' = <<>> /\ misalignedAt' = Nowhere
  /\ phase' = "main" /\ outcome' = "ok" /\ refused' = FALSE /\ runs' = runs + 1

Next ==
  \/ \E s \in Sites : ReplayedDraw(s) \/ FreeDraw(s) \/ DivergingDraw(s) \/ RefusedDraw(s)
  \/ EndMain \/ EndTeardown \/ Replay

Spec == Init /\ [][Next]_vars

----------------------------------------------------------------------------
(* Properties.                                                             *)

IsPrefixOf(s, t) == Len(s) <= Len(t) /\ \A i \in 1 .. Len(s) : s[i] = t[i]

\* A replay draws what was recorded, at the same sites, up to the first divergence,
\* and a divergence never lies beyond the end of the recording.
FollowsTheRecording ==
  isReplay =>
    IF misalignedAt = Nowhere THEN IsPrefixOf(draws, recorded)
    ELSE /\ misalignedAt <= Len(draws) /\ misalignedAt <= Len(recorded)
         /\ \A i \in 1 .. misalignedAt : draws[i] = recorded[i]

\* A strict replay that ends well drew exactly what was recorded, even if the
\* program caught a misalignment on the way.
OkMeansTheSameUniverse ==
  phase = "ended" /\ isReplay /\ policy = "strict" /\ outcome = "ok" => draws = recorded

\* A strict replay never improvises a decision of the program: it draws freely
\* only to tear down a run that has already failed for misalignment.
StrictImprovisesOnlyInTeardown ==
  isReplay /\ policy = "strict" /\ misalignedAt # Nowhere =>
    refused /\ phase # "main" /\ outcome = "misaligned"

\* A tape that fell back never returns to the recording within the run.
FallbackIsPermanent ==
  [][misalignedAt # Nowhere /\ runs' = runs =>
       misalignedAt' = misalignedAt /\ IsPrefixOf(draws, draws')]_vars

\* replay_exact: "True iff this tape replayed its full recording without
\* divergence".  A strict replay one of whose draws diverged does not end well.
ExactMeansNoDivergence ==
  phase = "ended" /\ isReplay /\ policy = "strict" /\ refused => outcome # "ok"
=============================================================================
