----------------------------- MODULE Systematic -----------------------------
(***************************************************************************)
(* explore_systematic (src/simloom/_systematic.py): an odometer over the   *)
(* choice tape.  One action is one turn of its loop: replay the plan, read *)
(* the draws the run consumed, and bump the rightmost draw that has an     *)
(* untried value and whose prefix has a delay to spare.                    *)
(***************************************************************************)
EXTENDS Universe

CONSTANTS
  MaxDelays,    \* max_delays
  MaxBound,     \* max_bound: wider draws stay at their default
  MaxSchedules  \* max_schedules

ASSUME SystematicAssumption == MaxDelays \in Nat /\ MaxBound \in Nat /\ MaxSchedules \in Nat

VARIABLES
  plan,       \* the prefix the next schedule is forced into
  schedules,  \* the universes run so far; explored is their number
  witness,    \* first_at: the first schedule that failed, or 0
  exhaustive  \* the odometer rolled over

systematicVars == <<plan, schedules, witness, exhaustive>>

SystematicInit == plan = <<>> /\ schedules = <<>> /\ witness = 0 /\ exhaustive = FALSE

\* [mutant] the delay budget is compared with the delays of the whole schedule
BumpableMut(d) ==
  {i \in 1 .. Len(d) : /\ d[i].value + 1 < d[i].site.bound
                       /\ d[i].site.bound <= MaxBound
                       /\ Delays(d) < MaxDelays}

\* the draws of a schedule with an untried alternative within the bounds
Bumpable(d) ==
  {i \in 1 .. Len(d) : /\ d[i].value + 1 < d[i].site.bound
                       /\ d[i].site.bound <= MaxBound
                       /\ Delays(SubSeq(d, 1, i - 1)) < MaxDelays}

\* the next plan: draw i of d raised by one, and nothing after it
Bumped(d, i) == Append(SubSeq(d, 1, i - 1), Draw(d[i].site, d[i].value + 1))

\* a schedule of p has run: the odometer stops at a failure, rolls over, or moves on
Turn(p, d, stop) ==
  /\ schedules' = Append(schedules, d)
  /\ witness' = IF witness = 0 /\ p[d].error # Ok THEN Len(schedules) + 1 ELSE witness
  /\ IF stop THEN UNCHANGED <<plan, exhaustive>>
     ELSE IF Bumpable(d) = {} THEN exhaustive' = TRUE /\ UNCHANGED plan
     ELSE /\ plan' = Bumped(d, CHOOSE i \in Bumpable(d) : \A j \in Bumpable(d) : j <= i)
          /\ UNCHANGED exhaustive

Searching(stopOnFailure) ==
  ~exhaustive /\ Len(schedules) < MaxSchedules /\ ~(stopOnFailure /\ witness # 0)

RunSchedule(p, stopOnFailure) ==
  /\ Searching(stopOnFailure)
  /\ LET d == Realised(p, plan) IN Turn(p, d, stopOnFailure /\ p[d].error # Ok)

\* what a proof of correctness is about: the universes within the bounds
WithinBounds(p) ==
  {d \in DOMAIN p : /\ Delays(d) <= MaxDelays
                    /\ \A i \in 1 .. Len(d) : d[i].value # 0 => d[i].site.bound <= MaxBound}
=============================================================================
