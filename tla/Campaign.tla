------------------------------ MODULE Campaign ------------------------------
(***************************************************************************)
(* The campaigns that run one program in many universes, and what becomes  *)
(* of a failure they find:                                                 *)
(*   explore     seeds, in order or over a pool (src/simloom/_explore.py)  *)
(*   systematic  @simloom.test(systematic=True), which stops at a failure  *)
(*   enumerate   explore_systematic() itself, run to the end               *)
(*   soak        shards of an endless seed space (src/simloom/_soak.py)    *)
(* A test (src/simloom/_testing.py) shrinks the failure, writes its tape   *)
(* and reports it; a later session is asked to run it again, by its seed   *)
(* (--simloom-seed) or from a tape file (--simloom-tape).                  *)
(*                                                                         *)
(* The scheduler is one and the same throughout and the program is a       *)
(* function of its tape: check_determinism, pct:auto are not modelled.     *)
(***************************************************************************)
EXTENDS Systematic, Shrinker, Soak

CONSTANTS
  TestSeeds,      \* the number of seeds of a test: runs, from start_seed 0
  SettingsChoices,\* sets of the settings below
  NoFailure

Modes == {"explore", "systematic", "enumerate", "soak"}

ASSUME CampaignAssumption ==
  TestSeeds \in Nat /\ \A s \in SettingsChoices : s.mode \in Modes /\ s.budget \in Nat

VARIABLES
  program,   \* the program under test
  settings,  \* mode, randomness, pool, stop, required, shrink and budget
  stage,     \* where the session stands
  universe,  \* per seed that has run: its universe
  executed,  \* results the parent has taken, in the order of the seeds
  failures,  \* seeds of them that failed
  covered,   \* the required label was reached in one of them
  failure,   \* the witness that is reported: seed, tape and error
  verdict,   \* of the session: running, passed, uncovered or failed
  rerun      \* of a later session: what it was asked to run, and its error

exploreVars == <<universe, executed, failures, covered>>
sessionVars == <<stage, failure, verdict, rerun>>
vars == <<program, settings, sessionVars, exploreVars, systematicVars, shrinkVars, soakVars>>

\* run_kwargs as the decorator leaves them: what explore, shrink and replay run
Target == Seeded(program, settings.randomness)

Init ==
  /\ settings \in SettingsChoices
  /\ program \in IF settings.mode = "soak" THEN {CHOOSE p \in Programs : TRUE} ELSE Programs
  /\ stage = settings.mode
  /\ universe = [s \in {} |-> <<>>] /\ executed = 0 /\ failures = {} /\ covered = FALSE
  /\ failure = NoFailure /\ verdict = "running" /\ rerun = NoFailure
  /\ SystematicInit /\ SoakInit
  /\ current = <<>> /\ cursor = At("done", 1) /\ improved = FALSE /\ runsUsed = 0

----------------------------------------------------------------------------
(* explore.                                                                *)

Failed(s) == Target[universe[s]].error # Ok

\* stop_on_failure breaks the loop at the first failure taken
ExploreOver == executed = TestSeeds \/ (settings.stop /\ failures # {})

\* A seed runs, in this process when its turn comes or in a worker of the pool at
\* any time; what a seed draws does not change from one run to the next.
RunUniverse(s) ==
  /\ stage = "explore" /\ ~ExploreOver /\ s \notin DOMAIN universe
  /\ settings.pool \/ s = executed
  /\ \E d \in DOMAIN Target : universe' = [t \in DOMAIN universe \cup {s} |-> IF t = s THEN d ELSE universe[t]]
  /\ UNCHANGED <<program, settings, sessionVars, executed, failures, covered,
                 systematicVars, shrinkVars, soakVars>>

\* [mutant] results are taken as they come
ArrivedMut(s) == s \in DOMAIN universe /\ s >= executed

\* pool.map yields the results in the order of the seeds
Arrived(s) == s \in DOMAIN universe /\ s = executed

TakeResult(s) ==
  /\ stage = "explore" /\ ~ExploreOver /\ Arrived(s)
  /\ executed' = executed + 1
  /\ failures' = IF Failed(s) THEN failures \cup {s} ELSE failures
  /\ covered' = (covered \/ Target[universe[s]].reached)
  /\ UNCHANGED <<program, settings, sessionVars, universe, systematicVars, shrinkVars, soakVars>>

Lowest(seeds) == CHOOSE s \in seeds : \A t \in seeds : s <= t

----------------------------------------------------------------------------
(* The test: a failure is shrunk and reported.                             *)

\* the witness is shrunk, if the test asks for it, and reported
Witness(seed, tape, error) ==
  /\ failure' = [seed |-> seed, tape |-> tape, error |-> error]
  /\ IF settings.shrink
     THEN stage' = "shrink" /\ ShrinkFrom(tape) /\ UNCHANGED verdict
     ELSE stage' = "reported" /\ verdict' = "failed" /\ UNCHANGED shrinkVars

Pass(v) == stage' = "ended" /\ verdict' = v /\ UNCHANGED <<failure, shrinkVars>>

FinishExplore ==
  /\ stage = "explore" /\ ExploreOver
  /\ IF failures # {}
     THEN LET s == Lowest(failures)
          IN  Witness(s, universe[s], Target[universe[s]].error)
     ELSE Pass(IF settings.required /\ ~covered THEN "uncovered" ELSE "passed")
  /\ UNCHANGED <<program, settings, rerun, exploreVars, systematicVars, soakVars>>

Enumerating == stage \in {"systematic", "enumerate"}
StopsAtFailure == stage = "systematic"

\* explore_systematic runs without the entropy draw, whatever the decorator says
Enumerate ==
  /\ Enumerating /\ RunSchedule(program, StopsAtFailure)
  /\ UNCHANGED <<program, settings, sessionVars, exploreVars, shrinkVars, soakVars>>

\* exhausted, stopped at a failure, or out of max_schedules
FinishSystematic ==
  /\ Enumerating /\ ~Searching(StopsAtFailure)
  /\ IF witness # 0 /\ stage = "systematic"
     THEN LET d == schedules[witness] IN Witness(NoFailure, d, program[d].error)
     ELSE Pass(IF witness = 0 THEN "passed" ELSE "failed")
  /\ UNCHANGED <<program, settings, rerun, exploreVars, systematicVars, soakVars>>

\* shrink() replays with the decorator's run_kwargs
Shrink ==
  /\ stage = "shrink" /\ ShrinkStep(Target, failure.error, settings.budget)
  /\ UNCHANGED <<program, settings, sessionVars, exploreVars, systematicVars, soakVars>>

Report ==
  /\ stage = "shrink" /\ cursor.pass = "done"
  /\ stage' = "reported" /\ verdict' = "failed"
  /\ UNCHANGED <<program, settings, failure, rerun, exploreVars, systematicVars, shrinkVars, soakVars>>

----------------------------------------------------------------------------
(* A later session.                                                        *)

\* --simloom-seed
RerunSeed ==
  /\ stage = "reported" /\ failure.seed # NoFailure
  /\ rerun' = [tape |-> failure.tape, error |-> Target[universe[failure.seed]].error]

\* --simloom-tape, with the artifact of the failure or the shrunk one
RerunTape ==
  /\ stage = "reported"
  /\ \E t \in {failure.tape} \cup (IF settings.shrink THEN {current} ELSE {}) :
       rerun' = [tape |-> t, error |-> StrictError(Target, t)]

Rerun ==
  /\ RerunSeed \/ RerunTape
  /\ stage' = "ended"
  /\ UNCHANGED <<program, settings, failure, verdict, exploreVars, systematicVars, shrinkVars, soakVars>>

----------------------------------------------------------------------------

Soaking ==
  /\ stage = "soak"
  /\ \E k \in Shard : SoakStep(k, settings.stop) \/ Kill(k)
  /\ UNCHANGED <<program, settings, sessionVars, exploreVars, systematicVars, shrinkVars>>

Next ==
  \/ \E s \in 0 .. TestSeeds - 1 : RunUniverse(s) \/ TakeResult(s)
  \/ FinishExplore
  \/ Enumerate \/ FinishSystematic
  \/ Shrink \/ Report
  \/ Rerun
  \/ Soaking

\* a soak process that is not killed gets on with it, and is started again
Fairness == \A k \in Shard : WF_vars(stage = "soak" /\ SoakStep(k, settings.stop)
  /\ UNCHANGED <<program, settings, sessionVars, exploreVars, systematicVars, shrinkVars>>)

Spec == Init /\ [][Next]_vars /\ Fairness

----------------------------------------------------------------------------
(* Properties.                                                             *)

\* Systematic exploration "walks every distinct interleaving (up to a bound) exactly
\* once": no universe runs twice, none outside the bounds runs, and when it says it
\* is exhaustive, all of those within the bounds have run.
EnumerationIsExact ==
  LET seen == {schedules[n] : n \in 1 .. Len(schedules)}
  IN  /\ Cardinality(seen) = Len(schedules)
      /\ seen \subseteq WithinBounds(program)
      /\ exhaustive => seen = WithinBounds(program)

\* The shrinker stops short of its budget only at a tape from which no single draw
\* can be deleted, zeroed, halved or decremented so that the program fails the same
\* way in a smaller universe.  That is all it tries: from a draw of 4 that fails, and
\* does not with 0, 2 or 3, it does not get to a 1 that would.
ShrunkIsMinimal ==
  cursor.pass = "done" /\ stage = "reported" /\ settings.shrink /\ runsUsed < settings.budget =>
    LocallyMinimal(Target, failure.error, current)

\* the tape was recorded from the program that is replayed
SameProgram == settings.mode = "explore" \/ ~settings.randomness

\* What a test reports can be run again: its seed, its tape and its shrunk tape end
\* in the error reported, or one that is an instance of it.
ReportReproduces ==
  rerun # NoFailure /\ SameProgram => rerun.error \in Instances[failure.error]

\* "re-run: save the artifact tape and replay with --simloom-tape"
TapeReproduces == rerun # NoFailure => rerun.error \in Instances[failure.error]

\* The failure explored first is the one of the lowest seed that fails, however the
\* workers of the pool overtake each other.
LowestSeedIsReported ==
  stage \in {"shrink", "reported"} /\ settings.mode = "explore" =>
    \A s \in 0 .. failure.seed - 1 : s \in DOMAIN universe /\ ~Failed(s)

\* A soak that is killed and resumed skips no seed: what lies before a cursor has
\* run, in the checkpoint as in a process, and no seed is run by two shards.
NoSeedSkipped ==
  \A k \in Shard :
    /\ \A i \in Index :
         i < checkpoint[k] \/ i < index[k] => ran[k][ShardSeed(k, i)] > 0
    /\ \A j \in Shard \ {k} : \A s \in Seeds : ran[k][s] > 0 => ran[j][s] = 0

\* Every seed of the range is run in the end, whatever is killed on the way.
EverySeedIsSoaked ==
  stage = "soak" ~> \A s \in Seeds : \E k \in Shard : ran[k][s] > 0
=============================================================================
