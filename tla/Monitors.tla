------------------------------ MODULE Monitors ------------------------------
(***************************************************************************)
(* The property monitors of simloom (src/simloom/_monitors.py) and how     *)
(* SimLoop._run_once interleaves their deadlines with the virtual clock    *)
(* (src/simloom/_loop.py).                                                 *)
(*                                                                         *)
(* The program under test is arbitrary: each step may set the values the   *)
(* predicates read, register monitors, make more callbacks ready and arm   *)
(* timers.  `ready' counts callbacks, `timers' holds the times of armed    *)
(* timers (two for one time are one timer and a callback made ready).      *)
(***************************************************************************)
EXTENDS Integers, FiniteSets

CONSTANTS
  Goals,      \* labels of eventually() monitors
  Links,      \* labels of leads_to() monitors
  Within,     \* Within[m]: the `within' of a monitor
  NoDeadline, \* None
  Delays,     \* delays of the program's timers
  MaxTime,    \* bound on the virtual clock
  MaxSteps,   \* bound on the steps
  MaxReady    \* bound on the callbacks ready at once

ASSUME MonitorAssumption ==
  /\ Goals \cap Links = {}
  /\ Within \in [Goals \cup Links -> Nat \ {0}]
  /\ NoDeadline \notin Nat
  /\ Delays \subseteq Nat /\ MaxTime \in Nat

VARIABLES
  now, ready, timers,
  mainDone,  \* the main coroutine has returned: _on_done is ready
  steps,     \* steps so far, for the bound MaxSteps
  safe,      \* value of the always() predicate
  goal,      \* values of the eventually() predicates
  trigger,   \* values of the leads_to() triggers
  response,  \* values of the leads_to() responses
  guarded,   \* the always() monitor is registered
  deadline,  \* _Eventually.deadline, NoDeadline before registration
  satisfied, \* _Eventually.satisfied
  linked,    \* the leads_to() monitors registered
  armed,     \* _LeadsTo.armed_deadline
  verdict,   \* how the run stands or ended
  blamed,    \* the monitor a liveness verdict names
  metAt,     \* history: when a goal first held at a step boundary
  owed       \* history: when a trigger held with no response since

loopVars == <<now, ready, timers, mainDone, steps>>
userVars == <<safe, goal, trigger, response>>
monVars  == <<guarded, deadline, satisfied, linked, armed>>
vars == <<loopVars, userVars, monVars, verdict, blamed, metAt, owed>>

Times    == Nat \cup {NoDeadline}
Verdicts == {"running", "ok", "safety", "liveness", "deadlock"}
Nobody   == "nobody"

TypeOK ==
  /\ now \in Nat /\ ready \in Nat /\ timers \subseteq Nat
  /\ mainDone \in BOOLEAN /\ steps \in Nat
  /\ safe \in BOOLEAN /\ goal \in [Goals -> BOOLEAN]
  /\ trigger \in [Links -> BOOLEAN] /\ response \in [Links -> BOOLEAN]
  /\ guarded \in BOOLEAN /\ linked \subseteq Links
  /\ deadline \in [Goals -> Times] /\ satisfied \in [Goals -> BOOLEAN]
  /\ armed \in [Links -> Times]
  /\ verdict \in Verdicts /\ blamed \in Goals \cup Links \cup {Nobody}
  /\ metAt \in [Goals -> Times] /\ owed \in [Links -> SUBSET Nat]

Init ==
  /\ now = 0 /\ ready = 1 /\ timers = {} /\ mainDone = FALSE /\ steps = 0
  /\ safe = TRUE /\ goal = [g \in Goals |-> FALSE]
  /\ trigger = [l \in Links |-> FALSE] /\ response = [l \in Links |-> FALSE]
  /\ guarded = FALSE /\ linked = {}
  /\ deadline = [g \in Goals |-> NoDeadline]
  /\ satisfied = [g \in Goals |-> FALSE]
  /\ armed = [l \in Links |-> NoDeadline]
  /\ verdict = "running" /\ blamed = Nobody
  /\ metAt = [g \in Goals |-> NoDeadline] /\ owed = [l \in Links |-> {}]

----------------------------------------------------------------------------
(* MonitorSet.                                                             *)

Unmet == {g \in Goals : deadline[g] # NoDeadline /\ ~satisfied[g]}
Open  == {l \in Links : armed[l] # NoDeadline}

\* next_deadline ranges over these
ArmedDeadlines == {deadline[g] : g \in Unmet} \cup {armed[l] : l \in Open}

IsNextDeadline(d) == d \in ArmedDeadlines /\ \A e \in ArmedDeadlines : d <= e

\* [mutant] an obligation already open is postponed by a new trigger
ArmedAfterMut(l, t) ==
  IF l \notin linked' THEN armed[l]
  ELSE IF trigger'[l] /\ ~response'[l] THEN t + Within[l]
  ELSE IF response'[l] THEN NoDeadline ELSE armed[l]

\* [mutant] the deadline lies before the trigger
ArmedBackwardsMut(l, t) ==
  IF l \in linked' /\ armed[l] = NoDeadline /\ trigger'[l] /\ ~response'[l]
  THEN t - Within[l] ELSE NoDeadline

\* after_step for one leads_to: discharge the obligation or open one
ArmedAfter(l, t) ==
  IF l \notin linked' THEN armed[l]
  ELSE IF armed[l] # NoDeadline
       THEN IF response'[l] THEN NoDeadline ELSE armed[l]
       ELSE IF trigger'[l] /\ ~response'[l] THEN t + Within[l] ELSE NoDeadline

\* [mutant] a goal is met only as long as it holds
SatisfiedAfterMut(g) == deadline'[g] # NoDeadline /\ goal'[g]

\* after_step for one eventually: once met, met for good
SatisfiedAfter(g) == satisfied[g] \/ (deadline'[g] # NoDeadline /\ goal'[g])

\* after_step at time t: the first thing checked is safety
AfterStep(t) ==
  IF guarded' /\ ~safe'
  THEN /\ verdict' = "safety"
       /\ UNCHANGED <<satisfied, armed, metAt, owed>>
  ELSE /\ satisfied' = [g \in Goals |-> SatisfiedAfter(g)]
       /\ armed' = [l \in Links |-> ArmedAfter(l, t)]
       /\ metAt' = [g \in Goals |->
            IF deadline'[g] # NoDeadline /\ goal'[g] /\ metAt[g] = NoDeadline
            THEN t ELSE metAt[g]]
       /\ owed' = [l \in Links |->
            IF l \notin linked' \/ response'[l] THEN {}
            ELSE IF trigger'[l] THEN owed[l] \cup {t} ELSE owed[l]]
       /\ UNCHANGED verdict

\* [mutant] only goals are judged
FailingMut(due) == {g \in Unmet : due[g] /\ ~goal[g]}

\* the monitors a check at the end of their time finds still unmet
Failing(due) ==
  {g \in Unmet : due[g] /\ ~goal[g]} \cup {l \in Open : due[l] /\ ~response[l]}

\* fire_due (due at time t) and finalize (all of them)
Judge(due, otherwise) ==
  IF Failing(due) # {}
  THEN verdict' = "liveness" /\ blamed' \in Failing(due)
  ELSE verdict' = otherwise /\ UNCHANGED blamed

FireDueAt(t) ==
  Judge([m \in Goals \cup Links |->
           IF m \in Goals THEN m \in Unmet /\ deadline[m] <= t
                          ELSE m \in Open /\ armed[m] <= t], verdict)

----------------------------------------------------------------------------
(* SimLoop._run_once.                                                      *)

Idle  == ready = 0 /\ ~mainDone
IsTarget(t) == t \in timers /\ \A u \in timers : t <= u

\* a deadline that has been reached, or that expires before the next event
DeadlineFires ==
  /\ verdict = "running" /\ Idle
  /\ \E d \in ArmedDeadlines, target \in timers :
       /\ IsNextDeadline(d) /\ IsTarget(target)
       /\ d <= now \/ d < target
       /\ now' = (IF d <= now THEN now ELSE d)
       /\ FireDueAt(now')
  /\ UNCHANGED <<ready, timers, mainDone, steps, userVars, monVars, metAt, owed>>

\* nothing is ready and no timer is left, whatever deadline is armed
ReportDeadlock ==
  /\ verdict = "running" /\ Idle /\ timers = {}
  /\ verdict' = "deadlock"
  /\ UNCHANGED <<loopVars, userVars, monVars, blamed, metAt, owed>>

\* [mutant] the clock jumps although a deadline expires on the way
ClockForMut(t) ==
  IF Idle
  THEN \E target \in timers :
         IsTarget(target) /\ t = (IF target > now THEN target ELSE now)
  ELSE t = now

\* the time at which the next callback runs
ClockFor(t) ==
  IF Idle
  THEN \E target \in timers :
         /\ IsTarget(target)
         /\ t = (IF target > now THEN target ELSE now)
         /\ \A d \in ArmedDeadlines : d > now /\ d >= target
  ELSE t = now

\* what one step of the program may do; a predicate has a value worth modelling
\* once its monitor is registered, and the bounded program ends at its last step
Program(t) ==
  /\ guarded' \in {guarded, TRUE}
  /\ \E new \in SUBSET {g \in Goals : deadline[g] = NoDeadline} :
       deadline' = [g \in Goals |-> IF g \in new THEN t + Within[g] ELSE deadline[g]]
  /\ \E new \in SUBSET Links : linked' = linked \cup new
  /\ safe' \in BOOLEAN /\ (guarded' \/ safe')
  /\ \E on \in SUBSET {g \in Goals : deadline'[g] # NoDeadline} :
       goal' = [g \in Goals |-> g \in on]
  /\ \E on \in SUBSET linked' : trigger' = [l \in Links |-> l \in on]
  /\ \E on \in SUBSET linked' : response' = [l \in Links |-> l \in on]
  /\ \E set \in {{}} \cup {{t + d} : d \in Delays} :
       timers' = {u \in timers : u > t} \cup set
  /\ mainDone' \in {mainDone, TRUE}
  /\ steps + 1 = MaxSteps => mainDone'

\* the callback that runs at time t, and the evaluation after it
StepAt(t) ==
  LET runnable == ready + Cardinality({u \in timers : u <= t})
  IN /\ runnable > 0
     /\ ClockFor(t)
     /\ now' = t /\ steps' = steps + 1
     /\ Program(t)
     /\ \E more \in 0 .. 1 : ready' = runnable - 1 + more
     /\ AfterStep(t)

\* one callback runs, then the monitors are evaluated
RunStep ==
  /\ verdict = "running" /\ steps < MaxSteps
  /\ \E t \in {now} \cup timers : StepAt(t)
  /\ UNCHANGED blamed

Bounded == ready <= MaxReady /\ \A u \in timers : u <= MaxTime

\* _on_done runs and finalize_monitors gives the last verdict
EndRun ==
  /\ verdict = "running" /\ mainDone
  /\ Judge([m \in Goals \cup Links |-> TRUE], "ok")
  /\ UNCHANGED <<loopVars, userVars, monVars, metAt, owed>>

Ended == verdict # "running" /\ UNCHANGED vars

Next == DeadlineFires \/ ReportDeadlock \/ (RunStep /\ Bounded') \/ EndRun \/ Ended

Spec == Init /\ [][Next]_vars

----------------------------------------------------------------------------
(* Properties.                                                             *)

\* While the run goes on, the clock never passes the deadline of a goal not yet
\* met or of an obligation still open.
ClockNeverPassesADeadline ==
  verdict = "running" => \A d \in ArmedDeadlines : now <= d

\* leads_to promises a response to every trigger, and the code keeps only one
\* deadline per monitor: while the run goes on no trigger, however late it came,
\* has waited longer than `within'.
NoObligationOverdue ==
  verdict = "running" =>
    \A l \in Links : \A t \in owed[l] : now <= t + Within[l]

\* A run that ends well has met every goal, in time, and answered every trigger.
OkMeansEveryGoalMet ==
  verdict = "ok" =>
    /\ \A g \in Goals : deadline[g] # NoDeadline =>
         metAt[g] # NoDeadline /\ metAt[g] <= deadline[g]
    /\ \A l \in Links : owed[l] = {}

\* A liveness verdict is earned: the goal it names never held at a step boundary
\* since it was registered, or the link it names owes a response; and unless the
\* run ended, it is given exactly at the deadline.
LivenessVerdictIsEarned ==
  verdict = "liveness" =>
    /\ blamed \in Goals =>
         metAt[blamed] = NoDeadline /\ (mainDone \/ now = deadline[blamed])
    /\ blamed \in Links =>
         owed[blamed] # {} /\ (mainDone \/ \E t \in owed[blamed] : now = t + Within[blamed])

\* A deadline is inclusive: it fires only after the events of its own instant.
DeadlineIsInclusive ==
  verdict = "liveness" /\ ~mainDone => \A u \in timers : u > now
=============================================================================
