--------------------------- MODULE MonitorsProofs ---------------------------
(***************************************************************************)
(* What the monitors guarantee for any goals, links, deadlines and any     *)
(* program.  IInv says, of a run that goes on: no deadline is in the past; *)
(* a goal counts as met exactly when it held in time; a link has a         *)
(* deadline exactly when it owes a response, the deadline of one of its    *)
(* triggers and no later than any other's.                                 *)
(***************************************************************************)
EXTENDS Monitors, FiniteSetTheorems, TLAPS

\* what holds of a goal while the run goes on
GoalInv(g) ==
  /\ deadline[g] # NoDeadline /\ ~satisfied[g] => now <= deadline[g]
  /\ deadline[g] # NoDeadline /\ goal[g] => satisfied[g]
  /\ satisfied[g] <=> metAt[g] # NoDeadline
  /\ satisfied[g] => deadline[g] # NoDeadline /\ metAt[g] <= deadline[g]

\* what holds of a link while the run goes on
LinkInv(l) ==
  /\ armed[l] = NoDeadline <=> owed[l] = {}
  /\ armed[l] # NoDeadline =>
       /\ l \in linked /\ ~response[l]
       /\ now <= armed[l] /\ armed[l] <= now + Within[l]
       /\ \A t \in owed[l] : armed[l] <= t + Within[l]
       /\ \E t \in owed[l] : armed[l] = t + Within[l]

RunningInv ==
  verdict = "running" => (\A g \in Goals : GoalInv(g)) /\ (\A l \in Links : LinkInv(l))

IInv ==
  /\ TypeOK
  /\ IsFiniteSet(timers)
  /\ RunningInv
  /\ OkMeansEveryGoalMet
  /\ LivenessVerdictIsEarned

----------------------------------------------------------------------------
(* Deadlines.                                                              *)

\* A deadline that is armed is a time, and not in the past.
LEMMA ArmedDeadlinesLieAhead ==
  ASSUME IInv, verdict = "running", NEW d \in ArmedDeadlines
  PROVE  d \in Nat /\ now <= d
<1>1. now \in Nat /\ NoDeadline \notin Nat
  BY MonitorAssumption DEF IInv, TypeOK
<1>2. ASSUME NEW g \in Unmet
      PROVE  deadline[g] \in Nat /\ now <= deadline[g]
  BY <1>1, <1>2 DEF IInv, TypeOK, Times, Unmet, RunningInv, GoalInv
<1>3. ASSUME NEW l \in Open
      PROVE  armed[l] \in Nat /\ now <= armed[l]
  BY <1>1, <1>3 DEF IInv, TypeOK, Times, Open, RunningInv, LinkInv
<1>. QED BY <1>2, <1>3 DEF ArmedDeadlines

\* The clock a callback runs at passes no armed deadline, and never turns back.
LEMMA ClockStopsAtDeadlines ==
  ASSUME IInv, verdict = "running", NEW t \in {now} \cup timers, ClockFor(t)
  PROVE  t \in Nat /\ now <= t /\ \A d \in ArmedDeadlines : t <= d
<1>0. now \in Nat /\ timers \subseteq Nat
  BY DEF IInv, TypeOK
<1>1. CASE Idle
  <2>1. PICK target \in timers :
          /\ t = (IF target > now THEN target ELSE now)
          /\ \A d \in ArmedDeadlines : d > now /\ d >= target
    BY <1>1 DEF ClockFor
  <2>2. target \in Nat /\ \A d \in ArmedDeadlines : d \in Nat
    BY <1>0, ArmedDeadlinesLieAhead
  <2>. QED BY <1>0, <2>1, <2>2
<1>2. CASE ~Idle
  <2>1. t = now
    BY <1>2 DEF ClockFor
  <2>. QED BY <1>0, <2>1, ArmedDeadlinesLieAhead
<1>. QED BY <1>1, <1>2

----------------------------------------------------------------------------
(* The inductive invariant.                                                *)

\* A callback and the evaluation after it keep the types.
LEMMA StepIsTyped ==
  ASSUME IInv, verdict = "running", RunStep
  PROVE  TypeOK' /\ IsFiniteSet(timers)'
<1>1. PICK t \in {now} \cup timers : StepAt(t)
  BY DEF RunStep
<1>2. t \in Nat /\ timers \subseteq Nat /\ steps' \in Nat /\ NoDeadline \notin Nat
  BY <1>1, MonitorAssumption DEF StepAt, IInv, TypeOK
<1>3. Cardinality({u \in timers : u <= t}) \in Nat
  BY FS_Subset, FS_CardinalityType DEF IInv
<1>4. Program(t) /\ AfterStep(t) /\ now' = t
  BY <1>1 DEF StepAt
<1>5. ready' \in Nat
  BY <1>1, <1>3 DEF StepAt, IInv, TypeOK
<1>6. timers' \subseteq Nat /\ IsFiniteSet(timers')
  <2>1. PICK set \in {{}} \cup {{t + d} : d \in Delays} : timers' = {u \in timers : u > t} \cup set
    BY <1>4 DEF Program
  <2>2. set \subseteq Nat /\ IsFiniteSet(set)
    <3>1. CASE set = {}
      BY <3>1, FS_EmptySet
    <3>2. ASSUME NEW d \in Delays, set = {t + d}
          PROVE  set \subseteq Nat /\ IsFiniteSet(set)
      <4>1. t + d \in Nat
        BY <1>2, MonitorAssumption
      <4>. QED BY <3>2, <4>1, FS_Singleton
    <3>. QED BY <2>1, <3>1, <3>2
  <2>3. IsFiniteSet({u \in timers : u > t})
    BY FS_Subset DEF IInv
  <2>. QED BY <1>2, <2>1, <2>2, <2>3, FS_Union
<1>7. /\ mainDone' \in BOOLEAN /\ guarded' \in BOOLEAN /\ safe' \in BOOLEAN
      /\ goal' \in [Goals -> BOOLEAN] /\ trigger' \in [Links -> BOOLEAN]
      /\ response' \in [Links -> BOOLEAN] /\ linked' \subseteq Links
  <2>1. mainDone' \in {mainDone, TRUE} /\ guarded' \in {guarded, TRUE} /\ safe' \in BOOLEAN
    BY <1>4, Zenon DEF Program
  <2>2. mainDone \in BOOLEAN /\ guarded \in BOOLEAN
    BY Zenon DEF IInv, TypeOK
  <2>3. mainDone' \in BOOLEAN /\ guarded' \in BOOLEAN
    BY <2>1, <2>2, Zenon
  <2>4. /\ \E on : goal' = [g \in Goals |-> g \in on]
        /\ \E on : trigger' = [l \in Links |-> l \in on]
        /\ \E on : response' = [l \in Links |-> l \in on]
    BY <1>4, Zenon DEF Program
  <2>5. linked' \subseteq Links
    BY <1>4 DEF Program, IInv, TypeOK
  <2>. QED BY <2>1, <2>3, <2>4, <2>5
<1>8. deadline' \in [Goals -> Times]
  BY <1>2, <1>4, MonitorAssumption DEF Program, IInv, TypeOK, Times
<1>9. CASE guarded' /\ ~safe'
  <2>1. UNCHANGED <<satisfied, armed, metAt, owed>> /\ verdict' = "safety"
    BY <1>4, <1>9 DEF AfterStep
  <2>. QED BY <1>1, <1>2, <1>4, <1>5, <1>6, <1>7, <1>8, <2>1 DEF RunStep, IInv, TypeOK, Verdicts
<1>10. CASE ~(guarded' /\ ~safe')
  <2>1. satisfied' \in [Goals -> BOOLEAN]
    BY <1>4, <1>10 DEF AfterStep, SatisfiedAfter
  <2>2. armed' \in [Links -> Times]
    BY <1>2, <1>4, <1>10, MonitorAssumption DEF AfterStep, ArmedAfter, IInv, TypeOK, Times
  <2>3. metAt' \in [Goals -> Times]
    BY <1>2, <1>4, <1>10 DEF AfterStep, IInv, TypeOK, Times
  <2>4. owed' \in [Links -> SUBSET Nat]
    BY <1>2, <1>4, <1>10 DEF AfterStep, IInv, TypeOK
  <2>5. verdict' = verdict
    BY <1>4, <1>10 DEF AfterStep
  <2>. QED BY <1>1, <1>2, <1>4, <1>5, <1>6, <1>7, <1>8, <2>1, <2>2, <2>3, <2>4, <2>5
           DEF RunStep, IInv, TypeOK
<1>. QED BY <1>9, <1>10

\* A step that violates no safety predicate leaves every goal and link in order.
LEMMA StepKeepsMonitorsInOrder ==
  ASSUME IInv, verdict = "running", RunStep, verdict' = "running"
  PROVE  (\A g \in Goals : GoalInv(g)') /\ (\A l \in Links : LinkInv(l)')
<1>1. PICK t \in {now} \cup timers : StepAt(t)
  BY DEF RunStep
<1>2. /\ t \in Nat /\ now \in Nat /\ now <= t /\ now' = t /\ NoDeadline \notin Nat
      /\ \A d \in ArmedDeadlines : t <= d
  BY <1>1, ClockStopsAtDeadlines, MonitorAssumption DEF StepAt, IInv, TypeOK
<1>3. /\ satisfied' = [g \in Goals |-> SatisfiedAfter(g)]
      /\ armed' = [l \in Links |-> ArmedAfter(l, t)]
      /\ metAt' = [g \in Goals |->
           IF deadline'[g] # NoDeadline /\ goal'[g] /\ metAt[g] = NoDeadline
           THEN t ELSE metAt[g]]
      /\ owed' = [l \in Links |->
           IF l \notin linked' \/ response'[l] THEN {}
           ELSE IF trigger'[l] THEN owed[l] \cup {t} ELSE owed[l]]
  <2>1. AfterStep(t)
    BY <1>1 DEF StepAt
  <2>2. ~(guarded' /\ ~safe')
    BY <2>1 DEF AfterStep
  <2>. QED BY <2>1, <2>2 DEF AfterStep
<1>4. Program(t)
  BY <1>1 DEF StepAt
<1>5. \A m \in Goals \cup Links : Within[m] \in Nat /\ Within[m] > 0
  BY MonitorAssumption
<1>6. ASSUME NEW g \in Goals
      PROVE  GoalInv(g)'
  <2>1. GoalInv(g)
    BY DEF IInv, RunningInv
  <2>2. \/ deadline'[g] = deadline[g]
        \/ deadline[g] = NoDeadline /\ deadline'[g] = t + Within[g]
    BY <1>4 DEF Program
  <2>3. deadline[g] # NoDeadline => deadline'[g] = deadline[g]
    BY <2>2
  <2>4. deadline'[g] # NoDeadline /\ ~satisfied[g] => t <= deadline'[g]
    <3>1. CASE deadline[g] # NoDeadline /\ ~satisfied[g]
      <4>1. deadline[g] \in ArmedDeadlines
        BY <3>1 DEF ArmedDeadlines, Unmet
      <4>. QED BY <1>2, <2>3, <3>1, <4>1
    <3>2. CASE deadline[g] = NoDeadline
      BY <1>2, <1>5, <2>2, <3>2
    <3>. QED BY <3>1, <3>2
  <2>5. satisfied'[g] = (satisfied[g] \/ (deadline'[g] # NoDeadline /\ goal'[g]))
    BY <1>3 DEF SatisfiedAfter
  <2>6. metAt'[g] = IF deadline'[g] # NoDeadline /\ goal'[g] /\ metAt[g] = NoDeadline
                    THEN t ELSE metAt[g]
    BY <1>3
  <2>. QED BY <1>2, <2>1, <2>3, <2>4, <2>5, <2>6 DEF GoalInv
<1>7. ASSUME NEW l \in Links
      PROVE  LinkInv(l)'
  <2>1. LinkInv(l) /\ armed[l] \in Times /\ owed[l] \subseteq Nat /\ Within[l] \in Nat
    BY <1>5 DEF IInv, RunningInv, TypeOK
  <2>2. armed'[l] = ArmedAfter(l, t)
    BY <1>3
  <2>3. owed'[l] = IF l \notin linked' \/ response'[l] THEN {}
                   ELSE IF trigger'[l] THEN owed[l] \cup {t} ELSE owed[l]
    BY <1>3
  <2>4. linked \subseteq linked'
    BY <1>4 DEF Program
  <2>5. armed[l] # NoDeadline => armed[l] \in Nat /\ t <= armed[l]
    BY <1>2, <2>1 DEF ArmedDeadlines, Open, Times
  <2>6. CASE l \notin linked' \/ response'[l]
    BY <2>1, <2>2, <2>3, <2>4, <2>6 DEF ArmedAfter, LinkInv
  <2>7. CASE l \in linked' /\ ~response'[l] /\ armed[l] # NoDeadline
    <3>1. armed'[l] = armed[l]
      BY <2>2, <2>7 DEF ArmedAfter
    <3>2. owed[l] \subseteq owed'[l] /\ owed'[l] \subseteq owed[l] \cup {t}
      BY <2>3, <2>7
    <3>3. /\ armed[l] <= now + Within[l] /\ \A u \in owed[l] : armed[l] <= u + Within[l]
          /\ \E u \in owed[l] : armed[l] = u + Within[l]
      BY <2>1, <2>7 DEF LinkInv
    <3>4. armed[l] <= t + Within[l]
      BY <1>2, <2>1, <2>5, <2>7, <3>3
    <3>5. \A u \in owed'[l] : armed'[l] <= u + Within[l]
      BY <3>1, <3>2, <3>3, <3>4
    <3>6. \E u \in owed'[l] : armed'[l] = u + Within[l]
      BY <3>1, <3>2, <3>3
    <3>. QED BY <1>2, <2>5, <2>7, <3>1, <3>4, <3>5, <3>6 DEF LinkInv
  <2>8. CASE l \in linked' /\ ~response'[l] /\ armed[l] = NoDeadline /\ trigger'[l]
    <3>1. armed'[l] = t + Within[l] /\ owed'[l] = {t}
      BY <2>1, <2>2, <2>3, <2>8 DEF ArmedAfter, LinkInv
    <3>. QED BY <1>2, <2>1, <2>8, <3>1 DEF LinkInv
  <2>9. CASE l \in linked' /\ ~response'[l] /\ armed[l] = NoDeadline /\ ~trigger'[l]
    BY <2>1, <2>2, <2>3, <2>9 DEF ArmedAfter, LinkInv
  <2>. QED BY <2>6, <2>7, <2>8, <2>9
<1>. QED BY <1>6, <1>7

\* A monitor that fails is unmet, and the history agrees.
LEMMA FailingIsEarned ==
  ASSUME IInv, verdict = "running", NEW due, NEW m \in Failing(due)
  PROVE  /\ due[m]
         /\ m \in Goals => metAt[m] = NoDeadline /\ deadline[m] \in ArmedDeadlines
         /\ m \in Links => /\ armed[m] \in ArmedDeadlines
                           /\ \E t \in owed[m] : armed[m] = t + Within[m]
         /\ m \in Goals \cup Links
<1>1. Goals \cap Links = {}
  BY MonitorAssumption
<1>2. CASE m \in Unmet /\ due[m]
  <2>1. m \in Goals /\ GoalInv(m) /\ ~satisfied[m]
    BY <1>2 DEF Unmet, IInv, RunningInv
  <2>. QED BY <1>1, <1>2, <2>1 DEF GoalInv, ArmedDeadlines
<1>3. CASE m \in Open /\ due[m]
  <2>1. m \in Links /\ LinkInv(m) /\ armed[m] # NoDeadline
    BY <1>3 DEF Open, IInv, RunningInv
  <2>. QED BY <1>1, <1>3, <2>1 DEF LinkInv, ArmedDeadlines
<1>. QED BY <1>2, <1>3 DEF Failing

\* The clock that a deadline stops leaves no deadline behind.
LEMMA DeadlinesFireInTime ==
  ASSUME IInv, verdict = "running", DeadlineFires
  PROVE  now' \in Nat /\ now <= now' /\ \A d \in ArmedDeadlines : d \in Nat /\ now' <= d
<1>1. PICK d \in ArmedDeadlines : IsNextDeadline(d) /\ now' = (IF d <= now THEN now ELSE d)
  BY DEF DeadlineFires
<1>2. now \in Nat /\ \A e \in ArmedDeadlines : e \in Nat /\ now <= e /\ d <= e
  BY <1>1, ArmedDeadlinesLieAhead DEF IsNextDeadline, IInv, TypeOK
<1>. QED BY <1>1, <1>2

\* Steps, deadlines and the end of the run keep the invariant.
LEMMA NextIInv ==
  ASSUME IInv, [Next]_vars
  PROVE  IInv'
<1>1. CASE DeadlineFires
  <2>. DEFINE due == [m \in Goals \cup Links |->
                        IF m \in Goals THEN m \in Unmet /\ deadline[m] <= now'
                                       ELSE m \in Open /\ armed[m] <= now']
  <2>1. /\ verdict = "running"
        /\ UNCHANGED <<ready, timers, mainDone, steps, userVars, monVars, metAt, owed>>
        /\ \/ verdict' = "liveness" /\ blamed' \in Failing(due)
           \/ verdict' = verdict /\ blamed' = blamed
    BY <1>1 DEF DeadlineFires, FireDueAt, Judge
  <2>2. now' \in Nat /\ now <= now' /\ \A d \in ArmedDeadlines : d \in Nat /\ now' <= d
    BY <1>1, <2>1, DeadlinesFireInTime
  <2>3. CASE verdict' = "liveness" /\ blamed' \in Failing(due)
    <3>1. /\ due[blamed'] /\ blamed' \in Goals \cup Links
          /\ blamed' \in Goals =>
               metAt[blamed'] = NoDeadline /\ deadline[blamed'] \in ArmedDeadlines
          /\ blamed' \in Links =>
               /\ armed[blamed'] \in ArmedDeadlines
               /\ \E t \in owed[blamed'] : armed[blamed'] = t + Within[blamed']
      BY <2>1, <2>3, FailingIsEarned
    <3>2. Goals \cap Links = {}
      BY MonitorAssumption
    <3>3. /\ blamed' \in Goals => deadline[blamed'] = now'
          /\ blamed' \in Links => armed[blamed'] = now'
      <4>1. CASE blamed' \in Goals
        <5>1. due[blamed'] = (blamed' \in Unmet /\ deadline[blamed'] <= now')
          BY <4>1
        <5>2. deadline[blamed'] <= now'
          BY <3>1, <5>1
        <5>. QED BY <2>2, <3>1, <3>2, <4>1, <5>2
      <4>2. CASE blamed' \in Links
        <5>1. due[blamed'] = (blamed' \in Open /\ armed[blamed'] <= now')
          BY <3>2, <4>2
        <5>2. armed[blamed'] <= now'
          BY <3>1, <5>1
        <5>. QED BY <2>2, <3>1, <3>2, <4>2, <5>2
      <4>. QED BY <4>1, <4>2
    <3>4. TypeOK' /\ IsFiniteSet(timers)'
      BY <2>1, <2>2, <2>3, <3>1 DEF IInv, TypeOK, Verdicts, userVars, monVars
    <3>5. LivenessVerdictIsEarned'
      BY <2>1, <3>1, <3>3 DEF LivenessVerdictIsEarned, monVars
    <3>. QED BY <2>3, <3>4, <3>5 DEF IInv, RunningInv, OkMeansEveryGoalMet
  <2>4. CASE verdict' = verdict /\ blamed' = blamed
    <3>1. TypeOK' /\ IsFiniteSet(timers)'
      BY <2>1, <2>2, <2>4 DEF IInv, TypeOK, userVars, monVars
    <3>2. ASSUME NEW g \in Goals
          PROVE  GoalInv(g)'
      <4>1. deadline[g] # NoDeadline /\ ~satisfied[g] => now' <= deadline[g]
        BY <2>2 DEF ArmedDeadlines, Unmet
      <4>. QED BY <2>1, <4>1 DEF IInv, RunningInv, GoalInv, userVars, monVars
    <3>3. ASSUME NEW l \in Links
          PROVE  LinkInv(l)'
      <4>1. armed[l] # NoDeadline => armed[l] \in Nat /\ now' <= armed[l]
        BY <2>2 DEF ArmedDeadlines, Open
      <4>2. now \in Nat /\ Within[l] \in Nat /\ LinkInv(l)
        BY <2>1, MonitorAssumption DEF IInv, TypeOK, RunningInv
      <4>3. armed[l] # NoDeadline => armed[l] <= now' + Within[l]
        BY <2>2, <4>1, <4>2 DEF LinkInv
      <4>. QED BY <2>1, <4>1, <4>2, <4>3 DEF LinkInv, userVars, monVars
    <3>. QED BY <2>1, <2>4, <3>1, <3>2, <3>3
             DEF IInv, RunningInv, OkMeansEveryGoalMet, LivenessVerdictIsEarned
  <2>. QED BY <2>1, <2>3, <2>4
<1>2. CASE ReportDeadlock
  BY <1>2 DEF ReportDeadlock, IInv, TypeOK, RunningInv, OkMeansEveryGoalMet,
     LivenessVerdictIsEarned, Verdicts, loopVars, userVars, monVars
<1>3. CASE RunStep
  <2>1. verdict = "running"
    BY <1>3 DEF RunStep
  <2>2. TypeOK' /\ IsFiniteSet(timers)'
    BY <1>3, <2>1, StepIsTyped
  <2>3. verdict' = "running" \/ verdict' = "safety"
    BY <1>3, <2>1 DEF RunStep, StepAt, AfterStep
  <2>4. RunningInv'
    BY <1>3, <2>1, StepKeepsMonitorsInOrder DEF RunningInv
  <2>. QED BY <2>2, <2>3, <2>4 DEF IInv, OkMeansEveryGoalMet, LivenessVerdictIsEarned
<1>4. CASE EndRun
  <2>. DEFINE all == [m \in Goals \cup Links |-> TRUE]
  <2>1. /\ verdict = "running" /\ mainDone
        /\ UNCHANGED <<loopVars, userVars, monVars, metAt, owed>>
        /\ \/ verdict' = "liveness" /\ blamed' \in Failing(all)
           \/ verdict' = "ok" /\ blamed' = blamed /\ Failing(all) = {}
    BY <1>4 DEF EndRun, Judge
  <2>2. CASE verdict' = "liveness" /\ blamed' \in Failing(all)
    <3>1. /\ blamed' \in Goals \cup Links
          /\ blamed' \in Goals => metAt[blamed'] = NoDeadline
          /\ blamed' \in Links => owed[blamed'] # {}
      BY <2>1, <2>2, FailingIsEarned
    <3>2. TypeOK' /\ IsFiniteSet(timers)'
      BY <2>1, <2>2, <3>1 DEF IInv, TypeOK, Verdicts, loopVars, userVars, monVars
    <3>. QED BY <2>1, <2>2, <3>1, <3>2
             DEF IInv, RunningInv, OkMeansEveryGoalMet, LivenessVerdictIsEarned, loopVars
  <2>3. CASE verdict' = "ok" /\ blamed' = blamed /\ Failing(all) = {}
    <3>1. TypeOK' /\ IsFiniteSet(timers)'
      BY <2>1, <2>3 DEF IInv, TypeOK, Verdicts, loopVars, userVars, monVars
    <3>2. ASSUME NEW g \in Goals, deadline[g] # NoDeadline
          PROVE  metAt[g] # NoDeadline /\ metAt[g] <= deadline[g]
      <4>1. GoalInv(g)
        BY <2>1 DEF IInv, RunningInv
      <4>2. satisfied[g]
        BY <2>3, <3>2, <4>1 DEF Failing, Unmet, GoalInv
      <4>. QED BY <4>1, <4>2 DEF GoalInv
    <3>3. ASSUME NEW l \in Links
          PROVE  owed[l] = {}
      <4>1. LinkInv(l)
        BY <2>1 DEF IInv, RunningInv
      <4>. QED BY <2>3, <4>1 DEF Failing, Open, LinkInv
    <3>4. OkMeansEveryGoalMet'
      BY <2>1, <3>2, <3>3 DEF OkMeansEveryGoalMet, monVars
    <3>. QED BY <2>3, <3>1, <3>4 DEF IInv, RunningInv, LivenessVerdictIsEarned
  <2>. QED BY <2>1, <2>2, <2>3
<1>5. CASE UNCHANGED vars
  BY <1>5 DEF IInv, TypeOK, RunningInv, GoalInv, LinkInv, OkMeansEveryGoalMet,
     LivenessVerdictIsEarned, vars, loopVars, userVars, monVars
<1>6. CASE Ended
  BY <1>5, <1>6 DEF Ended
<1>. QED BY <1>1, <1>2, <1>3, <1>4, <1>5, <1>6 DEF Next

\* The invariant holds in every reachable state.
THEOREM Invariance == Spec => []IInv
<1>1. Init => IInv
  <2>. SUFFICES ASSUME Init PROVE IInv
    OBVIOUS
  <2>1. /\ mainDone \in BOOLEAN /\ safe \in BOOLEAN /\ guarded \in BOOLEAN
        /\ goal \in [Goals -> BOOLEAN] /\ satisfied \in [Goals -> BOOLEAN]
    BY DEF Init
  <2>2. trigger \in [Links -> BOOLEAN] /\ response \in [Links -> BOOLEAN]
    BY DEF Init
  <2>3. IsFiniteSet(timers)
    BY FS_EmptySet DEF Init
  <2>4. TypeOK
    BY <2>1, <2>2 DEF Init, TypeOK, Times, Verdicts
  <2>5. RunningInv
    BY DEF Init, RunningInv, GoalInv, LinkInv
  <2>. QED BY <2>3, <2>4, <2>5 DEF Init, IInv, OkMeansEveryGoalMet, LivenessVerdictIsEarned
<1>. QED BY <1>1, NextIInv, PTL DEF Spec

----------------------------------------------------------------------------
(* Theorems.                                                               *)

\* Deadlines and histories are times, throughout every run.
THEOREM TypeCorrect == Spec => []TypeOK
<1>1. IInv => TypeOK
  BY DEF IInv
<1>. QED BY <1>1, Invariance, PTL

\* The loop never lets the clock pass an armed deadline.
THEOREM DeadlinesAreKept == Spec => []ClockNeverPassesADeadline
<1>1. IInv => ClockNeverPassesADeadline
  BY ArmedDeadlinesLieAhead DEF ClockNeverPassesADeadline
<1>. QED BY <1>1, Invariance, PTL

\* One deadline per link is enough: no trigger waits longer than promised.
THEOREM OneDeadlineServesEveryTrigger == Spec => []NoObligationOverdue
<1>1. ASSUME IInv, verdict = "running", NEW l \in Links, NEW t \in owed[l]
      PROVE  now <= t + Within[l]
  <2>1. LinkInv(l)
    BY <1>1 DEF IInv, RunningInv
  <2>2. armed[l] # NoDeadline /\ now <= armed[l] /\ armed[l] <= t + Within[l]
    BY <1>1, <2>1 DEF LinkInv
  <2>3. now \in Nat /\ armed[l] \in Nat /\ t \in Nat /\ Within[l] \in Nat
    BY <1>1, <2>2, MonitorAssumption DEF IInv, TypeOK, Times
  <2>. QED BY <2>2, <2>3
<1>2. IInv => NoObligationOverdue
  BY <1>1 DEF NoObligationOverdue
<1>. QED BY <1>2, Invariance, PTL

\* A run that ends well has met every goal in time and answered every trigger.
THEOREM OkIsRight == Spec => []OkMeansEveryGoalMet
<1>1. IInv => OkMeansEveryGoalMet
  BY DEF IInv
<1>. QED BY <1>1, Invariance, PTL

\* A liveness verdict names a monitor that is unmet, and comes at its deadline.
THEOREM LivenessVerdictIsRight == Spec => []LivenessVerdictIsEarned
<1>1. IInv => LivenessVerdictIsEarned
  BY DEF IInv
<1>. QED BY <1>1, Invariance, PTL
=============================================================================
