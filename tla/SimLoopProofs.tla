--------------------------- MODULE SimLoopProofs ---------------------------
(***************************************************************************)
(* What the event loop guarantees for any set of tasks, hosts and delays.  *)
(***************************************************************************)
EXTENDS SimLoop, FiniteSetTheorems, WellFoundedInduction, TLAPS

----------------------------------------------------------------------------
(* The choice of the next time.                                            *)

\* A set of times that is not empty has a first one.
LEMMA FirstTimeExists ==
  ASSUME NEW S \in SUBSET Nat, S # {}
  PROVE  \E n \in S : \A m \in S : n <= m
<1>. DEFINE R == {p \in Nat \X Nat : p[1] < p[2]}
<1>1. IsWellFoundedOn(R, Nat)
  BY NatLessThanWellFounded, Zenon DEF OpToRel
<1>2. \A m, n \in Nat : ~(<<m, n>> \in R) => n <= m
  OBVIOUS
<1>. HIDE DEF R
<1>3. \E n \in S : \A m \in S : ~(<<m, n>> \in R)
  BY <1>1, WFMin
<1>. QED BY <1>2, <1>3, Zenon

\* The next time is a time, never before now; the clock moves only when nothing is
\* ready, and then to a timer that no other timer precedes.
LEMMA NextNowIsTheFirstTimer ==
  ASSUME TypeOK
  PROVE  /\ NextNow \in Nat /\ NextNow >= now
         /\ NextNow # now => Live = {} /\ \A tm \in scheduled : NextNow <= tm.when
<1>. DEFINE S == {tm.when : tm \in scheduled}
            First(n) == \A tm \in scheduled : n <= tm.when
<1>0. now \in Nat /\ \A tm \in scheduled : tm.when \in Nat
  BY DEF TypeOK, Timers
<1>1. CASE Draining \/ Live # {} \/ scheduled = {} \/ \E tm \in scheduled : tm.when <= now
  <2>1. NextNow = now
    BY <1>1 DEF NextNow
  <2>. QED BY <2>1, <1>0
<1>2. CASE ~(Draining \/ Live # {} \/ scheduled = {} \/ \E tm \in scheduled : tm.when <= now)
  <2>1. S \in SUBSET Nat /\ S # {}
    BY <1>0, <1>2
  <2>2. \E n \in S : First(n)
    <3>1. PICK n \in S : \A m \in S : n <= m
      BY <2>1, FirstTimeExists
    <3>. QED BY <3>1
  <2>3. NextNow = CHOOSE n \in S : First(n)
    BY <1>2 DEF NextNow
  <2>4. NextNow \in S /\ First(NextNow)
    BY <2>2, <2>3, Zenon
  <2>5. NextNow \in Nat /\ NextNow > now
    BY <2>4, <1>0, <1>2
  <2>. QED BY <1>0, <1>2, <2>4, <2>5
<1>. QED BY <1>1, <1>2

----------------------------------------------------------------------------
(* Types.                                                                  *)

\* The four constructors build handles.
LEMMA HandlesAreTyped ==
  /\ Shutdown \in Handles
  /\ \A t \in Tasks : Step(t) \in Handles /\ Timer(t) \in Handles /\ Gather(t) \in Handles
  /\ \A p \in RunPhases : Stop(p) \in Handles
BY LoopAssumption DEF Step, Timer, Gather, Stop, Shutdown, Handles, RunPhases

\* Cancelling tasks keeps the types, and wakes tasks only.
LEMMA CancelIsTyped ==
  ASSUME TypeOK, NEW S
  PROVE  /\ FutAfterCancel(S) \in [Tasks -> {"pending", "result", "cancelled"}]
         /\ MarksAfterCancel(S) \in [Tasks -> BOOLEAN]
         /\ Woken(S) \subseteq Tasks /\ Steps(Woken(S)) \subseteq Handles
<1>1. Woken(S) \subseteq Tasks
  BY DEF Woken, CancelHits
<1>2. Steps(Woken(S)) \subseteq Handles
  BY <1>1, HandlesAreTyped DEF Steps
<1>3. FutAfterCancel(S) \in [Tasks -> {"pending", "result", "cancelled"}]
  BY DEF FutAfterCancel, TypeOK
<1>4. MarksAfterCancel(S) \in [Tasks -> BOOLEAN]
  BY DEF MarksAfterCancel
<1>. QED BY <1>1, <1>2, <1>3, <1>4

\* What the scheduler picks from are handles.
LEMMA PoolIsTyped ==
  ASSUME TypeOK
  PROVE  Pool \subseteq Handles /\ Live \subseteq ready
<1>1. Live \subseteq ready /\ ready \subseteq Handles
  BY DEF Live, TypeOK
<1>2. \A tm \in Due : Timer(tm.task) \in Handles
  BY HandlesAreTyped DEF Due, TypeOK, Timers
<1>. QED BY <1>1, <1>2 DEF Pool

\* Popping a handle keeps the clock, the spins and the parked handles typed.
LEMMA PopIsTyped ==
  ASSUME TypeOK, NEW h, Pop(h)
  PROVE  /\ now' \in Nat /\ spins' \in Nat /\ parked' \subseteq Handles
         /\ Pool \subseteq Handles /\ scheduled \ Due \subseteq Timers
<1>1. NextNow \in Nat
  BY NextNowIsTheFirstTimer
<1>2. NextSpins \in Nat
  BY <1>1 DEF NextSpins, TypeOK
<1>. QED BY <1>1, <1>2, PoolIsTyped DEF Pop, TypeOK

\* An error leaves the run in a phase, with an error, of their types.
LEMMA AbortIsTyped ==
  ASSUME TypeOK, NEW e \in Errors, Abort(e)
  PROVE  /\ stopping' \in BOOLEAN /\ phase' \in Phases
         /\ leftover' \subseteq Tasks /\ gathered' \subseteq Tasks
         /\ error' \in Errors /\ teardownError' \in Errors
BY DEF Abort, TypeOK, Phases, RunPhases, DrainPhases

\* What the loop does keeps the types.
LEMMA LoopIsTyped ==
  ASSUME TypeOK,
         \/ \E t \in Tasks : StepTask(t) \/ RunTimer(t) \/ RunGather(t)
         \/ RunShutdown \/ \E p \in RunPhases : RunStop(p)
         \/ Livelock \/ ReportDeadlock \/ MonitorViolation
  PROVE  TypeOK'
<1>1. ASSUME NEW t \in Tasks, StepTask(t)
      PROVE  TypeOK'
  <2>1. Pop(Step(t))
    BY <1>1 DEF StepTask, Picked
  <2>2. ready' \subseteq Handles /\ scheduled' \subseteq Timers
    BY <1>1, <2>1, PopIsTyped DEF StepTask, TypeOK
  <2>3. mustCancel' \in [Tasks -> BOOLEAN] /\ unwinding' \in [Tasks -> BOOLEAN]
    BY <1>1 DEF StepTask, TypeOK
  <2>4. wait' \in [Tasks -> [kind : WaitKinds, on : Tasks]]
    BY <1>1 DEF StepTask, TypeOK, NoWait, WaitKinds
  <2>. QED BY <1>1, <2>1, <2>2, <2>3, <2>4, PopIsTyped DEF StepTask, TypeOK, runVars
<1>2. ASSUME NEW t \in Tasks, RunTimer(t)
      PROVE  TypeOK'
  <2>1. Pop(Timer(t))
    BY <1>2 DEF RunTimer, Picked
  <2>2. ready' \subseteq Handles /\ scheduled' \subseteq Timers
    BY <1>2, <2>1, PopIsTyped, HandlesAreTyped DEF RunTimer
  <2>3. fut' \in [Tasks -> {"pending", "result", "cancelled"}]
    BY <1>2 DEF RunTimer, TypeOK
  <2>. QED BY <1>2, <2>1, <2>2, <2>3, PopIsTyped DEF RunTimer, TypeOK, runVars
<1>3. ASSUME NEW t \in Tasks, RunGather(t)
      PROVE  TypeOK'
  <2>1. Pop(Gather(t)) /\ phase \in RunPhases
    BY <1>3 DEF RunGather, Picked, RunPhases
  <2>2. ready' \subseteq Handles /\ scheduled' \subseteq Timers
    BY <1>3, <2>1, PopIsTyped, HandlesAreTyped DEF RunGather
  <2>3. gathered' \subseteq Tasks
    BY <1>3 DEF RunGather, TypeOK
  <2>. QED BY <1>3, <2>1, <2>2, <2>3, PopIsTyped DEF RunGather, TypeOK, taskVars
<1>4. ASSUME NEW p \in RunPhases, RunStop(p)
      PROVE  TypeOK'
  <2>1. Pop(Stop(p))
    BY <1>4 DEF RunStop, Picked
  <2>2. ready' \subseteq Handles /\ scheduled' \subseteq Timers
    BY <1>4, <2>1, PopIsTyped DEF RunStop
  <2>. QED BY <1>4, <2>1, <2>2, PopIsTyped DEF RunStop, TypeOK, taskVars, runVars
<1>8. CASE RunShutdown
  <2>1. Pop(Shutdown) /\ "agens" \in RunPhases
    BY <1>8 DEF RunShutdown, Picked, RunPhases
  <2>2. ready' \subseteq Handles /\ scheduled' \subseteq Timers
    BY <1>8, <2>1, PopIsTyped, HandlesAreTyped DEF RunShutdown
  <2>. QED BY <1>8, <2>1, <2>2, PopIsTyped DEF RunShutdown, TypeOK, taskVars, runVars
<1>5. CASE Livelock
  <2>1. PICK h \in Pool : Pop(h) /\ ready' = Pool \ {h}
    BY <1>5 DEF Livelock
  <2>2. ready' \subseteq Handles /\ scheduled' \subseteq Timers
    BY <1>5, <2>1, PopIsTyped DEF Livelock
  <2>3. Abort("livelock") /\ "livelock" \in Errors
    BY <1>5 DEF Livelock, Errors
  <2>. QED BY <1>5, <2>1, <2>2, <2>3, PopIsTyped, AbortIsTyped DEF Livelock, TypeOK, taskVars
<1>6. CASE ReportDeadlock
  <2>1. Abort("deadlock") /\ "deadlock" \in Errors
    BY <1>6 DEF ReportDeadlock, Errors
  <2>. QED BY <1>6, <2>1, AbortIsTyped DEF ReportDeadlock, TypeOK, taskVars, clockVars
<1>7. CASE MonitorViolation
  <2>1. Abort("monitor") /\ "monitor" \in Errors
    BY <1>7 DEF MonitorViolation, Errors
  <2>. QED BY <1>7, <2>1, AbortIsTyped DEF MonitorViolation, TypeOK, taskVars, clockVars
<1>. QED BY <1>1, <1>2, <1>3, <1>4, <1>5, <1>6, <1>7, <1>8

\* What the program does keeps the types.
LEMMA ProgramIsTyped ==
  ASSUME TypeOK, NEW t \in Tasks,
         \/ Yield(t) \/ WaitFuture(t) \/ Finish(t)
         \/ \E d \in Delays : Sleep(t, d)
         \/ \E u \in Tasks : AwaitTask(t, u) \/ Resolve(t, u) \/ Cancel(t, u) \/ CreateTask(t, u)
         \/ \E h \in Hosts : CrashHost(t, h)
  PROVE  TypeOK'
<1>0. ASSUME Counted(t)
      PROVE  ops' \in [Tasks -> Nat]
  BY <1>0 DEF Counted, TypeOK
<1>1. CASE Yield(t)
  <2>1. ready' \subseteq Handles
    BY <1>1, HandlesAreTyped DEF Yield, TypeOK
  <2>. QED BY <1>0, <1>1, <2>1 DEF Yield, TypeOK, loopRest, progRest, runVars
<1>2. ASSUME NEW k \in WaitKinds, Suspend(t, k), scheduled' \subseteq Timers
      PROVE  TypeOK'
  <2>1. ready' \subseteq Handles
    BY <1>2, HandlesAreTyped DEF Suspend, TypeOK
  <2>2. wait' \in [Tasks -> [kind : WaitKinds, on : Tasks]]
    BY <1>2 DEF Suspend, TypeOK
  <2>3. fut' \in [Tasks -> {"pending", "result", "cancelled"}] /\ mustCancel' \in [Tasks -> BOOLEAN]
    BY <1>2 DEF Suspend, TypeOK
  <2>. QED BY <1>0, <1>2, <2>1, <2>2, <2>3 DEF Suspend, TypeOK, loopRest, progRest, runVars
<1>3. CASE WaitFuture(t)
  <2>1. "future" \in WaitKinds /\ Suspend(t, "future") /\ scheduled' \subseteq Timers
    BY <1>3 DEF WaitFuture, WaitKinds, TypeOK
  <2>. QED BY <1>2, <2>1
<1>4. ASSUME NEW d \in Delays, Sleep(t, d)
      PROVE  TypeOK'
  <2>1. now + d \in Nat
    BY LoopAssumption DEF TypeOK
  <2>2. "sleep" \in WaitKinds /\ Suspend(t, "sleep") /\ scheduled' \subseteq Timers
    BY <1>4, <2>1 DEF Sleep, WaitKinds, TypeOK, Timers
  <2>. QED BY <1>2, <2>2
<1>5. CASE Finish(t)
  <2>1. Waiters(t) \subseteq Tasks /\ Steps(Waiters(t)) \subseteq Handles
    BY HandlesAreTyped DEF Waiters, Steps
  <2>2. "main" \in RunPhases
    BY DEF RunPhases
  <2>3. ready' \subseteq Handles
    BY <1>5, <2>1, <2>2, HandlesAreTyped DEF Finish, TypeOK
  <2>4. status' \in [Tasks -> {"new", "pending", "done"}] /\ unwinding' \in [Tasks -> BOOLEAN]
    BY <1>5 DEF Finish, TypeOK
  <2>. QED BY <1>5, <2>3, <2>4 DEF Finish, TypeOK, loopRest, progRest, runVars
<1>6. ASSUME NEW u \in Tasks, AwaitTask(t, u)
      PROVE  TypeOK'
  <2>. DEFINE hit == IF mustCancel[t] THEN {u} ELSE {}
  <2>1. /\ fut' = FutAfterCancel(hit)
        /\ mustCancel' = [MarksAfterCancel(hit) EXCEPT ![t] = FALSE]
        /\ ready' = ready \cup Steps(Woken(hit))
    BY <1>6 DEF AwaitTask
  <2>. HIDE DEF hit
  <2>2. /\ ready' \subseteq Handles /\ mustCancel' \in [Tasks -> BOOLEAN]
        /\ fut' \in [Tasks -> {"pending", "result", "cancelled"}]
    BY <2>1, CancelIsTyped DEF TypeOK
  <2>3. wait' \in [Tasks -> [kind : WaitKinds, on : Tasks]]
    BY <1>6 DEF AwaitTask, TypeOK, WaitKinds
  <2>. QED BY <1>0, <1>6, <2>2, <2>3 DEF AwaitTask, TypeOK, loopRest, progRest, runVars
<1>7. ASSUME NEW u \in Tasks, Resolve(t, u)
      PROVE  TypeOK'
  <2>1. ready' \subseteq Handles
    BY <1>7, HandlesAreTyped DEF Resolve, TypeOK
  <2>2. fut' \in [Tasks -> {"pending", "result", "cancelled"}]
    BY <1>7 DEF Resolve, TypeOK
  <2>. QED BY <1>0, <1>7, <2>1, <2>2 DEF Resolve, Operates, TypeOK, loopRest, progRest, runVars
<1>8. ASSUME NEW u \in Tasks, Cancel(t, u)
      PROVE  TypeOK'
  <2>1. /\ ready' \subseteq Handles /\ mustCancel' \in [Tasks -> BOOLEAN]
        /\ fut' \in [Tasks -> {"pending", "result", "cancelled"}]
    BY <1>8, CancelIsTyped DEF Cancel, TypeOK
  <2>. QED BY <1>0, <1>8, <2>1 DEF Cancel, Operates, TypeOK, loopRest, progRest, runVars
<1>9. ASSUME NEW u \in Tasks, CreateTask(t, u)
      PROVE  TypeOK'
  <2>1. ready' \subseteq Handles
    BY <1>9, HandlesAreTyped DEF CreateTask, TypeOK
  <2>2. status' \in [Tasks -> {"new", "pending", "done"}]
    BY <1>9 DEF CreateTask, TypeOK
  <2>. QED BY <1>0, <1>9, <2>1, <2>2 DEF CreateTask, Operates, TypeOK, loopRest, progRest, runVars
<1>10. ASSUME NEW h \in Hosts, CrashHost(t, h)
       PROVE  TypeOK'
  BY <1>0, <1>10 DEF CrashHost, Operates, TypeOK, loopRest, progRest, runVars
<1>. QED BY <1>1, <1>3, <1>4, <1>5, <1>6, <1>7, <1>8, <1>9, <1>10

\* What teardown does keeps the types.
LEMMA TeardownIsTyped ==
  ASSUME TypeOK,
         \/ LeaveLoop \/ CancelLeftovers \/ ReviveCrashed
         \/ CloseTransports \/ ShutdownAsyncgens \/ TeardownReturns
  PROVE  TypeOK'
<1>0. ASSUME NEW S \in SUBSET Tasks, NEW run \in Phases, NEW next \in Phases,
             CancelAndGather(S, run, next), ready' \subseteq Handles,
             parked' \subseteq Handles, crashed' \subseteq Tasks
      PROVE  TypeOK'
  <2>1. /\ mustCancel' \in [Tasks -> BOOLEAN]
        /\ fut' \in [Tasks -> {"pending", "result", "cancelled"}]
    BY <1>0, CancelIsTyped DEF CancelAndGather
  <2>. QED BY <1>0, <2>1 DEF CancelAndGather, TypeOK, clockVars
<1>1. CASE LeaveLoop
  <2>1. CASE RunIsOver
    <3>1. /\ stopping' = FALSE
          /\ phase' = CASE phase = "main"   -> "exit"
                        [] phase = "cancel" -> "cancelled"
                        [] phase = "revive" -> "revived"
                        [] OTHER            -> "drain"
          /\ UNCHANGED <<leftover, gathered, error, teardownError>>
      BY <1>1, <2>1 DEF LeaveLoop
    <3>2. phase' \in Phases
      BY <3>1 DEF Phases, RunPhases, DrainPhases
    <3>. QED BY <1>1, <3>1, <3>2 DEF LeaveLoop, TypeOK, clockVars, taskVars
  <2>2. CASE ~RunIsOver
    <3>1. Abort("stopped") /\ "stopped" \in Errors
      BY <1>1, <2>2 DEF LeaveLoop, Errors
    <3>. QED BY <1>1, <3>1, AbortIsTyped DEF LeaveLoop, TypeOK, clockVars, taskVars
  <2>. QED BY <2>1, <2>2
<1>2. CASE CancelLeftovers
  <2>1. Pending \in SUBSET Tasks /\ "cancel" \in Phases /\ "cancelled" \in Phases
    BY DEF Pending, Phases, RunPhases
  <2>2. /\ ready' \subseteq Handles /\ parked' \subseteq Handles /\ crashed' \subseteq Tasks
        /\ CancelAndGather(Pending, "cancel", "cancelled")
    BY <1>2, CancelIsTyped DEF CancelLeftovers, TypeOK
  <2>. QED BY <1>0, <2>1, <2>2
<1>3. CASE ReviveCrashed
  <2>1. crashed \in SUBSET Tasks /\ "revive" \in Phases /\ "revived" \in Phases
    BY DEF TypeOK, Phases, RunPhases
  <2>2. {Gather(t) : t \in {u \in crashed : status[u] = "done"}} \subseteq Handles
    BY <2>1, HandlesAreTyped
  <2>3. /\ ready' \subseteq Handles /\ parked' \subseteq Handles /\ crashed' \subseteq Tasks
        /\ CancelAndGather(crashed, "revive", "revived")
    BY <1>3, <2>2, CancelIsTyped DEF ReviveCrashed, Revive, TypeOK
  <2>. QED BY <1>0, <2>1, <2>3
<1>4. CASE CloseTransports \/ ShutdownAsyncgens \/ TeardownReturns
  <2>1. ready' \subseteq Handles /\ parked' \subseteq Handles
    BY <1>4, HandlesAreTyped
       DEF CloseTransports, ShutdownAsyncgens, TeardownReturns, TypeOK, Live
  <2>2. phase' \in Phases /\ UNCHANGED teardownRest
    BY <1>4 DEF CloseTransports, ShutdownAsyncgens, TeardownReturns, Phases, RunPhases, DrainPhases
  <2>. QED BY <2>1, <2>2 DEF teardownRest, TypeOK, clockVars, taskVars
<1>. QED BY <1>1, <1>2, <1>3, <1>4

\* The first state is well typed.
LEMMA InitIsTyped ==
  ASSUME Init
  PROVE  TypeOK
<1>1. ready \subseteq Handles /\ parked \subseteq Handles
  BY LoopAssumption, HandlesAreTyped DEF Init
<1>2. wait \in [Tasks -> [kind : WaitKinds, on : Tasks]]
  BY DEF Init, NoWait, WaitKinds
<1>3. stopping \in BOOLEAN /\ mustCancel \in [Tasks -> BOOLEAN] /\ unwinding \in [Tasks -> BOOLEAN]
  BY DEF Init
<1>. QED BY <1>1, <1>2, <1>3 DEF Init, TypeOK, Phases, RunPhases, Errors

\* Every step keeps the types.
LEMMA NextIsTyped ==
  ASSUME TypeOK, [Next]_vars
  PROVE  TypeOK'
<1>1. CASE UNCHANGED vars
  BY <1>1 DEF TypeOK, vars, clockVars, taskVars, runVars
<1>. QED BY <1>1, LoopIsTyped, ProgramIsTyped, TeardownIsTyped DEF Next, Closed

\* The loop's state is well typed in every state of every universe.
THEOREM TypeCorrect == Spec => []TypeOK
<1>1. Init => TypeOK
  BY InitIsTyped
<1>2. TypeOK /\ [Next]_vars => TypeOK'
  BY NextIsTyped
<1>. QED BY <1>1, <1>2, PTL DEF Spec

----------------------------------------------------------------------------
(* Action properties.                                                      *)

\* Whatever wakes, cancels or awaits a task of a crashed host, the loop never steps
\* it: only StepTask starts a step, and it picks from what compaction left.
THEOREM CrashedTasksAreNeverScheduled == Spec => CrashedNeverScheduled
<1>1. ASSUME [Next]_vars, running' \in Tasks, running' # running
      PROVE  running' \notin crashed
  <2>1. ASSUME NEW t \in Tasks, StepTask(t)
        PROVE  running' \notin crashed
    <3>1. Step(t) \in Pool /\ running' = t
      BY <2>1 DEF StepTask, Picked, Pop
    <3>2. \A tm \in Due : Step(t) # Timer(tm.task)
      BY DEF Step, Timer
    <3>3. Step(t) \in Live
      BY <3>1, <3>2 DEF Pool
    <3>. QED BY <3>1, <3>3 DEF Live, Frozen, Step
  <2>2. ASSUME NEW t \in Tasks,
               \/ Yield(t) \/ WaitFuture(t) \/ Finish(t)
               \/ \E d \in Delays : Sleep(t, d)
               \/ \E u \in Tasks : AwaitTask(t, u)
        PROVE  FALSE
    <3>1. running' = NoTask
      BY <2>2 DEF Yield, WaitFuture, Finish, Sleep, AwaitTask, Suspend
    <3>. QED BY <1>1, <3>1, LoopAssumption
  <2>3. ASSUME NEW t \in Tasks,
               \/ \E u \in Tasks : Resolve(t, u) \/ Cancel(t, u) \/ CreateTask(t, u)
               \/ \E h \in Hosts : CrashHost(t, h)
               \/ RunTimer(t) \/ RunGather(t)
        PROVE  FALSE
    BY <1>1, <2>3 DEF Resolve, Cancel, CreateTask, CrashHost, Operates, RunTimer, RunGather
  <2>4. ASSUME \/ RunShutdown \/ \E p \in RunPhases : RunStop(p)
               \/ Livelock \/ ReportDeadlock \/ MonitorViolation
               \/ LeaveLoop \/ CancelLeftovers \/ ReviveCrashed
               \/ CloseTransports \/ ShutdownAsyncgens \/ TeardownReturns \/ UNCHANGED vars
        PROVE  FALSE
    BY <1>1, <2>4 DEF RunStop, RunShutdown, Livelock, ReportDeadlock, MonitorViolation, LeaveLoop,
       CancelLeftovers, ReviveCrashed, Revive, CancelAndGather, CloseTransports, ShutdownAsyncgens,
       TeardownReturns, teardownRest, vars
  <2>. QED BY <1>1, <2>1, <2>2, <2>3, <2>4 DEF Next, Closed
<1>. QED BY <1>1, PTL DEF Spec, CrashedNeverScheduled

\* Virtual time runs forward, and stops at every timer on its way.
THEOREM TimeRunsForward == Spec => ClockNeverPassesATimer
<1>. DEFINE Stops == now' # now => now' > now /\ \A tm \in scheduled : tm.when >= now'
<1>1. ASSUME TypeOK, [Next]_vars
      PROVE  Stops
  <2>0. now \in Nat /\ \A tm \in scheduled : tm.when \in Nat
    BY <1>1 DEF TypeOK, Timers
  <2>1. ASSUME NEW h, Pop(h)
        PROVE  Stops
    BY <1>1, <2>0, <2>1, NextNowIsTheFirstTimer DEF Pop
  <2>2. ASSUME NEW t \in Tasks, StepTask(t) \/ RunTimer(t) \/ RunGather(t)
        PROVE  Stops
    BY <2>1, <2>2 DEF StepTask, RunTimer, RunGather, Picked
  <2>3. CASE Livelock \/ RunShutdown \/ \E p \in RunPhases : RunStop(p)
    BY <2>1, <2>3 DEF Livelock, RunShutdown, RunStop, Picked
  <2>4. ASSUME NEW t \in Tasks,
               \/ Yield(t) \/ WaitFuture(t) \/ Finish(t)
               \/ \E d \in Delays : Sleep(t, d)
               \/ \E u \in Tasks : AwaitTask(t, u) \/ Resolve(t, u) \/ Cancel(t, u) \/ CreateTask(t, u)
               \/ \E h \in Hosts : CrashHost(t, h)
        PROVE  now' = now
    BY <2>4 DEF Yield, WaitFuture, Finish, Sleep, AwaitTask, Suspend, Resolve, Cancel,
       CreateTask, CrashHost, loopRest
  <2>5. ASSUME \/ ReportDeadlock \/ MonitorViolation \/ LeaveLoop \/ CancelLeftovers
               \/ ReviveCrashed \/ CloseTransports \/ ShutdownAsyncgens \/ TeardownReturns
               \/ UNCHANGED vars
        PROVE  now' = now
    BY <2>5 DEF ReportDeadlock, MonitorViolation, LeaveLoop, CancelLeftovers, ReviveCrashed,
       Revive, CancelAndGather, CloseTransports, ShutdownAsyncgens, TeardownReturns, teardownRest,
       vars, clockVars
  <2>. QED BY <1>1, <2>2, <2>3, <2>4, <2>5 DEF Next, Closed
<1>2. TypeOK /\ [Next]_vars => [Stops]_vars
  BY <1>1
<1>. QED BY <1>2, TypeCorrect, PTL DEF Spec, ClockNeverPassesATimer

----------------------------------------------------------------------------
(* The inductive invariant behind the safety properties.                   *)

\* t's sleep has its timer, popped or not
Armed(t) == Timer(t) \in ready \/ \E tm \in scheduled : tm.task = t

\* only what is suspended waits, has a timer or a wakeup, and the wakeups that
\* were parked are those of crashed tasks
WakeupsAreEarned ==
  /\ running # NoTask => status[running] = "pending"
  /\ parked \subseteq Steps(crashed)
  /\ \A t \in Tasks :
       /\ wait[t].kind # "none" => status[t] = "pending" /\ t # running
       /\ Armed(t) => wait[t].kind = "sleep"
       /\ Queued(t) => status[t] = "pending" /\ t # running /\ ~Blocked(t)

\* errors are set by what ends the run, and the loop stands still between two runs
PhasesFollow ==
  /\ phase \notin RunPhases \cup DrainPhases => running = NoTask
  /\ phase = "main" => error = "none"
  /\ phase # "closed" => teardownError = "none"

\* CancelledError is on its way to t: it has been thrown, it will be thrown at t's
\* next step, or t awaits a task that passes it on
Coming(t) ==
  \/ unwinding[t] \/ mustCancel[t]
  \/ wait[t].kind \in {"sleep", "future"} /\ fut[t] = "cancelled"
  \/ /\ wait[t].kind = "task" /\ wait[t].on \notin late
     /\ status[wait[t].on] = "done" => unwinding[wait[t].on]

\* an await is of a task that exists, and once the main run has ended only cleanup
\* and the tasks it created await those
AwaitsAreOlder ==
  \A t \in Tasks : wait[t].kind = "task" =>
    /\ status[wait[t].on] # "new"
    /\ t \in late \/ unwinding[t] \/ wait[t].on \notin late

\* teardown misses nobody but the late tasks: whoever else is pending has been cancelled
\* and is waited for, the tasks of crashed hosts in the second run
TeardownCoversEveryTask ==
  /\ \A t \in Tasks : t \in gathered \/ Gather(t) \in ready => status[t] = "done"
  /\ phase \in {"main", "exit"} => late = {}
  /\ phase \in {"cancel", "revive"} =>
       \A t \in Tasks \ (crashed \cup late) : status[t] = "pending" => Coming(t)
  /\ \A t \in Tasks \ late : status[t] = "pending" =>
       CASE phase \in {"main", "exit"} -> TRUE
         [] phase = "cancel"    -> t \in leftover \cup crashed
         [] phase = "cancelled" -> t \in crashed
         [] phase = "revive"    -> t \in leftover
         [] OTHER               -> phase = "closed" /\ teardownError # "none"

LoopInv ==
  /\ TypeOK /\ WakeupsAreEarned /\ NoLostWakeup /\ PhasesFollow
  /\ AwaitsAreOlder /\ TeardownCoversEveryTask /\ OnlyCleanupAfterTheEnd
  /\ CleanTeardownEndsEveryTask /\ DeadlockIsGenuine

----------------------------------------------------------------------------
(* Handles and what the scheduler keeps of them.                           *)

\* Handles of different kinds or tasks are different.
LEMMA HandlesDiffer ==
  ASSUME NEW t, NEW u
  PROVE  /\ (Step(t) = Step(u) => t = u) /\ (Timer(t) = Timer(u) => t = u)
         /\ (Gather(t) = Gather(u) => t = u)
         /\ Step(t) # Timer(u) /\ Step(t) # Gather(u) /\ Timer(t) # Gather(u)
         /\ Shutdown # Step(t) /\ Shutdown # Timer(t) /\ Shutdown # Gather(t)
         /\ \A p \in RunPhases : Stop(p) # Step(t) /\ Stop(p) # Timer(t) /\ Stop(p) # Gather(t)
BY DEF Step, Timer, Gather, Shutdown, Stop, RunPhases

\* A step handle is in a set of steps if its task is in the set of tasks.
LEMMA StepOfASet ==
  ASSUME NEW S, NEW t
  PROVE  Step(t) \in Steps(S) <=> t \in S
BY HandlesDiffer DEF Steps

\* Compaction and the move of the clock lose no handle: steps are in the pool or
\* parked, timers in the pool or still armed, gather's callbacks in the pool.
LEMMA PopLosesNothing ==
  ASSUME TypeOK, NEW h, Pop(h)
  PROVE  /\ running = NoTask /\ phase \in RunPhases \cup DrainPhases
         /\ parked \subseteq Steps(crashed) => parked' \subseteq Steps(crashed)
         /\ \A t \in Tasks :
              /\ Step(t) \in Pool <=> Step(t) \in ready /\ t \notin crashed
              /\ Queued(t) <=> Step(t) \in Pool \cup parked'
              /\ Timer(t) \in Pool \/ (\E tm \in scheduled \ Due : tm.task = t) <=> Armed(t)
              /\ Gather(t) \in Pool <=> Gather(t) \in ready
<1>1. /\ running = NoTask /\ phase \in RunPhases \cup DrainPhases
      /\ parked' = parked \cup (ready \ Live)
  BY DEF Pop, Looping, InRun, Draining
<1>2. \A x \in ready : x \in Live \/ (x.kind = "step" /\ x.task \in crashed /\ x = Step(x.task))
  <2>1. \A x \in Handles : x.kind = "step" => x = Step(x.task)
    BY DEF Handles, Step
  <2>. QED BY <2>1 DEF Live, Frozen, TypeOK
<1>3. \A t : Step(t) \in ready \ Live => t \in crashed
  BY DEF Live, Frozen, Step
<1>4. \A t : Timer(t) \in ready => Timer(t) \in Live
  BY DEF Live, Frozen, Timer
<1>5. \A t : Gather(t) \in ready => Gather(t) \in Live
  BY DEF Live, Frozen, Gather
<1>6. \A t : Step(t) \in Live => t \notin crashed
  BY DEF Live, Frozen, Step
<1>7. Live \subseteq ready /\ Due \subseteq scheduled
  BY DEF Live, Due
<1>8. ready \ Live \subseteq Steps(crashed)
  BY <1>2 DEF Steps
<1>9. ASSUME NEW t \in Tasks
      PROVE  /\ Step(t) \in Pool <=> Step(t) \in ready /\ t \notin crashed
             /\ Queued(t) <=> Step(t) \in Pool \cup parked'
             /\ Timer(t) \in Pool \/ (\E tm \in scheduled \ Due : tm.task = t) <=> Armed(t)
             /\ Gather(t) \in Pool <=> Gather(t) \in ready
  <2>1. Step(t) \in Pool <=> Step(t) \in Live
    BY HandlesDiffer DEF Pool
  <2>2. Gather(t) \in Pool <=> Gather(t) \in Live
    BY HandlesDiffer DEF Pool
  <2>3. Timer(t) \in Pool <=> Timer(t) \in Live \/ \E tm \in Due : tm.task = t
    BY HandlesDiffer DEF Pool
  <2>. QED BY <1>1, <1>3, <1>4, <1>5, <1>6, <1>7, <2>1, <2>2, <2>3 DEF Queued, Armed
<1>. QED BY <1>1, <1>8, <1>9

\* Cancelling wakes tasks that wait for a plain future, and only those.
LEMMA CancelWakes ==
  ASSUME TypeOK, NEW S
  PROVE  /\ Woken(S) \subseteq Tasks
         /\ \A v \in Woken(S) : OnPendingFuture(v) /\ FutAfterCancel(S)[v] = "cancelled"
         /\ \A v \in Tasks \ Woken(S) : FutAfterCancel(S)[v] = fut[v]
BY DEF Woken, CancelHits, FutAfterCancel, TypeOK

----------------------------------------------------------------------------
(* No wakeup is lost.                                                      *)

WakeInv == TypeOK /\ WakeupsAreEarned /\ NoLostWakeup /\ PhasesFollow

\* The part of WakeInv about one task.
Woke(t) ==
  /\ wait[t].kind # "none" => status[t] = "pending" /\ t # running
  /\ Armed(t) => wait[t].kind = "sleep"
  /\ Queued(t) => status[t] = "pending" /\ t # running /\ ~Blocked(t)
  /\ "livelock" \notin {error, teardownError} /\ status[t] = "pending" /\ t # running =>
       /\ ~Blocked(t) => Queued(t)
       /\ wait[t].kind = "sleep" /\ fut[t] = "pending" => Armed(t)

\* WakeInv is that part for every task, and the two facts that are about none.
LEMMA WakeByTask ==
  WakeupsAreEarned /\ NoLostWakeup <=>
    /\ running # NoTask => status[running] = "pending"
    /\ parked \subseteq Steps(crashed)
    /\ \A t \in Tasks : Woke(t)
BY DEF WakeupsAreEarned, NoLostWakeup, Woke, Armed

\* The same of the state after a step.
LEMMA WakeByTaskNext ==
  ASSUME running' # NoTask => status'[running'] = "pending",
         parked' \subseteq Steps(crashed'), \A t \in Tasks : Woke(t)'
  PROVE  (WakeupsAreEarned /\ NoLostWakeup)'
BY DEF WakeupsAreEarned, NoLostWakeup, Woke, Armed, Steps

\* A step of a task that leaves its wait, its status and what it waits for alone, and
\* changes neither its wakeup nor its timer, keeps its part.
LEMMA UntouchedStaysWoke ==
  ASSUME TypeOK, NEW v \in Tasks, Woke(v), v # running', v # running,
         wait'[v] = wait[v], (fut'[v] = fut[v]), status'[v] = status[v],
         wait[v].kind = "task" => (status'[wait[v].on] = "done" <=> status[wait[v].on] = "done"),
         Queued(v)' <=> Queued(v), Armed(v)' <=> Armed(v),
         "livelock" \in {error, teardownError} => "livelock" \in {error', teardownError'}
  PROVE  Woke(v)'
<1>1. Blocked(v)' <=> Blocked(v)
  BY DEF Blocked, OnPendingFuture, OnPendingTask
<1>. QED BY <1>1 DEF Woke

\* Stepping a task takes its wakeup and leaves the other tasks alone.
LEMMA StepKeepsWakeups ==
  ASSUME WakeInv, NEW s \in Tasks, StepTask(s)
  PROVE  (WakeupsAreEarned /\ NoLostWakeup)'
<1>. USE DEF WakeInv
<1>1. /\ Pop(Step(s)) /\ Step(s) \in Pool
      /\ ready' = Pool \ {Step(s), Timer(s)} /\ running' = s
      /\ scheduled' = {tm \in scheduled \ Due : tm.task # s}
      /\ wait' = [wait EXCEPT ![s] = NoWait(s)]
      /\ UNCHANGED <<crashed, status, fut, error, teardownError>>
  BY DEF StepTask, Picked, Pop, runVars
<1>2. running = NoTask /\ parked' \subseteq Steps(crashed') /\ \A v \in Tasks : Woke(v)
  BY <1>1, PopLosesNothing, WakeByTask
<1>3. Queued(s) /\ s \notin crashed
  BY <1>1, PopLosesNothing DEF Queued
<1>4. ASSUME NEW v \in Tasks, v # s
      PROVE  Woke(v)'
  <2>1. Queued(v)' <=> Queued(v)
    BY <1>1, <1>4, PopLosesNothing, HandlesDiffer DEF Queued
  <2>2. Armed(v)' <=> Armed(v)
    BY <1>1, <1>4, PopLosesNothing, HandlesDiffer DEF Armed
  <2>3. v # running' /\ v # running /\ wait'[v] = wait[v] /\ fut'[v] = fut[v] /\ status' = status
    BY <1>1, <1>2, <1>4, LoopAssumption DEF TypeOK
  <2>. QED BY <1>1, <1>2, <2>1, <2>2, <2>3, UntouchedStaysWoke
<1>5. Woke(s)'
  <2>1. ~Queued(s)'
    BY <1>1, <1>2, <1>3, StepOfASet DEF Queued
  <2>2. ~Armed(s)'
    BY <1>1 DEF Armed
  <2>3. wait'[s].kind = "none" /\ running' = s
    BY <1>1 DEF TypeOK, NoWait
  <2>. QED BY <2>1, <2>2, <2>3 DEF Woke
<1>6. status'[running'] = "pending"
  BY <1>1, <1>2, <1>3 DEF Woke
<1>. QED BY <1>2, <1>4, <1>5, <1>6, WakeByTaskNext

\* The end of a sleep wakes the sleeper, once.
LEMMA TimerKeepsWakeups ==
  ASSUME WakeInv, NEW s \in Tasks, RunTimer(s)
  PROVE  (WakeupsAreEarned /\ NoLostWakeup)'
<1>. USE DEF WakeInv
<1>1. /\ Pop(Timer(s)) /\ Timer(s) \in Pool
      /\ ready' = (Pool \ {Timer(s)}) \cup (IF fut[s] = "pending" THEN {Step(s)} ELSE {})
      /\ scheduled' = scheduled \ Due
      /\ fut' = [fut EXCEPT ![s] = IF @ = "pending" THEN "result" ELSE @]
      /\ UNCHANGED <<crashed, running, status, wait, error, teardownError>>
  BY DEF RunTimer, Picked, Pop, runVars
<1>2. running = NoTask /\ parked' \subseteq Steps(crashed') /\ \A v \in Tasks : Woke(v)
  BY <1>1, PopLosesNothing, WakeByTask
<1>3. ASSUME NEW v \in Tasks, v # s
      PROVE  Woke(v)'
  <2>1. Queued(v)' <=> Queued(v)
    BY <1>1, <1>3, PopLosesNothing, HandlesDiffer DEF Queued
  <2>2. Armed(v)' <=> Armed(v)
    BY <1>1, <1>3, PopLosesNothing, HandlesDiffer DEF Armed
  <2>3. v # running' /\ v # running /\ fut'[v] = fut[v]
    BY <1>1, <1>2, <1>3, LoopAssumption DEF TypeOK
  <2>. QED BY <1>1, <1>2, <2>1, <2>2, <2>3, UntouchedStaysWoke
<1>4. Woke(s)'
  <2>1. wait[s].kind = "sleep" /\ status[s] = "pending" /\ s # running
    BY <1>1, <1>2, PopLosesNothing DEF Woke
  <2>2. fut'[s] # "pending"
    BY <1>1 DEF TypeOK
  <2>3. ~Blocked(s)'
    BY <1>1, <2>1, <2>2 DEF Blocked, OnPendingFuture, OnPendingTask
  <2>4. fut[s] = "pending" => Queued(s)'
    BY <1>1 DEF Queued
  <2>5. fut[s] # "pending" => (Queued(s)' <=> Queued(s)) /\ ~Blocked(s)
    BY <1>1, <2>1, PopLosesNothing, HandlesDiffer
       DEF Queued, Blocked, OnPendingFuture, OnPendingTask
  <2>. QED BY <1>1, <1>2, <2>1, <2>2, <2>3, <2>4, <2>5 DEF Woke
<1>. QED BY <1>1, <1>2, <1>3, <1>4, WakeByTaskNext

\* The other handles wake nobody; a livelock report may only drop one.
LEMMA OtherPopsKeepWakeups ==
  ASSUME WakeInv,
         \/ \E t \in Tasks : RunGather(t)
         \/ RunShutdown \/ \E p \in RunPhases : RunStop(p)
         \/ Livelock
  PROVE  (WakeupsAreEarned /\ NoLostWakeup)'
<1>. USE DEF WakeInv
<1>0. running \notin Tasks => running = NoTask
  BY DEF TypeOK
<1>1. ASSUME NEW h, Pop(h), NEW stop, stop \in {{}} \cup {{Stop(p)} : p \in RunPhases},
             \A t \in Tasks : h # Step(t) /\ h # Timer(t),
             ready' = (Pool \ {h}) \cup stop, scheduled' = scheduled \ Due,
             UNCHANGED <<crashed, running, taskVars, error, teardownError>>
      PROVE  (WakeupsAreEarned /\ NoLostWakeup)'
  <2>1. running = NoTask /\ parked' \subseteq Steps(crashed') /\ \A v \in Tasks : Woke(v)
    BY <1>1, PopLosesNothing, WakeByTask
  <2>2. ASSUME NEW v \in Tasks
        PROVE  Woke(v)'
    <3>1. (Step(v) \in ready' <=> Step(v) \in Pool) /\ (Timer(v) \in ready' <=> Timer(v) \in Pool)
      BY <1>1, HandlesDiffer
    <3>2. (Queued(v)' <=> Queued(v)) /\ (Armed(v)' <=> Armed(v))
      BY <1>1, <3>1, PopLosesNothing DEF Queued, Armed
    <3>3. v # running' /\ v # running
      BY <1>1, <2>1, LoopAssumption
    <3>. QED BY <1>1, <2>1, <3>2, <3>3, UntouchedStaysWoke DEF taskVars
  <2>. QED BY <1>1, <2>1, <2>2, WakeByTaskNext
<1>2. ASSUME NEW t \in Tasks, RunGather(t)
      PROVE  (WakeupsAreEarned /\ NoLostWakeup)'
  <2>. DEFINE stop == IF gathered \cup {t} = leftover THEN {Stop(phase)} ELSE {}
  <2>1. Pop(Gather(t)) /\ phase \in RunPhases
    BY <1>2 DEF RunGather, Picked, RunPhases
  <2>2. /\ ready' = (Pool \ {Gather(t)}) \cup stop /\ scheduled' = scheduled \ Due
        /\ UNCHANGED <<crashed, running, taskVars, error, teardownError>>
    BY <1>2 DEF RunGather
  <2>3. stop \in {{}} \cup {{Stop(p)} : p \in RunPhases}
    BY <2>1
  <2>4. \A u \in Tasks : Gather(t) # Step(u) /\ Gather(t) # Timer(u)
    BY HandlesDiffer
  <2>. HIDE DEF stop
  <2>. QED BY <1>1, <2>1, <2>2, <2>3, <2>4
<1>3. ASSUME NEW p \in RunPhases, RunStop(p)
      PROVE  (WakeupsAreEarned /\ NoLostWakeup)'
  <2>1. /\ Pop(Stop(p)) /\ ready' = (Pool \ {Stop(p)}) \cup {} /\ scheduled' = scheduled \ Due
        /\ UNCHANGED <<crashed, running, taskVars, error, teardownError>>
    BY <1>3 DEF RunStop, Picked, runVars
  <2>2. \A u \in Tasks : Stop(p) # Step(u) /\ Stop(p) # Timer(u)
    BY HandlesDiffer
  <2>. QED BY <1>1, <2>1, <2>2
<1>5. CASE RunShutdown
  <2>1. /\ Pop(Shutdown) /\ ready' = (Pool \ {Shutdown}) \cup {Stop("agens")}
        /\ scheduled' = scheduled \ Due
        /\ UNCHANGED <<crashed, running, taskVars, error, teardownError>>
    BY <1>5 DEF RunShutdown, Picked, runVars
  <2>2. {Stop("agens")} \in {{}} \cup {{Stop(p)} : p \in RunPhases}
    BY DEF RunPhases
  <2>3. \A u \in Tasks : Shutdown # Step(u) /\ Shutdown # Timer(u)
    BY HandlesDiffer
  <2>. QED BY <1>1, <2>1, <2>2, <2>3
<1>4. CASE Livelock
  <2>1. PICK h \in Pool : Pop(h) /\ ready' = Pool \ {h}
    BY <1>4 DEF Livelock
  <2>2. /\ scheduled' = scheduled \ Due /\ UNCHANGED <<crashed, running, taskVars>>
        /\ "livelock" \in {error', teardownError'}
    BY <1>4 DEF Livelock, Abort
  <2>3. running = NoTask /\ parked' \subseteq Steps(crashed') /\ \A v \in Tasks : Woke(v)
    BY <2>1, <2>2, PopLosesNothing, WakeByTask
  <2>4. ASSUME NEW v \in Tasks
        PROVE  Woke(v)'
    <3>1. (Queued(v)' => Queued(v)) /\ (Armed(v)' => Armed(v))
      BY <2>1, <2>2, PopLosesNothing DEF Queued, Armed
    <3>2. Blocked(v)' <=> Blocked(v)
      BY <2>2 DEF Blocked, OnPendingFuture, OnPendingTask, taskVars
    <3>. QED BY <2>2, <2>3, <3>1, <3>2 DEF Woke, taskVars
  <2>. QED BY <2>2, <2>3, <2>4, WakeByTaskNext DEF taskVars
<1>. QED BY <1>1, <1>2, <1>3, <1>4, <1>5

\* Leaving a run or a drain drops no wakeup: those of crashed tasks are parked.
LEMMA EndsKeepWakeups ==
  ASSUME WakeInv,
         \/ ReportDeadlock \/ MonitorViolation \/ LeaveLoop
         \/ CloseTransports \/ ShutdownAsyncgens \/ TeardownReturns
  PROVE  (WakeupsAreEarned /\ NoLostWakeup)'
<1>. USE DEF WakeInv
<1>1. /\ UNCHANGED <<scheduled, crashed, running, taskVars>> /\ running = NoTask
      /\ \A v \in Tasks : Woke(v)
  <2>1. UNCHANGED <<scheduled, crashed, running, taskVars>>
    BY DEF ReportDeadlock, MonitorViolation, LeaveLoop, CloseTransports, ShutdownAsyncgens,
       TeardownReturns, teardownRest, clockVars
  <2>2. running = NoTask
    BY DEF ReportDeadlock, MonitorViolation, LeaveLoop, CloseTransports, ShutdownAsyncgens,
       TeardownReturns, InRun, PhasesFollow, RunPhases, DrainPhases
  <2>. QED BY <2>1, <2>2, WakeByTask
<1>2. "livelock" \in {error, teardownError} => "livelock" \in {error', teardownError'}
  <2>1. CASE ReportDeadlock \/ MonitorViolation \/ LeaveLoop
    BY <2>1 DEF ReportDeadlock, MonitorViolation, LeaveLoop, Abort, PhasesFollow, InRun, RunPhases
  <2>2. CASE CloseTransports \/ ShutdownAsyncgens \/ TeardownReturns
    BY <2>2 DEF CloseTransports, ShutdownAsyncgens, TeardownReturns, teardownRest
  <2>. QED BY <2>1, <2>2
<1>3. /\ parked' \subseteq Steps(crashed')
      /\ \A v \in Tasks : (Queued(v)' <=> Queued(v)) /\ (Armed(v)' <=> Armed(v))
  <2>1. CASE ReportDeadlock \/ ShutdownAsyncgens \/ TeardownReturns
    <3>1. /\ ready' = Live \/ ready' = Live \cup {Shutdown}
          /\ parked' = parked \cup (ready \ Live)
          /\ UNCHANGED <<scheduled, crashed>>
      BY <2>1 DEF ReportDeadlock, ShutdownAsyncgens, TeardownReturns, teardownRest, clockVars
    <3>2. \A x \in ready \ Live : x.kind = "step" /\ x.task \in crashed /\ x = Step(x.task)
      BY DEF Live, Frozen, TypeOK, Handles, Step
    <3>3. \A v : Timer(v) \in ready => Timer(v) \in Live
      BY <3>2 DEF Timer
    <3>4. ready \ Live \subseteq Steps(crashed) /\ Live \subseteq ready
      BY <3>2 DEF Steps, Live
    <3>. QED BY <3>1, <3>3, <3>4, HandlesDiffer DEF Queued, Armed, WakeupsAreEarned
  <2>2. CASE MonitorViolation \/ LeaveLoop \/ CloseTransports
    <3>1. UNCHANGED <<ready, parked, scheduled, crashed>>
      BY <2>2 DEF MonitorViolation, LeaveLoop, CloseTransports, teardownRest, clockVars
    <3>. QED BY <3>1 DEF Queued, Armed, WakeupsAreEarned
  <2>. QED BY <2>1, <2>2
<1>4. ASSUME NEW v \in Tasks
      PROVE  Woke(v)'
  <2>1. v # running' /\ v # running
    BY <1>1, LoopAssumption
  <2>. QED BY <1>1, <1>2, <1>3, <2>1, UntouchedStaysWoke DEF taskVars
<1>. QED BY <1>1, <1>3, <1>4, WakeByTaskNext

\* A task that is cancelled, or not, keeps its part if those that are woken are queued.
LEMMA CancelledStaysWoke ==
  ASSUME TypeOK, NEW S, NEW v \in Tasks, Woke(v), v # running', v # running,
         wait'[v] = wait[v], status' = status, fut'[v] = FutAfterCancel(S)[v],
         Queued(v)' <=> Queued(v) \/ v \in Woken(S), Armed(v)' <=> Armed(v),
         "livelock" \in {error, teardownError} => "livelock" \in {error', teardownError'}
  PROVE  Woke(v)'
<1>1. CASE v \in Woken(S)
  <2>1. OnPendingFuture(v) /\ fut'[v] = "cancelled" /\ Queued(v)'
    BY <1>1, CancelWakes
  <2>2. ~Blocked(v)' /\ status[v] = "pending"
    BY <2>1 DEF Blocked, OnPendingFuture, OnPendingTask, Woke
  <2>. QED BY <2>1, <2>2 DEF Woke
<1>2. CASE v \notin Woken(S)
  <2>1. fut'[v] = fut[v] /\ (Queued(v)' <=> Queued(v))
    BY <1>2, CancelWakes
  <2>. QED BY <2>1, UntouchedStaysWoke
<1>. QED BY <1>1, <1>2

\* What the running task does without suspending keeps the wakeups.
LEMMA OperationsKeepWakeups ==
  ASSUME WakeInv, NEW t \in Tasks,
         \/ \E u \in Tasks : Resolve(t, u) \/ Cancel(t, u) \/ CreateTask(t, u)
         \/ \E h \in Hosts : CrashHost(t, h)
  PROVE  (WakeupsAreEarned /\ NoLostWakeup)'
<1>. USE DEF WakeInv
<1>1. /\ running = t /\ running' = t /\ status[t] = "pending"
      /\ UNCHANGED <<parked, scheduled, wait, error, teardownError>>
      /\ \A v \in Tasks : Woke(v)
  BY WakeByTask, LoopAssumption DEF Resolve, Cancel, CreateTask, CrashHost, Operates, Running,
     loopRest, progRest, runVars
<1>2. wait[t].kind = "none" /\ ~Queued(t) /\ ~Armed(t)
  BY <1>1 DEF Woke
<1>3. ASSUME UNCHANGED <<status, fut>>, ~Queued(t)', ~Armed(t)'
      PROVE  Woke(t)'
  BY <1>1, <1>2, <1>3 DEF Woke
<1>4. ASSUME NEW u \in Tasks, Resolve(t, u)
      PROVE  (WakeupsAreEarned /\ NoLostWakeup)'
  <2>1. /\ wait[u].kind = "future" /\ u # t
        /\ fut' = [fut EXCEPT ![u] = "result"] /\ ready' = ready \cup {Step(u)}
        /\ UNCHANGED <<status, crashed>>
    BY <1>4 DEF Resolve
  <2>2. ASSUME NEW v \in Tasks, v # u
        PROVE  Woke(v)'
    <3>1. fut'[v] = fut[v] /\ (Queued(v)' <=> Queued(v)) /\ (Armed(v)' <=> Armed(v))
      BY <1>1, <2>1, <2>2, HandlesDiffer DEF Queued, Armed, TypeOK
    <3>2. CASE v = t
      BY <1>1, <1>2, <2>1, <3>1, <3>2 DEF Woke
    <3>3. CASE v # t
      BY <1>1, <2>1, <3>1, <3>3, UntouchedStaysWoke
    <3>. QED BY <3>2, <3>3
  <2>3. Woke(u)'
    <3>1. Queued(u)' /\ (Armed(u)' <=> Armed(u))
      BY <1>1, <2>1, HandlesDiffer DEF Queued, Armed
    <3>2. fut'[u] = "result" /\ ~Blocked(u)'
      BY <1>1, <2>1 DEF TypeOK, Blocked, OnPendingFuture, OnPendingTask
    <3>. QED BY <1>1, <2>1, <3>1, <3>2 DEF Woke
  <2>. QED BY <1>1, <2>1, <2>2, <2>3, WakeByTaskNext DEF WakeupsAreEarned
<1>5. ASSUME NEW u \in Tasks, Cancel(t, u)
      PROVE  (WakeupsAreEarned /\ NoLostWakeup)'
  <2>1. /\ fut' = FutAfterCancel({u}) /\ ready' = ready \cup Steps(Woken({u}))
        /\ UNCHANGED <<status, crashed>>
    BY <1>5 DEF Cancel
  <2>2. t \notin Woken({u})
    BY <1>2, CancelWakes DEF OnPendingFuture
  <2>3. ASSUME NEW v \in Tasks
        PROVE  Woke(v)'
    <3>1. Timer(v) \notin Steps(Woken({u}))
      BY HandlesDiffer DEF Steps
    <3>2. (Queued(v)' <=> Queued(v) \/ v \in Woken({u})) /\ (Armed(v)' <=> Armed(v))
      BY <1>1, <2>1, <3>1, StepOfASet DEF Queued, Armed
    <3>3. CASE v = t
      BY <1>1, <1>2, <2>1, <2>2, <3>2, <3>3 DEF Woke
    <3>4. CASE v # t
      BY <1>1, <2>1, <3>2, <3>4, CancelledStaysWoke
    <3>. QED BY <3>3, <3>4
  <2>. QED BY <1>1, <2>1, <2>3, WakeByTaskNext DEF WakeupsAreEarned
<1>6. ASSUME NEW u \in Tasks, CreateTask(t, u)
      PROVE  (WakeupsAreEarned /\ NoLostWakeup)'
  <2>1. /\ status[u] = "new" /\ u # t
        /\ status' = [status EXCEPT ![u] = "pending"] /\ ready' = ready \cup {Step(u)}
        /\ UNCHANGED <<fut, crashed>>
    BY <1>1, <1>6 DEF CreateTask
  <2>2. \A v \in Tasks : (status'[v] = "done" <=> status[v] = "done") /\ (v # u => status'[v] = status[v])
    BY <2>1 DEF TypeOK
  <2>3. ASSUME NEW v \in Tasks, v # u
        PROVE  Woke(v)'
    <3>1. (Queued(v)' <=> Queued(v)) /\ (Armed(v)' <=> Armed(v))
      BY <1>1, <2>1, <2>3, HandlesDiffer DEF Queued, Armed
    <3>2. CASE v = t
      BY <1>1, <1>2, <2>1, <2>2, <3>1, <3>2 DEF Woke
    <3>3. CASE v # t
      <4>1. wait[v].kind = "task" => wait[v].on \in Tasks
        BY DEF TypeOK
      <4>. QED BY <1>1, <2>1, <2>2, <2>3, <3>1, <3>3, <4>1, UntouchedStaysWoke
    <3>. QED BY <3>2, <3>3
  <2>4. Woke(u)'
    <3>1. Queued(u)' /\ (Armed(u)' <=> Armed(u)) /\ wait[u].kind = "none"
      BY <1>1, <2>1, HandlesDiffer DEF Queued, Armed, Woke, TypeOK, WaitKinds
    <3>2. ~Blocked(u)' /\ status'[u] = "pending"
      BY <1>1, <2>1, <3>1 DEF Blocked, OnPendingFuture, OnPendingTask, TypeOK
    <3>. QED BY <1>1, <2>1, <3>1, <3>2 DEF Woke
  <2>. QED BY <1>1, <2>1, <2>2, <2>3, <2>4, WakeByTaskNext DEF WakeupsAreEarned
<1>7. ASSUME NEW h \in Hosts, CrashHost(t, h)
      PROVE  (WakeupsAreEarned /\ NoLostWakeup)'
  <2>1. crashed \subseteq crashed' /\ UNCHANGED <<ready, status, fut>>
    BY <1>7 DEF CrashHost
  <2>2. ASSUME NEW v \in Tasks
        PROVE  Woke(v)'
    <3>1. (Queued(v)' <=> Queued(v)) /\ (Armed(v)' <=> Armed(v))
      BY <1>1, <2>1 DEF Queued, Armed
    <3>2. CASE v = t
      BY <1>1, <1>2, <1>3, <2>1, <3>1, <3>2
    <3>3. CASE v # t
      BY <1>1, <2>1, <3>1, <3>3, UntouchedStaysWoke
    <3>. QED BY <3>2, <3>3
  <2>. QED BY <1>1, <2>1, <2>2, WakeByTaskNext DEF WakeupsAreEarned, Steps
<1>. QED BY <1>4, <1>5, <1>6, <1>7

\* A task that suspends is queued exactly if what it awaits is done, and a task that
\* ends wakes those that await it.
LEMMA SuspensionsKeepWakeups ==
  ASSUME WakeInv, NEW t \in Tasks,
         \/ Yield(t) \/ WaitFuture(t) \/ Finish(t)
         \/ \E d \in Delays : Sleep(t, d)
         \/ \E u \in Tasks : AwaitTask(t, u)
  PROVE  (WakeupsAreEarned /\ NoLostWakeup)'
<1>. USE DEF WakeInv
<1>1. /\ running = t /\ running' = NoTask /\ status[t] = "pending"
      /\ UNCHANGED <<parked, crashed, error, teardownError>>
      /\ \A v \in Tasks : Woke(v) /\ v # running'
  BY WakeByTask, LoopAssumption DEF Yield, WaitFuture, Finish, Sleep, AwaitTask, Suspend, Running,
     loopRest, progRest, runVars
<1>2. wait[t].kind = "none" /\ ~Queued(t) /\ ~Armed(t)
  BY <1>1 DEF Woke
<1>3. ASSUME \A v \in Tasks : Woke(v)'
      PROVE  (WakeupsAreEarned /\ NoLostWakeup)'
  BY <1>1, <1>3, WakeByTaskNext DEF WakeupsAreEarned
<1>4. CASE Yield(t)
  <2>1. ready' = ready \cup {Step(t)} /\ UNCHANGED <<scheduled, status, wait, fut>>
    BY <1>4 DEF Yield
  <2>2. ASSUME NEW v \in Tasks
        PROVE  Woke(v)'
    <3>1. (Queued(v)' <=> Queued(v) \/ v = t) /\ (Armed(v)' <=> Armed(v))
      BY <1>1, <2>1, HandlesDiffer DEF Queued, Armed
    <3>2. CASE v = t
      <4>1. ~Blocked(v)'
        BY <1>2, <2>1, <3>2 DEF Blocked, OnPendingFuture, OnPendingTask
      <4>. QED BY <1>1, <1>2, <2>1, <3>1, <3>2, <4>1 DEF Woke
    <3>3. CASE v # t
      BY <1>1, <2>1, <3>1, <3>3, UntouchedStaysWoke
    <3>. QED BY <3>2, <3>3
  <2>. QED BY <1>3, <2>2
<1>5. ASSUME NEW k \in {"sleep", "future"}, Suspend(t, k), scheduled \subseteq scheduled',
             \A tm \in scheduled' \ scheduled : tm.task = t,
             k = "sleep" <=> scheduled' # scheduled,
             k = "sleep" => \E tm \in scheduled' : tm.task = t
      PROVE  (WakeupsAreEarned /\ NoLostWakeup)'
  <2>1. /\ wait' = [wait EXCEPT ![t] = [kind |-> k, on |-> t]]
        /\ fut' = [fut EXCEPT ![t] = IF mustCancel[t] THEN "cancelled" ELSE "pending"]
        /\ ready' = ready \cup (IF mustCancel[t] THEN {Step(t)} ELSE {})
        /\ UNCHANGED status
    BY <1>5 DEF Suspend
  <2>2. ASSUME NEW v \in Tasks, v # t
        PROVE  Woke(v)'
    <3>1. (Queued(v)' <=> Queued(v)) /\ (Armed(v)' <=> Armed(v))
      BY <1>1, <1>5, <2>1, <2>2, HandlesDiffer DEF Queued, Armed
    <3>2. wait'[v] = wait[v] /\ fut'[v] = fut[v]
      BY <2>1, <2>2 DEF TypeOK
    <3>. QED BY <1>1, <2>1, <2>2, <3>1, <3>2, UntouchedStaysWoke
  <2>3. Woke(t)'
    <3>1. wait'[t].kind = k /\ fut'[t] = IF mustCancel[t] THEN "cancelled" ELSE "pending"
      BY <2>1 DEF TypeOK
    <3>2. Queued(t)' <=> mustCancel[t]
      BY <1>1, <1>2, <2>1, HandlesDiffer DEF Queued
    <3>3. Armed(t)' <=> k = "sleep"
      BY <1>2, <1>5, <2>1, HandlesDiffer DEF Armed
    <3>4. Blocked(t)' <=> ~mustCancel[t]
      BY <1>5, <3>1 DEF Blocked, OnPendingFuture, OnPendingTask
    <3>. QED BY <1>1, <2>1, <3>1, <3>2, <3>3, <3>4 DEF Woke
  <2>. QED BY <1>3, <2>2, <2>3
<1>6. CASE WaitFuture(t)
  BY <1>5, <1>6 DEF WaitFuture
<1>7. ASSUME NEW d \in Delays, Sleep(t, d)
      PROVE  (WakeupsAreEarned /\ NoLostWakeup)'
  <2>1. Suspend(t, "sleep") /\ scheduled' = scheduled \cup {[when |-> now + d, task |-> t]}
    BY <1>7 DEF Sleep
  <2>2. [when |-> now + d, task |-> t] \notin scheduled
    BY <1>2 DEF Armed
  <2>. QED BY <1>5, <2>1, <2>2
<1>8. CASE Finish(t)
  <2>1. /\ status' = [status EXCEPT ![t] = "done"] /\ UNCHANGED <<scheduled, wait, fut>>
        /\ ready' = ready \cup Steps(Waiters(t))
                    \cup (IF phase = "main" /\ t = Main THEN {Stop("main")} ELSE {})
                    \cup (IF phase \in {"cancel", "revive"} /\ t \in leftover
                          THEN {Gather(t)} ELSE {})
    BY <1>8 DEF Finish
  <2>2. ASSUME NEW v \in Tasks
        PROVE  (Queued(v)' <=> Queued(v) \/ v \in Waiters(t)) /\ (Armed(v)' <=> Armed(v))
    <3>1. Timer(v) \notin Steps(Waiters(t)) /\ "main" \in RunPhases
      BY HandlesDiffer DEF Steps, RunPhases
    <3>. QED BY <1>1, <2>1, <3>1, StepOfASet, HandlesDiffer DEF Queued, Armed
  <2>3. status'[t] = "done" /\ \A v \in Tasks \ {t} : status'[v] = status[v]
    BY <2>1 DEF TypeOK
  <2>4. t \notin Waiters(t)
    BY <1>2 DEF Waiters
  <2>5. ASSUME NEW v \in Tasks
        PROVE  Woke(v)'
    <3>1. CASE v = t
      BY <1>1, <1>2, <2>1, <2>2, <2>3, <2>4, <3>1 DEF Woke
    <3>2. CASE v \in Waiters(t)
      <4>1. v # t /\ status[v] = "pending" /\ wait[v].kind = "task" /\ wait[v].on = t
        BY <2>4, <3>2 DEF Waiters
      <4>2. ~Blocked(v)' /\ Queued(v)'
        BY <2>1, <2>2, <2>3, <3>2, <4>1 DEF Blocked, OnPendingFuture, OnPendingTask
      <4>. QED BY <1>1, <2>1, <2>2, <2>3, <4>1, <4>2 DEF Woke
    <3>3. CASE v # t /\ v \notin Waiters(t)
      <4>1. wait[v].kind = "task" => wait[v].on \in Tasks \ {t}
        BY <1>1, <3>3 DEF Waiters, Woke, TypeOK
      <4>. QED BY <1>1, <2>1, <2>2, <2>3, <3>3, <4>1, UntouchedStaysWoke
    <3>. QED BY <3>1, <3>2, <3>3
  <2>. QED BY <1>3, <2>5
<1>9. ASSUME NEW u \in Tasks, AwaitTask(t, u)
      PROVE  (WakeupsAreEarned /\ NoLostWakeup)'
  <2>. DEFINE hit == IF mustCancel[t] THEN {u} ELSE {}
  <2>1. /\ u # t /\ status[u] = "pending" /\ UNCHANGED <<status, scheduled>>
        /\ wait' = [wait EXCEPT ![t] = [kind |-> "task", on |-> u]]
        /\ fut' = FutAfterCancel(hit) /\ ready' = ready \cup Steps(Woken(hit))
    BY <1>9 DEF AwaitTask
  <2>. HIDE DEF hit
  <2>2. t \notin Woken(hit)
    BY <1>2, CancelWakes DEF OnPendingFuture
  <2>3. ASSUME NEW v \in Tasks
        PROVE  (Queued(v)' <=> Queued(v) \/ v \in Woken(hit)) /\ (Armed(v)' <=> Armed(v))
    <3>1. Timer(v) \notin Steps(Woken(hit))
      BY HandlesDiffer DEF Steps
    <3>. QED BY <1>1, <2>1, <3>1, StepOfASet DEF Queued, Armed
  <2>4. ASSUME NEW v \in Tasks, v # t
        PROVE  Woke(v)'
    <3>1. wait'[v] = wait[v]
      BY <2>1, <2>4 DEF TypeOK
    <3>. QED BY <1>1, <2>1, <2>3, <2>4, <3>1, CancelledStaysWoke
  <2>5. Woke(t)'
    <3>1. wait'[t].kind = "task" /\ wait'[t].on = u
      BY <2>1 DEF TypeOK
    <3>2. Blocked(t)' /\ ~Queued(t)' /\ ~Armed(t)'
      BY <1>2, <2>1, <2>2, <2>3, <3>1 DEF Blocked, OnPendingTask
    <3>. QED BY <1>1, <2>1, <3>1, <3>2 DEF Woke
  <2>. QED BY <1>3, <2>4, <2>5
<1>. QED BY <1>4, <1>6, <1>7, <1>8, <1>9

\* Teardown's cancellations keep the wakeups, and reviving puts the parked ones back.
LEMMA TeardownKeepsWakeups ==
  ASSUME WakeInv, CancelLeftovers \/ ReviveCrashed
  PROVE  (WakeupsAreEarned /\ NoLostWakeup)'
<1>. USE DEF WakeInv
<1>1. /\ running = NoTask /\ running' = NoTask
      /\ UNCHANGED <<scheduled, status, wait, error, teardownError>>
      /\ \A v \in Tasks : Woke(v) /\ v # running'
  BY WakeByTask, LoopAssumption DEF CancelLeftovers, ReviveCrashed, Revive, CancelAndGather,
     PhasesFollow, RunPhases, DrainPhases, clockVars
<1>2. ASSUME NEW S, fut' = FutAfterCancel(S), parked' \subseteq Steps(crashed'),
             \A v \in Tasks : Queued(v)' <=> Queued(v) \/ v \in Woken(S),
             \A v \in Tasks : Armed(v)' <=> Armed(v)
      PROVE  (WakeupsAreEarned /\ NoLostWakeup)'
  <2>1. \A v \in Tasks : Woke(v)'
    BY <1>1, <1>2, CancelledStaysWoke
  <2>. QED BY <1>1, <1>2, <2>1, WakeByTaskNext
<1>3. CASE CancelLeftovers
  <2>1. {t \in Pending : status[t] = "pending"} = Pending
    BY DEF Pending
  <2>2. /\ fut' = FutAfterCancel(Pending) /\ ready' = ready \cup Steps(Woken(Pending))
        /\ UNCHANGED <<parked, crashed>>
    BY <1>3, <2>1 DEF CancelLeftovers, CancelAndGather
  <2>3. ASSUME NEW v \in Tasks
        PROVE  (Queued(v)' <=> Queued(v) \/ v \in Woken(Pending)) /\ (Armed(v)' <=> Armed(v))
    <3>1. Timer(v) \notin Steps(Woken(Pending))
      BY HandlesDiffer DEF Steps
    <3>. QED BY <1>1, <2>2, <3>1, StepOfASet DEF Queued, Armed
  <2>. QED BY <1>2, <2>2, <2>3 DEF WakeupsAreEarned
<1>4. CASE ReviveCrashed
  <2>. DEFINE live    == {t \in crashed : status[t] = "pending"}
              gathers == {Gather(t) : t \in {u \in crashed : status[u] = "done"}}
  <2>1. /\ fut' = FutAfterCancel(live) /\ crashed' = {} /\ parked' = {}
        /\ ready' = ready \cup parked \cup Steps(Woken(live)) \cup gathers
    BY <1>4 DEF ReviveCrashed, Revive, CancelAndGather
  <2>2. \A v : Timer(v) \notin gathers /\ Step(v) \notin gathers
    BY HandlesDiffer
  <2>. HIDE DEF live, gathers
  <2>3. ASSUME NEW v \in Tasks
        PROVE  (Queued(v)' <=> Queued(v) \/ v \in Woken(live)) /\ (Armed(v)' <=> Armed(v))
    <3>1. Timer(v) \notin Steps(Woken(live)) /\ Timer(v) \notin parked
      BY HandlesDiffer DEF Steps, WakeupsAreEarned
    <3>. QED BY <1>1, <2>1, <2>2, <3>1, StepOfASet DEF Queued, Armed
  <2>. QED BY <1>2, <2>1, <2>3
<1>. QED BY <1>3, <1>4

\* The loop stands still between runs, and an error is set once.
LEMMA PhasesKeepFollowing ==
  ASSUME PhasesFollow, TypeOK, [Next]_vars
  PROVE  PhasesFollow'
<1>1. ASSUME NEW e, Abort(e), running' = NoTask
      PROVE  PhasesFollow'
  BY <1>1 DEF PhasesFollow, Abort, RunPhases, DrainPhases
<1>2. ASSUME UNCHANGED <<phase, error, teardownError>>, phase \in RunPhases \cup DrainPhases \/ running' = running
      PROVE  PhasesFollow'
  BY <1>2 DEF PhasesFollow
<1>3. ASSUME NEW t \in Tasks, running = t
      PROVE  phase \in RunPhases \cup DrainPhases
  BY <1>3, LoopAssumption DEF PhasesFollow
<1>4. ASSUME NEW h, Pop(h)
      PROVE  phase \in RunPhases \cup DrainPhases /\ running = NoTask
  BY <1>4 DEF Pop, Looping, InRun, Draining
<1>5. ASSUME NEW t \in Tasks, StepTask(t) \/ RunTimer(t) \/ RunGather(t)
      PROVE  PhasesFollow'
  BY <1>2, <1>4, <1>5 DEF StepTask, RunTimer, RunGather, Picked, runVars
<1>6. ASSUME NEW t \in Tasks,
             \/ Yield(t) \/ WaitFuture(t) \/ Finish(t)
             \/ \E d \in Delays : Sleep(t, d)
             \/ \E u \in Tasks : AwaitTask(t, u) \/ Resolve(t, u) \/ Cancel(t, u) \/ CreateTask(t, u)
             \/ \E h \in Hosts : CrashHost(t, h)
      PROVE  PhasesFollow'
  <2>1. running = t /\ UNCHANGED <<phase, error, teardownError>>
    BY <1>6 DEF Yield, WaitFuture, Finish, Sleep, AwaitTask, Suspend, Resolve, Cancel,
       CreateTask, CrashHost, Operates, Running, progRest, runVars
  <2>. QED BY <1>2, <1>3, <2>1
<1>7. CASE Livelock \/ ReportDeadlock \/ MonitorViolation
  <2>1. running' = NoTask /\ \E e \in Errors : Abort(e)
    BY <1>4, <1>7 DEF Livelock, ReportDeadlock, MonitorViolation, InRun, Errors
  <2>. QED BY <1>1, <2>1
<1>8. CASE LeaveLoop
  <2>1. running' = NoTask /\ phase \in RunPhases
    BY <1>8 DEF LeaveLoop
  <2>2. CASE Abort("stopped")
    BY <1>1, <2>1, <2>2
  <2>3. CASE /\ phase' = CASE phase = "main"   -> "exit"
                          [] phase = "cancel" -> "cancelled"
                          [] phase = "revive" -> "revived"
                          [] OTHER            -> "drain"
             /\ UNCHANGED <<error, teardownError>>
    BY <2>1, <2>3 DEF PhasesFollow, RunPhases, DrainPhases
  <2>. QED BY <1>8, <2>2, <2>3 DEF LeaveLoop
<1>9. CASE CancelLeftovers \/ ReviveCrashed
  BY <1>9 DEF PhasesFollow, CancelLeftovers, ReviveCrashed, Revive, CancelAndGather, RunPhases,
     DrainPhases
<1>10. CASE UNCHANGED vars \/ RunShutdown \/ \E p \in RunPhases : RunStop(p)
  BY <1>2, <1>4, <1>10 DEF vars, runVars, RunShutdown, RunStop, Picked
<1>11. CASE CloseTransports \/ ShutdownAsyncgens \/ TeardownReturns
  <2>1. /\ running' = running /\ UNCHANGED <<error, teardownError>> /\ phase # "main"
        /\ phase # "closed" /\ phase' # "main"
    BY <1>11 DEF CloseTransports, ShutdownAsyncgens, TeardownReturns, teardownRest
  <2>2. running = NoTask
    BY <1>11 DEF CloseTransports, ShutdownAsyncgens, TeardownReturns, PhasesFollow, RunPhases,
       DrainPhases
  <2>. QED BY <2>1, <2>2 DEF PhasesFollow
<1>. QED BY <1>5, <1>6, <1>7, <1>8, <1>9, <1>10, <1>11 DEF Next, Closed

\* Every step keeps the wakeups.
LEMMA NextKeepsWakeups ==
  ASSUME WakeInv, [Next]_vars
  PROVE  WakeInv'
<1>1. TypeOK'
  BY NextIsTyped DEF WakeInv
<1>2. PhasesFollow'
  BY PhasesKeepFollowing DEF WakeInv
<1>3. (WakeupsAreEarned /\ NoLostWakeup)'
  <2>1. CASE UNCHANGED vars
    BY <2>1 DEF WakeInv, vars, clockVars, taskVars, runVars, WakeupsAreEarned, NoLostWakeup,
       Queued, Armed, Blocked, OnPendingFuture, OnPendingTask, Steps
  <2>. QED BY <2>1, StepKeepsWakeups, TimerKeepsWakeups, OtherPopsKeepWakeups, EndsKeepWakeups,
           OperationsKeepWakeups, SuspensionsKeepWakeups, TeardownKeepsWakeups DEF Next, Closed
<1>. QED BY <1>1, <1>2, <1>3 DEF WakeInv

\* In the first state only the main task is there, and it is queued.
LEMMA InitIsAwake ==
  ASSUME Init
  PROVE  WakeInv
<1>1. TypeOK /\ PhasesFollow
  BY InitIsTyped DEF Init, PhasesFollow, RunPhases
<1>2. ASSUME NEW t \in Tasks
      PROVE  /\ wait[t].kind = "none" /\ ~Blocked(t) /\ ~Armed(t) /\ (Queued(t) <=> t = Main)
             /\ status[t] = "pending" <=> t = Main
  <2>1. wait[t].kind = "none" /\ ~Blocked(t)
    BY DEF Init, NoWait, Blocked, OnPendingFuture, OnPendingTask
  <2>2. ~Armed(t) /\ (Queued(t) <=> t = Main)
    BY HandlesDiffer DEF Init, Armed, Queued
  <2>. QED BY <2>1, <2>2 DEF Init
<1>3. running = NoTask /\ parked = {} /\ \A t \in Tasks : t # running
  BY LoopAssumption DEF Init
<1>. QED BY <1>1, <1>2, <1>3 DEF WakeInv, WakeupsAreEarned, NoLostWakeup, Armed

\* No wakeup is lost: through any interleaving of steps, cancellations, crashes and
\* teardown a suspended task is queued exactly when what it awaits is over, and a sleep
\* keeps its timer.
THEOREM WakeupsAreNeverLost == Spec => []NoLostWakeup
<1>1. Init => WakeInv
  BY InitIsAwake
<1>2. WakeInv /\ [Next]_vars => WakeInv'
  BY NextKeepsWakeups
<1>3. WakeInv => NoLostWakeup
  BY DEF WakeInv
<1>. QED BY <1>1, <1>2, <1>3, PTL DEF Spec

----------------------------------------------------------------------------
(* Cancellation reaches the task it is aimed at.                           *)

\* Induction, over a set of numbers.
LEMMA SetInduction ==
  ASSUME NEW T, 0 \in T, \A n \in Nat : n \in T => n + 1 \in T
  PROVE  Nat \subseteq T
<1>. SUFFICES ASSUME Nat \ T # {} PROVE FALSE
  OBVIOUS
<1>1. PICK m \in Nat \ T : \A n \in Nat \ T : m <= n
  BY FirstTimeExists
<1>2. m - 1 \in Nat \ T
  BY <1>1
<1>. QED BY <1>1, <1>2

\* f is the first n iterates of next on x
Iterates(S, next, x, n, f) ==
  f \in [0 .. n -> S] /\ f[0] = x /\ \A i \in 1 .. n : f[i] = next[f[i - 1]]

\* The iterates of a function exist, as many as one likes.
LEMMA IteratesExist ==
  ASSUME NEW S, NEW next \in [S -> S], NEW x \in S, NEW N \in Nat
  PROVE  \E f : Iterates(S, next, x, N, f)
<1>. DEFINE T == {n \in Nat : \E f : Iterates(S, next, x, n, f)}
<1>1. 0 \in T
  <2>1. Iterates(S, next, x, 0, [i \in 0 .. 0 |-> x])
    BY DEF Iterates
  <2>. QED BY <2>1
<1>2. ASSUME NEW n \in Nat, n \in T
      PROVE  n + 1 \in T
  <2>1. PICK f : Iterates(S, next, x, n, f)
    BY <1>2
  <2>. DEFINE g == [i \in 0 .. n + 1 |-> IF i = n + 1 THEN next[f[n]] ELSE f[i]]
  <2>2. g \in [0 .. n + 1 -> S] /\ g[0] = x
    BY <2>1 DEF Iterates
  <2>3. ASSUME NEW i \in 1 .. n + 1
        PROVE  g[i] = next[g[i - 1]]
    <3>1. g[i - 1] = f[i - 1]
      OBVIOUS
    <3>2. i = n + 1 \/ i \in 1 .. n
      OBVIOUS
    <3>. QED BY <2>1, <3>1, <3>2 DEF Iterates
  <2>4. Iterates(S, next, x, n + 1, g)
    BY <2>2, <2>3 DEF Iterates
  <2>. QED BY <2>4
<1>. HIDE DEF T
<1>3. N \in T
  BY <1>1, <1>2, SetInduction
<1>. QED BY <1>3 DEF T

\* The chain of awaits from t begins with t.
LEMMA AwaitedStartsHere ==
  ASSUME TypeOK, NEW t \in Tasks
  PROVE  Reaches(t, t)
<1>. DEFINE C == Cardinality(Tasks)
            next == [u \in Tasks |-> IF OnPendingTask(u) THEN wait[u].on ELSE u]
            Chain(f) == f = [n \in 0 .. C |->
                               IF n = 0 THEN t
                               ELSE IF OnPendingTask(f[n - 1]) THEN wait[f[n - 1]].on ELSE f[n - 1]]
<1>1. C \in Nat
  BY LoopAssumption, FS_CardinalityType
<1>2. next \in [Tasks -> Tasks]
  BY DEF TypeOK
<1>3. PICK f : Iterates(Tasks, next, t, C, f)
  <2>. HIDE DEF C, next
  <2>. QED BY <1>1, <1>2, IteratesExist
<1>4. Chain(f)
  <2>1. \A n \in 0 .. C : n # 0 => n \in 1 .. C /\ f[n - 1] \in Tasks
    BY <1>1, <1>3 DEF Iterates
  <2>. QED BY <1>1, <1>3, <2>1 DEF Iterates
<1>5. Awaited(t) = CHOOSE g : Chain(g)
  BY DEF Awaited
<1>6. Chain(Awaited(t))
  <2>. HIDE DEF Chain
  <2>. QED BY <1>4, <1>5
<1>7. Awaited(t)[0] = t
  BY <1>1, <1>6
<1>. QED BY <1>1, <1>7 DEF Reaches

\* Whoever is cancelled gets CancelledError at its next step, or awaits a task that
\* is pending.
LEMMA CancelHitsWhoIsCancelled ==
  ASSUME TypeOK, NEW S, NEW t \in Tasks, t \in S, ~OnPendingTask(t)
  PROVE  IF OnPendingFuture(t) THEN FutAfterCancel(S)[t] = "cancelled" ELSE MarksAfterCancel(S)[t]
BY AwaitedStartsHere DEF CancelHits, Woken, FutAfterCancel, MarksAfterCancel

\* What is cancelled has CancelledError coming, unless it awaits a task that cleanup
\* created.
LEMMA CancelledErrorIsComing ==
  ASSUME TypeOK, NEW S, NEW t \in Tasks, t \in S,
         wait[t].kind = "task" => unwinding[t] \/ wait[t].on \notin late,
         fut' = FutAfterCancel(S), mustCancel' = MarksAfterCancel(S),
         UNCHANGED <<status, wait, unwinding, late>>
  PROVE  Coming(t)'
<1>1. CASE OnPendingTask(t)
  BY <1>1 DEF OnPendingTask, Coming
<1>2. CASE ~OnPendingTask(t)
  BY <1>2, CancelHitsWhoIsCancelled DEF OnPendingFuture, Coming
<1>. QED BY <1>1, <1>2

----------------------------------------------------------------------------
(* Teardown.                                                               *)

CleanupInv ==
  /\ AwaitsAreOlder /\ TeardownCoversEveryTask
  /\ OnlyCleanupAfterTheEnd /\ CleanTeardownEndsEveryTask

\* What is coming to a task does not go away while it does not run: a task it awaits
\* ends only with CancelledError, and is not one that cleanup created.
LEMMA ComingStays ==
  ASSUME TypeOK, NEW t \in Tasks, Coming(t),
         wait'[t] = wait[t], mustCancel[t] => mustCancel'[t],
         fut[t] = "cancelled" => fut'[t] = "cancelled",
         \A u \in Tasks : unwinding[u] => unwinding'[u],
         \A u \in Tasks \ late : status'[u] = "done" => status[u] = "done" \/ unwinding'[u],
         wait[t].kind = "task" /\ wait[t].on \notin late => wait[t].on \notin late'
  PROVE  Coming(t)'
<1>1. CASE unwinding[t] \/ mustCancel[t]
  BY <1>1 DEF Coming
<1>2. CASE wait[t].kind \in {"sleep", "future"} /\ fut[t] = "cancelled"
  BY <1>2 DEF Coming
<1>3. CASE /\ wait[t].kind = "task" /\ wait[t].on \notin late
           /\ status[wait[t].on] = "done" => unwinding[wait[t].on]
  <2>1. wait[t].on \in Tasks \ late
    BY <1>3 DEF TypeOK
  <2>2. status'[wait[t].on] = "done" => unwinding'[wait[t].on]
    BY <1>3, <2>1
  <2>. QED BY <1>3, <2>2 DEF Coming
<1>. QED BY <1>1, <1>2, <1>3 DEF Coming

\* Awaits stay older while nobody begins one and no task is created.
LEMMA AwaitsStayOlder ==
  ASSUME TypeOK, AwaitsAreOlder, UNCHANGED <<status, late>>,
         \A v \in Tasks : wait'[v] = wait[v] \/ wait'[v].kind # "task",
         \A v \in Tasks : unwinding[v] => unwinding'[v]
  PROVE  AwaitsAreOlder'
BY DEF AwaitsAreOlder

\* A step in teardown throws CancelledError, and the other handles change nobody's part.
LEMMA PopsKeepCleanup ==
  ASSUME WakeInv, CleanupInv,
         \/ \E t \in Tasks : StepTask(t) \/ RunTimer(t) \/ RunGather(t)
         \/ RunShutdown \/ \E p \in RunPhases : RunStop(p)
  PROVE  CleanupInv'
<1>. USE DEF WakeInv, CleanupInv
<1>1. ASSUME NEW h, Pop(h), \A v \in Tasks : Gather(v) \in ready' => Gather(v) \in Pool,
             UNCHANGED <<crashed, status, phase, leftover, teardownError, late>>,
             \A v \in gathered' \ gathered : Gather(v) \in Pool,
             \A v \in Tasks : wait'[v] = wait[v] \/ wait'[v].kind # "task",
             \A v \in Tasks : unwinding[v] => unwinding'[v],
             running' # NoTask => phase = "main" \/ running' \in late \/ unwinding'[running'],
             phase \in {"cancel", "revive"} =>
               \A v \in Tasks \ (crashed \cup late) :
                 Coming(v) /\ status[v] = "pending" => Coming(v)'
      PROVE  CleanupInv'
  <2>1. \A v \in Tasks : Gather(v) \in ready' \/ v \in gathered' =>
                           Gather(v) \in ready \/ v \in gathered
    BY <1>1, PopLosesNothing
  <2>2. OnlyCleanupAfterTheEnd'
    BY <1>1 DEF OnlyCleanupAfterTheEnd
  <2>3. AwaitsAreOlder'
    BY <1>1, AwaitsStayOlder
  <2>4. phase # "closed"
    BY <1>1, PopLosesNothing DEF RunPhases, DrainPhases
  <2>5. CleanTeardownEndsEveryTask'
    BY <1>1, <2>4 DEF CleanTeardownEndsEveryTask
  <2>6. TeardownCoversEveryTask'
    BY <1>1, <2>1 DEF TeardownCoversEveryTask
  <2>. QED BY <2>2, <2>3, <2>5, <2>6
<1>2. ASSUME NEW s \in Tasks, StepTask(s)
      PROVE  CleanupInv'
  <2>1. /\ Pop(Step(s)) /\ Step(s) \in Pool /\ running' = s
        /\ ready' = Pool \ {Step(s), Timer(s)}
        /\ unwinding' = [unwinding EXCEPT ![s] = @ \/ Throws(s)]
        /\ mustCancel' = [mustCancel EXCEPT ![s] = FALSE]
        /\ wait' = [wait EXCEPT ![s] = NoWait(s)]
        /\ UNCHANGED <<crashed, status, fut, phase, leftover, gathered, teardownError, late>>
    BY <1>2 DEF StepTask, Picked, Pop, runVars
  <2>2. \A u \in Tasks : unwinding[u] => unwinding'[u]
    BY <2>1 DEF TypeOK
  <2>3. s \notin crashed /\ status[s] = "pending" /\ ~Blocked(s)
    BY <2>1, PopLosesNothing DEF Queued, WakeupsAreEarned
  <2>4. phase = "main" \/ s \in late \/ unwinding'[s]
    <3>1. CASE phase \in {"cancel", "revive"} /\ s \notin late
      <4>1. Coming(s)
        BY <2>3, <3>1 DEF TeardownCoversEveryTask
      <4>2. Coming(s) => unwinding[s] \/ Throws(s)
        BY <2>3 DEF Coming, Throws, Blocked, OnPendingTask
      <4>. QED BY <2>1, <4>1, <4>2 DEF TypeOK
    <3>2. CASE phase \notin {"main", "cancel", "revive"}
      <4>1. phase \in RunPhases \cup DrainPhases
        BY <2>1, PopLosesNothing
      <4>. QED BY <2>3, <3>2, <4>1 DEF TeardownCoversEveryTask, RunPhases, DrainPhases
    <3>. QED BY <3>1, <3>2
  <2>5. ASSUME phase \in {"cancel", "revive"}, NEW v \in Tasks \ (crashed \cup late), Coming(v)
        PROVE  Coming(v)'
    <3>1. CASE v = s
      BY <2>4, <2>5, <3>1 DEF Coming
    <3>2. CASE v # s
      <4>1. wait'[v] = wait[v] /\ mustCancel'[v] = mustCancel[v]
        BY <2>1, <3>2 DEF TypeOK
      <4>. QED BY <2>1, <2>2, <2>5, <4>1, ComingStays
    <3>. QED BY <3>1, <3>2
  <2>6. \A v \in Tasks : wait'[v] = wait[v] \/ wait'[v].kind # "task"
    BY <2>1 DEF TypeOK, NoWait
  <2>. QED BY <1>1, <2>1, <2>2, <2>4, <2>5, <2>6
<1>3. ASSUME NEW s \in Tasks, RunTimer(s)
      PROVE  CleanupInv'
  <2>1. /\ Pop(Timer(s)) /\ UNCHANGED running
        /\ ready' = (Pool \ {Timer(s)}) \cup (IF fut[s] = "pending" THEN {Step(s)} ELSE {})
        /\ fut' = [fut EXCEPT ![s] = IF @ = "pending" THEN "result" ELSE @]
        /\ UNCHANGED <<crashed, status, wait, mustCancel, unwinding, phase, leftover, gathered,
                       teardownError, late>>
    BY <1>3 DEF RunTimer, Picked, runVars
  <2>2. \A v \in Tasks : Gather(v) \in ready' => Gather(v) \in Pool
    BY <2>1, HandlesDiffer
  <2>3. \A v \in Tasks : fut[v] = "cancelled" => fut'[v] = "cancelled"
    BY <2>1 DEF TypeOK
  <2>4. \A v \in Tasks : Coming(v) => Coming(v)'
    BY <2>1, <2>3 DEF Coming
  <2>. QED BY <1>1, <2>1, <2>2, <2>4 DEF OnlyCleanupAfterTheEnd, Pop, Looping, InRun
<1>4. ASSUME NEW s \in Tasks, RunGather(s)
      PROVE  CleanupInv'
  <2>1. /\ Pop(Gather(s)) /\ Gather(s) \in Pool /\ phase \in RunPhases /\ gathered' = gathered \cup {s}
        /\ ready' = (Pool \ {Gather(s)}) \cup
                       (IF gathered \cup {s} = leftover THEN {Stop(phase)} ELSE {})
        /\ UNCHANGED <<crashed, running, taskVars, phase, leftover, teardownError, late>>
    BY <1>4 DEF RunGather, Picked, Pop, RunPhases
  <2>2. \A v \in Tasks : Gather(v) \in ready' => Gather(v) \in Pool
    BY <2>1, HandlesDiffer
  <2>3. \A v \in Tasks : Coming(v) => Coming(v)'
    BY <2>1 DEF Coming, taskVars
  <2>. QED BY <1>1, <2>1, <2>2, <2>3 DEF OnlyCleanupAfterTheEnd, taskVars, Pop, Looping, InRun
<1>5. ASSUME NEW p \in RunPhases, RunStop(p)
      PROVE  CleanupInv'
  <2>1. /\ Pop(Stop(p)) /\ ready' = Pool \ {Stop(p)}
        /\ UNCHANGED <<crashed, running, taskVars, phase, leftover, gathered, teardownError, late>>
    BY <1>5 DEF RunStop, Picked, runVars
  <2>2. \A v \in Tasks : Coming(v) => Coming(v)'
    BY <2>1 DEF Coming, taskVars
  <2>. QED BY <1>1, <2>1, <2>2 DEF OnlyCleanupAfterTheEnd, taskVars, Pop, Looping, InRun
<1>6. CASE RunShutdown
  <2>1. /\ Pop(Shutdown) /\ ready' = (Pool \ {Shutdown}) \cup {Stop("agens")}
        /\ UNCHANGED <<crashed, running, taskVars, phase, leftover, gathered, teardownError, late>>
    BY <1>6 DEF RunShutdown, Picked, runVars
  <2>2. \A v \in Tasks : Gather(v) \in ready' => Gather(v) \in Pool
    <3>1. "agens" \in RunPhases
      BY DEF RunPhases
    <3>. QED BY <2>1, <3>1, HandlesDiffer
  <2>3. \A v \in Tasks : Coming(v) => Coming(v)'
    BY <2>1 DEF Coming, taskVars
  <2>. QED BY <1>1, <2>1, <2>2, <2>3 DEF OnlyCleanupAfterTheEnd, taskVars, Pop, Looping, InRun
<1>. QED BY <1>2, <1>3, <1>4, <1>5, <1>6

\* A run or a drain that ends, well or not, leaves only pending tasks that are accounted
\* for; when _teardown returns, those that are left wait for something.
LEMMA EndsKeepCleanup ==
  ASSUME WakeInv, CleanupInv,
         \/ Livelock \/ ReportDeadlock \/ MonitorViolation \/ LeaveLoop
         \/ CloseTransports \/ ShutdownAsyncgens \/ TeardownReturns
  PROVE  CleanupInv'
<1>. USE DEF WakeInv, CleanupInv
<1>1. /\ running' = NoTask /\ phase \in RunPhases \cup DrainPhases \cup {"revived"}
      /\ UNCHANGED <<crashed, taskVars, leftover, gathered, late>>
  <2>1. CASE Livelock \/ ReportDeadlock \/ MonitorViolation \/ LeaveLoop
    BY <2>1 DEF Livelock, ReportDeadlock, MonitorViolation, LeaveLoop, InRun, Abort, RunPhases
  <2>2. CASE CloseTransports \/ ShutdownAsyncgens \/ TeardownReturns
    <3>1. running = NoTask
      BY <2>2 DEF CloseTransports, ShutdownAsyncgens, TeardownReturns, PhasesFollow, RunPhases,
         DrainPhases
    <3>. QED BY <2>2, <3>1 DEF CloseTransports, ShutdownAsyncgens, TeardownReturns, teardownRest,
         DrainPhases
  <2>. QED BY <2>1, <2>2
<1>2. \A v \in Tasks : Gather(v) \in ready' => Gather(v) \in ready
  BY PopLosesNothing, HandlesDiffer DEF Livelock, ReportDeadlock, MonitorViolation, LeaveLoop,
     CloseTransports, ShutdownAsyncgens, TeardownReturns, Live
<1>3. \A v \in Tasks : v \in gathered' \/ Gather(v) \in ready' => status'[v] = "done"
  BY <1>1, <1>2 DEF TeardownCoversEveryTask, taskVars
<1>4. AwaitsAreOlder'
  BY <1>1, AwaitsStayOlder DEF taskVars
<1>5. OnlyCleanupAfterTheEnd'
  BY <1>1 DEF OnlyCleanupAfterTheEnd
<1>6. ASSUME NEW e \in Errors \ {"none"}, Abort(e), phase \in RunPhases
      PROVE  CleanupInv'
  <2>1. \/ phase = "main" /\ phase' = "exit"
        \/ phase' = "closed" /\ teardownError' # "none"
    BY <1>6 DEF Abort
  <2>2. TeardownCoversEveryTask'
    <3>1. CASE phase = "main" /\ phase' = "exit"
      BY <1>1, <1>3, <3>1 DEF TeardownCoversEveryTask
    <3>2. CASE phase' = "closed" /\ teardownError' # "none"
      BY <1>1, <1>3, <3>2 DEF TeardownCoversEveryTask
    <3>. QED BY <2>1, <3>1, <3>2
  <2>3. CleanTeardownEndsEveryTask'
    BY <2>1 DEF CleanTeardownEndsEveryTask
  <2>. QED BY <1>4, <1>5, <2>2, <2>3
<1>7. CASE Livelock \/ ReportDeadlock \/ MonitorViolation
  <2>1. phase \in RunPhases
    BY <1>7 DEF Livelock, ReportDeadlock, MonitorViolation, InRun, RunPhases
  <2>. QED BY <1>6, <1>7, <2>1 DEF Livelock, ReportDeadlock, MonitorViolation, Errors
<1>8. ASSUME phase' # "closed", phase' \notin {"main", "cancel", "revive"},
             phase' = "exit" => late = {},
             \A t \in Tasks \ late : status[t] = "pending" =>
               phase' = "exit" \/ (phase' = "cancelled" /\ t \in crashed)
      PROVE  CleanupInv'
  <2>1. TeardownCoversEveryTask'
    BY <1>1, <1>3, <1>8 DEF TeardownCoversEveryTask, taskVars
  <2>2. CleanTeardownEndsEveryTask'
    BY <1>8 DEF CleanTeardownEndsEveryTask
  <2>. QED BY <1>4, <1>5, <2>1, <2>2
<1>9. CASE LeaveLoop
  <2>1. CASE Abort("stopped")
    BY <1>6, <1>9, <2>1 DEF Errors, LeaveLoop
  <2>2. CASE /\ RunIsOver
             /\ phase' = CASE phase = "main"   -> "exit"
                          [] phase = "cancel" -> "cancelled"
                          [] phase = "revive" -> "revived"
                          [] OTHER            -> "drain"
    <3>1. CASE phase = "main"
      <4>1. phase' = "exit" /\ late = {}
        BY <2>2, <3>1 DEF TeardownCoversEveryTask
      <4>. QED BY <1>8, <4>1
    <3>2. CASE phase = "cancel"
      <4>1. phase' = "cancelled" /\ gathered = leftover
        BY <2>2, <3>2 DEF RunIsOver
      <4>2. \A t \in Tasks \ late : status[t] = "pending" => t \in crashed
        BY <3>2, <4>1 DEF TeardownCoversEveryTask
      <4>. QED BY <1>8, <4>1, <4>2
    <3>3. CASE phase = "revive"
      <4>1. phase' = "revived" /\ gathered = leftover
        BY <2>2, <3>3 DEF RunIsOver
      <4>2. \A t \in Tasks \ late : status[t] # "pending"
        BY <3>3, <4>1 DEF TeardownCoversEveryTask
      <4>. QED BY <1>8, <4>1, <4>2
    <3>4. CASE phase = "agens"
      <4>1. phase' = "drain"
        BY <2>2, <3>4
      <4>2. \A t \in Tasks \ late : status[t] # "pending"
        BY <3>4 DEF TeardownCoversEveryTask
      <4>. QED BY <1>8, <4>1, <4>2
    <3>. QED BY <1>9, <3>1, <3>2, <3>3, <3>4 DEF RunPhases, LeaveLoop
  <2>. QED BY <1>9, <2>1, <2>2 DEF LeaveLoop
<1>10. CASE CloseTransports \/ ShutdownAsyncgens
  <2>1. phase \in {"revived", "flush"} /\ phase' \in {"flush", "agens"}
    BY <1>10 DEF CloseTransports, ShutdownAsyncgens
  <2>2. \A t \in Tasks \ late : status[t] # "pending"
    BY <2>1 DEF TeardownCoversEveryTask
  <2>. QED BY <1>8, <2>1, <2>2
<1>11. CASE TeardownReturns
  <2>1. /\ phase = "drain" /\ phase' = "closed" /\ Live = {} /\ UNCHANGED <<error, teardownError>>
        /\ running = NoTask
    BY <1>11 DEF TeardownReturns, teardownRest
  <2>2. \A t \in Tasks \ late : status[t] # "pending"
    BY <2>1 DEF TeardownCoversEveryTask
  <2>3. ASSUME NEW t \in Tasks, status[t] = "pending", error # "livelock", t \notin crashed
        PROVE  Blocked(t)
    <3>1. teardownError = "none" /\ t # running
      BY <2>1, LoopAssumption DEF PhasesFollow
    <3>2. Step(t) \notin ready
      BY <2>1, <2>3 DEF Live, Frozen, Step
    <3>3. ~Queued(t)
      BY <2>3, <3>2, StepOfASet DEF Queued, WakeupsAreEarned
    <3>. QED BY <2>3, <3>1, <3>3 DEF NoLostWakeup
  <2>4. \A t \in Tasks : Blocked(t)' <=> Blocked(t)
    BY <1>1 DEF taskVars, Blocked, OnPendingFuture, OnPendingTask
  <2>5. CleanTeardownEndsEveryTask'
    BY <1>1, <2>1, <2>2, <2>3, <2>4 DEF CleanTeardownEndsEveryTask, taskVars
  <2>6. TeardownCoversEveryTask'
    BY <1>1, <1>3, <2>1, <2>2 DEF TeardownCoversEveryTask, taskVars
  <2>. QED BY <1>4, <1>5, <2>5, <2>6
<1>. QED BY <1>7, <1>9, <1>10, <1>11

\* Whatever the running task does in teardown, what is coming to the others stays coming,
\* and the tasks it creates are late ones.
LEMMA ProgramKeepsCleanup ==
  ASSUME WakeInv, CleanupInv, NEW t \in Tasks,
         \/ Yield(t) \/ WaitFuture(t) \/ Finish(t)
         \/ \E d \in Delays : Sleep(t, d)
         \/ \E u \in Tasks : AwaitTask(t, u) \/ Resolve(t, u) \/ Cancel(t, u) \/ CreateTask(t, u)
         \/ \E h \in Hosts : CrashHost(t, h)
  PROVE  CleanupInv'
<1>. USE DEF WakeInv, CleanupInv
<1>1. /\ running = t /\ running' \in {t, NoTask} /\ status[t] = "pending"
      /\ UNCHANGED <<phase, leftover, gathered, error, teardownError>>
  BY LoopAssumption DEF Yield, WaitFuture, Finish, Sleep, AwaitTask, Suspend, Resolve, Cancel,
     CreateTask, CrashHost, Operates, Running, runVars, progRest, WakeupsAreEarned
<1>2. phase \in RunPhases \cup DrainPhases
  BY <1>1, LoopAssumption DEF PhasesFollow
<1>3. phase = "main" \/ t \in late \/ unwinding[t]
  BY <1>1, LoopAssumption DEF OnlyCleanupAfterTheEnd
<1>4. ASSUME \A v \in Tasks : status[v] = "done" => status'[v] = "done",
             \A v \in Tasks : Gather(v) \in ready' => Gather(v) \in ready \/ status'[v] = "done",
             \A v \in Tasks : unwinding[v] => unwinding'[v],
             late \subseteq late', phase = "main" => late' = late, crashed \subseteq crashed',
             \A v \in Tasks : status'[v] = "pending" => status[v] = "pending" \/ v \in late' \/ phase = "main",
             AwaitsAreOlder',
             phase \in {"cancel", "revive"} =>
               \A v \in Tasks \ (crashed \cup late \cup {t}) :
                 Coming(v) /\ status[v] = "pending" => Coming(v)'
      PROVE  CleanupInv'
  <2>1. OnlyCleanupAfterTheEnd'
    BY <1>1, <1>3, <1>4, LoopAssumption DEF OnlyCleanupAfterTheEnd
  <2>2. CleanTeardownEndsEveryTask'
    BY <1>1, <1>2 DEF CleanTeardownEndsEveryTask, RunPhases, DrainPhases
  <2>3. phase \in {"cancel", "revive"} =>
          \A v \in Tasks \ (crashed' \cup late') : status'[v] = "pending" => Coming(v)'
    <3>1. SUFFICES ASSUME phase \in {"cancel", "revive"}, NEW v \in Tasks \ (crashed' \cup late'),
                          status'[v] = "pending"
                   PROVE  Coming(v)'
      OBVIOUS
    <3>2. v \notin crashed \cup late /\ status[v] = "pending"
      BY <1>4, <3>1
    <3>3. CASE v = t
      BY <1>3, <1>4, <3>1, <3>2, <3>3 DEF Coming
    <3>4. CASE v # t
      BY <1>4, <3>1, <3>2, <3>4 DEF TeardownCoversEveryTask
    <3>. QED BY <3>3, <3>4
  <2>4. \A v \in Tasks : v \in gathered' \/ Gather(v) \in ready' => status'[v] = "done"
    BY <1>1, <1>4 DEF TeardownCoversEveryTask
  <2>5. phase' \in {"main", "exit"} => late' = {}
    BY <1>1, <1>2, <1>4 DEF TeardownCoversEveryTask, RunPhases, DrainPhases
  <2>6. \A v \in Tasks \ late' : status'[v] = "pending" =>
          CASE phase \in {"main", "exit"} -> TRUE
            [] phase = "cancel"    -> v \in leftover \cup crashed'
            [] phase = "cancelled" -> v \in crashed'
            [] phase = "revive"    -> v \in leftover
            [] OTHER               -> phase = "closed" /\ teardownError # "none"
    <3>1. CASE phase = "main"
      BY <3>1
    <3>2. CASE phase # "main"
      BY <1>2, <1>4, <3>2 DEF TeardownCoversEveryTask, RunPhases, DrainPhases
    <3>. QED BY <3>1, <3>2
  <2>7. TeardownCoversEveryTask'
    BY <1>1, <2>3, <2>4, <2>5, <2>6 DEF TeardownCoversEveryTask
  <2>. QED BY <1>4, <2>1, <2>2, <2>7
<1>5. \A S, v : Gather(v) \notin Steps(S)
  BY HandlesDiffer DEF Steps
<1>6. CASE Yield(t) \/ WaitFuture(t) \/ \E d \in Delays : Sleep(t, d)
  <2>1. /\ UNCHANGED <<status, crashed, unwinding, late>>
        /\ \A v \in Tasks \ {t} :
             wait'[v] = wait[v] /\ mustCancel'[v] = mustCancel[v] /\ fut'[v] = fut[v]
        /\ \A v \in Tasks : wait'[v] = wait[v] \/ wait'[v].kind # "task"
    BY <1>6 DEF Yield, WaitFuture, Sleep, Suspend, progRest, TypeOK
  <2>2. \A v \in Tasks : Gather(v) \in ready' => Gather(v) \in ready
    BY <1>6, HandlesDiffer DEF Yield, WaitFuture, Sleep, Suspend
  <2>3. AwaitsAreOlder'
    BY <2>1, AwaitsStayOlder
  <2>4. \A v \in Tasks \ {t} : Coming(v) => Coming(v)'
    BY <2>1, ComingStays
  <2>. QED BY <1>4, <2>1, <2>2, <2>3, <2>4
<1>7. CASE Finish(t)
  <2>1. /\ status'[t] = "done" /\ \A v \in Tasks \ {t} : status'[v] = status[v]
        /\ UNCHANGED <<wait, fut, mustCancel, crashed, late>>
        /\ \A v \in Tasks : unwinding[v] => unwinding'[v]
    BY <1>7 DEF Finish, progRest, TypeOK
  <2>2. \A v \in Tasks : Gather(v) \in ready' => Gather(v) \in ready \/ v = t
    <3>1. "main" \in RunPhases
      BY DEF RunPhases
    <3>. QED BY <1>5, <1>7, <3>1, HandlesDiffer DEF Finish
  <2>3. AwaitsAreOlder'
    BY <2>1 DEF AwaitsAreOlder, TypeOK
  <2>4. ASSUME phase \in {"cancel", "revive"}
        PROVE  \A v \in Tasks \ {t} : Coming(v) => Coming(v)'
    <3>1. \A u \in Tasks \ late : status'[u] = "done" => status[u] = "done" \/ unwinding'[u]
      BY <1>3, <2>1, <2>4
    <3>. QED BY <2>1, <3>1, ComingStays
  <2>. QED BY <1>4, <2>1, <2>2, <2>3, <2>4
<1>8. ASSUME NEW u \in Tasks, Resolve(t, u)
      PROVE  CleanupInv'
  <2>1. /\ UNCHANGED <<status, crashed, unwinding, late, wait, mustCancel>>
        /\ ready' = ready \cup {Step(u)} /\ fut[u] = "pending"
        /\ fut' = [fut EXCEPT ![u] = "result"]
    BY <1>8 DEF Resolve, progRest
  <2>2. \A v \in Tasks : fut[v] = "cancelled" => fut'[v] = "cancelled"
    BY <2>1 DEF TypeOK
  <2>3. AwaitsAreOlder' /\ \A v \in Tasks : Coming(v) => Coming(v)'
    BY <2>1, <2>2, AwaitsStayOlder, ComingStays
  <2>. QED BY <1>4, <2>1, <2>3, HandlesDiffer
<1>9. ASSUME NEW S, fut' = FutAfterCancel(S), ready' = ready \cup Steps(Woken(S)),
             \A v \in Tasks \ {t} : mustCancel[v] => mustCancel'[v],
             \A v \in Tasks \ {t} : wait'[v] = wait[v],
             UNCHANGED <<status, crashed, unwinding, late>>, AwaitsAreOlder'
      PROVE  CleanupInv'
  <2>1. \A v \in Tasks : fut[v] = "cancelled" => fut'[v] = "cancelled"
    BY <1>9, CancelWakes
  <2>2. \A v \in Tasks \ {t} : Coming(v) => Coming(v)'
    BY <1>9, <2>1, ComingStays
  <2>. QED BY <1>4, <1>5, <1>9, <2>2
<1>10. ASSUME NEW u \in Tasks, Cancel(t, u)
       PROVE  CleanupInv'
  <2>1. /\ fut' = FutAfterCancel({u}) /\ mustCancel' = MarksAfterCancel({u})
        /\ ready' = ready \cup Steps(Woken({u}))
        /\ UNCHANGED <<status, crashed, unwinding, late, wait>>
    BY <1>10 DEF Cancel, progRest
  <2>2. \A v \in Tasks : mustCancel[v] => mustCancel'[v]
    BY <2>1 DEF MarksAfterCancel
  <2>3. AwaitsAreOlder'
    BY <2>1, AwaitsStayOlder
  <2>. QED BY <1>9, <2>1, <2>2, <2>3
<1>11. ASSUME NEW u \in Tasks, AwaitTask(t, u)
       PROVE  CleanupInv'
  <2>. DEFINE hit == IF mustCancel[t] THEN {u} ELSE {}
  <2>1. /\ status[u] = "pending" /\ UNCHANGED <<status, crashed, unwinding, late>>
        /\ wait' = [wait EXCEPT ![t] = [kind |-> "task", on |-> u]]
        /\ fut' = FutAfterCancel(hit) /\ ready' = ready \cup Steps(Woken(hit))
        /\ mustCancel' = [MarksAfterCancel(hit) EXCEPT ![t] = FALSE]
    BY <1>11 DEF AwaitTask, progRest
  <2>. HIDE DEF hit
  <2>2. \A v \in Tasks \ {t} : (mustCancel[v] => mustCancel'[v]) /\ wait'[v] = wait[v]
    BY <2>1 DEF MarksAfterCancel, TypeOK
  <2>3. AwaitsAreOlder'
    <3>1. wait'[t].kind = "task" /\ wait'[t].on = u
      BY <2>1 DEF TypeOK
    <3>2. phase = "main" => late = {}
      BY DEF TeardownCoversEveryTask
    <3>. QED BY <1>3, <2>1, <2>2, <3>1, <3>2 DEF AwaitsAreOlder
  <2>. QED BY <1>9, <2>1, <2>2, <2>3
<1>12. ASSUME NEW u \in Tasks, CreateTask(t, u)
       PROVE  CleanupInv'
  <2>1. /\ status[u] = "new" /\ status' = [status EXCEPT ![u] = "pending"]
        /\ ready' = ready \cup {Step(u)}
        /\ late' = IF phase = "main" THEN late ELSE late \cup {u}
        /\ UNCHANGED <<crashed, unwinding, wait, fut, mustCancel>>
    BY <1>12 DEF CreateTask
  <2>2. /\ status'[u] = "pending" /\ \A v \in Tasks \ {u} : status'[v] = status[v]
        /\ u \in late' \/ phase = "main"
    BY <2>1 DEF TypeOK
  <2>3. \A v \in Tasks : wait[v].kind = "task" => wait[v].on \in Tasks /\ wait[v].on # u
    BY <2>1 DEF AwaitsAreOlder, TypeOK
  <2>4. AwaitsAreOlder'
    BY <2>1, <2>2, <2>3 DEF AwaitsAreOlder
  <2>5. ASSUME NEW v \in Tasks, Coming(v)
        PROVE  Coming(v)'
    <3>1. \A w \in Tasks \ late : status'[w] = "done" => status[w] = "done" \/ unwinding'[w]
      BY <2>1, <2>2
    <3>2. wait[v].kind = "task" /\ wait[v].on \notin late => wait[v].on \notin late'
      BY <2>1, <2>3
    <3>. QED BY <2>1, <2>5, <3>1, <3>2, ComingStays
  <2>. QED BY <1>4, <2>1, <2>2, <2>4, <2>5, HandlesDiffer
<1>13. ASSUME NEW h \in Hosts, CrashHost(t, h)
       PROVE  CleanupInv'
  <2>1. crashed \subseteq crashed' /\ UNCHANGED <<ready, status, unwinding, wait, fut, mustCancel, late>>
    BY <1>13 DEF CrashHost, progRest
  <2>2. AwaitsAreOlder' /\ \A v \in Tasks : Coming(v) => Coming(v)'
    BY <2>1, AwaitsStayOlder, ComingStays
  <2>. QED BY <1>4, <2>1, <2>2
<1>. QED BY <1>6, <1>7, <1>8, <1>10, <1>11, <1>12, <1>13

\* The two cancellations of teardown reach whoever is left.
LEMMA TeardownKeepsCleanup ==
  ASSUME WakeInv, CleanupInv, CancelLeftovers \/ ReviveCrashed
  PROVE  CleanupInv'
<1>. USE DEF WakeInv, CleanupInv
<1>1. /\ running' = NoTask /\ gathered' = {}
      /\ UNCHANGED <<status, wait, unwinding, teardownError, late>>
  BY DEF CancelLeftovers, ReviveCrashed, Revive, CancelAndGather, PhasesFollow, RunPhases, DrainPhases
<1>2. \A S, v : Gather(v) \notin Steps(S)
  BY HandlesDiffer DEF Steps
<1>3. AwaitsAreOlder' /\ OnlyCleanupAfterTheEnd'
  BY <1>1, AwaitsStayOlder DEF OnlyCleanupAfterTheEnd
<1>4. CASE CancelLeftovers
  <2>1. {t \in Pending : status[t] = "pending"} = Pending
    BY DEF Pending
  <2>2. /\ fut' = FutAfterCancel(Pending) /\ mustCancel' = MarksAfterCancel(Pending)
        /\ ready' = ready \cup Steps(Woken(Pending)) /\ crashed' = crashed /\ phase = "exit"
        /\ leftover' = Pending /\ phase' = IF Pending = {} THEN "cancelled" ELSE "cancel"
    BY <1>4, <2>1 DEF CancelLeftovers, CancelAndGather
  <2>3. late = {}
    BY <2>2 DEF TeardownCoversEveryTask
  <2>4. \A t \in Tasks \ crashed : status[t] = "pending" => Coming(t)'
    BY <1>1, <2>2, <2>3, CancelledErrorIsComing DEF Pending
  <2>5. \A t \in Tasks : Gather(t) \in ready' => status[t] = "done"
    BY <1>2, <2>2 DEF TeardownCoversEveryTask
  <2>6. \A t \in Tasks : status[t] = "pending" => t \in Pending \/ t \in crashed
    BY DEF Pending
  <2>7. CleanTeardownEndsEveryTask'
    BY <2>2 DEF CleanTeardownEndsEveryTask
  <2>. QED BY <1>1, <1>3, <2>2, <2>3, <2>4, <2>5, <2>6, <2>7 DEF TeardownCoversEveryTask
<1>5. CASE ReviveCrashed
  <2>. DEFINE live    == {t \in crashed : status[t] = "pending"}
              gathers == {Gather(t) : t \in {u \in crashed : status[u] = "done"}}
  <2>1. /\ fut' = FutAfterCancel(live) /\ mustCancel' = MarksAfterCancel(live)
        /\ ready' = ready \cup parked \cup Steps(Woken(live)) \cup gathers /\ crashed' = {}
        /\ leftover' = crashed /\ phase = "cancelled"
        /\ phase' = IF crashed = {} THEN "revived" ELSE "revive"
    BY <1>5 DEF ReviveCrashed, Revive, CancelAndGather
  <2>2. \A t \in Tasks \ late : status[t] = "pending" => t \in crashed
    BY <2>1 DEF TeardownCoversEveryTask
  <2>3. ASSUME NEW t \in Tasks \ late, status[t] = "pending"
        PROVE  Coming(t)'
    <3>1. wait[t].kind = "task" => unwinding[t] \/ wait[t].on \notin late
      BY DEF AwaitsAreOlder
    <3>2. t \in live
      BY <2>2, <2>3
    <3>. HIDE DEF live, gathers
    <3>. QED BY <1>1, <2>1, <3>1, <3>2, CancelledErrorIsComing
  <2>4. \A t \in Tasks : Gather(t) \in ready' => status[t] = "done"
    <3>1. \A t \in Tasks : Gather(t) \in gathers => status[t] = "done"
      BY HandlesDiffer
    <3>2. \A t : Gather(t) \notin parked
      BY <1>2 DEF WakeupsAreEarned
    <3>. QED BY <1>2, <2>1, <3>1, <3>2 DEF TeardownCoversEveryTask
  <2>. HIDE DEF live, gathers
  <2>5. CleanTeardownEndsEveryTask'
    BY <2>1 DEF CleanTeardownEndsEveryTask
  <2>. QED BY <1>1, <1>3, <2>1, <2>2, <2>3, <2>4, <2>5 DEF TeardownCoversEveryTask
<1>. QED BY <1>4, <1>5

\* A deadlock is reported when only wakeups of crashed tasks are left and no timer is,
\* and nothing moves until teardown begins.
LEMMA DeadlockStaysGenuine ==
  ASSUME WakeInv, DeadlockIsGenuine, [Next]_vars
  PROVE  DeadlockIsGenuine'
<1>. USE DEF WakeInv
<1>1. CASE ReportDeadlock
  <2>1. /\ Live = {} /\ scheduled = {} /\ running = NoTask /\ UNCHANGED <<crashed, taskVars>>
        /\ phase' = "exit" => phase = "main"
    BY <1>1 DEF ReportDeadlock, InRun, Abort
  <2>2. ASSUME phase = "main", NEW t \in Tasks, status[t] = "pending", t \notin crashed
        PROVE  Blocked(t) /\ wait[t].kind # "sleep"
    <3>1. "livelock" \notin {error, teardownError} /\ t # running
      BY <2>1, <2>2, LoopAssumption DEF PhasesFollow
    <3>2. ~Queued(t)
      <4>1. Step(t) \in ready => Step(t) \in Live
        BY <2>2 DEF Live, Frozen, Step
      <4>. QED BY <2>1, <2>2, <4>1, StepOfASet DEF Queued, WakeupsAreEarned
    <3>3. ~Armed(t)
      BY <2>1 DEF Armed, Live, Frozen, Timer
    <3>4. Blocked(t) /\ (wait[t].kind = "sleep" => fut[t] # "pending")
      BY <2>2, <3>1, <3>2, <3>3 DEF NoLostWakeup, Armed
    <3>. QED BY <3>4 DEF Blocked, OnPendingFuture, OnPendingTask
  <2>. QED BY <2>1, <2>2 DEF DeadlockIsGenuine, Pending, Blocked, OnPendingFuture, OnPendingTask,
       taskVars
<1>2. ASSUME phase' # "exit" \/ error' # "deadlock"
      PROVE  DeadlockIsGenuine'
  BY <1>2 DEF DeadlockIsGenuine
<1>3. CASE UNCHANGED vars
  BY <1>3 DEF vars, taskVars, runVars, DeadlockIsGenuine, Pending, Blocked, OnPendingFuture, OnPendingTask
<1>4. ASSUME NEW t \in Tasks,
             \/ StepTask(t) \/ RunTimer(t) \/ RunGather(t)
             \/ Yield(t) \/ WaitFuture(t) \/ Finish(t)
             \/ \E d \in Delays : Sleep(t, d)
             \/ \E u \in Tasks : AwaitTask(t, u) \/ Resolve(t, u) \/ Cancel(t, u) \/ CreateTask(t, u)
             \/ \E h \in Hosts : CrashHost(t, h)
      PROVE  phase' # "exit"
  <2>1. phase' = phase /\ (phase \in RunPhases \cup DrainPhases \/ running = t)
    BY <1>4 DEF StepTask, RunTimer, RunGather, Picked, Pop, Looping, InRun, Draining, Yield, WaitFuture,
       Finish, Sleep, AwaitTask, Suspend, Resolve, Cancel, CreateTask, CrashHost, Operates, Running,
       progRest, runVars
  <2>. QED BY <2>1, LoopAssumption DEF PhasesFollow, RunPhases, DrainPhases
<1>5. CASE Livelock \/ MonitorViolation
  BY <1>2, <1>5 DEF Livelock, MonitorViolation, Abort, PhasesFollow
<1>6. CASE LeaveLoop
  <2>1. CASE Abort("stopped")
    BY <1>2, <2>1 DEF Abort
  <2>2. CASE /\ phase' = CASE phase = "main"   -> "exit"
                          [] phase = "cancel" -> "cancelled"
                          [] phase = "revive" -> "revived"
                          [] OTHER            -> "drain"
             /\ UNCHANGED error
    BY <1>2, <2>2 DEF PhasesFollow
  <2>. QED BY <1>6, <2>1, <2>2 DEF LeaveLoop
<1>7. CASE CancelLeftovers \/ ReviveCrashed \/ RunShutdown \/ \E p \in RunPhases : RunStop(p)
  BY <1>2, <1>7 DEF CancelLeftovers, ReviveCrashed, Revive, CancelAndGather, RunShutdown, RunStop,
     Picked, Pop, Looping, InRun, Draining, runVars, RunPhases, DrainPhases
<1>8. CASE CloseTransports \/ ShutdownAsyncgens \/ TeardownReturns
  BY <1>2, <1>8 DEF CloseTransports, ShutdownAsyncgens, TeardownReturns
<1>. QED BY <1>1, <1>2, <1>3, <1>4, <1>5, <1>6, <1>7, <1>8 DEF Next, Closed

\* LoopInv is inductive.
LEMMA LoopInvariance == Spec => []LoopInv
<1>1. Init => LoopInv
  <2>. SUFFICES ASSUME Init PROVE LoopInv
    OBVIOUS
  <2>1. WakeInv
    BY InitIsAwake
  <2>2. \A t \in Tasks : Gather(t) \notin ready
    BY HandlesDiffer DEF Init
  <2>3. AwaitsAreOlder
    BY DEF Init, AwaitsAreOlder, NoWait
  <2>. QED BY <2>1, <2>2, <2>3 DEF Init, LoopInv, WakeInv, TeardownCoversEveryTask,
       OnlyCleanupAfterTheEnd, CleanTeardownEndsEveryTask, DeadlockIsGenuine
<1>2. LoopInv /\ [Next]_vars => LoopInv'
  <2>. SUFFICES ASSUME LoopInv, [Next]_vars PROVE LoopInv'
    OBVIOUS
  <2>1. WakeInv /\ CleanupInv /\ WakeInv'
    BY NextKeepsWakeups DEF LoopInv, WakeInv, CleanupInv
  <2>2. CleanupInv'
    <3>1. CASE UNCHANGED vars
      BY <2>1, <3>1 DEF vars, taskVars, runVars, CleanupInv, TeardownCoversEveryTask,
         AwaitsAreOlder, OnlyCleanupAfterTheEnd, CleanTeardownEndsEveryTask, Coming, Blocked,
         OnPendingFuture, OnPendingTask
    <3>. QED BY <2>1, <3>1, PopsKeepCleanup, EndsKeepCleanup, ProgramKeepsCleanup,
             TeardownKeepsCleanup DEF Next, Closed
  <2>3. DeadlockIsGenuine'
    BY <2>1, DeadlockStaysGenuine DEF LoopInv
  <2>. QED BY <2>1, <2>2, <2>3 DEF LoopInv, WakeInv, CleanupInv
<1>. QED BY <1>1, <1>2, PTL DEF Spec

\* A deadlock is reported only when every live task waits for something that cannot
\* happen any more.
THEOREM DeadlockReportsAreGenuine == Spec => []DeadlockIsGenuine
<1>1. LoopInv => DeadlockIsGenuine
  BY DEF LoopInv
<1>. QED BY <1>1, LoopInvariance, PTL

\* After the end of the main run the code that was there runs only to clean up: whatever
\* a task awaited, and whatever cleanup creates, awaits, resolves, cancels or crashes
\* meanwhile, CancelledError is what its next step is given.
THEOREM OnlyCleanupRunsInTeardown == Spec => []OnlyCleanupAfterTheEnd
<1>1. LoopInv => OnlyCleanupAfterTheEnd
  BY DEF LoopInv
<1>. QED BY <1>1, LoopInvariance, PTL

\* A teardown without an error ended every task that was there when the main run ended,
\* those of crashed hosts too; a task created during teardown may be left, waiting.
THEOREM CleanTeardownIsComplete == Spec => []CleanTeardownEndsEveryTask
<1>1. LoopInv => CleanTeardownEndsEveryTask
  BY DEF LoopInv
<1>. QED BY <1>1, LoopInvariance, PTL
=============================================================================
