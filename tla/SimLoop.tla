------------------------------ MODULE SimLoop ------------------------------
(***************************************************************************)
(* The deterministic event loop of simloom (src/simloom/_loop.py) and the  *)
(* teardown that ends a universe (_teardown of src/simloom/_run.py).       *)
(*                                                                         *)
(* The program under test is any set of asyncio tasks.  A task runs alone  *)
(* from the moment the loop pops its step handle to its next suspension;   *)
(* in between it may do any of the operations below, in any order.  What   *)
(* asyncio itself does (Task.__step, Task.cancel, Future callbacks,        *)
(* gather) is modelled as CPython's asyncio defines it and is external to  *)
(* the repository.                                                         *)
(*                                                                         *)
(* The order of _ready matters only through the index the scheduler draws, *)
(* and every index can be drawn, so `ready' is a set.  A cancelled timer   *)
(* is dropped here at once; the code drops it lazily, but always before it *)
(* could choose the next time or be picked.                                *)
(***************************************************************************)
EXTENDS Naturals, FiniteSets

CONSTANTS
  Tasks,              \* every task the program may ever create
  Main,               \* the task of the main coroutine
  NoTask,             \* no task is being stepped
  Hosts,              \* one element per life of a host: a restart is a new one
  NoHost,             \* the host of code that belongs to none
  HostOf,             \* HostOf[t]: the host task t runs on
  Delays,             \* the delays given to asyncio.sleep
  MaxTime,            \* bound on the virtual clock
  MaxOps,             \* MaxOps[t]: bound on the operations task t performs
  MaxStepsPerInstant, \* max_steps_per_instant
  Monitored           \* whether a property monitor may report a violation

ASSUME LoopAssumption ==
  /\ IsFiniteSet(Tasks) /\ Main \in Tasks /\ NoTask \notin Tasks /\ NoHost \notin Hosts
  /\ HostOf \in [Tasks -> Hosts \cup {NoHost}] /\ HostOf[Main] = NoHost
  /\ Delays \subseteq Nat \ {0} /\ MaxTime \in Nat /\ MaxOps \in [Tasks -> Nat]
  /\ MaxStepsPerInstant \in Nat \ {0} /\ Monitored \in BOOLEAN

VARIABLES
  now,           \* _now
  ready,         \* _ready
  scheduled,     \* _scheduled: the sleeping tasks' timers
  parked,        \* _parked
  crashed,       \* _crashed_tasks, _crashed_ids
  down,          \* the hosts whose power is cut
  stopping,      \* _stopping
  spins,         \* _instant_steps (_instant_time is `now' between steps)
  running,       \* the task whose step is executing
  status,        \* new (not created), pending or done
  wait,          \* what a suspended task awaits (_fut_waiter)
  fut,           \* state of the plain future a task awaits
  mustCancel,    \* Task._must_cancel
  unwinding,     \* CancelledError has been thrown into the task
  ops,           \* operations performed, for the bound MaxOps
  phase,         \* which run_until_complete is in progress
  leftover,      \* what teardown's gather waits for
  gathered,      \* the members of leftover whose callback has run
  error,         \* how the main run failed
  teardownError, \* what _teardown returned
  late           \* history: the tasks created after the main run ended

clockVars == <<now, scheduled, spins>>
taskVars  == <<status, wait, fut, mustCancel, unwinding, ops>>
runVars   == <<phase, leftover, gathered, error, teardownError>>
vars == <<clockVars, ready, parked, crashed, down, stopping, running, taskVars, runVars, late>>

RunPhases   == {"main", "cancel", "revive", "agens"}  \* a run_until_complete
DrainPhases == {"flush", "drain"}                     \* a _drain_ready
Phases      == RunPhases \cup DrainPhases \cup {"exit", "cancelled", "revived", "closed"}
WaitKinds == {"none", "sleep", "future", "task"}
Errors    == {"none", "livelock", "deadlock", "monitor", "stopped"}

Step(t)   == [kind |-> "step",   task |-> t]   \* Task.__step or its wakeup
Timer(t)  == [kind |-> "timer",  task |-> t]   \* the end of t's sleep
Gather(t) == [kind |-> "gather", task |-> t]   \* gather's callback on t
Stop(p)   == [kind |-> p, task |-> Main]       \* _on_done of phase p's run
Shutdown  == [kind |-> "shutdown", task |-> Main] \* the step of shutdown_asyncgens

Handles == [kind : {"step", "timer", "gather", "shutdown"} \cup RunPhases, task : Tasks]
Timers  == [when : Nat, task : Tasks]
NoWait(t) == [kind |-> "none", on |-> t]

TypeOK ==
  /\ now \in Nat /\ spins \in Nat
  /\ ready \subseteq Handles /\ parked \subseteq Handles
  /\ scheduled \subseteq Timers
  /\ crashed \subseteq Tasks /\ down \subseteq Hosts
  /\ stopping \in BOOLEAN
  /\ running \in Tasks \cup {NoTask}
  /\ status \in [Tasks -> {"new", "pending", "done"}]
  /\ wait \in [Tasks -> [kind : WaitKinds, on : Tasks]]
  /\ fut \in [Tasks -> {"pending", "result", "cancelled"}]
  /\ mustCancel \in [Tasks -> BOOLEAN] /\ unwinding \in [Tasks -> BOOLEAN]
  /\ ops \in [Tasks -> Nat]
  /\ phase \in Phases
  /\ leftover \subseteq Tasks /\ gathered \subseteq Tasks /\ late \subseteq Tasks
  /\ error \in Errors /\ teardownError \in Errors

Init ==
  /\ now = 0 /\ spins = 0 /\ scheduled = {}
  /\ ready = {Step(Main)} /\ parked = {}
  /\ crashed = {} /\ down = {} /\ stopping = FALSE /\ running = NoTask
  /\ status = [t \in Tasks |-> IF t = Main THEN "pending" ELSE "new"]
  /\ wait = [t \in Tasks |-> NoWait(t)]
  /\ fut = [t \in Tasks |-> "pending"]
  /\ mustCancel = [t \in Tasks |-> FALSE] /\ unwinding = [t \in Tasks |-> FALSE]
  /\ ops = [t \in Tasks |-> 0]
  /\ phase = "main" /\ leftover = {} /\ gathered = {} /\ late = {}
  /\ error = "none" /\ teardownError = "none"

----------------------------------------------------------------------------
(* asyncio's futures and cancellation.                                     *)

\* t is suspended on a plain future (a sleep, an event, a queue) not yet done
OnPendingFuture(t) == wait[t].kind \in {"sleep", "future"} /\ fut[t] = "pending"

OnPendingTask(t) == wait[t].kind = "task" /\ status[wait[t].on] # "done"

\* t cannot be stepped before something else happens
Blocked(t) == OnPendingFuture(t) \/ OnPendingTask(t)

\* the task n awaits away from t, or the last one on the way
Awaited(t) ==
  LET f[n \in 0 .. Cardinality(Tasks)] ==
        IF n = 0 THEN t
        ELSE IF OnPendingTask(f[n - 1]) THEN wait[f[n - 1]].on ELSE f[n - 1]
  IN f

Reaches(t, u) == \E n \in 0 .. Cardinality(Tasks) : Awaited(t)[n] = u

\* Task.cancel follows _fut_waiter: cancelling t hits the last task awaited
CancelHits(S) ==
  {v \in Tasks : ~OnPendingTask(v) /\ \E t \in S : Reaches(t, v)}

\* a pending plain future is cancelled and wakes its waiter; otherwise the
\* task is marked and CancelledError is thrown at its next step
Woken(S) == {v \in CancelHits(S) : OnPendingFuture(v)}
FutAfterCancel(S) ==
  [v \in Tasks |-> IF v \in Woken(S) THEN "cancelled" ELSE fut[v]]
MarksAfterCancel(S) ==
  [v \in Tasks |-> mustCancel[v] \/ v \in CancelHits(S) \ Woken(S)]
Steps(S) == {Step(v) : v \in S}

----------------------------------------------------------------------------
(* Choosing what to run: _run_once, and _drain_ready, which runs what is   *)
(* ready and looks at neither the clock nor the livelock limit.            *)

Draining == phase \in DrainPhases

\* [mutant] only timers are tested for a crashed owner
FrozenMut(h) == h.kind = "timer" /\ h.task \in crashed

\* _is_crashed_owned
Frozen(h) == h.kind = "step" /\ h.task \in crashed

\* _compact_ready keeps these and parks the others
Live == {h \in ready : ~Frozen(h)}

\* [mutant] the clock jumps to the last timer
NextNowMut ==
  IF Draining \/ Live # {} \/ scheduled = {} THEN now
  ELSE CHOOSE n \in {tm.when : tm \in scheduled} :
         \A tm \in scheduled : n >= tm.when

\* the clock jumps to the first timer, and only when nothing is ready
NextNow ==
  IF Draining \/ Live # {} \/ scheduled = {} \/ \E tm \in scheduled : tm.when <= now
  THEN now
  ELSE CHOOSE n \in {tm.when : tm \in scheduled} :
         \A tm \in scheduled : n <= tm.when

Due  == {tm \in scheduled : ~Draining /\ tm.when <= NextNow}
Pool == Live \cup {Timer(tm.task) : tm \in Due}

\* _detect_livelock
NextSpins ==
  IF Draining THEN spins ELSE IF NextNow = now THEN spins + 1 ELSE 1

InRun   == phase \in RunPhases /\ running = NoTask /\ ~stopping
Looping == InRun \/ (Draining /\ running = NoTask)

\* An error leaves run_until_complete, which forgets its _on_done callback:
\* out of the main run it is recorded, out of teardown it ends teardown.
Abort(e) ==
  /\ stopping' = FALSE
  /\ IF phase = "main"
     THEN phase' = "exit" /\ error' = e /\ UNCHANGED teardownError
     ELSE phase' = "closed" /\ teardownError' = e /\ UNCHANGED error
  /\ UNCHANGED <<leftover, gathered>>

\* [mutant] compaction drops the crashed tasks' wakeups
PopMut(h) ==
  /\ Looping /\ h \in Pool
  /\ now' = NextNow /\ spins' = NextSpins
  /\ parked' = parked

\* the part of _run_once before the handle runs
Pop(h) ==
  /\ Looping /\ h \in Pool
  /\ now' = NextNow /\ spins' = NextSpins
  /\ parked' = parked \cup (ready \ Live)

\* the popped handle is lost: the check comes before handle._run()
Livelock ==
  /\ InRun /\ NextSpins > MaxStepsPerInstant
  /\ \E h \in Pool : Pop(h) /\ ready' = Pool \ {h}
  /\ scheduled' = scheduled \ Due
  /\ Abort("livelock")
  /\ UNCHANGED <<crashed, down, running, taskVars, late>>

Picked(h) == (Draining \/ NextSpins <= MaxStepsPerInstant) /\ Pop(h)

\* CancelledError is thrown into t instead of the result it awaited
Throws(t) ==
  \/ mustCancel[t]
  \/ wait[t].kind \in {"sleep", "future"} /\ fut[t] = "cancelled"
  \/ wait[t].kind = "task" /\ unwinding[wait[t].on]

\* Task.__step: t runs until it suspends; the end of a sleep cancels its timer
StepTask(t) ==
  /\ Picked(Step(t))
  /\ ready' = Pool \ {Step(t), Timer(t)}
  /\ scheduled' = {tm \in scheduled \ Due : tm.task # t}
  /\ running' = t
  /\ unwinding' = [unwinding EXCEPT ![t] = @ \/ Throws(t)]
  /\ mustCancel' = [mustCancel EXCEPT ![t] = FALSE]
  /\ wait' = [wait EXCEPT ![t] = NoWait(t)]
  /\ UNCHANGED <<crashed, down, stopping, status, fut, ops, runVars, late>>

\* asyncio.sleep's timer resolves the future, unless it was cancelled
RunTimer(t) ==
  /\ Picked(Timer(t))
  /\ scheduled' = scheduled \ Due
  /\ ready' = (Pool \ {Timer(t)}) \cup (IF fut[t] = "pending" THEN {Step(t)} ELSE {})
  /\ fut' = [fut EXCEPT ![t] = IF @ = "pending" THEN "result" ELSE @]
  /\ UNCHANGED <<crashed, down, stopping, running, status, wait, mustCancel,
                 unwinding, ops, runVars, late>>

\* gather counts t; the last of its children resolves it
RunGather(t) ==
  /\ phase \in {"cancel", "revive"} /\ Picked(Gather(t))
  /\ scheduled' = scheduled \ Due
  /\ gathered' = gathered \cup {t}
  /\ ready' = (Pool \ {Gather(t)}) \cup
                (IF gathered \cup {t} = leftover THEN {Stop(phase)} ELSE {})
  /\ UNCHANGED <<crashed, down, stopping, running, taskVars, phase, leftover,
                 error, teardownError, late>>

\* _on_done: self.stop()
RunStop(p) ==
  /\ Picked(Stop(p))
  /\ scheduled' = scheduled \ Due
  /\ ready' = Pool \ {Stop(p)}
  /\ stopping' = TRUE
  /\ UNCHANGED <<crashed, down, running, taskVars, runVars, late>>

\* without async generators shutdown_asyncgens ends at its first step
RunShutdown ==
  /\ Picked(Shutdown)
  /\ scheduled' = scheduled \ Due
  /\ ready' = (Pool \ {Shutdown}) \cup {Stop("agens")}
  /\ UNCHANGED <<crashed, down, stopping, running, taskVars, runVars, late>>

\* [mutant] a deadlock is reported although timers are left
EarlyDeadlockMut ==
  /\ InRun /\ Live = {}
  /\ ready' = {} /\ parked' = parked \cup ready
  /\ Abort("deadlock")
  /\ UNCHANGED <<clockVars, crashed, down, running, taskVars, late>>

\* [mutant] the wakeups of crashed tasks hide the deadlock
HiddenDeadlockMut ==
  /\ InRun /\ ready = {} /\ scheduled = {}
  /\ ready' = {} /\ parked' = parked \cup ready
  /\ Abort("deadlock")
  /\ UNCHANGED <<clockVars, crashed, down, running, taskVars, late>>

\* _report_deadlock: nothing can run and no timer is left
ReportDeadlock ==
  /\ InRun /\ Live = {} /\ scheduled = {}
  /\ ready' = {} /\ parked' = parked \cup ready
  /\ Abort("deadlock")
  /\ UNCHANGED <<clockVars, crashed, down, running, taskVars, late>>

\* _check_step raises after a step of the main run; monitors are off later
MonitorViolation ==
  /\ Monitored /\ phase = "main" /\ running = NoTask /\ spins > 0
  /\ Abort("monitor")
  /\ UNCHANGED <<clockVars, ready, parked, crashed, down, running, taskVars, late>>

----------------------------------------------------------------------------
(* What a running task does, in the main run and in teardown: code that is *)
(* cleaning up creates, awaits and cancels tasks like any other.           *)

Running(t) == running = t /\ ops[t] < MaxOps[t]
Counted(t) == ops' = [ops EXCEPT ![t] = @ + 1]
loopRest   == <<now, spins, parked, stopping>>
progRest   == <<runVars, late>>

\* await asyncio.sleep(0): the task stays ready
Yield(t) ==
  /\ Running(t) /\ Counted(t)
  /\ running' = NoTask /\ ready' = ready \cup {Step(t)}
  /\ UNCHANGED <<loopRest, scheduled, crashed, down, status, wait, fut, mustCancel,
                 unwinding, progRest>>

\* t suspends on a new plain future, cancelled at once if t is marked
Suspend(t, kind) ==
  /\ Running(t) /\ Counted(t) /\ running' = NoTask
  /\ wait' = [wait EXCEPT ![t] = [kind |-> kind, on |-> t]]
  /\ fut' = [fut EXCEPT ![t] = IF mustCancel[t] THEN "cancelled" ELSE "pending"]
  /\ ready' = ready \cup (IF mustCancel[t] THEN {Step(t)} ELSE {})
  /\ mustCancel' = [mustCancel EXCEPT ![t] = FALSE]
  /\ UNCHANGED <<loopRest, crashed, down, status, unwinding, progRest>>

\* [mutant] the delay is subtracted
SleepMut(t, d) ==
  /\ ~Draining /\ now + d <= MaxTime
  /\ Suspend(t, "sleep")
  /\ scheduled' = scheduled \cup {[when |-> now - d, task |-> t]}

\* await asyncio.sleep(d): call_later arms the timer; it needs a loop that runs
Sleep(t, d) ==
  /\ ~Draining /\ now + d <= MaxTime
  /\ Suspend(t, "sleep")
  /\ scheduled' = scheduled \cup {[when |-> now + d, task |-> t]}

\* await an event, a lock, a queue: someone else resolves the future
WaitFuture(t) ==
  /\ Suspend(t, "future")
  /\ UNCHANGED scheduled

\* await u; asyncio would recurse forever on a cycle of awaits
AwaitTask(t, u) ==
  /\ Running(t) /\ Counted(t) /\ running' = NoTask
  /\ u # t /\ status[u] = "pending" /\ ~Reaches(u, t)
  /\ wait' = [wait EXCEPT ![t] = [kind |-> "task", on |-> u]]
  /\ LET hit == IF mustCancel[t] THEN {u} ELSE {}
     IN /\ fut' = FutAfterCancel(hit)
        /\ mustCancel' = [MarksAfterCancel(hit) EXCEPT ![t] = FALSE]
        /\ ready' = ready \cup Steps(Woken(hit))
  /\ UNCHANGED <<loopRest, scheduled, crashed, down, status, unwinding, progRest>>

Waiters(u) == {v \in Tasks : status[v] = "pending" /\ wait[v].kind = "task" /\ wait[v].on = u}

\* t returns or raises: its done callbacks are scheduled
Finish(t) ==
  /\ running = t /\ running' = NoTask
  /\ status' = [status EXCEPT ![t] = "done"]
  /\ unwinding' = [unwinding EXCEPT ![t] = @ \/ mustCancel[t]]
  /\ ready' = ready \cup Steps(Waiters(t))
                    \cup (IF phase = "main" /\ t = Main THEN {Stop("main")} ELSE {})
                    \cup (IF phase \in {"cancel", "revive"} /\ t \in leftover
                          THEN {Gather(t)} ELSE {})
  /\ UNCHANGED <<loopRest, scheduled, crashed, down, wait, fut, mustCancel, ops, progRest>>

\* an operation that does not suspend
Operates(t) == Running(t) /\ Counted(t) /\ UNCHANGED running

\* set an event, put into a queue: resolve the future u waits on
Resolve(t, u) ==
  /\ Operates(t)
  /\ wait[u].kind = "future" /\ fut[u] = "pending" /\ u # t
  /\ fut' = [fut EXCEPT ![u] = "result"]
  /\ ready' = ready \cup {Step(u)}
  /\ UNCHANGED <<loopRest, scheduled, crashed, down, status, wait, mustCancel,
                 unwinding, progRest>>

\* u.cancel()
Cancel(t, u) ==
  /\ Operates(t)
  /\ status[u] = "pending"
  /\ fut' = FutAfterCancel({u}) /\ mustCancel' = MarksAfterCancel({u})
  /\ ready' = ready \cup Steps(Woken({u}))
  /\ UNCHANGED <<loopRest, scheduled, crashed, down, status, wait, unwinding, progRest>>

\* create_task puts u on the host of the code that calls it; Host.spawn puts
\* it on any host that is not crashed
CreateTask(t, u) ==
  /\ Operates(t)
  /\ status[u] = "new"
  /\ HostOf[u] = HostOf[t] \/ HostOf[u] \in Hosts \ down
  /\ status' = [status EXCEPT ![u] = "pending"]
  /\ ready' = ready \cup {Step(u)}
  /\ late' = IF phase = "main" THEN late ELSE late \cup {u}
  /\ UNCHANGED <<loopRest, scheduled, crashed, down, wait, fut, mustCancel,
                 unwinding, runVars>>

\* Host.crash, as far as the loop sees it: _crash_tasks(_live_tasks())
CrashHost(t, h) ==
  /\ Operates(t)
  /\ h \notin down
  /\ down' = down \cup {h}
  /\ crashed' = crashed \cup {u \in Tasks : HostOf[u] = h /\ status[u] = "pending"}
  /\ UNCHANGED <<loopRest, ready, scheduled, status, wait, fut, mustCancel,
                 unwinding, progRest>>

----------------------------------------------------------------------------
(* run_until_complete and _teardown.                                       *)

\* the future the run waits for is done
RunIsOver ==
  \/ phase = "main"
  \/ phase = "agens" /\ Shutdown \notin ready
  \/ phase \in {"cancel", "revive"} /\ gathered = leftover

\* run_forever leaves its loop; a future that is not done is an error
LeaveLoop ==
  /\ phase \in RunPhases /\ running = NoTask /\ stopping
  /\ IF RunIsOver
     THEN /\ stopping' = FALSE
          /\ phase' = CASE phase = "main"   -> "exit"
                        [] phase = "cancel" -> "cancelled"
                        [] phase = "revive" -> "revived"
                        [] OTHER            -> "drain"
          /\ UNCHANGED <<leftover, gathered, error, teardownError>>
     ELSE Abort("stopped")
  /\ UNCHANGED <<clockVars, ready, parked, crashed, down, running, taskVars, late>>

\* cancel S and wait for all of it, if there is any
CancelAndGather(S, run, next) ==
  LET live == {t \in S : status[t] = "pending"}
  IN /\ fut' = FutAfterCancel(live) /\ mustCancel' = MarksAfterCancel(live)
     /\ leftover' = S /\ gathered' = {}
     /\ phase' = IF S = {} THEN next ELSE run
     /\ UNCHANGED <<clockVars, down, stopping, running, status, wait, unwinding, ops,
                    error, teardownError, late>>

Pending == {t \in Tasks : status[t] = "pending" /\ t \notin crashed}

\* [mutant] a task that is ready is left to end by itself
CancelLeftoversMut ==
  /\ phase = "exit"
  /\ CancelAndGather({t \in Pending : Blocked(t)}, "cancel", "cancelled")
  /\ ready' = ready \cup Steps(Woken({t \in Pending : Blocked(t)}))
  /\ UNCHANGED <<parked, crashed>>

\* every pending task of a host still up is cancelled
CancelLeftovers ==
  /\ phase = "exit"
  /\ CancelAndGather(Pending, "cancel", "cancelled")
  /\ ready' = ready \cup Steps(Woken(Pending))
  /\ UNCHANGED <<parked, crashed>>

Revive(run) ==
  /\ phase = "cancelled"
  /\ CancelAndGather(crashed, run, "revived")
  /\ crashed' = {} /\ parked' = {}
  /\ ready' = ready \cup parked
                    \cup Steps(Woken({t \in crashed : status[t] = "pending"}))
                    \cup {Gather(t) : t \in {u \in crashed : status[u] = "done"}}

\* [mutant] the revived tasks are cancelled and not waited for
ReviveCrashedMut == Revive("revived")

\* _revive_crashed re-injects the parked wakeups, then the tasks are cancelled
ReviveCrashed == Revive("revive")

teardownRest == <<clockVars, crashed, down, stopping, running, taskVars, leftover, gathered,
                  error, teardownError, late>>

\* connections still open are closed, and what is ready runs; the callbacks of
\* the connections themselves belong to SimTransport
CloseTransports ==
  /\ phase = "revived" /\ phase' = "flush"
  /\ UNCHANGED <<teardownRest, ready, parked>>

\* run_until_complete(shutdown_asyncgens()): a step compacts what is ready first
ShutdownAsyncgens ==
  /\ phase = "revived" \/ (phase = "flush" /\ running = NoTask /\ Live = {})
  /\ phase' = "agens"
  /\ ready' = Live \cup {Shutdown} /\ parked' = parked \cup (ready \ Live)
  /\ UNCHANGED teardownRest

\* the last drain ends when nothing live is ready, and _teardown returns
TeardownReturns ==
  /\ phase = "drain" /\ running = NoTask /\ Live = {}
  /\ phase' = "closed"
  /\ ready' = {} /\ parked' = parked \cup ready
  /\ UNCHANGED teardownRest

\* the loop is closed
Closed == phase = "closed" /\ UNCHANGED vars

Next ==
  \/ \E t \in Tasks :
       \/ StepTask(t) \/ RunTimer(t) \/ RunGather(t)
       \/ Yield(t) \/ WaitFuture(t) \/ Finish(t)
       \/ \E d \in Delays : Sleep(t, d)
       \/ \E u \in Tasks : AwaitTask(t, u) \/ Resolve(t, u) \/ Cancel(t, u) \/ CreateTask(t, u)
       \/ \E h \in Hosts : CrashHost(t, h)
  \/ \E p \in RunPhases : RunStop(p)
  \/ Livelock \/ ReportDeadlock \/ MonitorViolation
  \/ LeaveLoop \/ CancelLeftovers \/ ReviveCrashed
  \/ CloseTransports \/ RunShutdown \/ ShutdownAsyncgens \/ TeardownReturns
  \/ Closed

\* run_forever is a while loop: as long as a step is possible, one is taken
Spec == Init /\ [][Next]_vars /\ WF_vars(Next)

----------------------------------------------------------------------------
(* Properties.                                                             *)

Queued(t) == Step(t) \in ready \cup parked

\* A suspended task is either waiting for something that has not happened or
\* has its wakeup kept, in _ready or parked; a sleep that has not ended has its
\* timer kept.  The handle a livelock report pops is the one exception.
NoLostWakeup ==
  "livelock" \notin {error, teardownError} =>
    \A t \in Tasks : status[t] = "pending" /\ t # running =>
      /\ Queued(t) <=> ~Blocked(t)
      /\ wait[t].kind = "sleep" /\ fut[t] = "pending" =>
           Timer(t) \in ready \/ \E tm \in scheduled : tm.task = t

\* A crashed host's task is never stepped before teardown revives it, whatever
\* completes, cancels or awaits it meanwhile.
CrashedNeverScheduled ==
  [][running' \in Tasks /\ running' # running => running' \notin crashed]_vars

\* Virtual time runs forward, and never past a timer: when the clock moves, no
\* timer that stays armed is left behind it.
ClockNeverPassesATimer ==
  [][now' # now => now' > now /\ \A tm \in scheduled : tm.when >= now']_vars

\* A reported deadlock is genuine: every live task waits for a future nobody is
\* left to resolve, a crashed task, or another such task; none sleeps.
DeadlockIsGenuine ==
  phase = "exit" /\ error = "deadlock" =>
    \A t \in Pending : Blocked(t) /\ wait[t].kind # "sleep"

\* Of the code that was there when the main run ended, only cleanup runs in
\* teardown: CancelledError has been thrown into a task before its step goes on,
\* whatever it awaited and whatever other tasks clean up meanwhile.  Tasks that
\* cleanup creates are the exception: _teardown lists the tasks once.
OnlyCleanupAfterTheEnd ==
  phase # "main" /\ running # NoTask => running \in late \/ unwinding[running]

\* A teardown that reports no error has run every task to its end, those of
\* crashed hosts too.  Tasks created while it ran it never cancels; it only runs
\* them until they wait for something, unless a livelock report dropped a wakeup.
CleanTeardownEndsEveryTask ==
  phase = "closed" /\ teardownError = "none" =>
    \A t \in Tasks : status[t] = "pending" =>
      t \in late /\ (error # "livelock" => t \in crashed \/ Blocked(t))

\* Every universe ends: the program finishes, or a deadlock, a livelock or a
\* violation is reported, and teardown ends too.
UniverseEnds == <>(phase = "closed")

\* What _teardown promises however the main run ended: the tasks that were left
\* over are cancelled and run their cleanup to its end.  A task whose own cleanup
\* never ends is the program's doing, and so is what waits for it.
EveryTaskIsCleanedUp ==
  phase = "closed" /\ (\A t \in Tasks : unwinding[t] => status[t] = "done") =>
    \A t \in Tasks \ late : status[t] # "pending"
=============================================================================
