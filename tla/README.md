# simloom in TLA+

simloom runs an unmodified asyncio program inside a simulated world: one seeded
tape decides every interleaving, the clock is virtual, and network, hosts and
disks are in memory and can fail. A bug in simloom itself is a wrong verdict on
somebody else's program: a deadlock that is not one, a task of a dead machine
that still runs, a stream that loses a chunk no TCP would lose, a replay that
quietly takes another path, a search that calls itself exhaustive and is not.
Those are what the modules here are about.

Paths below are relative to the repository (`src/simloom/_loop.py` and so on).

## 1. Inventory

| component | state it keeps | operations | talks to |
|---|---|---|---|
| Event loop, `_loop.py` | `_now`, `_ready`, `_scheduled`, `_parked`, `_crashed_tasks`, `_stopping`, `_instant_steps` | `run_forever`, `_run_once`, `call_soon/at/later`, `create_task`, `stop`, `_crash_tasks`, `_revive_crashed` | scheduler (which handle), monitors (after each step, deadlines), tape |
| Run and teardown, `_run.py` | phase and outcome of a run | `run`, `replay`, `_execute`, `_teardown` | loop, tape, monitors |
| Property monitors, `_monitors.py` | registered invariants, goals, links, their deadlines | `add_*`, `after_step`, `next_deadline`, `fire_due`, `finalize` | loop |
| Stream transports, `_net.py` | `_inbox`, `_pending`, `_held`, `_last_arrival`, `_paused`, `_pump_scheduled`, `_closing`, `_closed`; the network's `_blocked` | `write`, `write_eof`, `close`, `abort`, `pause/resume_reading`; `block`, `unblock`, `partition`, `heal`, `reset_connections` | loop (timers, callbacks), host (crash) |
| Listeners, connecting, DNS, `_net.py` | bound addresses, `_heal_event`, stashed connections | `create_server`, `create_connection`, `sock_connect`, `SimServer.close` | transports, host |
| Datagrams, `_net.py` | endpoints, front of each flow | `sendto`, delivery, `close` | network faults |
| Host and disk, `_world.py` | `crashed`, `generation`, `_entries`; `_synced`, `_buffered` | `spawn`, `crash`, `restart`; `write`, `read`, `delete`, `fsync` | loop (crashed tasks), transports |
| Choice tape, `_tape.py` | `_recorded`, `_draws`, `_misaligned_at`, policy | `draw`, `force_fallback`, `replay_exact` | every component that decides anything |
| Schedulers, `_sched.py` | PCT priorities | `pick` | loop, tape |
| Explorer and shrinker, `_explore.py`, `_shrink.py` | best tape so far, budget | seed loop, deletion and descent passes | runs, tapes |
| Systematic exploration, `_systematic.py` | odometer over recorded picks | next schedule, exhaustion | runs, tapes |
| Soak campaigns, `_soak.py` | checkpoint file with a cursor per shard | read, run, write cursor | explorer, file system |
| Consistency checker, `_consistency.py` | history of transactions | dependency graph, shortest cycle | none |
| Simulated Redis, `_services.py` | store, versions, watches and queue of a connection | commands, `WATCH/MULTI/EXEC` | streams |
| Test integration, `_testing.py` | settings of a test | run, shrink, report, run again by seed or tape | explorer, systematic search, shrinker |
| Buggify, patches, event log, command line | counters, logs, options | | outside the models, see section 8 |

How they interact: the loop pops one handle at a time, so tasks and callbacks
interleave only where they suspend; everything is shared state between steps. A
host's crash reaches the loop (its tasks freeze), the transports (its ends drop,
the peers get a reset) and the disk (power cut) in one call. Monitors are
evaluated by the loop between steps. Every choice goes through the tape.

What is hard: any order of wakeups, cancellations and crashes; two phases of
running (the program, then teardown) on the same queues; faults that arrive
between a write and its delivery; several deadlines against one clock; a replay
that must notice it is not the same run.

What makes each component correct:

- loop: no wakeup is lost, a crashed host's task is not stepped, virtual time
  stops at every timer, a reported deadlock is one, every universe ends;
- teardown: of the code that was there at the end only cleanup runs, and all of it does;
- monitors: the clock never passes a deadline, every trigger is answered in
  time, a verdict is never given without cause nor missed;
- streams: each end reads a prefix of what the other wrote, nothing is dropped
  between two live ends, `connection_lost` comes once, the peer of a connection
  that went away learns of it (not of one that closed behind a partition, finding 2);
- host and disk: what was synced survives, what a cut leaves was written, a
  restarted host runs its entries again;
- tape: a replay follows its recording, a strict replay that ends well is the
  same universe, a fallback is final;
- listeners: a connect reaches only a server that listens and can be reached; the
  closing of one server does not unbind another;
- datagrams: duplicates and reordering only when drawn, none to a closed endpoint;
- shrinker: every tape accepted fails the same way, and the last one is minimal in the steps it tries; systematic: an exhausted
  search has run every schedule within the bound; soak: no seed is skipped;
  checker: no serializable history is rejected.

## 2. Modules

| module | models | notes |
|---|---|---|
| `SimLoop` | `_loop.py`, `_teardown` and the phases of `_execute` in `_run.py` | asyncio's own tasks, futures and `gather` are external |
| `Monitors` | `_monitors.py` and the clock of `_run_once` | the program sets predicate values as it likes |
| `SimTransport` | both ends of one stream connection, partitions, resets, crashes | |
| `ReliableStream` | abstract: what a stream promises (docs/determinism.md, "Streams never corrupt") | `SimTransport` implements it |
| `SimHost` | `Host` and `SimDisk` of `_world.py` | |
| `ChoiceTape` | `_tape.py` over a sequence of runs of `_execute` | |
| `Links` | blocked pairs, latencies and dead hosts: what the two below share | no behaviour of its own |
| `Listeners` | servers, DNS names, `create_connection`, `sock_connect`, `_reach_listener` | extends `Links` |
| `Datagrams` | `SimDatagramTransport` and `_route_datagram` | extends `Links` |
| `SimNetwork` | the composition of the three, with faults, crashes and restarts | one crash reaches all of them in one step |
| `Universe` | a program as a function from draws to results, and what a replay makes of a tape | shared by the three below |
| `Systematic` | `explore_systematic` | the odometer |
| `Shrinker` | `shrink` | passes, acceptance, budget |
| `Soak` | `soak` and its checkpoint file | processes that are killed and started again |
| `Campaign` | `explore` in order and over a pool, what a decorated test does with a failure, and the composition with the three above | a later session runs the report again |
| `Serializability` | `check_serializable`, and serializability by enumeration | operators only |
| `SimRedis` | the Redis of `_services.py` and its clients | what they record is judged by `Serializability` |
| `SimLoopProofs`, `SimTransportProofs`, `ChoiceTapeProofs`, `MonitorsProofs`, `SimHostProofs`, `SimNetworkProofs`, `CampaignProofs`, `SimRedisProofs` | theorems | section 6 |
| `MC*` | constants for TLC | one per component module |

### How state and actions correspond

**SimLoop.** `now`, `ready`, `scheduled`, `parked`, `crashed`, `stopping` and
`spins` are `_now`, `_ready`, `_scheduled`, `_parked`, `_crashed_tasks`,
`_stopping` and `_instant_steps`. `ready` is a set: the order of `_ready` only
decides what an index drawn by the scheduler means, and every index can be
drawn. Handles are of four kinds: a task's step, the end of its sleep, gather's
callback on it, and the `stop` of a phase's run. One iteration of `_run_once` is
`Pop` (compaction, the jump of the clock, the due timers, the livelock count) and the effect of
the handle: `StepTask`, `RunTimer`, `RunGather`, `RunShutdown` or `RunStop`. `Livelock`,
`ReportDeadlock` and `MonitorViolation` leave `run_until_complete` by an
exception. After `StepTask(t)` the task is `running` and takes any number of
operations (create, cancel, resolve, crash a host) until it suspends (`Yield`,
`Sleep`, `WaitFuture`, `AwaitTask`) or ends (`Finish`). `Task.cancel` follows
the chain of awaited tasks, as asyncio's does. A task into which CancelledError
was thrown (`unwinding`) runs its `finally` blocks, and these may do whatever other code does: create, await,
cancel and resolve, yield and sleep. `phase` walks through the run (main, exit) and `_teardown`: the tasks of live
hosts are cancelled and gathered (cancel, cancelled), then those of crashed hosts (revive, revived), left-over
connections are closed and what is ready drained (flush), `shutdown_asyncgens` runs (agens) and what is
ready is drained again (drain, closed). In the two drains (`_drain_ready`) no clock moves.
`late` names the tasks that code created after the main run ended: `_teardown` lists the pending tasks once
before each gather. A restarted host is another element of `Hosts`: its tasks are new
ones.

**Monitors.** One action per branch of `_run_once` that concerns time:
`DeadlineFires`, `ReportDeadlock`, `RunStep` (with `after_step`) and `EndRun`
(`finalize_monitors`). `ready` counts callbacks and `timers` holds the times of
timers: what matters here is when, not what.

**SimTransport.** Each end has the fields of the class. A callback that the code
passes to `call_soon` is a flag taken down by the action that runs it
(`Pump`, `Finalize`, `ResetByPeer`, `ConnectionLost`); the timers of `_arrive`
are the sequence `arrivals`. `Pump` is one call of `_pump`: it delivers until
the inbox is empty or the protocol pauses, and an EOF closes the transport
unless the protocol keeps it open. `Unblock` is `unblock` and `heal` with the
flush of every live end that they do.

**SimHost.** `synced` and `buffered` are the platter and the page cache. A
content is a value and how many of its first bytes are there, so a torn write is
a shorter content. `Crash` chooses the fate of every path independently. `firm` and `written` are
history: what the last `fsync` fixed, and what was written since; a cut moves `firm` only for paths that were written to.
`Restart` turns the power on and clears `_entries`; `todo` is what its loop has still to spawn, and each call
of a factory is a step of its own, `FactoryReturns` or `FactoryRaises`, so that what the factory does on the way (spawn on the host,
use its disk, cut its power) comes in between. After such a cut `spawn` does not look again
(`FactoryReturnsOnDeadHost`): the entry is kept, its task lives on a dead host (`strays`), and the next `spawn` raises.
`owed` is history: the entries the host was given, less those that a factory which raised or cut the power kept `restart` from reaching.

**ChoiceTape.** The four cases of `draw` are `ReplayedDraw`, `FreeDraw`,
`DivergingDraw` (fallback) and `RefusedDraw` (strict: the error is raised to the
program, which may catch it, or to the loop). `EndMain` and `EndTeardown` are
`_execute` after each phase. `Replay` starts the next run with what this one
drew, possibly edited as the shrinker does.

**SimNetwork.** `listeners`, `endpoints`, `front` and `blocked` are `_listeners`,
`_datagram_endpoints`, `_udp_arrival` and `_blocked`; `shape` holds the three tables of
latencies. A connect that waits on `_heal_event` is `waiting`; `Release` sets
`woken` for all of them, because `_release` sets the event and replaces it; `Resume` is the
turn of the loop in `_wait_until_unblocked` that follows, and the second lookup. `Connect`
runs to its first suspension. A crash stops the tasks that wait (`StopTasksOf`) and closes the servers that are bound.
No action asks whether its host is up, because the code does not: whoever crashed its own host runs on to
its next await, plain callbacks of a dead host run (`_loop.py:293-297` filters task wakeups), and so do
the tasks that they create. `posthumous` is history: the servers such code has created. `Send` is `sendto` and all of
`_route_datagram`, with each draw as a choice; a copy in `flight` is the timer that
delivers it. Times are steps of the least delay. The model takes streams or
datagrams in a behaviour, since they share nothing but the links.

**Campaign.** A program is a set of universes (complete sequences of draws) with a
result each. `Realised` is the universe a tape leads to under FALLBACK and zero,
`StrictError` the error of a strict replay; both are what `ChoiceTape` shows of `_tape.py`,
folded into one step. `Seeded` puts the entropy draw of `patched_environment` in front.
`RunSchedule` is one turn of the loop of `explore_systematic`; `TryCandidate` and `MoveOn` are the three
passes of `shrink`, one candidate per step, `Accept` the re-recording. `RunUniverse` is a
worker, `TakeResult` the parent that takes results from `pool.map` in order. In `Soak` the
write of a cursor is two actions, `ReadCheckpoint` and `ReplaceCheckpoint`, with the other
processes and kills in between.

**SimRedis.** One action is one command: the server has no await between reading
a command and writing its answer's bytes, and `Exec` runs the whole queue. A value is a list of what was added
to it, so that SET, INCR and DEL are appends, and a deletion, of a list-append
history. `executed` is what the server did, `history` what clients
heard of and recorded.

The text "[mutant]" marks a definition that no specification uses: it is a wrong
variant of the definition that follows it, and the property named for it in
PROJECT.json fails when it takes that definition's place.

## 3. Runs

| run | cfg | distinct states | asks |
|---|---|---|---|
| loop | `MCSimLoop` | 745,732 | every interleaving of three tasks through the run and teardown, safety and termination |
| monitors | `MCMonitors` | 203,000 | is every verdict right and in time |
| stream | `MCSimTransport` | 710,015 | does the connection implement the reliable stream, and does what was sent arrive |
| tape | `MCChoiceTape` | 106,000 | three runs, each replaying the one before |
| host | `MCSimHost` | 1,048,992 | two files, two factories, two crashes, and restarts in which factories spawn, raise and crash |
| network | `MCSimNetwork` | 2,711,619 | what connects meet, and in which order datagrams arrive, under faults and crashes |
| campaign | `MCCampaign` | 289,945 | are searches exhaustive, shrunk tapes minimal and failing, reports reproducible, soaks complete |
| redis | `MCSimRedis` | 467,719 | are watched transactions serializable, and does the checker raise false alarms |

Four more end in a counterexample, one per finding (section 5): `teardown_join`,
`held_at_close`, `lost_update`, `tape_rerun`. `MCTeardownStop`,
`MCDeadlineInclusive`, `MCDivergenceCaught` and `MCEntriesLost` are configurations of the
same modules that refute one property each; they are run by hand, for instance
`tlc -config MCEntriesLost.cfg MCSimHost`.

**Bounds, and why they are enough.**

- loop: a main task with three operations, a helper with one and a task on a
  host with two; delays 1 and 2 up to time 2; six steps per instant. Three tasks are the least
  that make a chain of awaits across a crash (live awaits crashed, third wakes
  or cancels either); two delays let two timers be armed at different times, so
  that a clock that jumps too far is seen; the livelock limit is low enough to be met in the main run and in
  teardown, and high enough for programs that do not livelock.
- monitors: one goal (within 2) and one link (within 1), delays 0, 1 and 3: a
  timer before, at and after each deadline, and two triggers for one obligation.
  Monitors do not interact except through the earliest deadline, for which two suffice.
- stream: one data chunk and an EOF from the client, an EOF from the server,
  delays 0 and 1, two faults. Order is already visible with a chunk and an EOF:
  either overtaking the other breaks `NothingIsDropped`. The two faults make
  partition then heal, partition then reset, and partition then crash.
- tape: sites that differ in label only and in bound only, three draws, three
  runs: record, replay, replay of an edited replay.
- host: a value of one byte (cannot be torn) and one of three. Two factories of which one may raise
  are enough for an entry before and one after the failure, and for one that a factory adds
  while `restart` is in the middle of its list.
- network: two hosts and the world outside; two servers that compete for one address on
  different hosts, which is what closing, crashing and waiting get wrong; three connects
  to it, from either side and both ways of connecting; two faults, so that a link may be cut again after it
  healed. Two datagrams of one flow, each with a copy, over a link whose latency may
  be changed between them; an endpoint that is replaced at the same address.
- campaign: programs of three shapes (two picks among three, a branch that
  changes which picks follow, a draw too wide to enumerate) over three sites and every placement of up to two failures; the
  wide draw fails from some value on, or for 1 and 4 only, where shrinking stops at 4;
  seven schedules are fewer than the first shape has, so that a search may end without being
  exhaustive. Two seeds, two shards of two seeds, two kills. A budget of 40 runs
  is never spent, one of 3 always is.
- redis: two clients, two keys, three transactions and four operations (`lost_update` has five). A lost
  update needs two transactions, a write skew two keys, a cycle through a third transaction three.

**Fairness.** `SimLoop` has `WF_vars(Next)`: `run_forever` is a while loop that
takes a step whenever one exists, and the program's own steps are
bounded by `MaxOps`; no fairness between tasks is assumed. `SimTransport` has weak fairness of the callbacks
only, because the loop runs what is ready and moves its clock; nothing is
assumed of the programs and the fault injector, so `EverythingSentArrives`
states in its premise that partitions heal and readers read. `Campaign` has weak fairness of
each shard's soak: a process that is not killed goes on, and one that
was killed is started again, as `soak` with a checkpoint is meant to be used; kills are
bounded, since an operator who always kills before the first cursor is written gets nowhere.
The other modules
state no liveness. Deadlock is checked for `loop` and `monitors`, whose final
states stutter by an explicit action, and not for those where a
bounded program really may stop.

## 4. What the properties say

- `NoLostWakeup`: a suspended task is blocked or queued, never both or neither,
  across compaction, parking, cancellation and revival.
- `CrashedNeverScheduled`, `ClockNeverPassesATimer`, `DeadlockIsGenuine`.
- `OnlyCleanupAfterTheEnd`: a task that was there when the run ended is stepped in teardown only with CancelledError
  thrown into it, whatever the cleanup of others creates, awaits or resolves. `CleanTeardownEndsEveryTask`: if teardown reports
  no error, nobody is left but tasks created in teardown, and these wait for something. Both name the exception
  (`late`) that the code makes, see section 5. `UniverseEnds` (liveness).
- `ClockNeverPassesADeadline`, `NoObligationOverdue` (the code keeps one deadline
  for all open triggers), `OkMeansEveryGoalMet`, `LivenessVerdictIsEarned`.
- `ImplementsReliableStream` (refinement), `NothingIsDropped`,
  `EverythingSentArrives` (liveness). `ConnectionLostOnce`: called or scheduled exactly once for an end that closes,
  except by the crash of its own host; a call scheduled by an abort before such a crash is still made. `ThePeerLearns`: what counts
  is what the peer has read, has waiting or in flight; the one exception is an EOF held by an end that closed (finding 2).
- `FsyncedSurvives`: a path nothing was written to keeps what `fsync` or an earlier cut fixed, whatever
  power cuts do to the platter. `CutLeavesWhatWasWritten`. `EveryEntryRunsAgain`: a restart that gets to its end
  leaves one task for each entry the host was given.
- `FollowsTheRecording`, `OkMeansTheSameUniverse`,
  `StrictImprovisesOnlyInTeardown`, `FallbackIsPermanent`.
- `NoConnectSleepsOverAHeal`: a release replaces the event that connects wait on; still
  none of them sleeps on while its link works.
- `ReachesALiveServer`: a lookup that succeeds, also after a wait, finds the server that is bound by then; it is open. It names
  what the code lets happen otherwise (section 5): its host is up unless code of a dead host bound it, and the link
  works unless another server on another host took the address during the wait.
- `FlowStaysInOrder`: what was not held back arrives in the order in which it was sent, past copies,
  changes of latency and what was held back.
- `EnumerationIsExact`: no schedule runs twice or exceeds the bounds, and an exhausted search
  has run all within them. `ShrunkIsMinimal`: short of the budget, no single draw can be
  deleted, zeroed, halved or decremented. `ReportReproduces`: seed, tape and shrunk tape end in the reported
  error. `LowestSeedIsReported`. `NoSeedSkipped`, `EverySeedIsSoaked` (liveness).
- `CarefulIsSerializable`: WATCH, MULTI and EXEC as clients are told to use them give
  serializable transactions, over broken connections. `NoFalseAlarm`: a history of serializable transactions,
  possibly with some unrecorded, is not rejected by the checker.

PROJECT.json lists 39 hazards of the code by line, each with the properties that
cover it or the reason none does.

## 5. Findings

Four have a run whose counterexample shows them; all eight were also reproduced by running the code.

1. **Teardown deadlocks on a join across a crash** (`teardown_join`). Teardown
   gathers the tasks of live hosts before it revives those of crashed hosts. A
   live task that awaits a crashed one passes its cancellation on to it; neither
   ends, the deadlock oracle raises, no cleanup runs.
2. **Held chunks of a closed writer** (`held_at_close`). `close()` behind a
   partition finalizes at once; `heal()` then no longer delivers what it held.
3. **Lost updates that the checker accepts** (`lost_update`). Its version order
   of a key is the longest list that was read. Two transactions that each read an empty list and
   append to it have no serial order, and if nobody reads the list again the graph
   has no edges, against "A serial order exists iff this dependency graph is acyclic".
4. **A tape that does not replay** (`tape_rerun`). A systematic test records
   without the entropy draw and tells the user to replay the tape; the replay of the same test makes
   that draw first, unless `seed_randomness=False`, and ends as misaligned.

Refuted by configurations outside the regular runs:

5. **A stale stop** (`MCTeardownStop`). Main is done and `stop()` is queued; a
   monitor raises out of the next step. The queued stop ends teardown's run.
6. **An exclusive deadline** (`MCDeadlineInclusive`). A timer armed for the current
   instant by a step of that instant comes after the deadline that the comments
   at `_loop.py:335` and `:344` say it comes before.
7. **An exact replay that diverged** (`MCDivergenceCaught`). A strict misalignment
   caught by the program leaves no trace in `replay_exact`. The module also shows the
   good news: such a replay still drew exactly its recording.
8. **Forgotten entries** (`MCEntriesLost`). A factory that raises in `restart()`
   erases itself and all later entries of the host.

Remarks, which the models follow and no property forbids:

- `_run.py:366-374`: teardown lists the pending tasks once before each gather. A task that cleanup code creates
  afterwards runs ordinary code, is not cancelled and not waited for, and may be alive when `_teardown` reports no error.
- `_net.py:752-771`: `create_server` does not ask whether its host is up. Code that crashed its own host, or a
  plain callback of a dead host, binds a listener that connects reach. docs/determinism.md:120-121 says that the listeners
  of a crashed host stop accepting, and :122-124 that plain callbacks may still run.
- `_world.py:159-166`: a factory that cuts the power of its host while `restart()` calls it still gets its task, which
  lives on the dead host and survives the next restart besides the new one.
- `_net.py:271`: an aborted end whose host then crashes still gets the `connection_lost` that the abort had scheduled.
- `_shrink.py:186-194`: values are zeroed, halved and decremented only. With failures at 1 and 4 of one wide draw, the
  shrinker stops at 4.
- `_net.py:816`: a connect that waited takes the server bound now without testing the link to
  its host, which may be another one than before and cut off.
- `_net.py:463`: `SimServer.close()`, also a second one of the same server, unbinds
  whoever is bound to the address by then.
- `_net.py:863`: a socket from `sock_connect` connects to the server found then, closed or dead meanwhile.
- `_net.py:1028-1030` promises a strictly later instant per datagram, which needs a positive
  least delay: `FlowsStayInOrder` assumes it.
- A soak that loses its cursor to another shard's write runs seeds twice; the
  comment "resumes from its next unrun seed" holds for one shard per file.

- docs/event-log.md:29 says "Draws with bound 1 are forced and
never recorded". The schedulers indeed do not draw among one handle, but
`Tape.draw` itself records such a draw (`simloom.draw(label, 1)` appends one),
and `ChoiceTape` follows the code: `MCSites` has sites of bound 1.

## 6. Proofs

For every value of the constants, checked by TLAPS. Every safety invariant and action
property of the passing runs is a theorem (`FlowStaysInOrder` for a positive least delay).

**SimLoopProofs.** From `LoopAssumption` only: there are finitely many tasks, the
bounds are naturals.
- `TypeCorrect`: `Spec => []TypeOK`. `TypeOK` is inductive. The lemmas follow
  the module: the loop's actions, the program's, teardown's, each with one step
  per action. The clock needs more than typing: `NextNow` is a CHOOSE of a first
  timer, and `FirstTimeExists` derives that a nonempty set of times has one from
  the well-foundedness of the naturals.
- `CrashedTasksAreNeverScheduled`: only `StepTask` starts a step, it picks from
  the pool, and a step in the pool survived compaction.
- `TimeRunsForward`: a step that moves the clock is a `Pop`, which moves it to
  the first timer (`NextNowIsTheFirstTimer`) and only forward.
- `WakeupsAreNeverLost`: from `WakeInv`. That a suspended task is blocked or queued does not
  survive a step by itself: a wake-up might come for a task that ended, or a timer for one
  that no longer sleeps. `WakeupsAreEarned` excludes both (what is queued is pending, not running, not blocked;
  who is armed sleeps), and `PhasesFollow` says which states go with the phases of teardown, whose
  `revive` puts parked steps back. `WakeByTask` turns it into a statement about one task, so
  that each action is proved for the tasks it touches.
- `OnlyCleanupRunsInTeardown`, `CleanTeardownIsComplete`: from `CleanupInv`, which adds
  `TeardownCoversEveryTask`: in each phase, every task that is still pending and not `late` has its
  cancellation coming or waits for a later phase. `Coming` is a flag, a cancelled future, or a task it awaits that
  passes on its own. That is stable although cleanup creates and awaits tasks, because a task that was
  there at the end and is not unwinding yet never awaits a late one (`AwaitsAreOlder`). `Task.cancel` sends the cancellation down the chain of awaits, a recursive
  function with as many hops as there are tasks; `AwaitedStartsHere` shows that the function exists and
  that the task itself is on its chain, by induction over sets of naturals.
- `DeadlockReportsAreGenuine`: from `LoopInv`, all of the above; where neither a handle is
  ready nor a timer armed, `NoLostWakeup` leaves only blocked tasks.

**SimTransportProofs.** From `TransportAssumption` only. An end is proved about through `Moves(x)`: whatever
step is taken, there is one end x such that nothing of the other changes but what x sends to it
(`StepMoves`, one case per action). The rest of the module reasons about `Moves`, not
about each action. `Chain(e)` is what end e has read, what waits at it, what is in flight to it and
what a partition holds back. Concatenation and appending are made opaque (`Cat`, `Add`) with
their laws as lemmas.
- `StreamsAreNeverTorn`: `InOrder`, which says that what an end sent is the `Chain` of its peer until the
  peer has closed, is inductive with `TypeOK`.
- `ConnectionIsAReliableStream`: the refinement of `ReliableStream`. Initial states map to initial states; a
  `Moves` is a send, a read of the next few items, a close or a stutter of the abstract
  stream, and that what is read is a prefix of what was sent comes from `InOrder`.
- `LossIsToldOnce`: the property is inductive with `TypeOK`, since it counts the call that is scheduled with those made;
  each way to close an end is a case of its own.
- `PeersLearn`: `LearnInv` says where a finalizer, a reset or a closed end came from: an
  announcement of the peer (it is closing, or its EOF is among what it sent) or a reset of the peer.

**ChoiceTapeProofs.** From `TapeAssumption` only, for any sites and any number of
draws and runs. The inductive invariant `IInv` is `TypeOK` and the three
invariants of the run, and that a generating tape is never misaligned. The last part is needed
because `Consulting` tests both. `FollowsTheRecording` carries the
verdict: a strict run that ends well has position equal to the recording's length, and a
prefix of full length is the whole. Cases: `RecordStep` for the three actions
that append a draw, `EndMainStep`, `EndTeardownStep`, and `EditsAreTapes` for the next run.
- `TypeCorrect`, `ReplayFollowsTheRecording`, `OkReplayIsTheSameUniverse`,
  `StrictNeverImprovises`: from `IInv`.
- `FallbackStays`: the action property, from `IInv` and the actions.

**MonitorsProofs.** From `MonitorAssumption` (`within` is positive, as the code
requires; no bound on time or steps is used). The safety of verdicts is not inductive: it needs to know how
each monitor's fields stand to what really happened. `GoalInv` says that a goal
counts as met exactly when it held at a step boundary, in time; `LinkInv` that a
link has a deadline exactly when it owes a response, that the deadline is that of one of
the triggers owed, and that it lies no later than any other's. `IInv` adds that `timers` is finite.
- `DeadlinesAreKept`: a callback runs at a time no deadline precedes
  (`ClockStopsAtDeadlines`), and a deadline that fires is the earliest
  (`DeadlinesFireInTime`).
- `OneDeadlineServesEveryTrigger`: from `LinkInv`, the deadline kept is the earliest.
- `OkIsRight`, `LivenessVerdictIsRight`: whoever `Failing` names is unmet by the
  history as well (`FailingIsEarned`), and an end without failure leaves nothing owed.

**SimHostProofs.** From `HostAssumption` only. `IInv` is `TypeOK`, `DiskInv` and `RestartInv`.
- `SyncedDataSurvives`: from `DiskInv`: the platter holds what is fixed, and what waits in the page cache is among
  what was written since. A cut moves what is fixed only for paths that were written to, so its step needs that
  every `Fates` of another path is what was on the platter (`UntouchedStays`).
- `CutsLeaveWhatWasWritten`: an action property, from `DiskInv`; only `Crash` makes its premise true.
- `EntriesRunAgain`: from `RestartInv`, which counts: the entries of the host and those `restart` has still to spawn
  are together the ones owed, and during a restart with the power on there are as many tasks of a
  factory as entries spawned so far. That the counts follow `Append` and `Tail` are lemmas (`AppendCounts`,
  `TailCounts`) from the cardinality of finite sets.

**SimNetworkProofs.** From the assumptions on the constants, for any hosts, servers,
endpoints, latencies and number of faults. The invariant has a part per module: `LinksInv` (overrides are
ranges of times), `ListenersInv` (what is bound is open, and on a live host unless it was bound since the cut), `DatagramsInv`
(a copy on its way is not late). All four properties of the run are theorems:
- `TypeCorrect`, `HealsReachEveryone`, `ConnectsReachLiveServers`: from `TypeInv`; the
  second needs that no step but a release makes a link work again.
- `FlowsStayInOrder`: assumes `MinDelay > 0`. `OrderInv` is what makes it inductive: copies that
  were not held back arrive at most at the front, strictly in the order of their numbers, and none of them was
  sent before one that has arrived. In `DeliverStep` an older copy still on its way would have an
  arrival in the past, which `DatagramsOK` excludes.

**CampaignProofs.** From the assumptions on the constants. What they say of programs
is named `ProgramsAreTrees`: the universes of a program are the runs of a
function of the draws: two of them first differ in the value drawn at the same site, every value
within the bound of a site that is reached leads to a universe, and every run ends, so that there is
a longest. They never draw at the site of the entropy draw. Instances of an error contain the error; budgets are naturals.
- `NoSeedIsSkipped`: `SoakInv` adds that the stale copy a process is about to write back
  lies behind what has run, too, and that a shard runs seeds of its own; the rest is that
  `k + i * Shards` determines `k` and `i` (`SeedsAreDistinct`).
- `TheLowestSeedIsReported`: `ExploreInv` says that the results taken are those of
  the first seeds, and `failures` exactly those among them that fail.
- `EnumerationVisitsAllOnce`: `EveryTapeLeads` shows that a replay of any tape is a universe.
  Universes are ordered lexicographically by their first difference (`Before`). The odometer bumps the
  rightmost draw that can be bumped and drops what follows: `TheNextSchedule` shows that the replay of
  that tape is the next universe within the bounds, and nothing lies between. `EnumInv` then says that the
  visited ones are exactly those up to the last, and the search ends when there is no next.
- `ReportsReproduce`: `ReportInv`. `FailureInv` ties a failure to the seed, universe and error it
  was recorded with, `ShrunkInv` says that what the shrinker holds realises itself (`Realised`
  of its draws is those draws) and ends in an instance of the original error, and `SessionInv` that the later
  session runs the program that was reported.
- `TheShrunkTapeIsMinimal`: `MinInv`. In a round that has accepted nothing, the candidates before the
  cursor are ruled out for the tape at hand (`RuledOut`, pass by pass: single deletions first, then
  lowerings). A round that accepted one is followed by another, so the round that ends the search has ruled out all.

**SimRedisProofs.** From `RedisAssumption` only: the bounds are naturals.
- `CarefulClientsAreSerializable`: versions of keys only grow, and while the version of a key is
  the same so is its content (`Later`). `CarefulInv` says that a careful client read only keys it watches, that
  the value it read is still there if the version is still the one it watched (`Kept`), and that its queue
  writes a key once and sets it to what was read plus an element (`Planned`). So an `Exec` that passes
  the lock reads and writes the current state, in one step, and its operations extend the
  explanation: `SerialInv` says that the operations in the order of execution
  are legal and end in the store (`Explained`). The run of a queue is a fold over its commands
  (`TransactionIsExplained`).
- `TheCheckerIsSound`: let transactions have a serial order. The list of a key only grows along it
  (`ListsGrow`), each element is added by one transaction (`RecordInv`: an element is the number of the
  transaction that appended it), so the longest list read, by which the checker orders writes, follows
  the serial order. Each kind of edge then goes forward: `WriteWriteIsInOrder`,
  `WriteReadIsInOrder`, `ReadWriteIsInOrder`, and a graph whose edges go forward has no cycle. The
  history may lack transactions whose answer was lost; `Embeds` places the recorded ones
  among those executed.

**Inductions.** The induction theorems of the library have an operator parameter, which
none of the provers instantiates. Where a proof is by induction (chains of awaits, the
odometer's order, runs of a queue), the statement is about the set of naturals for which it holds:
`SetInduction` and `LeastExists` derive this form from `NatLessThanWellFounded` and `WFMin`. Recursive functions get
their equations in the same way.

**Only model-checked.** `UniverseEnds`, `EverythingSentArrives` and `EverySeedIsSoaked` are
liveness under fairness, beyond the prover. The violations of section 5 are TLC's as well.

## 7. Plan

Done: the components on their own (`SimLoop`, `Monitors`, `SimTransport`,
`SimHost`, `ChoiceTape`), the network around the streams, the searches around a
run, Redis and the checker, and the proofs of section 6. Left, in this order:

1. Properties of the operators that the invariants do not state: that every cycle the checker
   reports is one of dependencies, that a shrunk tape never is longer.
2. `World`: the composition of `SimHost` with the part of the loop a crash
   reaches, for tasks created by a host after its own crash.
3. The determinism self-check and the async generators closed in teardown.

## 8. Not modelled, and why

- TLS: asyncio's `SSLProtocol` over a `SimTransport`; its state is the ssl module's.
- Schedulers: `SimLoop` allows every pick, so each scheduler's runs are among its behaviours.
- Buggify: a draw site of `ChoiceTape` and nothing more.
- Patches, context, hash seed: replacements in the process, no state of the
  simulation, except for the entropy draw that `Campaign` has.
- Event log and fingerprints: append-only records nothing reads during a run.
- Command line, pytest plugin, boundary table, errors: front ends and tables.
- Of the searches: `check_determinism`, which compares two runs of one seed (the models take a
  program to be a function of its draws, which is what it checks), the probe for `pct:auto`, and the labels of a soak's report.
- Of the network: percentages of loss (a fault is on or off), `wait_closed`, ports
  handed out to clients, and transports of a connect after it is made, which `SimTransport` models.
- Of Redis: EXISTS, PING and the handshake, WATCH and MULTI inside MULTI, error replies, and the bytes
  of the protocol. A second WATCH of a key before EXEC replaces the version seen by the first
  (`_services.py:149`); the careful clients of the model watch once.
- `examples/` and `spikes/` use the library or precede it: programs of users, not parts of it.
- Of the loop: the inline executor, async generator hooks, exception handlers,
  escape detection, controlled garbage collection. Of the run: the watchdog and
  the closing of transports left over at the end.
- Of streams: byte sizes (a chunk is a number), loss as retransmission delay
  (`Delays` covers it), the write buffer limits, which the code ignores as well.
