---------------------------- MODULE SimTransport ----------------------------
(***************************************************************************)
(* One simulated stream connection (SimTransport of src/simloom/_net.py)   *)
(* and the network faults that reach it (block, unblock, heal,             *)
(* reset_connections, Host.crash).                                         *)
(*                                                                         *)
(* The two programs at the ends are arbitrary.  A callback given to        *)
(* call_soon is a flag or a counter that its action takes down; a timer of *)
(* _arrive is its time in `arrivals'.  Which of the ready callbacks runs   *)
(* is the scheduler's choice, and the clock moves when none is ready.      *)
(***************************************************************************)
EXTENDS Naturals, Sequences, FiniteSets

CONSTANTS
  Ends,      \* the two ends, one per host
  Delays,    \* what _draw_delay may give
  MaxTime,   \* bound on the virtual clock
  MaxWrites, \* MaxWrites[e]: bound on the writes of end e
  Calls,     \* Calls[e]: what the program at end e calls, besides write()
  MaxFaults  \* bound on blocks, resets and crashes

ASSUME TransportAssumption ==
  /\ \E a, b \in Ends : a # b /\ Ends = {a, b}
  /\ Delays \subseteq Nat /\ 0 \in Delays
  /\ MaxTime \in Nat /\ MaxWrites \in [Ends -> Nat] /\ MaxFaults \in Nat
  /\ Calls \in [Ends -> SUBSET {"write_eof", "close", "force_close", "pause"}]

VARIABLES
  now,
  blocked,   \* e \in blocked: the link from e to its peer is in _blocked
  inbox, pending, held, lastArrival, paused, pumpScheduled, closing, closed,
  arrivals,  \* arrivals[e]: times of the armed _arrive timers of e
  finalizes, \* _finalize is scheduled
  resets,    \* how many _reset_by_peer are scheduled
  losing,    \* _force_close has scheduled connection_lost
  off,       \* the host of e has lost its power
  sent,      \* history: what e sent, EOF included
  got,       \* history: what e's protocol received
  lostCalls, \* history: how often connection_lost was called
  how,       \* history: what closed e
  faults     \* faults so far, for the bound MaxFaults

endVars  == <<inbox, pending, held, lastArrival, paused, pumpScheduled, closing, closed>>
soonVars == <<arrivals, finalizes, resets, losing>>
history  == <<sent, got, lostCalls, how>>
vars == <<now, blocked, endVars, soonVars, off, history, faults>>

EOF == 0
Items == Nat
Peer(e) == CHOOSE p \in Ends : p # e
Causes == {"open", "close", "crash", "reset", "abort"}

TypeOK ==
  /\ now \in Nat /\ blocked \subseteq Ends
  /\ inbox \in [Ends -> Seq(Items)] /\ pending \in [Ends -> Seq(Items)]
  /\ held \in [Ends -> Seq(Items)]
  /\ sent \in [Ends -> Seq(Items)] /\ got \in [Ends -> Seq(Items)]
  /\ lastArrival \in [Ends -> Nat] /\ arrivals \in [Ends -> Seq(Nat)]
  /\ paused \in [Ends -> BOOLEAN] /\ pumpScheduled \in [Ends -> BOOLEAN]
  /\ closing \in [Ends -> BOOLEAN] /\ closed \in [Ends -> BOOLEAN]
  /\ finalizes \in [Ends -> BOOLEAN] /\ losing \in [Ends -> BOOLEAN]
  /\ off \in [Ends -> BOOLEAN]
  /\ resets \in [Ends -> Nat] /\ lostCalls \in [Ends -> Nat]
  /\ how \in [Ends -> Causes] /\ faults \in Nat
  /\ \A e \in Ends : (closed[e] => closing[e]) /\ (closed[e] <=> how[e] # "open")

Init ==
  /\ now = 0 /\ blocked = {} /\ faults = 0
  /\ inbox = [e \in Ends |-> <<>>] /\ pending = [e \in Ends |-> <<>>]
  /\ held = [e \in Ends |-> <<>>] /\ lastArrival = [e \in Ends |-> 0]
  /\ paused = [e \in Ends |-> FALSE] /\ pumpScheduled = [e \in Ends |-> FALSE]
  /\ closing = [e \in Ends |-> FALSE] /\ closed = [e \in Ends |-> FALSE]
  /\ arrivals = [e \in Ends |-> <<>>] /\ finalizes = [e \in Ends |-> FALSE]
  /\ resets = [e \in Ends |-> 0] /\ losing = [e \in Ends |-> FALSE]
  /\ off = [e \in Ends |-> FALSE]
  /\ sent = [e \in Ends |-> <<>>] /\ got = [e \in Ends |-> <<>>]
  /\ lostCalls = [e \in Ends |-> 0] /\ how = [e \in Ends |-> "open"]

----------------------------------------------------------------------------
(* Sending.                                                                *)

Later(a, b) == IF a >= b THEN a ELSE b

\* [mutant] what is written across a partition is dropped
SendMut(e, item) ==
  LET p == Peer(e)
  IN /\ sent' = [sent EXCEPT ![e] = Append(@, item)]
     /\ UNCHANGED held
     /\ IF held[e] # <<>> \/ e \in blocked
        THEN UNCHANGED <<pending, lastArrival, arrivals>>
        ELSE \E d \in Delays :
               LET at == Later(now + d, lastArrival[p])
               IN /\ at <= MaxTime
                  /\ lastArrival' = [lastArrival EXCEPT ![p] = at]
                  /\ pending' = [pending EXCEPT ![p] = Append(@, item)]
                  /\ arrivals' = [arrivals EXCEPT ![p] = Append(@, at)]

\* _send: held behind a partition, else queued at the peer with a timer for
\* its arrival, never before the one queued last
Send(e, item) ==
  LET p == Peer(e)
  IN /\ sent' = [sent EXCEPT ![e] = Append(@, item)]
     /\ IF held[e] # <<>> \/ e \in blocked
        THEN /\ held' = [held EXCEPT ![e] = Append(@, item)]
             /\ UNCHANGED <<pending, lastArrival, arrivals>>
        ELSE \E d \in Delays :
               LET at == Later(now + d, lastArrival[p])
               IN /\ at <= MaxTime
                  /\ lastArrival' = [lastArrival EXCEPT ![p] = at]
                  /\ pending' = [pending EXCEPT ![p] = Append(@, item)]
                  /\ arrivals' = [arrivals EXCEPT ![p] = Append(@, at)]
                  /\ UNCHANGED held

NoSend == UNCHANGED <<sent, held, pending, lastArrival, arrivals>>

\* the program at e runs only while its host has power
Program(e) == ~off[e]
Uses(e, call) == Program(e) /\ call \in Calls[e]

Write(e) ==
  /\ Program(e) /\ ~closing[e]
  /\ LET n == Cardinality({i \in DOMAIN sent[e] : sent[e][i] # EOF})
     IN n < MaxWrites[e] /\ Send(e, n + 1)
  /\ UNCHANGED <<now, blocked, inbox, paused, pumpScheduled, closing, closed,
                 finalizes, resets, losing, off, got, lostCalls, how, faults>>

WriteEOF(e) ==
  /\ Uses(e, "write_eof") /\ ~closing[e] /\ EOF \notin {sent[e][i] : i \in DOMAIN sent[e]}
  /\ Send(e, EOF)
  /\ UNCHANGED <<now, blocked, inbox, paused, pumpScheduled, closing, closed,
                 finalizes, resets, losing, off, got, lostCalls, how, faults>>

----------------------------------------------------------------------------
(* Closing.                                                                *)

\* [mutant] the end of the stream is not announced
CloseEffectMut(e) ==
  /\ closing' = [closing EXCEPT ![e] = TRUE]
  /\ finalizes' = [finalizes EXCEPT ![e] = TRUE]
  /\ NoSend

\* what close() does when e is not yet closing
CloseEffect(e) ==
  /\ closing' = [closing EXCEPT ![e] = TRUE]
  /\ finalizes' = [finalizes EXCEPT ![e] = TRUE]
  /\ IF closing[Peer(e)] THEN NoSend ELSE Send(e, EOF)

\* close() and abort()
Close(e) ==
  /\ Uses(e, "close") /\ ~closing[e]
  /\ CloseEffect(e)
  /\ UNCHANGED <<now, blocked, inbox, paused, pumpScheduled, closed, resets, losing,
                 off, got, lostCalls, how, faults>>

\* [mutant] a transport that is closed does not count as closing
BecomesMut(e, cause, told) ==
  /\ closed' = [closed EXCEPT ![e] = TRUE]
  /\ how' = [how EXCEPT ![e] = cause]
  /\ lostCalls' = [lostCalls EXCEPT ![e] = IF told THEN @ + 1 ELSE @]
  /\ UNCHANGED <<now, blocked, inbox, pending, held, lastArrival, paused,
                 pumpScheduled, closing, arrivals, sent, got>>

\* e becomes closed for the reason given; connection_lost is called at once
\* if told is TRUE
Becomes(e, cause, told) ==
  /\ closing' = [closing EXCEPT ![e] = TRUE]
  /\ closed' = [closed EXCEPT ![e] = TRUE]
  /\ how' = [how EXCEPT ![e] = cause]
  /\ lostCalls' = [lostCalls EXCEPT ![e] = IF told THEN @ + 1 ELSE @]
  /\ UNCHANGED <<now, blocked, inbox, pending, held, lastArrival, paused,
                 pumpScheduled, arrivals, sent, got>>

StaysAsItIs == UNCHANGED <<now, blocked, endVars, arrivals, history>>

\* [mutant] connection_lost is called again on a closed transport
FinalizeMut(e) ==
  /\ finalizes[e]
  /\ finalizes' = [finalizes EXCEPT ![e] = FALSE]
  /\ Becomes(e, "close", TRUE)
  /\ UNCHANGED <<resets, losing, off, faults>>

\* _finalize
Finalize(e) ==
  /\ finalizes[e]
  /\ finalizes' = [finalizes EXCEPT ![e] = FALSE]
  /\ IF closed[e] THEN StaysAsItIs ELSE Becomes(e, "close", TRUE)
  /\ UNCHANGED <<resets, losing, off, faults>>

\* _reset_by_peer
ResetByPeer(e) ==
  /\ resets[e] > 0
  /\ resets' = [resets EXCEPT ![e] = @ - 1]
  /\ IF closed[e] THEN StaysAsItIs ELSE Becomes(e, "reset", TRUE)
  /\ UNCHANGED <<finalizes, losing, off, faults>>

\* _force_close, as asyncio's SSLProtocol aborts: the peer is not told
ForceClose(e) ==
  /\ Uses(e, "force_close") /\ ~closed[e]
  /\ losing' = [losing EXCEPT ![e] = TRUE]
  /\ Becomes(e, "abort", FALSE)
  /\ UNCHANGED <<finalizes, resets, off, faults>>

\* the connection_lost that _force_close scheduled
ConnectionLost(e) ==
  /\ losing[e]
  /\ losing' = [losing EXCEPT ![e] = FALSE]
  /\ lostCalls' = [lostCalls EXCEPT ![e] = @ + 1]
  /\ UNCHANGED <<now, blocked, endVars, arrivals, finalizes, resets, off, sent, got,
                 how, faults>>

----------------------------------------------------------------------------
(* Receiving.                                                              *)

\* the first timer of e that is due: all of e's timers run the same _arrive
Arrive(e) ==
  /\ arrivals[e] # <<>> /\ Head(arrivals[e]) <= now
  /\ arrivals' = [arrivals EXCEPT ![e] = Tail(@)]
  /\ IF closed[e]
     THEN UNCHANGED <<inbox, pending, pumpScheduled>>
     ELSE LET n == IF pending[e] = <<>> THEN 0 ELSE 1
          IN /\ inbox' = [inbox EXCEPT ![e] = @ \o SubSeq(pending[e], 1, n)]
             /\ pending' = [pending EXCEPT ![e] = SubSeq(@, n + 1, Len(@))]
             /\ pumpScheduled' = [pumpScheduled EXCEPT ![e] = TRUE]
  /\ UNCHANGED <<now, blocked, held, lastArrival, paused, closing, closed, finalizes,
                 resets, losing, off, history, faults>>

\* [mutant] a paused transport delivers all the same
PumpsMut(e) == IF closed[e] THEN {0} ELSE 0 .. Len(inbox[e])

\* [mutant] _pump does not look at _closed
PumpsClosedMut(e) == IF paused[e] THEN {0} ELSE 0 .. Len(inbox[e])

\* how many items _pump hands over: all of them, or as many as it takes for
\* the protocol to pause reading
Pumps(e) == IF closed[e] \/ paused[e] THEN {0} ELSE 0 .. Len(inbox[e])

\* _pump; the protocol may pause reading in data_received, and unless
\* eof_received asks to keep the transport open, EOF closes it
Pump(e) ==
  /\ pumpScheduled[e]
  /\ pumpScheduled' = [pumpScheduled EXCEPT ![e] = FALSE]
  /\ \E n \in Pumps(e), pauses \in BOOLEAN, keepOpen \in BOOLEAN :
       LET items == SubSeq(inbox[e], 1, n)
       IN /\ pauses => n > 0 /\ "pause" \in Calls[e]
          /\ n < Len(inbox[e]) => closed[e] \/ paused[e] \/ pauses
          /\ got' = [got EXCEPT ![e] = @ \o items]
          /\ inbox' = [inbox EXCEPT ![e] = SubSeq(@, n + 1, Len(@))]
          /\ paused' = [paused EXCEPT ![e] = @ \/ pauses]
          /\ IF EOF \in {items[i] : i \in DOMAIN items} /\ ~keepOpen /\ ~closing[e]
             THEN CloseEffect(e)
             ELSE NoSend /\ UNCHANGED <<closing, finalizes>>
  /\ UNCHANGED <<now, blocked, closed, resets, losing, off, lostCalls, how, faults>>

PauseReading(e) ==
  /\ Uses(e, "pause") /\ ~paused[e] /\ ~closed[e]
  /\ paused' = [paused EXCEPT ![e] = TRUE]
  /\ UNCHANGED <<now, blocked, inbox, pending, held, lastArrival, pumpScheduled,
                 closing, closed, soonVars, off, history, faults>>

\* [mutant] resuming does not schedule a pump
ResumeReadingMut(e) ==
  /\ Program(e) /\ paused[e]
  /\ paused' = [paused EXCEPT ![e] = FALSE]
  /\ UNCHANGED <<now, blocked, inbox, pending, held, lastArrival, pumpScheduled,
                 closing, closed, soonVars, off, history, faults>>

ResumeReading(e) ==
  /\ Program(e) /\ paused[e]
  /\ paused' = [paused EXCEPT ![e] = FALSE]
  /\ pumpScheduled' = [pumpScheduled EXCEPT ![e] = @ \/ ~closed[e]]
  /\ UNCHANGED <<now, blocked, inbox, pending, held, lastArrival, closing, closed,
                 soonVars, off, history, faults>>

----------------------------------------------------------------------------
(* The network and its faults.                                             *)

Fault == faults < MaxFaults /\ faults' = faults + 1

\* block, partition
Block(links) ==
  /\ Fault
  /\ links # {} /\ blocked' = blocked \cup links
  /\ UNCHANGED <<now, endVars, soonVars, off, history>>

\* how many items _flush_held sends from e when the links `open' are not blocked
Flushed(e, open) == IF closed[e] \/ e \notin open THEN 0 ELSE Len(held[e])

\* arrival times drawn one by one, never before the last
Draws(e, n) ==
  {s \in [1 .. n -> now .. MaxTime] :
     \A i \in 1 .. n :
       \E d \in Delays : s[i] = Later(now + d, IF i = 1 THEN lastArrival[Peer(e)] ELSE s[i - 1])}

\* unblock and heal: _release flushes every live transport
Unblock(links) ==
  /\ links \cap blocked # {}
  /\ blocked' = blocked \ links
  /\ \E draw \in [Ends -> UNION {Draws(e, Flushed(e, Ends \ blocked')) : e \in Ends}] :
       /\ \A e \in Ends : draw[e] \in Draws(e, Flushed(e, Ends \ blocked'))
       /\ arrivals' = [e \in Ends |-> arrivals[e] \o draw[Peer(e)]]
       /\ lastArrival' = [e \in Ends |->
            IF draw[Peer(e)] = <<>> THEN lastArrival[e]
            ELSE draw[Peer(e)][Len(draw[Peer(e)])]]
       /\ pending' = [e \in Ends |->
            pending[e] \o SubSeq(held[Peer(e)], 1, Len(draw[Peer(e)]))]
       /\ held' = [e \in Ends |-> SubSeq(held[e], Len(draw[e]) + 1, Len(held[e]))]
  /\ UNCHANGED <<now, inbox, paused, pumpScheduled, closing, closed, finalizes, resets,
                 losing, off, history, faults>>

\* reset_connections: both ends that are still live
ResetConnections ==
  /\ Fault
  /\ resets' = [e \in Ends |-> IF closed[e] THEN resets[e] ELSE resets[e] + 1]
  /\ UNCHANGED <<now, blocked, endVars, arrivals, finalizes, losing, off, history>>

\* [mutant] the peer of a crashed end hears nothing
DropOnCrashMut(e) == Becomes(e, "crash", FALSE) /\ UNCHANGED resets

\* _drop_on_crash: e vanishes without a callback, its peer will see a reset
DropOnCrash(e) ==
  /\ Becomes(e, "crash", FALSE)
  /\ resets' = [resets EXCEPT ![Peer(e)] = IF closed[Peer(e)] THEN @ ELSE @ + 1]

\* Host.crash, as far as this connection sees it
Crash(e) ==
  /\ Fault
  /\ ~off[e] /\ off' = [off EXCEPT ![e] = TRUE]
  /\ IF closed[e] THEN StaysAsItIs /\ UNCHANGED resets ELSE DropOnCrash(e)
  /\ UNCHANGED <<finalizes, losing>>

Ready(e) ==
  \/ pumpScheduled[e] \/ finalizes[e] \/ losing[e] \/ resets[e] > 0
  \/ arrivals[e] # <<>> /\ Head(arrivals[e]) <= now

\* the clock moves when nothing is ready
Tick ==
  /\ now < MaxTime /\ \A e \in Ends : ~Ready(e)
  /\ now' = now + 1
  /\ UNCHANGED <<blocked, endVars, soonVars, off, history, faults>>

\* the callbacks the loop runs, and the clock
Callbacks ==
  \/ \E e \in Ends :
       Arrive(e) \/ Pump(e) \/ Finalize(e) \/ ResetByPeer(e) \/ ConnectionLost(e)
  \/ Tick

Programs ==
  \/ \E e \in Ends :
       \/ Write(e) \/ WriteEOF(e) \/ Close(e) \/ ForceClose(e)
       \/ PauseReading(e) \/ ResumeReading(e) \/ Crash(e)
  \/ \E links \in SUBSET Ends : Block(links) \/ Unblock(links)
  \/ ResetConnections

Next == Callbacks \/ Programs

\* the loop runs what is ready; no fairness is assumed of the programs
Spec == Init /\ [][Next]_vars /\ WF_vars(Callbacks)

----------------------------------------------------------------------------
(* Properties.                                                             *)

Stream == INSTANCE ReliableStream WITH shut <- closing, lost <- closed

\* The connection implements the abstract reliable stream: each end reads, in
\* order, a prefix of what the other sent, whatever is blocked, paused, closed,
\* reset or crashed meanwhile.
ImplementsReliableStream == Stream!Spec

\* Nothing in the middle of a stream is dropped: what an end sent is, in order,
\* received, waiting to be read, in flight or held, as long as the receiver lives.
NothingIsDropped ==
  \A e \in Ends : ~closed[Peer(e)] =>
    sent[e] = got[Peer(e)] \o inbox[Peer(e)] \o pending[Peer(e)] \o held[e]

\* connection_lost is called, or scheduled by an abort, exactly once for each end
\* that closes, whatever closes it and whatever else is scheduled; the crash of its
\* own host alone closes an end without a call.  The call an abort had scheduled
\* before the crash is still made: only task wakeups are filtered.
ConnectionLostOnce ==
  \A e \in Ends :
    lostCalls[e] + (IF losing[e] THEN 1 ELSE 0) = IF how[e] \in {"open", "crash"} THEN 0 ELSE 1

\* When an end is gone by close, crash or reset, the other learns of it unless it
\* closes too: it has read the EOF, has it waiting or in flight, or is about to be
\* reset.  The exception is an end that closed with its EOF held behind a
\* partition, which no heal releases (HealReleasesWhatIsHeld).
ThePeerLearns ==
  \A e \in Ends :
    LET p == Peer(e)
        stream == got[p] \o inbox[p] \o pending[p]
    IN how[e] \in {"close", "crash", "reset"} /\ ~closing[p] =>
         \/ resets[p] > 0
         \/ EOF \in {stream[i] : i \in DOMAIN stream}
         \/ how[e] = "close" /\ EOF \in {held[e][i] : i \in DOMAIN held[e]}

\* When the partitions are healed and the readers read, what was sent is
\* received, unless an end is closed.
EverythingSentArrives ==
  <>[](blocked = {} /\ \A e \in Ends : ~paused[e]) =>
    \A e \in Ends : \A n \in 1 .. MaxWrites[e] :
      Len(sent[e]) >= n ~>
        Len(got[Peer(e)]) >= n \/ closed[e] \/ closed[Peer(e)]

\* Chunks sent across a partition are held and delivered on heal(): once the
\* link is open again nothing stays behind, when the sender did not abort, was not
\* reset or crashed, and the receiver lives.
HealReleasesWhatIsHeld ==
  \A e \in Ends :
    held[e] # <<>> /\ how[e] \in {"open", "close"} /\ ~closed[Peer(e)] => e \in blocked
=============================================================================
