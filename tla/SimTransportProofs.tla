------------------------- MODULE SimTransportProofs -------------------------
(***************************************************************************)
(* What a simulated stream connection guarantees for any programs at its   *)
(* two ends and any faults, and that it implements ReliableStream.         *)
(***************************************************************************)
EXTENDS SimTransport, SequenceTheorems, FiniteSetTheorems, TLAPS

----------------------------------------------------------------------------
(* The two ends, and sequences.                                            *)

\* Each end has one peer, whose peer it is.
LEMMA EndsArePaired ==
  ASSUME NEW e \in Ends
  PROVE  /\ Peer(e) \in Ends /\ Peer(e) # e /\ Peer(Peer(e)) = e
         /\ \A f \in Ends : f = e \/ f = Peer(e)
<1>1. PICK a, b \in Ends : a # b /\ Ends = {a, b}
  BY TransportAssumption
<1>2. \A f \in Ends : Peer(f) \in Ends /\ Peer(f) # f
  <2>1. \A f \in Ends : \E p \in Ends : p # f
    BY <1>1
  <2>. QED BY <2>1 DEF Peer
<1>. QED BY <1>1, <1>2

\* The items of a sequence.
ItemsOf(s) == {s[i] : i \in DOMAIN s}

\* What a sequence has, a longer one has.
LEMMA ConcatHasItems ==
  ASSUME NEW S, NEW s \in Seq(S), NEW t \in Seq(S)
  PROVE  ItemsOf(s) \subseteq ItemsOf(s \o t) /\ ItemsOf(t) \subseteq ItemsOf(s \o t)
<1>1. /\ s \o t \in Seq(S) /\ Len(s \o t) = Len(s) + Len(t)
      /\ \A i \in 1 .. Len(s) + Len(t) : (s \o t)[i] = IF i <= Len(s) THEN s[i] ELSE t[i - Len(s)]
  BY ConcatProperties
<1>2. /\ DOMAIN s = 1 .. Len(s) /\ DOMAIN t = 1 .. Len(t)
      /\ DOMAIN (s \o t) = 1 .. Len(s) + Len(t) /\ Len(s) \in Nat /\ Len(t) \in Nat
  BY <1>1, LenProperties
<1>3. \A i \in DOMAIN s : i \in DOMAIN (s \o t) /\ (s \o t)[i] = s[i]
  BY <1>1, <1>2
<1>4. \A i \in DOMAIN t : i + Len(s) \in DOMAIN (s \o t) /\ (s \o t)[i + Len(s)] = t[i]
  BY <1>1, <1>2
<1>. QED BY <1>3, <1>4 DEF ItemsOf

\* A concatenation has no other items than its two parts.
LEMMA ConcatHasOnly ==
  ASSUME NEW s \in Seq(Items), NEW t \in Seq(Items)
  PROVE  ItemsOf(s \o t) \subseteq ItemsOf(s) \cup ItemsOf(t)
<1>. SUFFICES ASSUME NEW i \in DOMAIN (s \o t)
              PROVE  (s \o t)[i] \in ItemsOf(s) \cup ItemsOf(t)
  BY DEF ItemsOf
<1>1. i \in 1 .. Len(s) + Len(t) /\ Len(s) \in Nat /\ Len(t) \in Nat
  BY ConcatProperties, LenProperties
<1>2. CASE i <= Len(s)
  <2>1. i \in DOMAIN s /\ (s \o t)[i] = s[i]
    BY <1>1, <1>2, ConcatProperties, LenProperties
  <2>. QED BY <2>1 DEF ItemsOf
<1>3. CASE i > Len(s)
  <2>1. i - Len(s) \in DOMAIN t /\ (s \o t)[i] = t[i - Len(s)]
    BY <1>1, <1>3, ConcatProperties, LenProperties
  <2>. QED BY <2>1 DEF ItemsOf
<1>. QED BY <1>1, <1>2, <1>3

\* A sequence is its first n items and the rest.
LEMMA SplitSeq ==
  ASSUME NEW S, NEW s \in Seq(S), NEW n \in 0 .. Len(s)
  PROVE  /\ SubSeq(s, 1, n) \in Seq(S) /\ SubSeq(s, n + 1, Len(s)) \in Seq(S)
         /\ Len(SubSeq(s, 1, n)) = n
         /\ SubSeq(s, 1, n) \o SubSeq(s, n + 1, Len(s)) = s
<1>1. Len(s) \in Nat
  BY LenProperties
<1>2. SubSeq(s, 1, n) \in Seq(S) /\ Len(SubSeq(s, 1, n)) = n
  <2>1. \A i \in 1 .. n : s[i] \in S
    BY <1>1, ElementOfSeq
  <2>. QED BY <1>1, <2>1, SubSeqProperties
<1>3. SubSeq(s, n + 1, Len(s)) \in Seq(S)
  <2>1. \A i \in n + 1 .. Len(s) : s[i] \in S
    BY <1>1, ElementOfSeq
  <2>. QED BY <1>1, <2>1, SubSeqProperties
<1>4. SubSeq(s, 1, n) \o SubSeq(s, n + 1, Len(s)) = SubSeq(s, 1, Len(s))
  <2>1. 1 \in 1 .. Len(s) + 1 /\ n \in 1 - 1 .. Len(s) /\ Len(s) \in n .. Len(s)
    BY <1>1
  <2>. QED BY <2>1, ConcatAdjacentSubSeq
<1>. QED BY <1>2, <1>3, <1>4, SubSeqFull

\* Concatenation and Append under names of their own, so that a proof sees their
\* laws and not their definitions.
Cat(s, t) == s \o t
Add(s, x) == Cat(s, <<x>>)

LEMMA CatAssociative ==
  ASSUME NEW S
  PROVE  \A s, t, u \in Seq(S) : Cat(Cat(s, t), u) = Cat(s, Cat(t, u))
BY ConcatAssociative DEF Cat

LEMMA CatIsTyped ==
  ASSUME NEW S
  PROVE  \A s, t \in Seq(S) : Cat(s, t) \in Seq(S)
BY ConcatProperties DEF Cat

LEMMA CatEmpty ==
  ASSUME NEW S
  PROVE  \A s \in Seq(S) : Cat(s, <<>>) = s
BY ConcatEmptySeq DEF Cat

LEMMA AddIsAppend ==
  ASSUME NEW S, NEW s \in Seq(S), NEW x \in S
  PROVE  Append(s, x) = Add(s, x) /\ Add(s, x) \in Seq(S) /\ Add(s, x) # s
<1>1. Append(s, x) = Add(s, x)
  BY AppendIsConcat DEF Add, Cat
<1>. QED BY <1>1, AppendProperties

\* Appending to the end of a concatenation.
LEMMA CatAdd ==
  ASSUME NEW S
  PROVE  \A s, t \in Seq(S) : \A x \in S : Cat(s, Add(t, x)) = Add(Cat(s, t), x)
<1>1. \A x \in S : <<x>> \in Seq(S)
  OBVIOUS
<1>. DEFINE One(x) == <<x>>
<1>2. \A x \in S : One(x) \in Seq(S)
  BY <1>1
<1>3. \A s, x : Add(s, x) = Cat(s, One(x))
  BY DEF Add
<1>. HIDE DEF One
<1>. QED BY <1>2, <1>3, CatAssociative

\* Moving the first n items to the end of another sequence changes nothing.
LEMMA CatSplits ==
  ASSUME NEW S, NEW s \in Seq(S), NEW t \in Seq(S), NEW n \in 0 .. Len(t)
  PROVE  Cat(Cat(s, SubSeq(t, 1, n)), SubSeq(t, n + 1, Len(t))) = Cat(s, t)
<1>. DEFINE a == SubSeq(t, 1, n)
            b == SubSeq(t, n + 1, Len(t))
<1>1. a \in Seq(S) /\ b \in Seq(S) /\ Cat(a, b) = t
  BY SplitSeq DEF Cat
<1>. HIDE DEF a, b
<1>2. Cat(Cat(s, a), b) = Cat(s, t)
  BY <1>1, CatAssociative
<1>. QED BY <1>2 DEF a, b

\* Moving the first n items of the second part behind the first changes nothing.
LEMMA CatMoves ==
  ASSUME NEW S, NEW s \in Seq(S), NEW t \in Seq(S), NEW u \in Seq(S), NEW n \in 0 .. Len(t)
  PROVE  Cat(Cat(s, SubSeq(t, 1, n)), Cat(SubSeq(t, n + 1, Len(t)), u)) = Cat(s, Cat(t, u))
<1>. DEFINE a == SubSeq(t, 1, n)
            b == SubSeq(t, n + 1, Len(t))
<1>1. a \in Seq(S) /\ b \in Seq(S) /\ Cat(a, b) = t
  BY SplitSeq DEF Cat
<1>. HIDE DEF a, b
<1>2. Cat(Cat(s, a), Cat(b, u)) = Cat(s, Cat(t, u))
  BY <1>1, CatAssociative, CatIsTyped
<1>. QED BY <1>2 DEF a, b

----------------------------------------------------------------------------
(* Types.                                                                  *)

\* Sending keeps the types of what it changes.
LEMMA SendIsTyped ==
  ASSUME TypeOK, NEW e \in Ends, NEW item \in Items, Send(e, item)
  PROVE  /\ sent' \in [Ends -> Seq(Items)] /\ held' \in [Ends -> Seq(Items)]
         /\ pending' \in [Ends -> Seq(Items)]
         /\ lastArrival' \in [Ends -> Nat] /\ arrivals' \in [Ends -> Seq(Nat)]
<1>. DEFINE p == Peer(e)
<1>1. p \in Ends
  BY EndsArePaired
<1>2. \A s \in Seq(Items) : Append(s, item) \in Seq(Items)
  BY AppendProperties
<1>3. sent' \in [Ends -> Seq(Items)]
  BY <1>2 DEF Send, TypeOK
<1>4. CASE held[e] # <<>> \/ e \in blocked
  <2>1. /\ held' = [held EXCEPT ![e] = Append(@, item)]
        /\ UNCHANGED <<pending, lastArrival, arrivals>>
    BY <1>4 DEF Send
  <2>. QED BY <1>2, <1>3, <2>1 DEF TypeOK
<1>5. CASE ~(held[e] # <<>> \/ e \in blocked)
  <2>1. PICK d \in Delays :
          /\ lastArrival' = [lastArrival EXCEPT ![p] = Later(now + d, lastArrival[p])]
          /\ pending' = [pending EXCEPT ![p] = Append(@, item)]
          /\ arrivals' = [arrivals EXCEPT ![p] = Append(@, Later(now + d, lastArrival[p]))]
          /\ UNCHANGED held
    BY <1>5 DEF Send
  <2>2. Later(now + d, lastArrival[p]) \in Nat
    <3>1. now \in Nat /\ d \in Nat /\ lastArrival[p] \in Nat
      BY <1>1, TransportAssumption DEF TypeOK
    <3>. QED BY <3>1 DEF Later
  <2>3. \A s \in Seq(Nat) : Append(s, Later(now + d, lastArrival[p])) \in Seq(Nat)
    BY <2>2, AppendProperties
  <2>. HIDE DEF p
  <2>4. lastArrival' \in [Ends -> Nat]
    BY <1>1, <2>1, <2>2 DEF TypeOK
  <2>5. pending' \in [Ends -> Seq(Items)]
    BY <1>1, <1>2, <2>1 DEF TypeOK
  <2>6. arrivals' \in [Ends -> Seq(Nat)]
    BY <1>1, <2>1, <2>3 DEF TypeOK
  <2>. QED BY <1>3, <2>1, <2>4, <2>5, <2>6 DEF TypeOK
<1>. QED BY <1>4, <1>5

\* Becoming closed keeps the types of what it changes.
LEMMA BecomesIsTyped ==
  ASSUME TypeOK, NEW e \in Ends, NEW cause \in Causes \ {"open"}, NEW told, Becomes(e, cause, told)
  PROVE  /\ closing' \in [Ends -> BOOLEAN] /\ closed' \in [Ends -> BOOLEAN]
         /\ how' \in [Ends -> Causes] /\ lostCalls' \in [Ends -> Nat]
         /\ \A f \in Ends : (closed'[f] => closing'[f]) /\ (closed'[f] <=> how'[f] # "open")
<1>1. \A f \in Ends : lostCalls[f] \in Nat
  BY DEF TypeOK
<1>2. lostCalls' = [lostCalls EXCEPT ![e] = IF told THEN lostCalls[e] + 1 ELSE lostCalls[e]]
  BY DEF Becomes
<1>3. lostCalls' \in [Ends -> Nat]
  BY <1>1, <1>2 DEF TypeOK
<1>. QED BY <1>3 DEF Becomes, TypeOK, Causes

\* Closing keeps the types of what it changes.
LEMMA CloseIsTyped ==
  ASSUME TypeOK, NEW e \in Ends, CloseEffect(e)
  PROVE  /\ sent' \in [Ends -> Seq(Items)] /\ held' \in [Ends -> Seq(Items)]
         /\ pending' \in [Ends -> Seq(Items)]
         /\ lastArrival' \in [Ends -> Nat] /\ arrivals' \in [Ends -> Seq(Nat)]
         /\ closing' \in [Ends -> BOOLEAN] /\ finalizes' \in [Ends -> BOOLEAN]
         /\ \A f \in Ends : closing[f] => closing'[f]
<1>1. EOF \in Items
  BY DEF EOF, Items
<1>2. /\ closing' \in [Ends -> BOOLEAN] /\ finalizes' \in [Ends -> BOOLEAN]
      /\ \A f \in Ends : closing[f] => closing'[f]
  BY DEF CloseEffect, TypeOK
<1>3. CASE NoSend
  BY <1>2, <1>3 DEF NoSend, TypeOK
<1>4. CASE Send(e, EOF)
  BY <1>1, <1>2, <1>4, SendIsTyped
<1>. QED BY <1>3, <1>4 DEF CloseEffect

\* A write sends one item.
LEMMA WriteSends ==
  ASSUME TypeOK, NEW e \in Ends, Write(e)
  PROVE  \E item \in Items : Send(e, item)
<1>. DEFINE n == Cardinality({i \in DOMAIN sent[e] : sent[e][i] # EOF})
<1>1. n \in Nat
  <2>1. DOMAIN sent[e] = 1 .. Len(sent[e]) /\ Len(sent[e]) \in Nat
    BY LenProperties DEF TypeOK
  <2>2. IsFiniteSet(1 .. Len(sent[e]))
    BY <2>1, FS_Interval
  <2>3. IsFiniteSet({i \in DOMAIN sent[e] : sent[e][i] # EOF})
    BY <2>1, <2>2, FS_Subset
  <2>. QED BY <2>3, FS_CardinalityType
<1>2. n + 1 \in Items
  BY <1>1 DEF Items
<1>3. Send(e, n + 1)
  BY DEF Write
<1>. QED BY <1>2, <1>3

\* What a program does to its end keeps the types.
LEMMA ProgramIsTyped ==
  ASSUME TypeOK, NEW e \in Ends,
         \/ Write(e) \/ WriteEOF(e) \/ Close(e) \/ ForceClose(e)
         \/ PauseReading(e) \/ ResumeReading(e) \/ Crash(e)
  PROVE  TypeOK'
<1>1. CASE Write(e)
  BY <1>1, WriteSends, SendIsTyped DEF Write, TypeOK
<1>2. CASE WriteEOF(e)
  <2>1. EOF \in Items
    BY DEF EOF, Items
  <2>. QED BY <1>2, <2>1, SendIsTyped DEF WriteEOF, TypeOK
<1>3. CASE Close(e)
  BY <1>3, CloseIsTyped DEF Close, TypeOK
<1>4. CASE ForceClose(e)
  <2>1. Becomes(e, "abort", FALSE) /\ "abort" \in Causes \ {"open"}
    BY <1>4 DEF ForceClose, Causes
  <2>2. losing' \in [Ends -> BOOLEAN]
    BY <1>4 DEF ForceClose, TypeOK
  <2>. QED BY <1>4, <2>1, <2>2, BecomesIsTyped DEF ForceClose, Becomes, TypeOK
<1>5. CASE PauseReading(e) \/ ResumeReading(e)
  <2>1. paused' \in [Ends -> BOOLEAN]
    BY <1>5 DEF PauseReading, ResumeReading, TypeOK
  <2>2. pumpScheduled' \in [Ends -> BOOLEAN]
    BY <1>5 DEF PauseReading, ResumeReading, TypeOK
  <2>3. UNCHANGED <<now, blocked, inbox, pending, held, lastArrival, closing, closed, soonVars, off,
                    history, faults>>
    BY <1>5 DEF PauseReading, ResumeReading
  <2>. QED BY <2>1, <2>2, <2>3 DEF TypeOK, soonVars, history
<1>6. CASE Crash(e)
  <2>1. off' \in [Ends -> BOOLEAN] /\ faults' \in Nat
    BY <1>6 DEF Crash, Fault, TypeOK
  <2>2. CASE closed[e]
    BY SMTT(20), <1>6, <2>1, <2>2 DEF Crash, StaysAsItIs, TypeOK, endVars, history
  <2>3. CASE ~closed[e]
    <3>1. Becomes(e, "crash", FALSE) /\ "crash" \in Causes \ {"open"}
      BY <1>6, <2>3 DEF Crash, DropOnCrash, Causes
    <3>2. resets' \in [Ends -> Nat]
      <4>1. resets' = [resets EXCEPT ![Peer(e)] = IF closed[Peer(e)] THEN resets[Peer(e)]
                                                   ELSE resets[Peer(e)] + 1]
        BY <1>6, <2>3 DEF Crash, DropOnCrash
      <4>2. Peer(e) \in Ends /\ resets[Peer(e)] \in Nat
        BY EndsArePaired DEF TypeOK
      <4>3. (IF closed[Peer(e)] THEN resets[Peer(e)] ELSE resets[Peer(e)] + 1) \in Nat
        BY <4>2
      <4>. QED BY <4>1, <4>2, <4>3 DEF TypeOK
    <3>. QED BY <1>6, <2>1, <3>1, <3>2, BecomesIsTyped DEF Crash, Becomes, TypeOK
  <2>. QED BY <2>2, <2>3
<1>. QED BY <1>1, <1>2, <1>3, <1>4, <1>5, <1>6

\* An arrival takes the first item on its way, if there is one.
LEMMA ArriveTakes ==
  ASSUME TypeOK, NEW e \in Ends, Arrive(e), ~closed[e]
  PROVE  \E n \in 0 .. Len(pending[e]) :
           /\ inbox' = [inbox EXCEPT ![e] = inbox[e] \o SubSeq(pending[e], 1, n)]
           /\ pending' = [pending EXCEPT ![e] = SubSeq(pending[e], n + 1, Len(pending[e]))]
<1>. DEFINE n == IF pending[e] = <<>> THEN 0 ELSE 1
<1>1. /\ inbox' = [inbox EXCEPT ![e] = inbox[e] \o SubSeq(pending[e], 1, n)]
      /\ pending' = [pending EXCEPT ![e] = SubSeq(pending[e], n + 1, Len(pending[e]))]
  BY DEF Arrive
<1>2. pending[e] \in Seq(Items) /\ Len(pending[e]) \in Nat
  BY LenProperties DEF TypeOK
<1>3. n \in 0 .. Len(pending[e])
  BY <1>2, EmptySeq
<1>. QED BY <1>1, <1>3

\* A pump takes items from the front of what lies at the end, none if it is closed.
LEMMA PumpTakes ==
  ASSUME TypeOK, NEW e \in Ends, Pump(e)
  PROVE  \E n \in 0 .. Len(inbox[e]) :
           /\ got' = [got EXCEPT ![e] = got[e] \o SubSeq(inbox[e], 1, n)]
           /\ inbox' = [inbox EXCEPT ![e] = SubSeq(inbox[e], n + 1, Len(inbox[e]))]
           /\ n > 0 => ~closed[e]
           /\ \/ ~closing[e] /\ CloseEffect(e)
              \/ NoSend /\ UNCHANGED <<closing, finalizes>>
<1>1. PICK n \in Pumps(e), pauses \in BOOLEAN, keepOpen \in BOOLEAN :
        /\ got' = [got EXCEPT ![e] = got[e] \o SubSeq(inbox[e], 1, n)]
        /\ inbox' = [inbox EXCEPT ![e] = SubSeq(inbox[e], n + 1, Len(inbox[e]))]
        /\ \/ ~closing[e] /\ CloseEffect(e)
           \/ NoSend /\ UNCHANGED <<closing, finalizes>>
  BY DEF Pump
<1>2. inbox[e] \in Seq(Items) /\ Len(inbox[e]) \in Nat
  BY LenProperties DEF TypeOK
<1>3. n \in 0 .. Len(inbox[e]) /\ (n > 0 => ~closed[e])
  BY <1>2 DEF Pumps
<1>. QED BY <1>1, <1>3

\* A callback keeps the types.
LEMMA CallbackIsTyped ==
  ASSUME TypeOK, NEW e \in Ends,
         Arrive(e) \/ Pump(e) \/ Finalize(e) \/ ResetByPeer(e) \/ ConnectionLost(e)
  PROVE  TypeOK'
<1>1. CASE Arrive(e)
  <2>1. Tail(arrivals[e]) \in Seq(Nat) /\ arrivals' = [arrivals EXCEPT ![e] = Tail(arrivals[e])]
    BY <1>1, HeadTailProperties DEF Arrive, TypeOK
  <2>2. arrivals' \in [Ends -> Seq(Nat)]
    BY <2>1 DEF TypeOK
  <2>3. CASE closed[e]
    BY <1>1, <2>2, <2>3 DEF Arrive, TypeOK, history
  <2>4. CASE ~closed[e]
    <3>1. PICK n \in 0 .. Len(pending[e]) :
            /\ inbox' = [inbox EXCEPT ![e] = inbox[e] \o SubSeq(pending[e], 1, n)]
            /\ pending' = [pending EXCEPT ![e] = SubSeq(pending[e], n + 1, Len(pending[e]))]
      BY <1>1, <2>4, ArriveTakes
    <3>2. pending[e] \in Seq(Items) /\ pumpScheduled' \in [Ends -> BOOLEAN]
      BY <1>1, <2>4 DEF Arrive, TypeOK
    <3>3. /\ inbox[e] \o SubSeq(pending[e], 1, n) \in Seq(Items)
          /\ SubSeq(pending[e], n + 1, Len(pending[e])) \in Seq(Items)
      BY <3>2, SplitSeq, ConcatProperties DEF TypeOK
    <3>4. inbox' \in [Ends -> Seq(Items)] /\ pending' \in [Ends -> Seq(Items)]
      BY <3>1, <3>3 DEF TypeOK
    <3>. QED BY <1>1, <2>2, <3>2, <3>4 DEF Arrive, TypeOK, history
  <2>. QED BY <2>3, <2>4
<1>2. CASE Pump(e)
  <2>1. PICK n \in Pumps(e), pauses \in BOOLEAN, keepOpen \in BOOLEAN :
          /\ got' = [got EXCEPT ![e] = got[e] \o SubSeq(inbox[e], 1, n)]
          /\ inbox' = [inbox EXCEPT ![e] = SubSeq(inbox[e], n + 1, Len(inbox[e]))]
          /\ paused' = [paused EXCEPT ![e] = paused[e] \/ pauses]
          /\ CloseEffect(e) \/ (NoSend /\ UNCHANGED <<closing, finalizes>>)
    BY <1>2 DEF Pump
  <2>2. inbox[e] \in Seq(Items) /\ got[e] \in Seq(Items) /\ n \in 0 .. Len(inbox[e])
    <3>1. inbox[e] \in Seq(Items) /\ Len(inbox[e]) \in Nat
      BY LenProperties DEF TypeOK
    <3>. QED BY <3>1 DEF Pumps, TypeOK
  <2>3. /\ got[e] \o SubSeq(inbox[e], 1, n) \in Seq(Items)
        /\ SubSeq(inbox[e], n + 1, Len(inbox[e])) \in Seq(Items)
    BY <2>2, SplitSeq, ConcatProperties
  <2>4. got' \in [Ends -> Seq(Items)] /\ inbox' \in [Ends -> Seq(Items)]
    BY <2>1, <2>3 DEF TypeOK
  <2>5. paused' \in [Ends -> BOOLEAN] /\ pumpScheduled' \in [Ends -> BOOLEAN]
    BY <1>2, <2>1 DEF Pump, TypeOK
  <2>6. /\ sent' \in [Ends -> Seq(Items)] /\ held' \in [Ends -> Seq(Items)]
        /\ pending' \in [Ends -> Seq(Items)]
        /\ lastArrival' \in [Ends -> Nat] /\ arrivals' \in [Ends -> Seq(Nat)]
        /\ closing' \in [Ends -> BOOLEAN] /\ finalizes' \in [Ends -> BOOLEAN]
        /\ \A f \in Ends : closing[f] => closing'[f]
    BY <2>1, CloseIsTyped DEF NoSend, TypeOK
  <2>7. UNCHANGED <<now, blocked, closed, resets, losing, off, lostCalls, how, faults>>
    BY <1>2 DEF Pump
  <2>. QED BY <2>4, <2>5, <2>6, <2>7 DEF TypeOK
<1>3. CASE Finalize(e)
  <2>1. finalizes' \in [Ends -> BOOLEAN] /\ UNCHANGED <<resets, losing, off, faults>>
    BY <1>3 DEF Finalize, TypeOK
  <2>2. CASE closed[e]
    BY <1>3, <2>1, <2>2, SMTT(30) DEF Finalize, StaysAsItIs, TypeOK, endVars, history
  <2>3. CASE ~closed[e]
    <3>1. Becomes(e, "close", TRUE) /\ "close" \in Causes \ {"open"}
      BY <1>3, <2>3 DEF Finalize, Causes
    <3>. QED BY <2>1, <3>1, BecomesIsTyped DEF Becomes, TypeOK
  <2>. QED BY <2>2, <2>3
<1>4. CASE ResetByPeer(e)
  <2>1. resets' \in [Ends -> Nat] /\ UNCHANGED <<finalizes, losing, off, faults>>
    <3>1. resets' = [resets EXCEPT ![e] = resets[e] - 1] /\ resets[e] - 1 \in Nat
      BY <1>4 DEF ResetByPeer, TypeOK
    <3>. QED BY <1>4, <3>1 DEF ResetByPeer, TypeOK
  <2>2. CASE closed[e]
    BY SMTT(20), <1>4, <2>1, <2>2 DEF ResetByPeer, StaysAsItIs, TypeOK, endVars, history
  <2>3. CASE ~closed[e]
    <3>1. Becomes(e, "reset", TRUE) /\ "reset" \in Causes \ {"open"}
      BY <1>4, <2>3 DEF ResetByPeer, Causes
    <3>. QED BY <2>1, <3>1, BecomesIsTyped DEF Becomes, TypeOK
  <2>. QED BY <2>2, <2>3
<1>5. CASE ConnectionLost(e)
  <2>1. losing' \in [Ends -> BOOLEAN]
    BY <1>5 DEF ConnectionLost, TypeOK
  <2>2. lostCalls' = [lostCalls EXCEPT ![e] = lostCalls[e] + 1] /\ lostCalls[e] + 1 \in Nat
    BY <1>5 DEF ConnectionLost, TypeOK
  <2>3. lostCalls' \in [Ends -> Nat]
    BY <2>2 DEF TypeOK
  <2>. QED BY <1>5, <2>1, <2>3 DEF ConnectionLost, TypeOK, endVars
<1>. QED BY <1>1, <1>2, <1>3, <1>4, <1>5

\* Opening links moves what is held behind them to the peers, in order.
LEMMA UnblockMoves ==
  ASSUME TypeOK, NEW links \in SUBSET Ends, Unblock(links)
  PROVE  /\ lastArrival' \in [Ends -> Nat] /\ arrivals' \in [Ends -> Seq(Nat)]
         /\ pending' \in [Ends -> Seq(Items)] /\ held' \in [Ends -> Seq(Items)]
         /\ \A e \in Ends : LET n == Flushed(e, Ends \ blocked')
                            IN  /\ n \in 0 .. Len(held[e])
                                /\ held'[e] = SubSeq(held[e], n + 1, Len(held[e]))
                                /\ pending'[Peer(e)] = pending[Peer(e)] \o SubSeq(held[e], 1, n)
<1>. DEFINE F(e) == Flushed(e, Ends \ blocked')
<1>1. PICK draw :
        /\ \A e \in Ends : draw[e] \in Draws(e, F(e))
        /\ arrivals' = [e \in Ends |-> arrivals[e] \o draw[Peer(e)]]
        /\ lastArrival' = [e \in Ends |->
             IF draw[Peer(e)] = <<>> THEN lastArrival[e] ELSE draw[Peer(e)][Len(draw[Peer(e)])]]
        /\ pending' = [e \in Ends |-> pending[e] \o SubSeq(held[Peer(e)], 1, Len(draw[Peer(e)]))]
        /\ held' = [e \in Ends |-> SubSeq(held[e], Len(draw[e]) + 1, Len(held[e]))]
  BY DEF Unblock
<1>2. ASSUME NEW e \in Ends
      PROVE  F(e) \in 0 .. Len(held[e]) /\ held[e] \in Seq(Items)
  BY LenProperties DEF Flushed, TypeOK
<1>3. ASSUME NEW e \in Ends
      PROVE  draw[e] \in Seq(Nat) /\ Len(draw[e]) = F(e)
  <2>. DEFINE n == F(e)
  <2>1. n \in Nat
    <3>1. Len(held[e]) \in Nat /\ n \in 0 .. Len(held[e])
      BY <1>2, LenProperties
    <3>. HIDE DEF n
    <3>. QED BY <3>1
  <2>2. draw[e] \in [1 .. n -> now .. MaxTime]
    BY <1>1 DEF Draws
  <2>3. now .. MaxTime \subseteq Nat
    BY TransportAssumption DEF TypeOK
  <2>. HIDE DEF n
  <2>4. draw[e] \in [1 .. n -> Nat]
    BY <2>2, <2>3
  <2>5. draw[e] \in Seq(Nat) /\ Len(draw[e]) = n
    BY <2>1, <2>4
  <2>. QED BY <2>5 DEF n
<1>. HIDE DEF F
<1>4. ASSUME NEW e \in Ends
      PROVE  /\ arrivals[e] \o draw[Peer(e)] \in Seq(Nat)
             /\ draw[Peer(e)] # <<>> => draw[Peer(e)][Len(draw[Peer(e)])] \in Nat
             /\ pending[e] \o SubSeq(held[Peer(e)], 1, Len(draw[Peer(e)])) \in Seq(Items)
             /\ SubSeq(held[e], Len(draw[e]) + 1, Len(held[e])) \in Seq(Items)
  <2>1. Peer(e) \in Ends /\ draw[Peer(e)] \in Seq(Nat)
    BY <1>3, EndsArePaired
  <2>2. arrivals[e] \o draw[Peer(e)] \in Seq(Nat)
    BY <2>1, ConcatProperties DEF TypeOK
  <2>3. ASSUME draw[Peer(e)] # <<>>
        PROVE  draw[Peer(e)][Len(draw[Peer(e)])] \in Nat
    <3>1. Len(draw[Peer(e)]) \in 1 .. Len(draw[Peer(e)])
      BY <2>1, <2>3, EmptySeq
    <3>. QED BY <2>1, <3>1, ElementOfSeq
  <2>4. SubSeq(held[Peer(e)], 1, Len(draw[Peer(e)])) \in Seq(Items)
    BY <1>2, <1>3, <2>1, SplitSeq
  <2>5. pending[e] \o SubSeq(held[Peer(e)], 1, Len(draw[Peer(e)])) \in Seq(Items)
    BY <2>4, ConcatProperties DEF TypeOK
  <2>6. SubSeq(held[e], Len(draw[e]) + 1, Len(held[e])) \in Seq(Items)
    BY <1>2, <1>3, SplitSeq
  <2>. QED BY <2>2, <2>3, <2>5, <2>6
<1>5. arrivals' \in [Ends -> Seq(Nat)] /\ pending' \in [Ends -> Seq(Items)] /\ held' \in [Ends -> Seq(Items)]
  BY <1>1, <1>4
<1>6. lastArrival' \in [Ends -> Nat]
  BY <1>1, <1>4 DEF TypeOK
<1>7. ASSUME NEW e \in Ends
      PROVE  /\ F(e) \in 0 .. Len(held[e])
             /\ held'[e] = SubSeq(held[e], F(e) + 1, Len(held[e]))
             /\ pending'[Peer(e)] = pending[Peer(e)] \o SubSeq(held[e], 1, F(e))
  BY <1>1, <1>2, <1>3, EndsArePaired
<1>. QED BY <1>5, <1>6, <1>7 DEF F

\* What the network does keeps the types.
LEMMA NetworkIsTyped ==
  ASSUME TypeOK,
         \/ \E links \in SUBSET Ends : Block(links) \/ Unblock(links)
         \/ ResetConnections \/ Tick
  PROVE  TypeOK'
<1>1. ASSUME NEW links \in SUBSET Ends, Block(links)
      PROVE  TypeOK'
  <2>1. /\ blocked' \subseteq Ends /\ faults' \in Nat
        /\ UNCHANGED <<now, endVars, soonVars, off, history>>
    BY <1>1 DEF Block, Fault, TypeOK
  <2>. QED BY <2>1 DEF TypeOK, endVars, soonVars, history
<1>2. ASSUME NEW links \in SUBSET Ends, Unblock(links)
      PROVE  TypeOK'
  <2>1. /\ blocked' \subseteq Ends
        /\ UNCHANGED <<now, inbox, paused, pumpScheduled, closing, closed, finalizes, resets,
                       losing, off, history, faults>>
    BY <1>2 DEF Unblock, TypeOK
  <2>. QED BY <1>2, <2>1, UnblockMoves DEF TypeOK, history
<1>3. CASE ResetConnections
  <2>1. resets' \in [Ends -> Nat]
    BY <1>3 DEF ResetConnections, TypeOK
  <2>. QED BY <1>3, <2>1 DEF ResetConnections, Fault, TypeOK, endVars, history
<1>4. CASE Tick
  BY <1>4 DEF Tick, TypeOK, endVars, soonVars, history
<1>. QED BY <1>1, <1>2, <1>3, <1>4

LEMMA InitIsTyped == Init => TypeOK
BY EmptySeq DEF Init, TypeOK, Causes

LEMMA NextIsTyped ==
  ASSUME TypeOK, [Next]_vars
  PROVE  TypeOK'
<1>1. CASE UNCHANGED vars
  BY <1>1 DEF vars, endVars, soonVars, history, TypeOK
<1>. QED BY <1>1, ProgramIsTyped, CallbackIsTyped, NetworkIsTyped DEF Next, Callbacks, Programs

\* The connection's state is well typed in every state, and closing and its cause agree.
THEOREM TypeCorrect == Spec => []TypeOK
BY InitIsTyped, NextIsTyped, PTL DEF Spec

----------------------------------------------------------------------------
(* What a step moves.                                                      *)

\* What e has not read, or may never: what lies at e, and what lies behind it.
Behind(e) == Cat(pending[e], held[Peer(e)])

\* The stream to e, from the first item that e read to the last that was sent.
Chain(e) == Cat(Cat(got[e], inbox[e]), Behind(e))

\* What is behind both ends stays, but for what x sends.
Sends(x) ==
  LET p == Peer(x)
  IN /\ sent'[p] = sent[p] /\ Behind(x)' = Behind(x)
     /\ \/ sent'[x] = sent[x] /\ Behind(p)' = Behind(p)
        \/ \E item \in Items : /\ sent'[x] = Add(sent[x], item)
                               /\ Behind(p)' = Add(Behind(p), item)

\* What the end x may do in a step, and what it leaves to its peer.
Moves(x) ==
  LET p == Peer(x)
  IN /\ sent'[p] = sent[p] /\ got'[p] = got[p]
     /\ closing'[p] = closing[p] /\ closed'[p] = closed[p]
     /\ closing[x] => closing'[x]
     /\ closed[x] => closed'[x]
     /\ closed[x] \/ Chain(x)' = Chain(x)
     /\ \/ got'[x] = got[x]
        \/ ~closed[x] /\ \E n \in 0 .. Len(inbox[x]) : got'[x] = got[x] \o SubSeq(inbox[x], 1, n)
     /\ \/ sent'[x] = sent[x] /\ Chain(p)' = Chain(p)
        \/ ~closing[x] /\ \E item \in Items : /\ sent'[x] = Add(sent[x], item)
                                              /\ Chain(p)' = Add(Chain(p), item)

\* Sending puts the item last in the stream to the peer, behind a partition or
\* not, and moves nothing else.
LEMMA SendMoves ==
  ASSUME TypeOK, NEW x \in Ends, NEW item \in Items, Send(x, item)
  PROVE  /\ Sends(x)
         /\ sent'[x] = Add(sent[x], item)
<1>. DEFINE p == Peer(x)
<1>1. p \in Ends /\ p # x /\ Peer(p) = x
  BY EndsArePaired
<1>2. sent' = [sent EXCEPT ![x] = Append(sent[x], item)]
  BY DEF Send
<1>3. sent'[x] = Add(sent[x], item) /\ sent'[p] = sent[p]
  <2>1. sent'[x] = Append(sent[x], item) /\ sent'[p] = sent[p]
    BY <1>1, <1>2 DEF TypeOK
  <2>2. sent[x] \in Seq(Items)
    BY DEF TypeOK
  <2>. QED BY <2>1, <2>2, AddIsAppend
<1>4. pending[p] \in Seq(Items) /\ held[x] \in Seq(Items)
  BY <1>1 DEF TypeOK
<1>5. CASE held[x] # <<>> \/ x \in blocked
  <2>1. held' = [held EXCEPT ![x] = Append(held[x], item)] /\ pending' = pending
    BY <1>5 DEF Send
  <2>2. held'[x] = Add(held[x], item) /\ held'[p] = held[p]
    <3>1. held'[x] = Append(held[x], item) /\ held'[p] = held[p]
      BY <1>1, <2>1 DEF TypeOK
    <3>. QED BY <1>4, <3>1, AddIsAppend
  <2>3. Cat(pending[p], Add(held[x], item)) = Add(Cat(pending[p], held[x]), item)
    BY <1>4, CatAdd
  <2>. QED BY <1>1, <1>3, <2>1, <2>2, <2>3 DEF Sends, Behind
<1>6. CASE ~(held[x] # <<>> \/ x \in blocked)
  <2>1. pending' = [pending EXCEPT ![p] = Append(pending[p], item)] /\ held' = held
    BY <1>6 DEF Send
  <2>. HIDE DEF p
  <2>2. pending'[p] = Add(pending[p], item) /\ pending'[x] = pending[x]
    BY SMTT(20), <1>1, <1>4, <2>1, AddIsAppend DEF TypeOK, p
  <2>3. Cat(Add(pending[p], item), <<>>) = Add(Cat(pending[p], <<>>), item)
    <3>1. Add(pending[p], item) \in Seq(Items)
      BY <1>4, AddIsAppend
    <3>. QED BY <1>4, <3>1, CatEmpty
  <2>. QED BY <1>1, <1>3, <1>6, <2>1, <2>2, <2>3 DEF Sends, Behind, p
<1>. QED BY <1>5, <1>6

\* Nothing is sent.
LEMMA NoSendMoves ==
  ASSUME NEW x \in Ends, UNCHANGED <<sent, held, pending>>
  PROVE  Sends(x)
BY DEF Sends, Behind

\* Sequences that a chain is made of.
LEMMA ChainIsTyped ==
  ASSUME TypeOK, NEW e \in Ends
  PROVE  /\ got[e] \in Seq(Items) /\ inbox[e] \in Seq(Items) /\ pending[e] \in Seq(Items)
         /\ held[Peer(e)] \in Seq(Items) /\ Behind(e) \in Seq(Items)
         /\ Cat(got[e], inbox[e]) \in Seq(Items) /\ Chain(e) \in Seq(Items)
<1>1. /\ got[e] \in Seq(Items) /\ inbox[e] \in Seq(Items) /\ pending[e] \in Seq(Items)
      /\ held[Peer(e)] \in Seq(Items)
  BY EndsArePaired DEF TypeOK
<1>2. Behind(e) \in Seq(Items) /\ Cat(got[e], inbox[e]) \in Seq(Items)
  BY <1>1, CatIsTyped DEF Behind
<1>. QED BY <1>1, <1>2, CatIsTyped DEF Chain

\* An end that sends, reads what lies at it or does neither makes a move.
LEMMA SendsIsAMove ==
  ASSUME TypeOK, NEW x \in Ends, Sends(x),
         got'[Peer(x)] = got[Peer(x)], inbox'[Peer(x)] = inbox[Peer(x)],
         Cat(got'[x], inbox'[x]) = Cat(got[x], inbox[x]),
         \/ got'[x] = got[x]
         \/ ~closed[x] /\ \E n \in 0 .. Len(inbox[x]) : got'[x] = got[x] \o SubSeq(inbox[x], 1, n),
         sent'[x] # sent[x] => ~closing[x],
         closing'[Peer(x)] = closing[Peer(x)], closed'[Peer(x)] = closed[Peer(x)],
         closing[x] => closing'[x], closed[x] => closed'[x]
  PROVE  Moves(x)
<1>. DEFINE p == Peer(x)
<1>1. p \in Ends
  BY EndsArePaired
<1>2. Chain(x)' = Chain(x)
  BY DEF Sends, Chain
<1>3. CASE sent'[x] = sent[x] /\ Behind(p)' = Behind(p)
  BY <1>2, <1>3 DEF Sends, Moves, Chain
<1>4. ASSUME NEW item \in Items, sent'[x] = Add(sent[x], item), Behind(p)' = Add(Behind(p), item)
      PROVE  Moves(x)
  <2>1. Chain(p)' = Cat(Cat(got[p], inbox[p]), Add(Behind(p), item))
    BY <1>4 DEF Chain
  <2>2. Chain(p)' = Add(Chain(p), item)
    BY <1>1, <2>1, ChainIsTyped, CatAdd DEF Chain
  <2>3. sent'[x] # sent[x]
    BY <1>4, AddIsAppend DEF TypeOK
  <2>. QED BY <1>2, <1>4, <2>2, <2>3 DEF Sends, Moves
<1>. QED BY <1>3, <1>4 DEF Sends

\* A step that moves no item, opens or closes at most.
LEMMA NothingSentIsAMove ==
  ASSUME TypeOK, NEW x \in Ends, UNCHANGED <<sent, held, pending, got, inbox>>,
         closing'[Peer(x)] = closing[Peer(x)], closed'[Peer(x)] = closed[Peer(x)],
         closing[x] => closing'[x], closed[x] => closed'[x]
  PROVE  Moves(x)
BY NoSendMoves, SendsIsAMove

\* Becoming closed moves nothing.
LEMMA BecomesIsAMove ==
  ASSUME TypeOK, NEW x \in Ends, NEW cause, NEW told, Becomes(x, cause, told)
  PROVE  Moves(x)
<1>1. UNCHANGED <<sent, held, pending, got, inbox>>
  BY DEF Becomes
<1>2. Peer(x) # x /\ Peer(x) \in Ends
  BY EndsArePaired
<1>3. /\ closing'[Peer(x)] = closing[Peer(x)] /\ closed'[Peer(x)] = closed[Peer(x)]
      /\ closing'[x] /\ closed'[x]
  BY <1>2 DEF Becomes, TypeOK
<1>. QED BY <1>1, <1>3, NothingSentIsAMove

\* What close() does, by itself or when EOF is read, sends at most EOF.
LEMMA CloseSends ==
  ASSUME TypeOK, NEW x \in Ends, CloseEffect(x)
  PROVE  /\ Sends(x)
         /\ closing'[Peer(x)] = closing[Peer(x)] /\ closing'[x]
<1>1. Peer(x) # x /\ Peer(x) \in Ends /\ EOF \in Items
  BY EndsArePaired DEF EOF, Items
<1>2. closing'[Peer(x)] = closing[Peer(x)] /\ closing'[x]
  BY <1>1 DEF CloseEffect, TypeOK
<1>3. CASE NoSend
  BY <1>2, <1>3, NoSendMoves DEF NoSend
<1>4. CASE Send(x, EOF)
  BY <1>1, <1>2, <1>4, SendMoves
<1>. QED BY <1>3, <1>4 DEF CloseEffect

\* What a program does is a move of its end.
LEMMA ProgramMoves ==
  ASSUME TypeOK, NEW x \in Ends,
         \/ Write(x) \/ WriteEOF(x) \/ Close(x) \/ ForceClose(x)
         \/ PauseReading(x) \/ ResumeReading(x) \/ Crash(x)
  PROVE  Moves(x)
<1>1. CASE Write(x)
  BY <1>1, WriteSends, SendMoves, SendsIsAMove DEF Write
<1>2. CASE WriteEOF(x)
  <2>1. EOF \in Items
    BY DEF EOF, Items
  <2>. QED BY <1>2, <2>1, SendMoves, SendsIsAMove DEF WriteEOF
<1>3. CASE Close(x)
  BY <1>3, CloseSends, SendsIsAMove DEF Close
<1>4. CASE ForceClose(x)
  BY <1>4, BecomesIsAMove DEF ForceClose
<1>5. CASE PauseReading(x) \/ ResumeReading(x)
  <2>1. UNCHANGED <<sent, held, pending, got, inbox, closing, closed>>
    BY <1>5 DEF PauseReading, ResumeReading, history
  <2>. QED BY <2>1, NothingSentIsAMove
<1>6. CASE Crash(x)
  <2>1. CASE closed[x]
    BY <1>6, <2>1, NothingSentIsAMove DEF Crash, StaysAsItIs, endVars, history
  <2>2. CASE ~closed[x]
    BY <1>6, <2>2, BecomesIsAMove DEF Crash, DropOnCrash
  <2>. QED BY <2>1, <2>2
<1>. QED BY <1>1, <1>2, <1>3, <1>4, <1>5, <1>6

\* A callback is a move of its end.
LEMMA CallbackMoves ==
  ASSUME TypeOK, NEW x \in Ends,
         Arrive(x) \/ Pump(x) \/ Finalize(x) \/ ResetByPeer(x) \/ ConnectionLost(x)
  PROVE  Moves(x)
<1>. DEFINE p == Peer(x)
<1>0. p \in Ends /\ p # x /\ Peer(p) = x
  BY EndsArePaired
<1>1. CASE Arrive(x)
  <2>1. UNCHANGED <<sent, held, got, closing, closed>>
    BY <1>1 DEF Arrive, history
  <2>2. CASE closed[x]
    BY <1>1, <2>1, <2>2, NothingSentIsAMove DEF Arrive
  <2>3. CASE ~closed[x]
    <3>1. PICK n \in 0 .. Len(pending[x]) :
            /\ inbox' = [inbox EXCEPT ![x] = inbox[x] \o SubSeq(pending[x], 1, n)]
            /\ pending' = [pending EXCEPT ![x] = SubSeq(pending[x], n + 1, Len(pending[x]))]
      BY <1>1, <2>3, ArriveTakes
    <3>2. inbox'[p] = inbox[p] /\ pending'[p] = pending[p]
      BY <1>0, <3>1 DEF TypeOK
    <3>3. Chain(p)' = Chain(p)
      BY <2>1, <3>2 DEF Chain, Behind
    <3>4. Chain(x)' = Cat(Cat(got[x], Cat(inbox[x], SubSeq(pending[x], 1, n))),
                          Cat(SubSeq(pending[x], n + 1, Len(pending[x])), held[p]))
      BY <2>1, <3>1 DEF Chain, Behind, Cat, TypeOK
    <3>5. /\ got[x] \in Seq(Items) /\ inbox[x] \in Seq(Items) /\ pending[x] \in Seq(Items)
          /\ held[p] \in Seq(Items) /\ Cat(got[x], inbox[x]) \in Seq(Items)
      BY ChainIsTyped
    <3>. DEFINE first == SubSeq(pending[x], 1, n)
    <3>6. first \in Seq(Items)
      BY <3>5, SplitSeq
    <3>7. Cat(got[x], Cat(inbox[x], first)) = Cat(Cat(got[x], inbox[x]), first)
      <4>. HIDE DEF first
      <4>. QED BY <3>5, <3>6, CatAssociative
    <3>8. Cat(Cat(Cat(got[x], inbox[x]), first), Cat(SubSeq(pending[x], n + 1, Len(pending[x])), held[p]))
            = Cat(Cat(got[x], inbox[x]), Cat(pending[x], held[p]))
      BY <3>5, CatMoves
    <3>9. Chain(x)' = Chain(x)
      BY <3>4, <3>7, <3>8 DEF Chain, Behind
    <3>. QED BY <2>1, <3>3, <3>9 DEF Moves
  <2>. QED BY <2>2, <2>3
<1>2. CASE Pump(x)
  <2>1. PICK n \in 0 .. Len(inbox[x]) :
          /\ got' = [got EXCEPT ![x] = got[x] \o SubSeq(inbox[x], 1, n)]
          /\ inbox' = [inbox EXCEPT ![x] = SubSeq(inbox[x], n + 1, Len(inbox[x]))]
          /\ n > 0 => ~closed[x]
          /\ \/ ~closing[x] /\ CloseEffect(x)
             \/ NoSend /\ UNCHANGED <<closing, finalizes>>
    BY <1>2, PumpTakes
  <2>2. got[x] \in Seq(Items) /\ inbox[x] \in Seq(Items)
    BY DEF TypeOK
  <2>3. got'[p] = got[p] /\ inbox'[p] = inbox[p]
    BY <1>0, <2>1 DEF TypeOK
  <2>4. /\ got'[x] = got[x] \o SubSeq(inbox[x], 1, n)
        /\ inbox'[x] = SubSeq(inbox[x], n + 1, Len(inbox[x]))
    BY <2>1 DEF TypeOK
  <2>5. Cat(got'[x], inbox'[x]) = Cat(got[x], inbox[x])
    BY <2>2, <2>4, CatSplits DEF Cat
  <2>6. \/ got'[x] = got[x]
        \/ ~closed[x] /\ \E m \in 0 .. Len(inbox[x]) : got'[x] = got[x] \o SubSeq(inbox[x], 1, m)
    <3>1. CASE n > 0
      BY <2>1, <2>4, <3>1
    <3>2. CASE ~(n > 0)
      <4>1. n = 0 /\ SubSeq(inbox[x], 1, 0) = <<>>
        BY <2>2, <3>2, LenProperties, SubSeqEmpty
      <4>. QED BY <2>2, <2>4, <4>1, ConcatEmptySeq
    <3>. QED BY <3>1, <3>2
  <2>7. /\ Sends(x) /\ closing'[p] = closing[p]
        /\ closing[x] => closing'[x]
        /\ sent'[x] # sent[x] => ~closing[x]
    BY <2>1, CloseSends, NoSendMoves DEF NoSend
  <2>8. closed' = closed
    BY <1>2 DEF Pump
  <2>. QED BY <2>3, <2>5, <2>6, <2>7, <2>8, SendsIsAMove
<1>3. CASE Finalize(x)
  <2>1. CASE closed[x]
    BY <1>3, <2>1, NothingSentIsAMove DEF Finalize, StaysAsItIs, endVars, history
  <2>. QED BY <1>3, <2>1, BecomesIsAMove DEF Finalize
<1>4. CASE ResetByPeer(x)
  <2>1. CASE closed[x]
    BY <1>4, <2>1, NothingSentIsAMove DEF ResetByPeer, StaysAsItIs, endVars, history
  <2>. QED BY <1>4, <2>1, BecomesIsAMove DEF ResetByPeer
<1>5. CASE ConnectionLost(x)
  BY <1>5, NothingSentIsAMove DEF ConnectionLost, endVars
<1>. QED BY <1>1, <1>2, <1>3, <1>4, <1>5

\* Opening links shifts what is held to what is in flight: no stream changes.
LEMMA UnblockMovesNothing ==
  ASSUME TypeOK, NEW links \in SUBSET Ends, Unblock(links), NEW e \in Ends
  PROVE  Chain(e)' = Chain(e)
<1>. DEFINE p == Peer(e)
<1>1. p \in Ends /\ Peer(p) = e
  BY EndsArePaired
<1>2. PICK n \in 0 .. Len(held[p]) :
        /\ held'[p] = SubSeq(held[p], n + 1, Len(held[p]))
        /\ pending'[e] = pending[e] \o SubSeq(held[p], 1, n)
  <2>. DEFINE n == Flushed(p, Ends \ blocked')
  <2>1. /\ n \in 0 .. Len(held[p])
        /\ held'[p] = SubSeq(held[p], n + 1, Len(held[p]))
        /\ pending'[Peer(p)] = pending[Peer(p)] \o SubSeq(held[p], 1, n)
    BY <1>1, UnblockMoves
  <2>. HIDE DEF n
  <2>. QED BY <1>1, <2>1
<1>3. pending[e] \in Seq(Items) /\ held[p] \in Seq(Items)
  BY <1>1 DEF TypeOK
<1>4. Behind(e)' = Cat(Cat(pending[e], SubSeq(held[p], 1, n)), SubSeq(held[p], n + 1, Len(held[p])))
  BY <1>2 DEF Behind, Cat
<1>5. Behind(e)' = Behind(e)
  BY <1>3, <1>4, CatSplits DEF Behind
<1>6. got' = got /\ inbox' = inbox
  BY DEF Unblock, history
<1>. QED BY <1>5, <1>6 DEF Chain

\* What the network does moves nothing.
LEMMA NetworkMoves ==
  ASSUME TypeOK, NEW x \in Ends,
         \/ \E links \in SUBSET Ends : Block(links) \/ Unblock(links)
         \/ ResetConnections \/ Tick \/ UNCHANGED vars
  PROVE  Moves(x)
<1>1. CASE UNCHANGED <<endVars, history>>
  BY <1>1, NothingSentIsAMove DEF endVars, history
<1>2. ASSUME NEW links \in SUBSET Ends, Unblock(links)
      PROVE  Moves(x)
  <2>1. UNCHANGED <<sent, got, closing, closed>>
    BY <1>2 DEF Unblock, history
  <2>2. Peer(x) \in Ends
    BY EndsArePaired
  <2>3. Chain(x)' = Chain(x) /\ Chain(Peer(x))' = Chain(Peer(x))
    BY <1>2, <2>2, UnblockMovesNothing
  <2>. QED BY <2>1, <2>3 DEF Moves
<1>3. ASSUME NEW links \in SUBSET Ends, Block(links)
      PROVE  UNCHANGED <<endVars, history>>
  BY <1>3 DEF Block
<1>4. ASSUME ResetConnections \/ Tick \/ UNCHANGED vars
      PROVE  UNCHANGED <<endVars, history>>
  BY <1>4 DEF ResetConnections, Tick, vars
<1>. QED BY <1>1, <1>2, <1>3, <1>4

\* Every step is a move of one end.
LEMMA StepMoves ==
  ASSUME TypeOK, [Next]_vars
  PROVE  \E x \in Ends : Moves(x)
<1>1. \E x \in Ends : TRUE
  BY TransportAssumption
<1>2. CASE \E x \in Ends :
             \/ Arrive(x) \/ Pump(x) \/ Finalize(x) \/ ResetByPeer(x) \/ ConnectionLost(x)
             \/ Write(x) \/ WriteEOF(x) \/ Close(x) \/ ForceClose(x)
             \/ PauseReading(x) \/ ResumeReading(x) \/ Crash(x)
  BY <1>2, ProgramMoves, CallbackMoves
<1>3. CASE \/ \E links \in SUBSET Ends : Block(links) \/ Unblock(links)
           \/ ResetConnections \/ Tick \/ UNCHANGED vars
  BY <1>1, <1>3, NetworkMoves
<1>. QED BY <1>2, <1>3 DEF Next, Callbacks, Programs

----------------------------------------------------------------------------
(* Nothing is dropped.                                                     *)

\* The stream to a live end is what its peer sent.
InOrder == \A e \in Ends : ~closed[Peer(e)] => sent[e] = Chain(Peer(e))

\* The invariant and the property say the same of well-typed states.
LEMMA InOrderIsNothingDropped ==
  ASSUME TypeOK, InOrder
  PROVE  NothingIsDropped
<1>. SUFFICES ASSUME NEW e \in Ends, ~closed[Peer(e)]
              PROVE  sent[e] = got[Peer(e)] \o inbox[Peer(e)] \o pending[Peer(e)] \o held[e]
  BY DEF NothingIsDropped
<1>. DEFINE p == Peer(e)
<1>1. p \in Ends /\ Peer(p) = e
  BY EndsArePaired
<1>2. sent[e] = Cat(Cat(got[p], inbox[p]), Cat(pending[p], held[e]))
  BY <1>1 DEF InOrder, Chain, Behind
<1>3. Cat(got[p], inbox[p]) \in Seq(Items) /\ pending[p] \in Seq(Items) /\ held[e] \in Seq(Items)
  BY <1>1, ChainIsTyped
<1>4. sent[e] = Cat(Cat(Cat(got[p], inbox[p]), pending[p]), held[e])
  BY <1>2, <1>3, CatAssociative
<1>. QED BY <1>4 DEF Cat

\* A step keeps every stream to a live end in order.
LEMMA NextKeepsOrder ==
  ASSUME TypeOK, InOrder, [Next]_vars
  PROVE  InOrder'
<1>1. PICK x \in Ends : Moves(x)
  BY StepMoves
<1>. DEFINE p == Peer(x)
<1>2. p \in Ends /\ Peer(p) = x /\ \A f \in Ends : f = x \/ f = p
  BY EndsArePaired
<1>3. ~closed'[p] => sent'[x] = Chain(p)'
  BY <1>1, <1>2 DEF Moves, InOrder
<1>4. ~closed'[x] => sent'[p] = Chain(x)'
  BY <1>1, <1>2 DEF Moves, InOrder
<1>. QED BY <1>2, <1>3, <1>4 DEF InOrder

LEMMA InitInOrder ==
  ASSUME Init
  PROVE  InOrder
<1>1. Cat(<<>>, <<>>) = <<>>
  BY CatEmpty, EmptySeq
<1>2. \A e \in Ends : Chain(e) = <<>>
  BY <1>1, EndsArePaired DEF Init, Chain, Behind
<1>. QED BY <1>2, EndsArePaired DEF Init, InOrder

\* What an end sent is, in order and nothing twice, read, waiting, in flight or held, while its
\* peer lives.
THEOREM StreamsAreNeverTorn == Spec => []NothingIsDropped
<1>1. Init => TypeOK /\ InOrder
  BY InitIsTyped, InitInOrder
<1>2. TypeOK /\ InOrder /\ [Next]_vars => TypeOK' /\ InOrder'
  BY NextIsTyped, NextKeepsOrder
<1>3. TypeOK /\ InOrder => NothingIsDropped
  BY InOrderIsNothingDropped
<1>. QED BY <1>1, <1>2, <1>3, PTL DEF Spec

----------------------------------------------------------------------------
(* The reliable stream.                                                    *)

\* A sequence is a prefix of what it is extended to, in the abstract stream's terms.
LEMMA CatExtends ==
  ASSUME NEW S, NEW s \in Seq(S), NEW t \in Seq(S)
  PROVE  Stream!Extends(s, Cat(s, t))
<1>1. Cat(s, t) \in Seq(S) /\ Len(Cat(s, t)) = Len(s) + Len(t)
  BY ConcatProperties DEF Cat
<1>2. Len(s) \in Nat /\ Len(t) \in Nat
  BY LenProperties
<1>3. SubSeq(s \o t, 1, Len(s)) = s
  <2>1. CASE s = <<>>
    BY <1>1, <2>1, EmptySeq, SubSeqEmpty DEF Cat
  <2>2. CASE s # <<>>
    <3>1. 1 \in 1 .. Len(s) /\ Len(s) \in 1 .. Len(s)
      BY <1>2, <2>2, EmptySeq
    <3>. QED BY <3>1, SubSeqOfConcat1, SubSeqFull
  <2>. QED BY <2>1, <2>2
<1>. QED BY <1>1, <1>2, <1>3 DEF Stream!Extends, Cat

LEMMA CatExtendsTwice ==
  ASSUME NEW S, NEW s \in Seq(S), NEW a \in Seq(S), NEW b \in Seq(S), NEW u \in Seq(S)
  PROVE  Stream!Extends(Cat(s, a), Cat(Cat(Cat(s, a), b), u))
<1>1. Cat(s, a) \in Seq(S) /\ Cat(b, u) \in Seq(S)
  BY CatIsTyped
<1>2. Cat(Cat(Cat(s, a), b), u) = Cat(Cat(s, a), Cat(b, u))
  BY <1>1, CatAssociative
<1>. QED BY <1>1, <1>2, CatExtends

\* What an end reads in a step is a prefix of what its peer sent.
LEMMA ReadsWhatWasSent ==
  ASSUME TypeOK, InOrder, NEW x \in Ends, ~closed[x],
         NEW n \in 0 .. Len(inbox[x]), got'[x] = got[x] \o SubSeq(inbox[x], 1, n)
  PROVE  /\ Stream!Extends(got[x], got'[x])
         /\ Stream!Extends(got'[x], sent[Peer(x)])
<1>. DEFINE a == SubSeq(inbox[x], 1, n)
            b == SubSeq(inbox[x], n + 1, Len(inbox[x]))
<1>1. got[x] \in Seq(Items) /\ inbox[x] \in Seq(Items) /\ Behind(x) \in Seq(Items)
  BY ChainIsTyped
<1>2. a \in Seq(Items) /\ b \in Seq(Items) /\ got'[x] = Cat(got[x], a)
  BY <1>1, SplitSeq DEF Cat
<1>3. Cat(got'[x], b) = Cat(got[x], inbox[x])
  BY <1>1, <1>2, CatSplits
<1>. HIDE DEF a, b
<1>4. sent[Peer(x)] = Cat(Cat(Cat(got[x], a), b), Behind(x))
  BY <1>2, <1>3, EndsArePaired DEF InOrder, Chain
<1>5. Stream!Extends(Cat(got[x], a), sent[Peer(x)])
  BY <1>1, <1>2, <1>4, CatExtendsTwice
<1>6. Stream!Extends(got[x], got'[x])
  BY <1>1, <1>2, CatExtends
<1>. QED BY <1>2, <1>5, <1>6

\* A move of an end is a step of the abstract stream by that end.
LEMMA MoveRefines ==
  ASSUME TypeOK, InOrder, NEW x \in Ends, Moves(x)
  PROVE  Stream!Next
<1>1. Stream!Writes(x)
  <2>1. CASE sent'[x] = sent[x]
    BY <2>1 DEF Stream!Writes
  <2>2. ASSUME ~closing[x], NEW item \in Items, sent'[x] = Add(sent[x], item)
        PROVE  Stream!Writes(x)
    <3>1. sent[x] \in Seq(Items) /\ <<item>> \in Seq(Items) /\ sent'[x] = Cat(sent[x], <<item>>)
      BY <2>2 DEF TypeOK, Add
    <3>2. Stream!Extends(sent[x], sent'[x])
      BY <3>1, CatExtends
    <3>3. Len(sent'[x]) = Len(sent[x]) + 1
      <4>1. sent'[x] = Append(sent[x], item)
        BY <2>2, <3>1, AddIsAppend
      <4>. QED BY <3>1, <4>1, AppendProperties
    <3>. QED BY <2>2, <3>2, <3>3 DEF Stream!Writes
  <2>. QED BY <2>1, <2>2 DEF Moves
<1>2. Stream!Reads(x)
  <2>1. CASE got'[x] = got[x]
    BY <2>1 DEF Stream!Reads
  <2>2. ASSUME ~closed[x], NEW n \in 0 .. Len(inbox[x]), got'[x] = got[x] \o SubSeq(inbox[x], 1, n)
        PROVE  Stream!Reads(x)
    BY <2>2, ReadsWhatWasSent DEF Stream!Reads
  <2>. QED BY <2>1, <2>2 DEF Moves
<1>3. Stream!Act(x)
  BY <1>1, <1>2 DEF Stream!Act, Moves
<1>4. \A f \in Ends \ {x} : Stream!Quiet(f)
  BY EndsArePaired DEF Stream!Quiet, Moves
<1>. QED BY <1>3, <1>4 DEF Stream!Next

\* The connection implements the reliable stream, for any programs and faults.
THEOREM ConnectionIsAReliableStream == Spec => ImplementsReliableStream
<1>1. Init => TypeOK /\ InOrder /\ Stream!Init
  BY InitIsTyped, InitInOrder DEF Init, Stream!Init
<1>2. TypeOK /\ InOrder /\ [Next]_vars => TypeOK' /\ InOrder' /\ [Stream!Next]_(Stream!vars)
  BY NextIsTyped, NextKeepsOrder, StepMoves, MoveRefines
<1>. QED BY <1>1, <1>2, PTL DEF Spec, ImplementsReliableStream, Stream!Spec

----------------------------------------------------------------------------
(* The end of a connection.                                                *)

\* What becoming closed changes.
LEMMA BecomesChanges ==
  ASSUME TypeOK, NEW x \in Ends, ~closed[x], NEW cause, NEW told \in BOOLEAN, Becomes(x, cause, told)
  PROVE  /\ how[x] = "open" /\ how'[x] = cause /\ closing'[x]
         /\ told = TRUE => lostCalls'[x] = lostCalls[x] + 1
         /\ told = FALSE => lostCalls'[x] = lostCalls[x]
         /\ \A f \in Ends \ {x} : /\ how'[f] = how[f] /\ lostCalls'[f] = lostCalls[f]
                                  /\ closing'[f] = closing[f]
<1>1. lostCalls' = [lostCalls EXCEPT ![x] = IF told THEN lostCalls[x] + 1 ELSE lostCalls[x]]
  BY DEF Becomes
<1>2. lostCalls[x] \in Nat
  BY DEF TypeOK
<1>3. /\ told = TRUE => lostCalls'[x] = lostCalls[x] + 1
      /\ told = FALSE => lostCalls'[x] = lostCalls[x]
      /\ \A f \in Ends \ {x} : lostCalls'[f] = lostCalls[f]
  BY <1>1, <1>2 DEF TypeOK
<1>. QED BY <1>3 DEF Becomes, TypeOK

\* What every other step leaves alone.
LEMMA LossFrame ==
  ASSUME \/ \E x \in Ends :
              \/ Arrive(x) \/ Pump(x) \/ Write(x) \/ WriteEOF(x) \/ Close(x)
              \/ PauseReading(x) \/ ResumeReading(x)
         \/ \E links \in SUBSET Ends : Block(links) \/ Unblock(links)
         \/ ResetConnections \/ Tick \/ UNCHANGED vars
  PROVE  UNCHANGED <<lostCalls, losing, how>>
<1>1. CASE \E x \in Ends : Arrive(x) \/ Pump(x) \/ Write(x) \/ WriteEOF(x) \/ Close(x)
  BY <1>1 DEF Arrive, Pump, Write, WriteEOF, Close, history
<1>2. CASE \E x \in Ends : PauseReading(x) \/ ResumeReading(x)
  BY <1>2 DEF PauseReading, ResumeReading, history, soonVars
<1>3. CASE \E links \in SUBSET Ends : Block(links) \/ Unblock(links)
  BY <1>3 DEF Block, Unblock, history, soonVars
<1>4. CASE ResetConnections \/ Tick \/ UNCHANGED vars
  BY <1>4 DEF ResetConnections, Tick, vars, history, soonVars
<1>. QED BY <1>1, <1>2, <1>3, <1>4

\* Nothing is due to an end that is still open.
LEMMA OpenHasNoLoss ==
  ASSUME TypeOK, ConnectionLostOnce, NEW x \in Ends, ~closed[x]
  PROVE  lostCalls[x] = 0 /\ losing[x] = FALSE
<1>1. how[x] = "open" /\ lostCalls[x] \in Nat /\ losing[x] \in BOOLEAN
  BY DEF TypeOK
<1>2. lostCalls[x] + (IF losing[x] THEN 1 ELSE 0) = 0
  BY <1>1 DEF ConnectionLostOnce
<1>3. CASE losing[x]
  BY <1>1, <1>2, <1>3
<1>4. CASE ~losing[x]
  BY <1>1, <1>2, <1>4
<1>. QED BY <1>3, <1>4

\* A step of an end makes connection_lost due at most once.
LEMMA NextKeepsLoss ==
  ASSUME TypeOK, ConnectionLostOnce, [Next]_vars
  PROVE  ConnectionLostOnce'
<1>. DEFINE Due(e) == lostCalls[e] + (IF losing[e] THEN 1 ELSE 0)
            Allowed(e) == IF how[e] \in {"open", "crash"} THEN 0 ELSE 1
<1>0. /\ \A e \in Ends : lostCalls[e] \in Nat /\ Due(e) = Allowed(e)
      /\ losing \in [Ends -> BOOLEAN]
  BY DEF ConnectionLostOnce, TypeOK
<1>1. CASE UNCHANGED <<lostCalls, losing, how>>
  BY <1>1 DEF ConnectionLostOnce
<1>2. ASSUME NEW x \in Ends, ~closed[x], NEW cause \in {"close", "reset"}, Becomes(x, cause, TRUE),
             losing' = losing
      PROVE  ConnectionLostOnce'
  <2>1. lostCalls[x] = 0 /\ losing[x] = FALSE
    BY <1>2, OpenHasNoLoss
  <2>2. how'[x] = cause /\ lostCalls'[x] = 1
    <3>1. how'[x] = cause /\ lostCalls'[x] = lostCalls[x] + 1
      BY <1>2, BecomesChanges
    <3>. QED BY <2>1, <3>1
  <2>3. Due(x)' = Allowed(x)'
    BY <1>2, <2>1, <2>2
  <2>4. \A f \in Ends \ {x} : Due(f)' = Allowed(f)'
    <3>1. \A f \in Ends \ {x} : how'[f] = how[f] /\ lostCalls'[f] = lostCalls[f]
      BY <1>2, BecomesChanges
    <3>. QED BY <1>0, <1>2, <3>1
  <2>. QED BY <2>3, <2>4 DEF ConnectionLostOnce
<1>3. ASSUME NEW x \in Ends, Finalize(x) \/ ResetByPeer(x)
      PROVE  ConnectionLostOnce'
  <2>1. CASE closed[x]
    BY <1>1, <1>3, <2>1 DEF Finalize, ResetByPeer, StaysAsItIs, history
  <2>2. CASE ~closed[x]
    BY <1>2, <1>3, <2>2 DEF Finalize, ResetByPeer
  <2>. QED BY <2>1, <2>2
<1>4. ASSUME NEW x \in Ends, ForceClose(x)
      PROVE  ConnectionLostOnce'
  <2>1. /\ ~closed[x] /\ Becomes(x, "abort", FALSE)
        /\ losing' = [losing EXCEPT ![x] = TRUE]
    BY <1>4 DEF ForceClose
  <2>2. lostCalls[x] = 0 /\ how'[x] = "abort" /\ lostCalls'[x] = 0
    <3>1. lostCalls[x] = 0
      BY <2>1, OpenHasNoLoss
    <3>. QED BY <2>1, <3>1, BecomesChanges
  <2>3. losing'[x] /\ \A f \in Ends \ {x} : losing'[f] = losing[f]
    BY <1>0, <2>1
  <2>4. Due(x)' = Allowed(x)'
    BY <2>2, <2>3
  <2>5. \A f \in Ends \ {x} : Due(f)' = Allowed(f)'
    <3>1. \A f \in Ends \ {x} : how'[f] = how[f] /\ lostCalls'[f] = lostCalls[f]
      BY <2>1, BecomesChanges, Zenon
    <3>. QED BY <1>0, <2>3, <3>1
  <2>. QED BY <2>4, <2>5 DEF ConnectionLostOnce
<1>5. ASSUME NEW x \in Ends, Crash(x)
      PROVE  ConnectionLostOnce'
  <2>1. losing' = losing
    BY <1>5 DEF Crash
  <2>2. CASE closed[x]
    BY <1>1, <1>5, <2>1, <2>2 DEF Crash, StaysAsItIs, history
  <2>3. CASE ~closed[x]
    <3>1. Becomes(x, "crash", FALSE)
      BY <1>5, <2>3 DEF Crash, DropOnCrash
    <3>2. losing[x] = FALSE /\ how'[x] = "crash" /\ lostCalls'[x] = 0
      <4>1. lostCalls[x] = 0 /\ losing[x] = FALSE
        BY <2>3, OpenHasNoLoss
      <4>. QED BY <2>3, <3>1, <4>1, BecomesChanges
    <3>3. Due(x)' = Allowed(x)'
      BY <2>1, <3>2
    <3>4. \A f \in Ends \ {x} : Due(f)' = Allowed(f)'
      BY <1>0, <2>1, <2>3, <3>1, BecomesChanges
    <3>. QED BY <3>3, <3>4 DEF ConnectionLostOnce
  <2>. QED BY <2>2, <2>3
<1>6. ASSUME NEW x \in Ends, ConnectionLost(x)
      PROVE  ConnectionLostOnce'
  <2>1. /\ losing[x] /\ losing' = [losing EXCEPT ![x] = FALSE]
        /\ lostCalls' = [lostCalls EXCEPT ![x] = lostCalls[x] + 1] /\ how' = how
    BY <1>6 DEF ConnectionLost
  <2>2. /\ ~losing'[x] /\ lostCalls'[x] = lostCalls[x] + 1
        /\ \A f \in Ends \ {x} : losing'[f] = losing[f] /\ lostCalls'[f] = lostCalls[f]
    BY <1>0, <2>1 DEF TypeOK
  <2>3. \A e \in Ends : Due(e)' = Due(e) /\ Allowed(e)' = Allowed(e)
    BY <1>0, <2>1, <2>2
  <2>. QED BY <1>0, <2>3 DEF ConnectionLostOnce
<1>. QED BY <1>1, <1>3, <1>4, <1>5, <1>6, LossFrame DEF Next, Callbacks, Programs

\* Each end that closes has its connection_lost called, or scheduled by an abort,
\* exactly once; the crash of its own host alone closes an end without a call.
THEOREM LossIsToldOnce == Spec => []ConnectionLostOnce
<1>1. Init => TypeOK /\ ConnectionLostOnce
  BY InitIsTyped DEF Init, ConnectionLostOnce
<1>2. TypeOK /\ ConnectionLostOnce /\ [Next]_vars => TypeOK' /\ ConnectionLostOnce'
  BY NextIsTyped, NextKeepsLoss
<1>. QED BY <1>1, <1>2, PTL DEF Spec

----------------------------------------------------------------------------
(* The peer learns.                                                        *)

\* The end of e's stream is announced, or nobody is left to be told.
Announced(e) == closing[Peer(e)] \/ EOF \in ItemsOf(sent[e])

\* The peer of e is about to be reset, or is closing by itself.
Warned(e) == resets[Peer(e)] > 0 \/ closing[Peer(e)]

\* Who closed, or is about to, has announced it; who was reset or crashed, or is
\* about to be reset, is not the only one to know.
LearnInv ==
  \A e \in Ends : /\ finalizes[e] \/ how[e] = "close" => Announced(e)
                  /\ resets[e] > 0 \/ how[e] \in {"reset", "crash"} => Warned(e)

\* An announcement is not taken back, and a closing end stays so.
LEMMA AnnouncedStays ==
  ASSUME TypeOK, [Next]_vars, NEW e \in Ends
  PROVE  /\ closing[e] => closing'[e]
         /\ Announced(e) => Announced(e)'
<1>1. PICK x \in Ends : Moves(x)
  BY StepMoves
<1>2. Peer(e) \in Ends /\ \A f \in Ends : closing[f] => closing'[f]
  BY <1>1, EndsArePaired DEF Moves
<1>3. ItemsOf(sent[e]) \subseteq ItemsOf(sent'[e])
  <2>1. CASE sent'[e] = sent[e]
    BY <2>1
  <2>2. ASSUME NEW item \in Items, sent'[e] = Add(sent[e], item)
        PROVE  ItemsOf(sent[e]) \subseteq ItemsOf(sent'[e])
    <3>1. sent[e] \in Seq(Items) /\ <<item>> \in Seq(Items) /\ sent'[e] = sent[e] \o <<item>>
      BY <2>2 DEF Add, Cat, TypeOK
    <3>. QED BY <3>1, ConcatHasItems
  <2>. QED BY <1>1, <2>1, <2>2, EndsArePaired DEF Moves
<1>. QED BY <1>2, <1>3 DEF Announced

\* Closing is announced, by EOF unless the peer closes as well.
LEMMA ClosersAnnounce ==
  ASSUME TypeOK, NEW x \in Ends, CloseEffect(x)
  PROVE  Announced(x)'
<1>1. Peer(x) # x /\ Peer(x) \in Ends /\ EOF \in Items /\ sent[x] \in Seq(Items)
  BY EndsArePaired DEF EOF, Items, TypeOK
<1>2. CASE closing[Peer(x)]
  BY <1>1, <1>2, CloseSends DEF Announced
<1>3. CASE Send(x, EOF)
  <2>1. sent'[x] = Append(sent[x], EOF)
    BY <1>3 DEF Send, TypeOK
  <2>2. Len(sent[x]) \in Nat /\ DOMAIN sent'[x] = 1 .. Len(sent[x]) + 1 /\ sent'[x][Len(sent[x]) + 1] = EOF
    BY <1>1, <2>1, AppendProperties, LenProperties
  <2>3. Len(sent[x]) + 1 \in DOMAIN sent'[x]
    BY <2>2
  <2>4. EOF \in ItemsOf(sent'[x])
    BY <2>2, <2>3 DEF ItemsOf
  <2>. QED BY <2>4 DEF Announced
<1>. QED BY <1>2, <1>3 DEF CloseEffect

\* What the other steps leave alone.
LEMMA LearnFrame ==
  ASSUME \/ \E x \in Ends :
              \/ Arrive(x) \/ Write(x) \/ WriteEOF(x) \/ ConnectionLost(x)
              \/ PauseReading(x) \/ ResumeReading(x)
         \/ \E links \in SUBSET Ends : Block(links) \/ Unblock(links)
         \/ Tick \/ UNCHANGED vars
  PROVE  UNCHANGED <<finalizes, resets, how>>
<1>1. CASE \E x \in Ends : Arrive(x) \/ Write(x) \/ WriteEOF(x) \/ ConnectionLost(x)
  BY <1>1 DEF Arrive, Write, WriteEOF, ConnectionLost, history
<1>2. CASE \E x \in Ends : PauseReading(x) \/ ResumeReading(x)
  BY <1>2 DEF PauseReading, ResumeReading, history, soonVars
<1>3. CASE \E links \in SUBSET Ends : Block(links) \/ Unblock(links)
  BY <1>3 DEF Block, Unblock, history, soonVars
<1>4. CASE Tick \/ UNCHANGED vars
  BY <1>4 DEF Tick, vars, history, soonVars
<1>. QED BY <1>1, <1>2, <1>3, <1>4

\* Who closes does so through close(), by itself or at the EOF of its peer.
LEMMA ClosingStarts ==
  ASSUME TypeOK, [Next]_vars, NEW e \in Ends, finalizes'[e] \/ how'[e] = "close"
  PROVE  finalizes[e] \/ how[e] = "close" \/ CloseEffect(e)
<1>1. CASE UNCHANGED <<finalizes, resets, how>> \/ UNCHANGED <<finalizes, how>>
  BY <1>1
<1>2. ASSUME NEW x \in Ends, Close(x) \/ Pump(x)
      PROVE  finalizes[e] \/ how[e] = "close" \/ CloseEffect(e)
  <2>1. how' = how
    BY <1>2 DEF Close, Pump
  <2>2. CASE finalizes' = finalizes
    BY <2>1, <2>2
  <2>3. CASE CloseEffect(x)
    BY <2>1, <2>3 DEF CloseEffect, TypeOK
  <2>. QED BY <1>2, <2>2, <2>3 DEF Close, Pump
<1>3. ASSUME NEW x \in Ends, Finalize(x)
      PROVE  finalizes[e] \/ how[e] = "close"
  BY <1>3 DEF Finalize, StaysAsItIs, Becomes, history, TypeOK
<1>4. ASSUME NEW x \in Ends, ResetByPeer(x) \/ ForceClose(x) \/ Crash(x)
      PROVE  finalizes[e] \/ how[e] = "close"
  <2>1. finalizes' = finalizes
    BY <1>4 DEF ResetByPeer, ForceClose, Crash
  <2>2. CASE how' = how
    BY <2>1, <2>2
  <2>3. ASSUME NEW cause \in {"reset", "abort", "crash"}, Becomes(x, cause, TRUE) \/ Becomes(x, cause, FALSE)
        PROVE  finalizes[e] \/ how[e] = "close"
    BY <2>1, <2>3 DEF Becomes, TypeOK
  <2>. QED BY <1>4, <2>2, <2>3 DEF ResetByPeer, ForceClose, Crash, DropOnCrash, StaysAsItIs, history
<1>5. CASE ResetConnections
  BY <1>1, <1>5 DEF ResetConnections, history
<1>. QED BY <1>1, <1>2, <1>3, <1>4, <1>5, LearnFrame DEF Next, Callbacks, Programs

\* A reset that is taken closes its end.
LEMMA ResetsAreTaken ==
  ASSUME TypeOK, NEW x \in Ends, ResetByPeer(x)
  PROVE  /\ resets[x] > 0 /\ closing'[x]
         /\ \A f \in Ends \ {x} : resets'[f] = resets[f] /\ how'[f] = how[f]
<1>1. resets[x] > 0 /\ resets' = [resets EXCEPT ![x] = resets[x] - 1]
  BY DEF ResetByPeer
<1>2. \A f \in Ends \ {x} : resets'[f] = resets[f]
  BY <1>1 DEF TypeOK
<1>3. CASE closed[x]
  BY <1>1, <1>2, <1>3 DEF ResetByPeer, StaysAsItIs, endVars, history, TypeOK
<1>4. CASE ~closed[x]
  BY <1>1, <1>2, <1>4 DEF ResetByPeer, Becomes, TypeOK
<1>. QED BY <1>3, <1>4

\* A crash resets the peer, unless it is closed.
LEMMA CrashesAreTold ==
  ASSUME TypeOK, NEW x \in Ends, Crash(x)
  PROVE  /\ \A f \in Ends : resets'[f] = resets[f] \/ (resets'[f] > 0 /\ f = Peer(x))
         /\ \A f \in Ends : how'[f] = how[f] \/ f = x
         /\ UNCHANGED <<how, resets>> \/ (closing'[x] /\ (closed[Peer(x)] \/ resets'[Peer(x)] > 0))
<1>1. CASE closed[x]
  BY <1>1 DEF Crash, StaysAsItIs, history
<1>2. CASE ~closed[x]
  <2>. DEFINE p == Peer(x)
  <2>1. Becomes(x, "crash", FALSE) /\ p \in Ends
    BY <1>2, EndsArePaired DEF Crash, DropOnCrash
  <2>2. resets' = [resets EXCEPT ![p] = IF closed[p] THEN resets[p] ELSE resets[p] + 1]
    BY <1>2 DEF Crash, DropOnCrash
  <2>3. closing'[x] /\ \A f \in Ends : how'[f] = how[f] \/ f = x
    BY <2>1 DEF Becomes, TypeOK
  <2>4. resets[p] \in Nat
    BY <2>1 DEF TypeOK
  <2>. HIDE DEF p
  <2>5. CASE closed[p]
    <3>1. \A f \in Ends : resets'[f] = resets[f]
      BY <2>2, <2>5 DEF TypeOK
    <3>. QED BY <2>3, <2>5, <3>1 DEF p
  <2>6. CASE ~closed[p]
    <3>1. resets'[p] = resets[p] + 1
      BY <2>1, <2>2, <2>6 DEF TypeOK
    <3>2. \A f \in Ends : f # p => resets'[f] = resets[f]
      BY <2>2 DEF TypeOK
    <3>3. resets'[p] > 0
      BY <2>4, <3>1
    <3>. QED BY <2>3, <3>2, <3>3 DEF p
  <2>. QED BY <2>5, <2>6
<1>. QED BY <1>1, <1>2

\* A warning stays until it is taken, and then its end is closing.
LEMMA WarnedStays ==
  ASSUME TypeOK, [Next]_vars, NEW e \in Ends, Warned(e)
  PROVE  Warned(e)'
<1>. DEFINE p == Peer(e)
<1>1. p \in Ends /\ Peer(p) = e
  BY EndsArePaired
<1>2. CASE closing[p]
  BY <1>1, <1>2, AnnouncedStays DEF Warned
<1>3. CASE resets[p] > 0
  <2>1. CASE resets'[p] = resets[p] \/ resets'[p] > 0
    BY <1>3, <2>1 DEF Warned
  <2>2. ASSUME NEW x \in Ends, ResetByPeer(x)
        PROVE  Warned(e)'
    BY <1>1, <2>1, <2>2, ResetsAreTaken DEF Warned
  <2>3. ASSUME NEW x \in Ends, Crash(x)
        PROVE  Warned(e)'
    BY <1>1, <2>1, <2>3, CrashesAreTold
  <2>4. CASE ResetConnections
    <3>1. resets' = [f \in Ends |-> IF closed[f] THEN resets[f] ELSE resets[f] + 1] /\ resets[p] \in Nat
      BY <1>1, <2>4 DEF ResetConnections, TypeOK
    <3>. QED BY <1>1, <1>3, <2>1, <3>1
  <2>5. ASSUME NEW x \in Ends, Close(x) \/ Pump(x) \/ Finalize(x) \/ ForceClose(x)
        PROVE  resets' = resets
    BY <2>5 DEF Close, Pump, Finalize, ForceClose
  <2>. QED BY <2>1, <2>2, <2>3, <2>4, <2>5, LearnFrame DEF Next, Callbacks, Programs
<1>. QED BY <1>2, <1>3 DEF Warned

\* Nobody is reset, or about to be, or crashed alone: the peer is warned.
LEMMA WarningStarts ==
  ASSUME TypeOK, [Next]_vars, NEW e \in Ends, resets'[e] > 0 \/ how'[e] \in {"reset", "crash"}
  PROVE  resets[e] > 0 \/ how[e] \in {"reset", "crash"} \/ Warned(e)'
<1>. DEFINE p == Peer(e)
<1>1. p \in Ends /\ Peer(p) = e /\ \A f \in Ends : f = e \/ f = p
  BY EndsArePaired
<1>2. CASE UNCHANGED <<resets, how>>
  BY <1>2
<1>3. ASSUME NEW x \in Ends, ResetByPeer(x)
      PROVE  resets[e] > 0 \/ how[e] \in {"reset", "crash"}
  BY <1>1, <1>3, ResetsAreTaken
<1>4. ASSUME NEW x \in Ends, Crash(x)
      PROVE  resets[e] > 0 \/ how[e] \in {"reset", "crash"} \/ Warned(e)'
  <2>1. CASE UNCHANGED <<how, resets>>
    BY <1>2, <2>1
  <2>2. CASE x = p /\ closing'[x]
    BY <2>2 DEF Warned
  <2>3. CASE x = e /\ (closed[p] \/ resets'[p] > 0)
    <3>1. closed[p] => closing'[p]
      BY <1>1, AnnouncedStays DEF TypeOK
    <3>. QED BY <2>3, <3>1 DEF Warned
  <2>. QED BY <1>1, <1>4, <2>1, <2>2, <2>3, CrashesAreTold
<1>5. CASE ResetConnections
  <2>1. /\ resets' = [f \in Ends |-> IF closed[f] THEN resets[f] ELSE resets[f] + 1] /\ resets[p] \in Nat
        /\ how' = how /\ closing' = closing
    BY <1>1, <1>5 DEF ResetConnections, TypeOK, endVars, history
  <2>2. closed[p] => closing'[p]
    BY <1>1, <2>1 DEF TypeOK
  <2>3. ~closed[p] => resets'[p] > 0
    BY <1>1, <2>1
  <2>. QED BY <2>2, <2>3 DEF Warned
<1>6. ASSUME NEW x \in Ends, Close(x) \/ Pump(x)
      PROVE  UNCHANGED <<resets, how>>
  BY <1>6 DEF Close, Pump
<1>7. ASSUME NEW x \in Ends, Finalize(x) \/ ForceClose(x)
      PROVE  resets[e] > 0 \/ how[e] \in {"reset", "crash"}
  <2>1. resets' = resets
    BY <1>7 DEF Finalize, ForceClose
  <2>2. how' = how \/ how' = [how EXCEPT ![x] = "close"] \/ how' = [how EXCEPT ![x] = "abort"]
    BY <1>7 DEF Finalize, ForceClose, Becomes, StaysAsItIs, history
  <2>. QED BY <2>1, <2>2 DEF TypeOK
<1>. QED BY <1>2, <1>3, <1>4, <1>5, <1>6, <1>7, LearnFrame DEF Next, Callbacks, Programs

LEMMA NextKeepsLearning ==
  ASSUME TypeOK, LearnInv, [Next]_vars
  PROVE  LearnInv'
<1>. SUFFICES ASSUME NEW e \in Ends
              PROVE  /\ finalizes'[e] \/ how'[e] = "close" => Announced(e)'
                     /\ resets'[e] > 0 \/ how'[e] \in {"reset", "crash"} => Warned(e)'
  BY DEF LearnInv
<1>1. ASSUME finalizes'[e] \/ how'[e] = "close"
      PROVE  Announced(e)'
  <2>1. CASE finalizes[e] \/ how[e] = "close"
    BY <2>1, AnnouncedStays DEF LearnInv
  <2>2. CASE CloseEffect(e)
    BY <2>2, ClosersAnnounce
  <2>. QED BY <1>1, <2>1, <2>2, ClosingStarts
<1>2. ASSUME resets'[e] > 0 \/ how'[e] \in {"reset", "crash"}
      PROVE  Warned(e)'
  <2>1. CASE resets[e] > 0 \/ how[e] \in {"reset", "crash"}
    BY <2>1, WarnedStays DEF LearnInv
  <2>. QED BY <1>2, <2>1, WarningStarts
<1>. QED BY <1>1, <1>2

\* When an end is gone by close, crash or reset, the other learns of it, unless it
\* closes too or the end closed with its EOF held behind a partition.
THEOREM PeersLearn == Spec => []ThePeerLearns
<1>1. Init => TypeOK /\ InOrder /\ LearnInv
  BY InitIsTyped, InitInOrder DEF Init, LearnInv
<1>2. TypeOK /\ InOrder /\ LearnInv /\ [Next]_vars => TypeOK' /\ InOrder' /\ LearnInv'
  BY NextIsTyped, NextKeepsOrder, NextKeepsLearning
<1>3. TypeOK /\ InOrder /\ LearnInv => ThePeerLearns
  <2>. SUFFICES ASSUME TypeOK, InOrder, LearnInv, NEW e \in Ends, ~closing[Peer(e)],
                       how[e] \in {"close", "crash", "reset"}
                PROVE  \/ resets[Peer(e)] > 0
                       \/ EOF \in ItemsOf(got[Peer(e)] \o inbox[Peer(e)] \o pending[Peer(e)])
                       \/ how[e] = "close" /\ EOF \in ItemsOf(held[e])
    BY DEF ThePeerLearns, ItemsOf
  <2>. DEFINE p == Peer(e)
              read == got[p] \o inbox[p] \o pending[p]
  <2>1. CASE how[e] \in {"crash", "reset"}
    BY <2>1 DEF LearnInv, Warned
  <2>2. CASE how[e] = "close"
    <3>1. p \in Ends /\ ~closed[p]
      BY EndsArePaired DEF TypeOK
    <3>2. /\ got[p] \in Seq(Items) /\ inbox[p] \in Seq(Items) /\ pending[p] \in Seq(Items)
          /\ held[e] \in Seq(Items)
      BY <3>1 DEF TypeOK
    <3>3. sent[e] = read \o held[e]
      BY <3>1, InOrderIsNothingDropped DEF NothingIsDropped
    <3>4. EOF \in ItemsOf(sent[e])
      BY <2>2 DEF LearnInv, Announced
    <3>5. read \in Seq(Items)
      BY <3>2
    <3>. HIDE DEF read
    <3>6. ItemsOf(sent[e]) \subseteq ItemsOf(read) \cup ItemsOf(held[e])
      BY <3>2, <3>3, <3>5, ConcatHasOnly
    <3>. QED BY <2>2, <3>4, <3>6 DEF read
  <2>. QED BY <2>1, <2>2
<1>. QED BY <1>1, <1>2, <1>3, PTL DEF Spec
=============================================================================
