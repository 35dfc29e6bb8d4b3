-------------------------- MODULE ChoiceTapeProofs --------------------------
(***************************************************************************)
(* What the choice tape guarantees for any draw sites, any number of draws *)
(* and any number of runs.  The inductive invariant IInv is the type       *)
(* invariant, the three invariants the model checker sees, and the fact    *)
(* that a generating tape is never misaligned.                             *)
(***************************************************************************)
EXTENDS ChoiceTape, SequenceTheorems, TLAPS

\* a sequence of draws as __post_init__ admits them
IsTape(s) == s \in Seq(Draws) /\ \A i \in 1 .. Len(s) : InRange(s[i])

IInv ==
  /\ TypeOK
  /\ FollowsTheRecording
  /\ OkMeansTheSameUniverse
  /\ StrictImprovisesOnlyInTeardown
  /\ ~isReplay => misalignedAt = Nowhere

----------------------------------------------------------------------------
(* Tapes.                                                                  *)

\* Recording a draw in range keeps a tape, and what it held before.
LEMMA AppendKeepsTapes ==
  ASSUME NEW s, IsTape(s), NEW d \in Draws, InRange(d)
  PROVE  /\ IsTape(Append(s, d))
         /\ Len(Append(s, d)) = Len(s) + 1
         /\ \A i \in 1 .. Len(s) : Append(s, d)[i] = s[i]
         /\ Append(s, d)[Len(s) + 1] = d
BY AppendProperties DEF IsTape

\* What the shrinker makes of a tape is a tape.
LEMMA EditsAreTapes ==
  ASSUME NEW s, IsTape(s), NEW t \in Edits(s)
  PROVE  IsTape(t)
<1>1. CASE t = s
  BY <1>1
<1>2. ASSUME NEW i \in 1 .. Len(s), t = SubSeq(s, 1, i - 1) \o SubSeq(s, i + 1, Len(s))
      PROVE  IsTape(t)
  <2>. DEFINE a == SubSeq(s, 1, i - 1)
              b == SubSeq(s, i + 1, Len(s))
  <2>0. s \in Seq(Draws) /\ Len(s) \in Nat /\ i \in Nat
    BY LenProperties DEF IsTape
  <2>1. a \in Seq(Draws) /\ Len(a) = i - 1 /\ \A j \in 1 .. i - 1 : a[j] = s[j]
    BY <2>0, SubSeqProperties
  <2>2. b \in Seq(Draws) /\ Len(b) = Len(s) - i /\ \A j \in 1 .. Len(s) - i : b[j] = s[i + j]
    BY <2>0, SubSeqProperties
  <2>. HIDE DEF a, b
  <2>3. /\ a \o b \in Seq(Draws) /\ Len(a \o b) = Len(s) - 1
        /\ \A j \in 1 .. Len(s) - 1 :
             (a \o b)[j] = IF j <= i - 1 THEN a[j] ELSE b[j - (i - 1)]
    <3>1. /\ a \o b \in Seq(Draws) /\ Len(a \o b) = Len(a) + Len(b)
          /\ \A j \in 1 .. Len(a) + Len(b) :
               (a \o b)[j] = IF j <= Len(a) THEN a[j] ELSE b[j - Len(a)]
      BY <2>1, <2>2, ConcatProperties, Zenon
    <3>2. Len(a) + Len(b) = Len(s) - 1
      BY <2>0, <2>1, <2>2
    <3>. QED BY <2>1, <3>1, <3>2, Zenon
  <2>4. ASSUME NEW j \in 1 .. Len(s) - 1
        PROVE  InRange((a \o b)[j])
    <3>1. CASE j <= i - 1
      BY <3>1, <2>0, <2>1, <2>3 DEF IsTape
    <3>2. CASE j > i - 1
      <4>1. (a \o b)[j] = s[j + 1]
        BY <3>2, <2>0, <2>2, <2>3
      <4>. QED BY <4>1, <2>0 DEF IsTape
    <3>3. j <= i - 1 \/ j > i - 1
      BY <2>0
    <3>. QED BY <3>1, <3>2, <3>3
  <2>5. t = a \o b
    BY <1>2 DEF a, b
  <2>. QED BY <2>3, <2>4, <2>5 DEF IsTape
<1>3. ASSUME NEW i \in 1 .. Len(s), t = [s EXCEPT ![i].value = 0]
      PROVE  IsTape(t)
  <2>0. s \in Seq(Draws) /\ Len(s) \in Nat
    BY LenProperties DEF IsTape
  <2>1. s[i] \in Draws
    BY <2>0
  <2>2. [s[i] EXCEPT !.value = 0] \in Draws /\ InRange([s[i] EXCEPT !.value = 0])
    BY <2>1, TapeAssumption DEF Draws, InRange
  <2>3. t = [s EXCEPT ![i] = [s[i] EXCEPT !.value = 0]]
    BY <1>3
  <2>4. t \in Seq(Draws) /\ Len(t) = Len(s)
    BY <2>0, <2>2, <2>3, ExceptSeq
  <2>5. \A j \in 1 .. Len(s) : t[j] = IF j = i THEN [s[i] EXCEPT !.value = 0] ELSE s[j]
    BY <2>0, <2>3
  <2>. QED BY <2>2, <2>4, <2>5 DEF IsTape
<1>. QED BY <1>1, <1>2, <1>3 DEF Edits

----------------------------------------------------------------------------
(* The inductive invariant.                                                *)

\* The invariant holds when the first run starts.
LEMMA InitIInv ==
  ASSUME Init
  PROVE  IInv
<1>1. recorded = <<>> /\ draws = <<>> /\ Len(draws) = 0 /\ <<>> \in Seq(Draws)
  BY DEF Init
<1>2. isReplay = FALSE /\ isReplay \in BOOLEAN /\ refused = FALSE /\ refused \in BOOLEAN
  BY Zenon DEF Init
<1>3. TypeOK
  BY <1>1, <1>2, SMT DEF Init, TypeOK, Policies, Phases, Outcomes
<1>4. ~isReplay
  BY <1>2, Zenon
<1>5. misalignedAt = Nowhere
  BY DEF Init
<1>6. FollowsTheRecording /\ OkMeansTheSameUniverse /\ StrictImprovisesOnlyInTeardown
  BY <1>4, Zenon DEF FollowsTheRecording, OkMeansTheSameUniverse, StrictImprovisesOnlyInTeardown
<1>. QED BY <1>3, <1>5, <1>6, Zenon DEF IInv

\* A draw at a new position: the draws before it stay, the recording and the
\* verdict do not change.
LEMMA RecordStep ==
  ASSUME IInv, NEW s \in Sites, NEW v \in Nat, v < s.bound, Record(s, v),
         UNCHANGED <<isReplay, policy, recorded, runVars>>,
         \/ misalignedAt' = misalignedAt /\ (Consulting => Matches(s) /\ v = recorded[Len(draws) + 1].value)
         \/ misalignedAt' = Len(draws) /\ Consulting /\ policy = "fallback",
         Running
  PROVE  IInv'
<1>. DEFINE d == [site |-> s, value |-> v]
<1>0. IsTape(draws) /\ IsTape(recorded) /\ Len(draws) \in Nat /\ Len(recorded) \in Nat
  BY LenProperties DEF IInv, TypeOK, IsTape
<1>1. d \in Draws /\ InRange(d) /\ draws' = Append(draws, d)
  BY DEF Draws, InRange, Record
<1>. HIDE DEF d
<1>2. /\ IsTape(draws') /\ Len(draws') = Len(draws) + 1
      /\ \A i \in 1 .. Len(draws) : draws'[i] = draws[i]
      /\ draws'[Len(draws) + 1] = d
  BY <1>0, <1>1, AppendKeepsTapes
<1>3. TypeOK'
  BY <1>0, <1>2 DEF IInv, TypeOK, IsTape, runVars
<1>4. FollowsTheRecording'
  <2>. SUFFICES ASSUME isReplay' PROVE FollowsTheRecording'
    BY DEF FollowsTheRecording
  <2>0. isReplay /\ recorded' = recorded
    OBVIOUS
  <2>1. CASE misalignedAt # Nowhere
    <3>1. misalignedAt' = misalignedAt
      BY <2>1 DEF Consulting
    <3>2. /\ misalignedAt \in Nat /\ misalignedAt <= Len(draws) /\ misalignedAt <= Len(recorded)
          /\ \A i \in 1 .. misalignedAt : draws[i] = recorded[i]
      BY <2>0, <2>1 DEF IInv, TypeOK, FollowsTheRecording
    <3>. QED BY <1>0, <1>2, <2>0, <2>1, <3>1, <3>2 DEF FollowsTheRecording
  <2>2. CASE misalignedAt = Nowhere
    <3>0. Consulting
      BY <2>0, <2>2 DEF Consulting
    <3>1. Len(draws) <= Len(recorded) /\ \A i \in 1 .. Len(draws) : draws[i] = recorded[i]
      BY <2>0, <2>2 DEF IInv, FollowsTheRecording, IsPrefixOf
    <3>2. CASE misalignedAt' = Len(draws)
      <4>1. misalignedAt' # Nowhere
        BY <3>2, <1>0, TapeAssumption
      <4>. QED BY <1>0, <1>2, <2>0, <3>1, <3>2, <4>1 DEF FollowsTheRecording
    <3>3. CASE misalignedAt' = misalignedAt
      <4>1. Matches(s) /\ v = recorded[Len(draws) + 1].value
        BY <3>0, <3>3, <2>2, <1>0, TapeAssumption
      <4>2. Len(draws) < Len(recorded) /\ recorded[Len(draws) + 1].site = s
        BY <4>1 DEF Matches
      <4>3. recorded[Len(draws) + 1] \in Draws
        BY <4>2, <1>0 DEF IsTape
      <4>4. recorded[Len(draws) + 1] = d
        BY <4>1, <4>2, <4>3 DEF d, Draws
      <4>5. IsPrefixOf(draws', recorded)
        BY <1>0, <1>2, <3>1, <4>2, <4>4 DEF IsPrefixOf
      <4>. QED BY <2>0, <2>2, <3>3, <4>5 DEF FollowsTheRecording
    <3>. QED BY <3>2, <3>3
  <2>. QED BY <2>1, <2>2
<1>5. OkMeansTheSameUniverse' /\ StrictImprovisesOnlyInTeardown'
  BY DEF IInv, OkMeansTheSameUniverse, StrictImprovisesOnlyInTeardown, Running, runVars,
         Consulting
<1>6. (~isReplay => misalignedAt = Nowhere)'
  BY DEF IInv, Consulting
<1>. QED BY <1>3, <1>4, <1>5, <1>6 DEF IInv

\* The end of the main phase: the tape falls back only for a misalignment, which
\* is then the outcome.
LEMMA EndMainStep ==
  ASSUME IInv, phase = "main", NEW o \in Outcomes, EndMainWith(o),
         refused' \in BOOLEAN, refused => refused', o = "misaligned" => refused'
  PROVE  IInv'
<1>0. Len(draws) \in Nat /\ Len(recorded) \in Nat
  BY LenProperties DEF IInv, TypeOK
<1>1. \/ misalignedAt' = misalignedAt
      \/ misalignedAt' = Len(draws) /\ misalignedAt = Nowhere /\ isReplay /\ o = "misaligned"
  BY DEF EndMainWith, Consulting, FallBack
<1>2. TypeOK'
  BY <1>0, <1>1 DEF IInv, TypeOK, EndMainWith, Phases
<1>3. FollowsTheRecording'
  <2>. SUFFICES ASSUME isReplay PROVE FollowsTheRecording'
    BY DEF FollowsTheRecording, EndMainWith
  <2>1. UNCHANGED <<draws, recorded>>
    BY DEF EndMainWith
  <2>2. CASE misalignedAt' = misalignedAt
    BY <2>1, <2>2 DEF IInv, FollowsTheRecording, IsPrefixOf
  <2>3. CASE misalignedAt' = Len(draws) /\ misalignedAt = Nowhere
    <3>1. Len(draws) <= Len(recorded) /\ \A i \in 1 .. Len(draws) : draws[i] = recorded[i]
      BY <2>3 DEF IInv, FollowsTheRecording, IsPrefixOf
    <3>2. misalignedAt' # Nowhere
      BY <2>3, <1>0, TapeAssumption
    <3>. QED BY <1>0, <2>1, <2>3, <3>1, <3>2 DEF FollowsTheRecording
  <2>. QED BY <1>1, <2>2, <2>3
<1>4. OkMeansTheSameUniverse'
  BY DEF OkMeansTheSameUniverse, EndMainWith
<1>5. StrictImprovisesOnlyInTeardown'
  BY <1>1 DEF IInv, StrictImprovisesOnlyInTeardown, EndMainWith
<1>6. (~isReplay => misalignedAt = Nowhere)'
  BY <1>1 DEF IInv, EndMainWith
<1>. QED BY <1>2, <1>3, <1>4, <1>5, <1>6 DEF IInv

\* The verdict: a strict replay is judged good only if it consumed its recording.
LEMMA EndTeardownStep ==
  ASSUME IInv, phase = "teardown", NEW o \in Outcomes, EndTeardownWith(o),
         refused' \in BOOLEAN, refused => refused'
  PROVE  IInv'
<1>0. Len(draws) \in Nat /\ Len(recorded) \in Nat /\ outcome \in Outcomes
  BY LenProperties DEF IInv, TypeOK
<1>1. outcome' \in Outcomes
  BY <1>0 DEF EndTeardownWith, Verdict, Outcomes
<1>2. TypeOK'
  BY <1>1 DEF IInv, TypeOK, EndTeardownWith, tapeVars, Phases
<1>3. FollowsTheRecording'
  BY DEF IInv, FollowsTheRecording, IsPrefixOf, EndTeardownWith, tapeVars
<1>4. OkMeansTheSameUniverse'
  <2>. SUFFICES ASSUME isReplay, policy = "strict", outcome' = "ok"
                PROVE  draws = recorded
    BY DEF OkMeansTheSameUniverse, EndTeardownWith, tapeVars
  <2>1. misalignedAt = Nowhere /\ Len(draws) = Len(recorded)
    BY DEF EndTeardownWith, Verdict
  <2>2. \A i \in 1 .. Len(draws) : draws[i] = recorded[i]
    BY <2>1 DEF IInv, FollowsTheRecording, IsPrefixOf
  <2>. QED BY <2>1, <2>2, SeqEqual DEF IInv, TypeOK
<1>5. StrictImprovisesOnlyInTeardown'
  BY DEF IInv, StrictImprovisesOnlyInTeardown, EndTeardownWith, Verdict, tapeVars
<1>6. (~isReplay => misalignedAt = Nowhere)'
  BY DEF IInv, EndTeardownWith, tapeVars
<1>. QED BY <1>2, <1>3, <1>4, <1>5, <1>6 DEF IInv

\* Every step of a run, and the start of the next run, keeps the invariant.
LEMMA NextIInv ==
  ASSUME IInv, [Next]_vars
  PROVE  IInv'
<1>0. /\ IsTape(draws) /\ IsTape(recorded) /\ refused \in BOOLEAN /\ runs \in Nat
      /\ Len(draws) \in Nat
  BY LenProperties DEF IInv, TypeOK, IsTape
<1>1. ASSUME NEW s \in Sites, ReplayedDraw(s)
      PROVE  IInv'
  <2>. DEFINE v == recorded[Len(draws) + 1].value
  <2>1. Matches(s) /\ Record(s, v) /\ Running
    BY <1>1 DEF ReplayedDraw
  <2>2. recorded[Len(draws) + 1] \in Draws /\ InRange(recorded[Len(draws) + 1])
    BY <1>0, <2>1 DEF Matches, IsTape
  <2>3. v \in Nat /\ v < s.bound
    BY <2>1, <2>2 DEF Draws, InRange, Matches
  <2>4. UNCHANGED <<isReplay, policy, recorded, runVars>> /\ misalignedAt' = misalignedAt
    BY <1>1 DEF ReplayedDraw
  <2>. HIDE DEF v
  <2>5. Matches(s) /\ v = recorded[Len(draws) + 1].value
    BY <2>1 DEF v
  <2>. QED BY <2>1, <2>3, <2>4, <2>5, RecordStep
<1>2. ASSUME NEW s \in Sites, FreeDraw(s)
      PROVE  IInv'
  <2>1. PICK v \in Answers(s) : Record(s, v)
    BY <1>2 DEF FreeDraw
  <2>2. v \in Nat /\ v < s.bound
    BY <2>1, TapeAssumption DEF Answers
  <2>3. /\ UNCHANGED <<isReplay, policy, recorded, runVars>> /\ misalignedAt' = misalignedAt
        /\ ~Consulting /\ Running
    BY <1>2 DEF FreeDraw
  <2>. QED BY <2>1, <2>2, <2>3, RecordStep
<1>3. ASSUME NEW s \in Sites, DivergingDraw(s)
      PROVE  IInv'
  <2>1. PICK v \in Answers(s) : Record(s, v)
    BY <1>3 DEF DivergingDraw
  <2>2. v \in Nat /\ v < s.bound
    BY <2>1, TapeAssumption DEF Answers
  <2>3. /\ UNCHANGED <<isReplay, policy, recorded, runVars>> /\ misalignedAt' = Len(draws)
        /\ Consulting /\ Running /\ policy = "fallback"
    BY <1>3 DEF DivergingDraw, FallBack
  <2>. QED BY <2>1, <2>2, <2>3, RecordStep
<1>4. ASSUME NEW s \in Sites, RefusedDraw(s)
      PROVE  IInv'
  <2>0. refused' = TRUE /\ Consulting
    BY <1>4 DEF RefusedDraw
  <2>1. CASE UNCHANGED <<tapeVars, phase, outcome, runs>>
    <3>1. refused' \in BOOLEAN /\ refused' /\ misalignedAt = Nowhere
      BY <2>0, Zenon DEF Consulting
    <3>. QED BY <2>1, <3>1 DEF IInv, TypeOK, FollowsTheRecording, IsPrefixOf,
                 OkMeansTheSameUniverse, StrictImprovisesOnlyInTeardown, tapeVars
  <2>2. CASE phase = "main" /\ EndMainWith("misaligned")
    BY <2>0, <2>2, EndMainStep DEF Outcomes
  <2>3. CASE phase = "teardown" /\ EndTeardownWith("misaligned")
    BY <2>0, <2>3, EndTeardownStep DEF Outcomes
  <2>. QED BY <1>4, <2>1, <2>2, <2>3 DEF RefusedDraw
<1>5. CASE EndMain
  <2>1. PICK o \in Outcomes : (o = "misaligned" => refused) /\ EndMainWith(o)
    BY <1>5 DEF EndMain
  <2>2. refused' = refused /\ phase = "main"
    BY <1>5 DEF EndMain
  <2>. QED BY <1>0, <2>1, <2>2, EndMainStep
<1>6. CASE EndTeardown
  <2>1. PICK o \in {"ok", "error"} : EndTeardownWith(o)
    BY <1>6 DEF EndTeardown
  <2>2. refused' = refused /\ phase = "teardown" /\ o \in Outcomes
    BY <1>6, <2>1 DEF EndTeardown, Outcomes
  <2>. QED BY <1>0, <2>1, <2>2, EndTeardownStep
<1>7. CASE Replay
  <2>1. IsTape(recorded')
    BY <1>0, <1>7, EditsAreTapes DEF Replay
  <2>2. draws' = <<>> /\ Len(draws') = 0 /\ <<>> \in Seq(Draws)
    BY <1>7 DEF Replay
  <2>3. /\ isReplay' = TRUE /\ refused' = FALSE
        /\ isReplay' \in BOOLEAN /\ refused' \in BOOLEAN
    BY <1>7, Zenon DEF Replay
  <2>4. TypeOK'
    BY <1>0, <1>7, <2>1, <2>2, <2>3
       DEF Replay, TypeOK, IsTape, Policies, Phases, Outcomes
  <2>5. misalignedAt' = Nowhere /\ phase' = "main" /\ isReplay'
    BY <1>7 DEF Replay
  <2>6. Len(recorded') \in Nat
    BY <2>1, LenProperties DEF IsTape
  <2>7. FollowsTheRecording' /\ OkMeansTheSameUniverse' /\ StrictImprovisesOnlyInTeardown'
    BY <2>2, <2>5, <2>6 DEF FollowsTheRecording, IsPrefixOf, OkMeansTheSameUniverse,
                            StrictImprovisesOnlyInTeardown
  <2>. QED BY <2>4, <2>5, <2>7 DEF IInv
<1>8. CASE UNCHANGED vars
  BY <1>8 DEF IInv, TypeOK, FollowsTheRecording, IsPrefixOf, OkMeansTheSameUniverse,
     StrictImprovisesOnlyInTeardown, vars, tapeVars, runVars
<1>. QED BY <1>1, <1>2, <1>3, <1>4, <1>5, <1>6, <1>7, <1>8 DEF Next

----------------------------------------------------------------------------
(* Theorems.                                                               *)

\* The invariant holds throughout every sequence of runs.
THEOREM Invariance == Spec => []IInv
<1>1. Init => IInv
  BY InitIInv
<1>2. IInv /\ [Next]_vars => IInv'
  BY NextIInv
<1>. QED BY <1>1, <1>2, PTL DEF Spec

\* Every draw and every recorded draw stays in its range, whatever is replayed.
THEOREM TypeCorrect == Spec => []TypeOK
<1>1. IInv => TypeOK
  BY DEF IInv
<1>. QED BY <1>1, Invariance, PTL

\* A replay follows its recording up to the first divergence.
THEOREM ReplayFollowsTheRecording == Spec => []FollowsTheRecording
<1>1. IInv => FollowsTheRecording
  BY DEF IInv
<1>. QED BY <1>1, Invariance, PTL

\* A strict replay that ends well drew exactly what was recorded.
THEOREM OkReplayIsTheSameUniverse == Spec => []OkMeansTheSameUniverse
<1>1. IInv => OkMeansTheSameUniverse
  BY DEF IInv
<1>. QED BY <1>1, Invariance, PTL

\* A strict replay improvises only in the teardown of a misaligned run.
THEOREM StrictNeverImprovises == Spec => []StrictImprovisesOnlyInTeardown
<1>1. IInv => StrictImprovisesOnlyInTeardown
  BY DEF IInv
<1>. QED BY <1>1, Invariance, PTL

\* Within a run, a tape that fell back never returns to its recording.
THEOREM FallbackStays == Spec => FallbackIsPermanent
<1>. DEFINE A == misalignedAt # Nowhere /\ runs' = runs =>
                   misalignedAt' = misalignedAt /\ IsPrefixOf(draws, draws')
<1>1. ASSUME IInv, [Next]_vars, misalignedAt # Nowhere, runs' = runs
      PROVE  misalignedAt' = misalignedAt /\ IsPrefixOf(draws, draws')
  <2>0. IsTape(draws) /\ Len(draws) \in Nat /\ runs \in Nat
    BY <1>1, LenProperties DEF IInv, TypeOK, IsTape
  <2>1. ~Consulting
    BY <1>1 DEF Consulting
  <2>2. ASSUME NEW s \in Sites, FreeDraw(s)
        PROVE  misalignedAt' = misalignedAt /\ IsPrefixOf(draws, draws')
    <3>1. PICK v \in Answers(s) : draws' = Append(draws, [site |-> s, value |-> v])
      BY <2>2 DEF FreeDraw, Record
    <3>2. v \in Nat /\ v < s.bound
      BY <3>1, TapeAssumption DEF Answers
    <3>3. [site |-> s, value |-> v] \in Draws /\ InRange([site |-> s, value |-> v])
      BY <3>2 DEF Draws, InRange
    <3>4. Len(draws') = Len(draws) + 1 /\ \A i \in 1 .. Len(draws) : draws'[i] = draws[i]
      BY <2>0, <3>1, <3>3, AppendKeepsTapes
    <3>. QED BY <2>0, <2>2, <3>4 DEF FreeDraw, IsPrefixOf
  <2>3. CASE EndMain
    BY <2>0, <2>1, <2>3 DEF EndMain, EndMainWith, IsPrefixOf
  <2>4. CASE EndTeardown
    BY <2>0, <2>4 DEF EndTeardown, EndTeardownWith, tapeVars, IsPrefixOf
  <2>5. CASE Replay
    BY <1>1, <2>0, <2>5 DEF Replay
  <2>6. CASE UNCHANGED vars
    BY <2>0, <2>6 DEF vars, tapeVars, IsPrefixOf
  <2>. QED BY <1>1, <2>1, <2>2, <2>3, <2>4, <2>5, <2>6
           DEF Next, ReplayedDraw, DivergingDraw, RefusedDraw
<1>2. IInv /\ [Next]_vars => [A]_vars
  BY <1>1
<1>. QED BY <1>2, Invariance, PTL DEF Spec, FallbackIsPermanent
=============================================================================
