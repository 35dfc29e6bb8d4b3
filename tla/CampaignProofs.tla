--------------------------- MODULE CampaignProofs ---------------------------
(***************************************************************************)
(* What holds of the campaigns for any programs, seeds, shards and kills:  *)
(* a soak skips no seed, the failure reported is that of the lowest seed,  *)
(* systematic search runs every universe within its bounds once, and what  *)
(* is reported is minimal and can be run again.                            *)
(***************************************************************************)
EXTENDS Campaign, SequenceTheorems, FiniteSetTheorems, FunctionTheorems, WellFoundedInduction, TLAPS

Cursors == [Shard -> 0 .. Count]
SoakRange == 0 .. Shards * Count

SoakTypes ==
  /\ checkpoint \in Cursors /\ index \in Cursors
  /\ image \in [Shard -> Cursors]
  /\ soaker \in [Shard -> {"down", "run", "read", "replace", "finished"}]
  /\ ran \in [Shard -> [SoakRange -> Nat]]

\* shard k has run its first n seeds
HasRun(k, n) == \A i \in Index : i < n => ran[k][ShardSeed(k, i)] > 0

\* Cursors in the file, in a process and in the copy a process is about to write back
\* lie behind what has run; a shard runs seeds of its own.
SoakInv ==
  /\ SoakTypes
  /\ \A k \in Shard : soaker[k] = "run" => index[k] < Count
  /\ \A k \in Shard : HasRun(k, checkpoint[k]) /\ HasRun(k, index[k])
  /\ \A j, k \in Shard : HasRun(k, image[j][k])
  /\ \A k \in Shard : \A s \in SoakRange : ran[k][s] > 0 => \E i \in Index : s = ShardSeed(k, i)

----------------------------------------------------------------------------
(* The seeds of the shards.                                                *)

\* A shard's stride does not take it beyond the last seed.
LEMMA SeedsLieInRange ==
  ASSUME NEW k \in Shard, NEW i \in Index
  PROVE  ShardSeed(k, i) \in SoakRange
<1>1. Shards \in Nat /\ Count \in Nat /\ k \in Nat /\ i \in Nat /\ k + 1 <= Shards /\ i + 1 <= Count
  BY SoakAssumption DEF Shard, Index
<1>2. PICK r \in Nat : Count = i + 1 + r
  <2>1. Count - i - 1 \in Nat /\ Count = i + 1 + (Count - i - 1)
    BY <1>1
  <2>. QED BY <2>1
<1>3. Shards * Count = i * Shards + Shards + r * Shards
  BY <1>1, <1>2
<1>4. i * Shards \in Nat /\ r * Shards \in Nat /\ Shards * Count \in Nat
  BY <1>1, <1>2
<1>. QED BY <1>1, <1>3, <1>4 DEF ShardSeed, SoakRange

\* Two shards share no seed, and a shard's seeds are all different.
LEMMA SeedsAreDistinct ==
  ASSUME NEW j \in Shard, NEW k \in Shard, NEW h \in Index, NEW i \in Index,
         ShardSeed(j, h) = ShardSeed(k, i)
  PROVE  j = k /\ h = i
<1>1. /\ Shards \in Nat /\ j \in Nat /\ k \in Nat /\ h \in Nat /\ i \in Nat
      /\ j < Shards /\ k < Shards
  BY SoakAssumption DEF Shard, Index
<1>2. ASSUME NEW a \in Nat, NEW b \in Nat, a < b
      PROVE  a * Shards + Shards <= b * Shards
  <2>1. PICK r \in Nat : b = a + 1 + r
    <3>1. b - a - 1 \in Nat /\ b = a + 1 + (b - a - 1)
      BY <1>2
    <3>. QED BY <3>1
  <2>2. b * Shards = a * Shards + Shards + r * Shards
    BY <1>1, <2>1
  <2>3. r * Shards \in Nat /\ a * Shards \in Nat
    BY <1>1, <2>1
  <2>. QED BY <1>1, <2>2, <2>3
<1>3. j + h * Shards = k + i * Shards /\ h * Shards \in Nat /\ i * Shards \in Nat
  BY <1>1 DEF ShardSeed
<1>4. ~(h < i) /\ ~(i < h)
  BY <1>1, <1>2, <1>3
<1>5. h = i
  BY <1>1, <1>4
<1>. QED BY <1>1, <1>3, <1>5

----------------------------------------------------------------------------
(* Soaks.                                                                  *)

LEMMA SoakStart == SoakInit => SoakInv
<1>. SUFFICES ASSUME SoakInit PROVE SoakInv
  OBVIOUS
<1>1. Shards \in Nat /\ Count \in Nat
  BY SoakAssumption
<1>2. NoCursors \in Cursors
  BY <1>1 DEF NoCursors, Cursors
<1>3. SoakTypes
  BY <1>1, <1>2 DEF SoakInit, SoakTypes, SoakRange
<1>. QED BY <1>1, <1>3 DEF SoakInit, SoakInv, HasRun, NoCursors, Index, SoakRange

\* Nothing that has run is forgotten by a step that only moves processes and cursors.
LEMMA SoakStepKeeps ==
  ASSUME SoakInv, NEW k \in Shard, NEW stop, SoakStep(k, stop) \/ Kill(k)
  PROVE  SoakInv'
<1>0. Shards \in Nat /\ Count \in Nat /\ SoakTypes /\ 0 \in 0 .. Count /\ NoCursors \in Cursors
  BY SoakAssumption DEF SoakInv, NoCursors, Cursors
<1>1. CASE StartSoak(k)
  <2>1. SoakTypes'
    BY <1>0, <1>1 DEF StartSoak, CursorRead, SoakTypes, Cursors
  <2>. QED BY <1>0, <1>1, <2>1 DEF StartSoak, CursorRead, SoakTypes, Cursors, SoakInv, HasRun
<1>2. CASE RunSeed(k)
  <2>. DEFINE s == ShardSeed(k, index[k])
  <2>1. index[k] \in Index /\ s \in SoakRange
    BY <1>0, <1>2, SeedsLieInRange DEF RunSeed, SoakInv, SoakTypes, Cursors, Index
  <2>2. SoakTypes'
    <3>1. ran' \in [Shard -> [SoakRange -> Nat]]
      <4>1. ran[k] \in [SoakRange -> Nat] /\ ran[k][s] + 1 \in Nat
        BY <1>0, <2>1 DEF SoakTypes
      <4>2. [ran[k] EXCEPT ![s] = @ + 1] \in [SoakRange -> Nat]
        BY <4>1
      <4>3. ran' = [ran EXCEPT ![k] = [ran[k] EXCEPT ![s] = @ + 1]]
        BY <1>0, <1>2 DEF RunSeed, SoakTypes
      <4>. QED BY <1>0, <4>2, <4>3 DEF SoakTypes
    <3>2. index' \in Cursors
      BY <1>0, <1>2, <2>1 DEF RunSeed, SoakTypes, Cursors, Index
    <3>. QED BY <1>0, <1>2, <3>1, <3>2 DEF RunSeed, SoakTypes
  <2>3. /\ ran'[k][s] > 0
        /\ \A j \in Shard : \A r \in SoakRange : j # k \/ r # s => ran'[j][r] = ran[j][r]
    BY <1>0, <1>2, <2>1 DEF RunSeed, SoakTypes
  <2>4. /\ index'[k] = index[k] + 1 /\ \A j \in Shard \ {k} : index'[j] = index[j]
        /\ soaker'[k] = "read" /\ \A j \in Shard \ {k} : soaker'[j] = soaker[j]
        /\ UNCHANGED <<checkpoint, image>>
    BY <1>0, <1>2 DEF RunSeed, SoakTypes, Cursors
  <2>5. ASSUME NEW j \in Shard, NEW n \in 0 .. Count, HasRun(j, n)
        PROVE  HasRun(j, n)'
    BY <2>3, <2>5, SeedsLieInRange DEF HasRun, ShardSeed
  <2>6. HasRun(k, index[k])'
    <3>1. ASSUME NEW i \in Index, i < index[k] + 1 PROVE ran'[k][ShardSeed(k, i)] > 0
      <4>1. CASE i = index[k]
        BY <2>3, <4>1
      <4>2. CASE i < index[k]
        <5>1. ran[k][ShardSeed(k, i)] > 0
          BY <4>2 DEF SoakInv, HasRun
        <5>. QED BY <2>3, <5>1, SeedsLieInRange
      <4>. QED BY <1>0, <2>1, <3>1, <4>1, <4>2 DEF Index
    <3>. QED BY <2>4, <3>1 DEF HasRun, ShardSeed
  <2>7. \A j \in Shard : soaker'[j] = "run" => index'[j] < Count
    BY <2>4 DEF SoakInv
  <2>8. \A j \in Shard : HasRun(j, checkpoint[j])' /\ HasRun(j, index[j])'
    <3>. TAKE j \in Shard
    <3>1. HasRun(j, checkpoint[j])'
      BY <1>0, <2>4, <2>5 DEF SoakInv, SoakTypes, Cursors, HasRun
    <3>2. j # k => HasRun(j, index[j])'
      BY <1>0, <2>4, <2>5 DEF SoakInv, SoakTypes, Cursors, HasRun
    <3>. QED BY <2>6, <3>1, <3>2
  <2>9. \A h, j \in Shard : HasRun(j, image[h][j])'
    <3>. TAKE h, j \in Shard
    <3>1. image[h][j] \in 0 .. Count /\ image'[h][j] = image[h][j]
      BY <1>0, <2>4 DEF SoakTypes, Cursors
    <3>2. HasRun(j, image[h][j])
      BY DEF SoakInv
    <3>. QED BY <2>5, <3>1, <3>2 DEF HasRun
  <2>10. \A j \in Shard : \A r \in SoakRange : ran'[j][r] > 0 => \E i \in Index : r = ShardSeed(j, i)
    BY <2>1, <2>3 DEF SoakInv
  <2>. QED BY <2>2, <2>7, <2>8, <2>9, <2>10 DEF SoakInv, SoakRange, ShardSeed
<1>3. CASE ReadCheckpoint(k)
  <2>1. SoakTypes'
    BY <1>0, <1>3 DEF ReadCheckpoint, SoakTypes
  <2>. QED BY <1>0, <1>3, <2>1 DEF ReadCheckpoint, SoakTypes, SoakInv, HasRun
<1>4. CASE ReplaceCheckpoint(k, stop)
  <2>1. SoakTypes'
    BY <1>0, <1>4 DEF ReplaceCheckpoint, SoakTypes, Cursors
  <2>2. \A j \in Shard : soaker'[j] = "run" => index'[j] < Count
    BY <1>0, <1>4 DEF ReplaceCheckpoint, SoakTypes, SoakInv
  <2>3. \A j \in Shard : checkpoint'[j] \in {image[k][j], index[j]}
    BY <1>0, <1>4 DEF ReplaceCheckpoint, SoakTypes, Cursors
  <2>4. \A h, j \in Shard : image'[h][j] \in {image[h][j], 0}
    BY <1>0, <1>4 DEF ReplaceCheckpoint, SoakTypes, NoCursors
  <2>5. \A j \in Shard : HasRun(j, 0)
    BY DEF HasRun, Index
  <2>. QED BY <1>0, <1>4, <2>1, <2>2, <2>3, <2>4, <2>5 DEF ReplaceCheckpoint, SoakInv, HasRun
<1>5. CASE Kill(k)
  <2>1. SoakTypes'
    BY <1>0, <1>5 DEF Kill, SoakTypes, Cursors
  <2>2. /\ \A j \in Shard : index'[j] \in {index[j], 0}
        /\ \A h, j \in Shard : image'[h][j] \in {image[h][j], 0}
        /\ \A j \in Shard : soaker'[j] = "run" => index'[j] = index[j] /\ soaker[j] = "run"
    BY <1>0, <1>5 DEF Kill, SoakTypes, Cursors, NoCursors
  <2>3. \A j \in Shard : HasRun(j, 0)
    BY DEF HasRun, Index
  <2>. QED BY <1>0, <1>5, <2>1, <2>2, <2>3 DEF Kill, SoakInv, HasRun
<1>. QED BY <1>1, <1>2, <1>3, <1>4, <1>5 DEF SoakStep

\* All steps of a campaign but those of its soak leave the soak alone.
LEMMA CampaignStep ==
  ASSUME SoakInv, [Next]_vars
  PROVE  SoakInv'
<1>1. CASE Soaking
  BY <1>1, SoakStepKeeps DEF Soaking
<1>2. CASE UNCHANGED soakVars
  BY <1>2 DEF soakVars, SoakInv, SoakTypes, HasRun
<1>. QED BY <1>1, <1>2 DEF Next, vars, RunUniverse, TakeResult, FinishExplore, Enumerate,
                           FinishSystematic, Shrink, Report, Rerun

\* A soak that is killed and resumed skips no seed and no two shards run the same one
\* (soak, _write_cursor, shard_seed): also a cursor that another shard's write has put
\* back lies behind seeds that have run.
THEOREM NoSeedIsSkipped == Spec => []NoSeedSkipped
<1>1. Init => SoakInv
  BY SoakStart DEF Init
<1>2. SoakInv /\ [Next]_vars => SoakInv'
  BY CampaignStep
<1>3. SoakInv => NoSeedSkipped
  <2>. SUFFICES ASSUME SoakInv, NEW k \in Shard
                PROVE  /\ \A i \in Index : i < checkpoint[k] \/ i < index[k] => ran[k][ShardSeed(k, i)] > 0
                       /\ \A j \in Shard \ {k} : \A s \in Seeds : ran[k][s] > 0 => ran[j][s] = 0
    BY DEF NoSeedSkipped
  <2>1. \A i \in Index : i < checkpoint[k] \/ i < index[k] => ran[k][ShardSeed(k, i)] > 0
    BY DEF SoakInv, HasRun
  <2>2. ASSUME NEW j \in Shard \ {k}, NEW s \in Seeds, ran[k][s] > 0 PROVE ran[j][s] = 0
    <3>1. s \in SoakRange
      BY SeedsLieInRange DEF Seeds
    <3>2. ran[j][s] \in Nat
      BY <3>1 DEF SoakInv, SoakTypes
    <3>3. PICK i \in Index : s = ShardSeed(k, i)
      BY <2>2, <3>1 DEF SoakInv
    <3>4. ~(ran[j][s] > 0)
      BY <3>1, <3>3, SeedsAreDistinct DEF SoakInv
    <3>. QED BY <3>2, <3>4
  <2>. QED BY <2>1, <2>2
<1>. QED BY <1>1, <1>2, <1>3, PTL DEF Spec

----------------------------------------------------------------------------
(* The failure that is reported.                                           *)

\* While seeds are explored, the results taken are those of the first seeds, and the
\* failures are those among them; afterwards the failure of the lowest one is known.
ExploreInv ==
  /\ stage = "explore" =>
       /\ settings.mode = "explore" /\ executed \in Nat
       /\ \A s \in Nat : s < executed => s \in DOMAIN universe
       /\ failures = {s \in 0 .. executed - 1 : Failed(s)}
  /\ stage \in {"systematic", "enumerate"} => settings.mode # "explore"
  /\ LowestSeedIsReported

\* A set of naturals that is not empty has a least element, which Lowest chooses.
LEMMA LowestIsLeast ==
  ASSUME NEW S \in SUBSET Nat, S # {}
  PROVE  Lowest(S) \in S /\ \A t \in S : Lowest(S) <= t
<1>. DEFINE R == {p \in Nat \X Nat : p[1] < p[2]}
<1>1. IsWellFoundedOn(R, Nat)
  BY NatLessThanWellFounded, Zenon DEF OpToRel
<1>2. \A m, n \in Nat : ~(<<m, n>> \in R) => n <= m
  OBVIOUS
<1>. HIDE DEF R
<1>3. \E n \in S : \A m \in S : ~(<<m, n>> \in R)
  BY <1>1, WFMin
<1>4. \E n \in S : \A m \in S : n <= m
  BY <1>2, <1>3, Zenon
<1>. QED BY <1>4, Zenon DEF Lowest

LEMMA ExploreStart == Init => ExploreInv
BY DEF Init, ExploreInv, LowestSeedIsReported

\* A result is taken in its turn only.
LEMMA TakeResultStep ==
  ASSUME ExploreInv, NEW s \in 0 .. TestSeeds - 1, TakeResult(s)
  PROVE  ExploreInv'
<1>1. /\ stage = "explore" /\ UNCHANGED <<stage, settings, program, universe, failure>>
      /\ s = executed /\ s \in DOMAIN universe /\ executed' = executed + 1
  BY DEF TakeResult, Arrived, sessionVars
<1>2. /\ settings.mode = "explore" /\ executed \in Nat
      /\ \A r \in Nat : r < executed => r \in DOMAIN universe
      /\ failures = {r \in 0 .. executed - 1 : Failed(r)}
  BY <1>1 DEF ExploreInv
<1>3. failures' = IF Failed(s) THEN failures \cup {s} ELSE failures
  BY DEF TakeResult
<1>4. \A r : Failed(r)' <=> Failed(r)
  BY <1>1 DEF Failed, Target
<1>5. failures' = {r \in 0 .. executed' - 1 : Failed(r)}
  <2>1. 0 .. executed' - 1 = (0 .. executed - 1) \cup {s}
    BY <1>1, <1>2
  <2>. QED BY <1>1, <1>2, <1>3, <2>1
<1>6. \A r \in Nat : r < executed' => r \in DOMAIN universe'
  BY <1>1, <1>2
<1>. QED BY <1>1, <1>2, <1>4, <1>5, <1>6 DEF ExploreInv, LowestSeedIsReported

\* A universe that has run does not change.
LEMMA RunUniverseStep ==
  ASSUME ExploreInv, NEW s \in 0 .. TestSeeds - 1, RunUniverse(s)
  PROVE  ExploreInv'
<1>1. /\ stage = "explore" /\ UNCHANGED <<stage, settings, program, executed, failures, failure>>
      /\ \A r \in DOMAIN universe : r \in DOMAIN universe' /\ universe'[r] = universe[r]
  BY DEF RunUniverse, sessionVars
<1>2. /\ settings.mode = "explore" /\ executed \in Nat
      /\ \A r \in Nat : r < executed => r \in DOMAIN universe
      /\ failures = {r \in 0 .. executed - 1 : Failed(r)}
  BY <1>1 DEF ExploreInv
<1>3. \A r \in 0 .. executed - 1 : Failed(r)' <=> Failed(r)
  BY <1>1, <1>2 DEF Failed, Target
<1>4. failures' = {r \in 0 .. executed' - 1 : Failed(r)'}
  BY <1>1, <1>2, <1>3
<1>. QED BY <1>1, <1>2, <1>4 DEF ExploreInv, LowestSeedIsReported, Failed, Target

LEMMA FinishExploreStep ==
  ASSUME ExploreInv, FinishExplore
  PROVE  ExploreInv'
<1>1. /\ stage = "explore" /\ UNCHANGED <<settings, program, universe>>
      /\ settings.mode = "explore" /\ executed \in Nat
      /\ \A r \in Nat : r < executed => r \in DOMAIN universe
      /\ failures = {r \in 0 .. executed - 1 : Failed(r)}
  BY DEF FinishExplore, ExploreInv, exploreVars
<1>2. CASE failures = {}
  <2>1. stage' = "ended"
    BY <1>2 DEF FinishExplore, Pass
  <2>. QED BY <2>1 DEF ExploreInv, LowestSeedIsReported
<1>3. CASE failures # {}
  <2>. DEFINE l == Lowest(failures)
  <2>1. stage' \in {"shrink", "reported"} /\ failure'.seed = l
    BY <1>3 DEF FinishExplore, Witness
  <2>2. l \in failures /\ \A t \in failures : l <= t
    <3>1. failures \in SUBSET Nat
      BY <1>1
    <3>. QED BY <1>3, <3>1, LowestIsLeast
  <2>3. ASSUME NEW r \in 0 .. l - 1 PROVE r \in DOMAIN universe /\ ~Failed(r)
    <3>. HIDE DEF l
    <3>. QED BY <1>1, <2>2, <2>3
  <2>4. \A r : Failed(r)' <=> Failed(r)
    BY <1>1 DEF Failed, Target
  <2>. QED BY <1>1, <2>1, <2>3, <2>4 DEF ExploreInv, LowestSeedIsReported
<1>. QED BY <1>2, <1>3

LEMMA ExploreStep ==
  ASSUME ExploreInv, [Next]_vars
  PROVE  ExploreInv'
<1>1. CASE \E s \in 0 .. TestSeeds - 1 : RunUniverse(s) \/ TakeResult(s)
  BY <1>1, RunUniverseStep, TakeResultStep
<1>2. CASE FinishExplore
  BY <1>2, FinishExploreStep
<1>3. CASE FinishSystematic
  <2>1. settings'.mode # "explore" /\ stage' \notin {"explore", "systematic", "enumerate"}
    BY <1>3 DEF FinishSystematic, Enumerating, Witness, Pass, ExploreInv
  <2>. QED BY <2>1 DEF ExploreInv, LowestSeedIsReported
<1>4. CASE Rerun
  <2>1. stage' = "ended"
    BY <1>4 DEF Rerun
  <2>. QED BY <2>1 DEF ExploreInv, LowestSeedIsReported
<1>5. CASE Report
  <2>1. stage = "shrink" /\ stage' = "reported" /\ UNCHANGED <<settings, program, failure, universe>>
    BY <1>5 DEF Report, exploreVars
  <2>. QED BY <2>1 DEF ExploreInv, LowestSeedIsReported, Failed, Target
<1>6. CASE UNCHANGED <<program, settings, stage, failure, exploreVars>>
  BY <1>6 DEF exploreVars, ExploreInv, LowestSeedIsReported, Failed, Target
<1>. QED BY <1>1, <1>2, <1>3, <1>4, <1>5, <1>6
         DEF Next, Enumerate, Shrink, Soaking, vars, sessionVars

\* The failure that explore reports first, which is the one that is shrunk, is that of
\* the lowest seed that fails (_explore_pool, explore), in a pool as in order.
THEOREM TheLowestSeedIsReported == Spec => []LowestSeedIsReported
<1>1. Init => ExploreInv
  BY ExploreStart
<1>2. ExploreInv /\ [Next]_vars => ExploreInv'
  BY ExploreStep
<1>3. ExploreInv => LowestSeedIsReported
  BY DEF ExploreInv
<1>. QED BY <1>1, <1>2, <1>3, PTL DEF Spec

----------------------------------------------------------------------------
(* Trees of draws.                                                         *)

\* A draw has a site, and one of the values of its site.
LEMMA DrawsAreTyped ==
  ASSUME NEW d \in Seq(Draws)
  PROVE  /\ Len(d) \in Nat
         /\ \A i \in 1 .. Len(d) :
              /\ d[i] \in Draws /\ d[i] = Draw(d[i].site, d[i].value)
              /\ d[i].site \in Sites /\ d[i].value \in Nat /\ d[i].value \in Values(d[i].site)
<1>1. Len(d) \in Nat /\ \A i \in 1 .. Len(d) : d[i] \in Draws
  BY LenProperties, ElementOfSeq
<1>2. \A x \in Draws : /\ x = Draw(x.site, x.value)
                       /\ x.site \in Sites /\ x.value \in Nat /\ x.value \in Values(x.site)
  BY DEF Draws, Draw
<1>. QED BY <1>1, <1>2

\* Zero and the values below one that is drawn can be drawn too.
LEMMA ValuesGoDown ==
  ASSUME NEW s \in Sites
  PROVE  /\ 0 \in Values(s) /\ Values(s) \subseteq Nat
         /\ \A v \in Values(s) : \A w \in Nat : w <= v => w \in Values(s)
         /\ \A v \in Values(s) : Draw(s, v) \in Draws
<1>1. s.bound \in Nat \ {0}
  BY SitesAssumption
<1>2. CASE s = EntropySite
  BY <1>2 DEF Values, Draws, Draw
<1>3. CASE s # EntropySite
  BY <1>1, <1>3 DEF Values, Draws, Draw
<1>. QED BY <1>2, <1>3

\* Agreement is handed on.
LEMMA AgreementIsTransitive ==
  ASSUME NEW d \in Seq(Draws), NEW e \in Seq(Draws), NEW f \in Seq(Draws), NEW i \in Nat, NEW j \in Nat,
         AgreeUpTo(d, e, i), AgreeUpTo(e, f, j), i <= j
  PROVE  AgreeUpTo(d, f, i) /\ AgreeUpTo(e, d, i)
<1>1. Len(d) \in Nat /\ Len(e) \in Nat /\ Len(f) \in Nat
  BY DrawsAreTyped
<1>2. \A k \in 1 .. i : k \in 1 .. j
  OBVIOUS
<1>. QED BY <1>1, <1>2 DEF AgreeUpTo

\* d is a universe that tape leads to: n of its draws are answered by the tape, the rest
\* by zero.
Leads(tape, d, n, m) ==
  /\ n \in 0 .. m /\ m <= Len(d) /\ AgreeUpTo(d, tape, n)
  /\ n < m => n = Len(tape) \/ tape[n + 1].site # d[n + 1].site
  /\ \A i \in n + 1 .. m : d[i].value = 0

\* A universe that a tape leads to up to draw m can be changed behind it so that it is led to
\* one draw further.
LEMMA LeadsFurther ==
  ASSUME NEW p, IsTree(p), NEW tape \in Seq(Draws), NEW d \in DOMAIN p, NEW n \in Nat, NEW m \in Nat,
         Leads(tape, d, n, m), m < Len(d)
  PROVE  \E e \in DOMAIN p : \E k \in Nat : Leads(tape, e, k, m + 1)
<1>. DEFINE s == d[m + 1].site
<1>1. d \in Seq(Draws) /\ Len(d) \in Nat /\ Len(tape) \in Nat /\ m + 1 \in 1 .. Len(d)
  BY DrawsAreTyped DEF IsTree
<1>2. s \in Sites /\ 0 \in Values(s)
  BY <1>1, DrawsAreTyped, ValuesGoDown
<1>3. ASSUME NEW v \in Values(s)
      PROVE  \E e \in DOMAIN p : AgreeUpTo(d, e, m) /\ Len(e) >= m + 1 /\ e[m + 1] = Draw(s, v)
  <2>1. \E e \in DOMAIN p : AgreeUpTo(d, e, (m + 1) - 1) /\ Len(e) >= m + 1 /\ e[m + 1] = Draw(d[m + 1].site, v)
    BY <1>1, <1>3 DEF IsTree
  <2>. QED BY <2>1
<1>4. CASE n = m /\ m < Len(tape) /\ tape[m + 1].site = s
  <2>1. m + 1 \in 1 .. Len(tape)
    BY <1>1, <1>4
  <2>2. tape[m + 1].value \in Values(s) /\ tape[m + 1] = Draw(s, tape[m + 1].value)
    BY <1>4, <2>1, DrawsAreTyped
  <2>3. PICK e \in DOMAIN p : AgreeUpTo(d, e, m) /\ Len(e) >= m + 1 /\ e[m + 1] = tape[m + 1]
    BY <1>3, <2>2
  <2>4. Len(e) \in Nat
    BY DrawsAreTyped DEF IsTree
  <2>5. AgreeUpTo(e, tape, m + 1)
    BY <1>1, <1>4, <2>1, <2>3, <2>4 DEF AgreeUpTo, Leads
  <2>6. Leads(tape, e, m + 1, m + 1)
    BY <2>3, <2>4, <2>5 DEF Leads
  <2>. QED BY <2>6
<1>5. CASE ~(n = m /\ m < Len(tape) /\ tape[m + 1].site = s)
  <2>1. PICK e \in DOMAIN p : AgreeUpTo(d, e, m) /\ Len(e) >= m + 1 /\ e[m + 1] = Draw(s, 0)
    BY <1>2, <1>3
  <2>2. Len(e) \in Nat /\ e[m + 1].value = 0 /\ e[m + 1].site = s
    BY <2>1, DrawsAreTyped DEF IsTree, Draw
  <2>3. \A i \in 1 .. m : e[i] = d[i]
    BY <2>1 DEF AgreeUpTo
  <2>4. AgreeUpTo(e, tape, n)
    BY <1>1, <2>1, <2>2, <2>3 DEF AgreeUpTo, Leads
  <2>5. n = Len(tape) \/ tape[n + 1].site # e[n + 1].site
    <3>1. CASE n = m
      BY <1>1, <1>5, <2>2, <3>1 DEF Leads, AgreeUpTo
    <3>2. CASE n < m
      <4>1. n + 1 \in 1 .. m
        BY <3>2
      <4>. QED BY <2>3, <3>2, <4>1 DEF Leads
    <3>. QED BY <3>1, <3>2 DEF Leads
  <2>6. \A i \in n + 1 .. m + 1 : e[i].value = 0
    <3>. SUFFICES ASSUME NEW i \in n + 1 .. m + 1 PROVE e[i].value = 0
      OBVIOUS
    <3>1. CASE i = m + 1
      BY <2>2, <3>1
    <3>2. CASE i # m + 1
      <4>1. i \in n + 1 .. m /\ i \in 1 .. m
        BY <3>2
      <4>. QED BY <2>3, <4>1 DEF Leads
    <3>. QED BY <3>1, <3>2
  <2>7. Leads(tape, e, n, m + 1)
    BY <2>1, <2>2, <2>4, <2>5, <2>6 DEF Leads
  <2>. QED BY <2>7
<1>. QED BY <1>4, <1>5

\* Induction, over a set of numbers.
LEMMA SetInduction ==
  ASSUME NEW T, 0 \in T, \A n \in Nat : n \in T => n + 1 \in T
  PROVE  Nat \subseteq T
<1>. SUFFICES ASSUME Nat \ T # {} PROVE FALSE
  OBVIOUS
<1>1. PICK m \in Nat \ T : \A n \in Nat \ T : m <= n
  BY LowestIsLeast
<1>2. m - 1 \in Nat \ T
  BY <1>1
<1>. QED BY <1>1, <1>2

\* Every tape leads to a universe, all of it: replaying ends whatever is on the tape.
LEMMA EveryTapeLeads ==
  ASSUME NEW p, IsTree(p), NEW tape \in Seq(Draws)
  PROVE  /\ Realised(p, tape) \in DOMAIN p
         /\ \E n \in Nat : Leads(tape, Realised(p, tape), n, Len(Realised(p, tape)))
<1>. DEFINE T == {m \in Nat : \E d \in DOMAIN p : \E n \in Nat :
                      Leads(tape, d, n, m) \/ (Len(d) <= m /\ Leads(tape, d, n, Len(d)))}
<1>1. PICK l \in DOMAIN p : \A d \in DOMAIN p : Len(d) <= Len(l)
  BY DEF IsTree
<1>2. \A d \in DOMAIN p : Len(d) \in Nat
  BY DrawsAreTyped DEF IsTree
<1>3. 0 \in T
  <2>1. Leads(tape, l, 0, 0)
    BY <1>2, DrawsAreTyped DEF Leads, AgreeUpTo
  <2>. QED BY <2>1
<1>4. ASSUME NEW m \in Nat, m \in T
      PROVE  m + 1 \in T
  <2>1. PICK d \in DOMAIN p, n \in Nat : Leads(tape, d, n, m) \/ (Len(d) <= m /\ Leads(tape, d, n, Len(d)))
    BY <1>4
  <2>2. CASE Len(d) <= m
    <3>1. Leads(tape, d, n, Len(d))
      BY <1>2, <2>1, <2>2 DEF Leads
    <3>. QED BY <1>2, <2>2, <3>1
  <2>3. CASE ~(Len(d) <= m)
    BY <1>2, <2>1, <2>3, LeadsFurther
  <2>. QED BY <2>2, <2>3
<1>. HIDE DEF T
<1>5. Len(l) \in T
  BY <1>2, <1>3, <1>4, SetInduction
<1>6. PICK d \in DOMAIN p, n \in Nat : Leads(tape, d, n, Len(d))
  <2>1. PICK d \in DOMAIN p, n \in Nat :
          Leads(tape, d, n, Len(l)) \/ (Len(d) <= Len(l) /\ Leads(tape, d, n, Len(d)))
    BY <1>5 DEF T
  <2>2. Leads(tape, d, n, Len(d))
    BY <1>1, <1>2, <2>1 DEF Leads
  <2>. QED BY <2>2
<1>. DEFINE R(e) == \E k \in 0 .. Len(e) :
              /\ AgreeUpTo(e, tape, k)
              /\ k < Len(e) => k = Len(tape) \/ tape[k + 1].site # e[k + 1].site
              /\ \A i \in k + 1 .. Len(e) : e[i].value = 0
<1>7. R(d)
  BY <1>6 DEF Leads
<1>8. Realised(p, tape) = CHOOSE e \in DOMAIN p : R(e)
  BY DEF Realised
<1>9. Realised(p, tape) \in DOMAIN p /\ R(Realised(p, tape))
  <2>. HIDE DEF R
  <2>. QED BY <1>7, <1>8
<1>10. Len(Realised(p, tape)) \in Nat
  BY <1>2, <1>9
<1>. QED BY <1>9, <1>10 DEF Leads

----------------------------------------------------------------------------
(* The program that is explored: the entropy draw, and then its own.       *)

Cons(e, b) == <<e>> \o b

LEMMA ConsIsASequence ==
  ASSUME NEW e \in Draws, NEW b \in Seq(Draws)
  PROVE  /\ Cons(e, b) \in Seq(Draws) /\ Len(b) \in Nat /\ Len(Cons(e, b)) = Len(b) + 1
         /\ Cons(e, b)[1] = e /\ \A i \in 1 .. Len(b) : Cons(e, b)[i + 1] = b[i]
         /\ Tail(Cons(e, b)) = b
<1>1. <<e>> \in Seq(Draws) /\ Len(<<e>>) = 1 /\ <<e>>[1] = e
  OBVIOUS
<1>2. Cons(e, b) \in Seq(Draws) /\ Len(b) \in Nat /\ Len(Cons(e, b)) = Len(b) + 1
  BY <1>1, ConcatProperties, LenProperties DEF Cons
<1>3. Cons(e, b)[1] = e /\ \A i \in 1 .. Len(b) : Cons(e, b)[i + 1] = b[i]
  BY <1>1, <1>2, ConcatProperties, LenProperties DEF Cons
<1>4. Tail(Cons(e, b)) \in Seq(Draws) /\ Len(Tail(Cons(e, b))) = Len(b)
      /\ \A i \in 1 .. Len(b) : Tail(Cons(e, b))[i] = b[i]
  <2>1. Cons(e, b) # << >>
    BY <1>2
  <2>. QED BY <1>2, <1>3, <2>1, HeadTailProperties
<1>. QED BY <1>2, <1>3, <1>4, SeqEqual

\* A universe with the entropy draw is one without it, behind a draw.
LEMMA EntropyComesFirst ==
  ASSUME NEW p, IsTree(p)
  PROVE  /\ DOMAIN WithEntropy(p) \subseteq Seq(Draws)
         /\ \A d \in DOMAIN WithEntropy(p) :
              \E e \in EntropyDraws : \E b \in DOMAIN p : d = Cons(e, b)
         /\ \A e \in EntropyDraws : \A b \in DOMAIN p :
              Cons(e, b) \in DOMAIN WithEntropy(p) /\ WithEntropy(p)[Cons(e, b)] = p[b]
<1>1. EntropyDraws \subseteq Draws
  BY SitesAssumption, ValuesGoDown DEF EntropyDraws
<1>2. DOMAIN WithEntropy(p) = {Cons(e, b) : e \in EntropyDraws, b \in DOMAIN p}
  BY DEF WithEntropy, Cons
<1>3. \A d \in DOMAIN WithEntropy(p) : WithEntropy(p)[d] = p[Tail(d)]
  <2>. DEFINE S == {<<e>> \o b : e \in EntropyDraws, b \in DOMAIN p}
  <2>1. WithEntropy(p) = [d \in S |-> p[Tail(d)]]
    BY DEF WithEntropy
  <2>. HIDE DEF S
  <2>. QED BY <2>1
<1>4. DOMAIN p \subseteq Seq(Draws)
  BY DEF IsTree
<1>5. ASSUME NEW e \in EntropyDraws, NEW b \in DOMAIN p
      PROVE  Cons(e, b) \in DOMAIN WithEntropy(p) /\ Cons(e, b) \in Seq(Draws)
             /\ WithEntropy(p)[Cons(e, b)] = p[b]
  <2>1. Cons(e, b) \in DOMAIN WithEntropy(p)
    BY <1>2
  <2>2. Cons(e, b) \in Seq(Draws) /\ Tail(Cons(e, b)) = b
    BY <1>1, <1>4, ConsIsASequence
  <2>. QED BY <1>3, <2>1, <2>2
<1>6. ASSUME NEW d \in DOMAIN WithEntropy(p)
      PROVE  d \in Seq(Draws) /\ \E e \in EntropyDraws : \E b \in DOMAIN p : d = Cons(e, b)
  <2>1. PICK e \in EntropyDraws, b \in DOMAIN p : d = Cons(e, b)
    BY <1>2
  <2>2. d \in Seq(Draws)
    BY <1>5, <2>1
  <2>. QED BY <2>1, <2>2
<1>. QED BY <1>5, <1>6

LEMMA ConsAgrees ==
  ASSUME NEW e \in Draws, NEW b \in Seq(Draws), NEW f \in Draws, NEW c \in Seq(Draws), NEW i \in Nat
  PROVE  AgreeUpTo(Cons(e, b), Cons(f, c), i + 1) <=> e = f /\ AgreeUpTo(b, c, i)
<1>1. /\ Len(b) \in Nat /\ Len(c) \in Nat /\ Len(Cons(e, b)) = Len(b) + 1 /\ Len(Cons(f, c)) = Len(c) + 1
      /\ Cons(e, b)[1] = e /\ \A k \in 1 .. Len(b) : Cons(e, b)[k + 1] = b[k]
      /\ Cons(f, c)[1] = f /\ \A k \in 1 .. Len(c) : Cons(f, c)[k + 1] = c[k]
  BY ConsIsASequence
<1>2. ASSUME AgreeUpTo(Cons(e, b), Cons(f, c), i + 1) PROVE e = f /\ AgreeUpTo(b, c, i)
  <2>1. \A j \in 1 .. i + 1 : Cons(e, b)[j] = Cons(f, c)[j]
    BY <1>2 DEF AgreeUpTo
  <2>2. Len(b) >= i /\ Len(c) >= i
    BY <1>1, <1>2 DEF AgreeUpTo
  <2>3. 1 \in 1 .. i + 1 /\ \A k \in 1 .. i : k + 1 \in 1 .. i + 1 /\ k \in 1 .. Len(b) /\ k \in 1 .. Len(c)
    BY <1>1, <2>2
  <2>. QED BY <1>1, <2>1, <2>2, <2>3 DEF AgreeUpTo
<1>3. ASSUME e = f, AgreeUpTo(b, c, i) PROVE AgreeUpTo(Cons(e, b), Cons(f, c), i + 1)
  <2>1. Len(b) >= i /\ Len(c) >= i /\ \A k \in 1 .. i : b[k] = c[k]
    BY <1>3 DEF AgreeUpTo
  <2>2. ASSUME NEW j \in 1 .. i + 1 PROVE Cons(e, b)[j] = Cons(f, c)[j]
    <3>1. CASE j = 1
      BY <1>1, <1>3, <3>1
    <3>2. CASE j # 1
      <4>1. j - 1 \in 1 .. i /\ j - 1 \in 1 .. Len(b) /\ j - 1 \in 1 .. Len(c) /\ j = (j - 1) + 1
        BY <1>1, <2>1, <3>2
      <4>2. Cons(e, b)[(j - 1) + 1] = b[j - 1] /\ Cons(f, c)[(j - 1) + 1] = c[j - 1] /\ b[j - 1] = c[j - 1]
        BY <1>1, <2>1, <4>1
      <4>. QED BY <4>1, <4>2
    <3>. QED BY <3>1, <3>2
  <2>. QED BY <1>1, <2>1, <2>2 DEF AgreeUpTo
<1>. QED BY <1>2, <1>3

\* A program is a tree with the entropy draw as without it.
LEMMA SeededIsTree ==
  ASSUME NEW p \in Programs, NEW r
  PROVE  IsTree(Seeded(p, r))
<1>0. IsTree(p)
  BY ProgramsAreTrees
<1>1. CASE ~r
  BY <1>0, <1>1 DEF Seeded
<1>2. CASE r
  <2>. DEFINE q == WithEntropy(p)
  <2>0. EntropyDraws \subseteq Draws /\ Draw(EntropySite, 0) \in EntropyDraws
    BY SitesAssumption, ValuesGoDown DEF EntropyDraws
  <2>1. /\ DOMAIN q \subseteq Seq(Draws) /\ DOMAIN p \subseteq Seq(Draws)
        /\ \A d \in DOMAIN q : \E e \in EntropyDraws : \E b \in DOMAIN p : d = Cons(e, b)
        /\ \A e \in EntropyDraws : \A b \in DOMAIN p : Cons(e, b) \in DOMAIN q
    BY <1>0, EntropyComesFirst DEF IsTree
  <2>. HIDE DEF q
  <2>2. \E e \in DOMAIN q : \A d \in DOMAIN q : Len(d) <= Len(e)
    <3>1. PICK l \in DOMAIN p : \A b \in DOMAIN p : Len(b) <= Len(l)
      BY <1>0 DEF IsTree
    <3>. DEFINE c == Cons(Draw(EntropySite, 0), l)
    <3>2. c \in DOMAIN q /\ Len(c) = Len(l) + 1 /\ Len(l) \in Nat
      BY <2>0, <2>1, <3>1, ConsIsASequence
    <3>3. ASSUME NEW d \in DOMAIN q PROVE Len(d) <= Len(c)
      <4>1. PICK e \in EntropyDraws, b \in DOMAIN p : d = Cons(e, b)
        BY <2>1
      <4>2. Len(d) = Len(b) + 1 /\ Len(b) \in Nat
        BY <2>0, <2>1, <4>1, ConsIsASequence
      <4>3. Len(b) <= Len(l)
        BY <3>1
      <4>. HIDE DEF c
      <4>. QED BY <3>2, <4>2, <4>3
    <3>. QED BY <3>2, <3>3
  <2>3. ASSUME NEW d \in DOMAIN q, NEW i \in 1 .. Len(d), NEW v \in Values(d[i].site)
        PROVE  \E x \in DOMAIN q : AgreeUpTo(d, x, i - 1) /\ Len(x) >= i /\ x[i] = Draw(d[i].site, v)
    <3>1. PICK e \in EntropyDraws, b \in DOMAIN p : d = Cons(e, b)
      BY <2>1
    <3>2. /\ e \in Draws /\ b \in Seq(Draws) /\ Len(b) \in Nat /\ Len(d) = Len(b) + 1 /\ d[1] = e
          /\ \A k \in 1 .. Len(b) : d[k + 1] = b[k]
      <4>1. e \in Draws /\ b \in Seq(Draws)
        BY <2>0, <2>1
      <4>. QED BY <3>1, <4>1, ConsIsASequence
    <3>3. CASE i = 1
      <4>. DEFINE f == Draw(EntropySite, v)
      <4>1. e.site = EntropySite
        BY DEF EntropyDraws, Draw
      <4>2. f \in EntropyDraws
        BY <3>2, <3>3, <4>1 DEF EntropyDraws
      <4>3. Cons(f, b) \in DOMAIN q /\ Len(Cons(f, b)) = Len(b) + 1 /\ Cons(f, b)[1] = f
        BY <2>0, <2>1, <4>2, ConsIsASequence
      <4>4. AgreeUpTo(d, Cons(f, b), i - 1)
        <5>. HIDE DEF f
        <5>. QED BY <3>2, <3>3, <4>3 DEF AgreeUpTo
      <4>5. Cons(f, b)[i] = Draw(d[i].site, v) /\ Len(Cons(f, b)) >= i
        BY <3>2, <3>3, <4>1, <4>3
      <4>. QED BY <4>3, <4>4, <4>5
    <3>4. CASE i # 1
      <4>1. i - 1 \in 1 .. Len(b) /\ (i - 1) + 1 = i /\ (i - 1) - 1 \in Nat /\ ((i - 1) - 1) + 1 = i - 1
        BY <3>2, <3>4
      <4>2. d[i] = b[i - 1]
        BY <3>2, <4>1
      <4>3. PICK c \in DOMAIN p : /\ AgreeUpTo(b, c, (i - 1) - 1) /\ Len(c) >= i - 1
                                  /\ c[i - 1] = Draw(b[i - 1].site, v)
        BY <1>0, <4>1, <4>2 DEF IsTree
      <4>4. c \in Seq(Draws) /\ Cons(e, c) \in DOMAIN q /\ Len(c) \in Nat /\ Len(Cons(e, c)) = Len(c) + 1
            /\ \A k \in 1 .. Len(c) : Cons(e, c)[k + 1] = c[k]
        BY <2>1, <3>2, ConsIsASequence
      <4>5. AgreeUpTo(d, Cons(e, c), i - 1)
        <5>1. AgreeUpTo(Cons(e, b), Cons(e, c), ((i - 1) - 1) + 1)
          BY <3>2, <4>1, <4>3, <4>4, ConsAgrees
        <5>. QED BY <3>1, <4>1, <5>1
      <4>6. i - 1 \in 1 .. Len(c) /\ Len(Cons(e, c)) >= i
        BY <4>1, <4>3, <4>4
      <4>7. Cons(e, c)[i] = Draw(d[i].site, v)
        BY <4>1, <4>2, <4>3, <4>4, <4>6
      <4>. QED BY <4>4, <4>5, <4>6, <4>7
    <3>. QED BY <3>3, <3>4
  <2>4. ASSUME NEW d \in DOMAIN q, NEW x \in DOMAIN q, NEW i \in 1 .. Len(d), AgreeUpTo(d, x, i - 1)
        PROVE  Len(x) >= i /\ x[i].site = d[i].site
    <3>1. PICK e \in EntropyDraws, b \in DOMAIN p : d = Cons(e, b)
      BY <2>1
    <3>2. PICK f \in EntropyDraws, c \in DOMAIN p : x = Cons(f, c)
      BY <2>1
    <3>3. /\ e \in Draws /\ b \in Seq(Draws) /\ Len(b) \in Nat /\ Len(d) = Len(b) + 1 /\ d[1] = e
          /\ \A k \in 1 .. Len(b) : d[k + 1] = b[k]
      <4>1. e \in Draws /\ b \in Seq(Draws)
        BY <2>0, <2>1
      <4>. QED BY <3>1, <4>1, ConsIsASequence
    <3>4. /\ f \in Draws /\ c \in Seq(Draws) /\ Len(c) \in Nat /\ Len(x) = Len(c) + 1 /\ x[1] = f
          /\ \A k \in 1 .. Len(c) : x[k + 1] = c[k]
      <4>1. f \in Draws /\ c \in Seq(Draws)
        BY <2>0, <2>1
      <4>. QED BY <3>2, <4>1, ConsIsASequence
    <3>5. CASE i = 1
      <4>1. e.site = EntropySite /\ f.site = EntropySite
        BY DEF EntropyDraws, Draw
      <4>. QED BY <3>3, <3>4, <3>5, <4>1
    <3>6. CASE i # 1
      <4>1. i - 1 \in 1 .. Len(b) /\ (i - 1) + 1 = i /\ (i - 1) - 1 \in Nat /\ ((i - 1) - 1) + 1 = i - 1
        BY <3>3, <3>6
      <4>2. AgreeUpTo(Cons(e, b), Cons(f, c), ((i - 1) - 1) + 1)
        BY <2>4, <3>1, <3>2, <4>1
      <4>3. AgreeUpTo(b, c, (i - 1) - 1)
        BY <3>3, <3>4, <4>1, <4>2, ConsAgrees
      <4>4. Len(c) >= i - 1 /\ c[i - 1].site = b[i - 1].site
        BY <1>0, <4>1, <4>3 DEF IsTree
      <4>5. i - 1 \in 1 .. Len(c) /\ Len(x) >= i
        BY <3>4, <4>1, <4>4
      <4>6. d[i] = b[i - 1] /\ x[i] = c[i - 1]
        BY <3>3, <3>4, <4>1, <4>5
      <4>. QED BY <4>4, <4>5, <4>6
    <3>. QED BY <3>5, <3>6
  <2>5. IsTree(q)
    BY <2>1, <2>2, <2>3, <2>4 DEF IsTree
  <2>. QED BY <1>2, <2>5 DEF Seeded, q
<1>. QED BY <1>1, <1>2

\* What a universe ends in, with the entropy draw, is what some universe of the program ends in.
LEMMA SeededResults ==
  ASSUME NEW p \in Programs, NEW r, NEW d \in DOMAIN Seeded(p, r)
  PROVE  \E b \in DOMAIN p : Seeded(p, r)[d] = p[b]
<1>1. IsTree(p)
  BY ProgramsAreTrees
<1>. QED BY <1>1, EntropyComesFirst DEF Seeded

----------------------------------------------------------------------------
(* Systematic search: the universes of a program in lexicographic order.   *)

\* d and e part at draw i, where d has the smaller value.
PartsAt(d, e, i) == i <= Len(d) /\ i <= Len(e) /\ AgreeUpTo(d, e, i - 1) /\ d[i].value < e[i].value
Before(d, e) == \E i \in Nat \ {0} : PartsAt(d, e, i)

\* What two universes have in common, they have in common.
LEMMA AgreementIsSymmetric ==
  ASSUME NEW d, NEW e, NEW i, AgreeUpTo(d, e, i)
  PROVE  AgreeUpTo(e, d, i)
BY DEF AgreeUpTo

\* Two universes of a program are the same, or they part at some draw.
LEMMA UniversesPart ==
  ASSUME NEW p, IsTree(p), NEW d \in DOMAIN p, NEW e \in DOMAIN p, d # e
  PROVE  Before(d, e) \/ Before(e, d)
<1>. DEFINE S == {i \in Nat : i # 0 /\ ~AgreeUpTo(d, e, i)}
<1>1. d \in Seq(Draws) /\ e \in Seq(Draws) /\ Len(d) \in Nat /\ Len(e) \in Nat
  BY DrawsAreTyped DEF IsTree
<1>2. Len(d) + 1 \in S
  BY <1>1 DEF AgreeUpTo
<1>3. PICK i \in S : \A j \in S : i <= j
  BY <1>2, LowestIsLeast
<1>4. i \in Nat \ {0} /\ ~AgreeUpTo(d, e, i)
  OBVIOUS
<1>5. AgreeUpTo(d, e, i - 1)
  <2>1. i - 1 \notin S
    BY <1>3
  <2>2. CASE i - 1 = 0
    BY <1>1, <2>2 DEF AgreeUpTo
  <2>. QED BY <1>4, <2>1, <2>2
<1>6. AgreeUpTo(e, d, i - 1)
  BY <1>5, AgreementIsSymmetric
<1>7. CASE i <= Len(d)
  <2>1. i \in 1 .. Len(d)
    BY <1>4, <1>7
  <2>2. Len(e) >= i /\ e[i].site = d[i].site
    BY <1>5, <2>1 DEF IsTree
  <2>3. i \in 1 .. Len(e)
    BY <1>1, <1>4, <2>2
  <2>4. d[i] # e[i]
    BY <1>1, <1>4, <1>5, <2>2, <1>7 DEF AgreeUpTo
  <2>5. /\ d[i] = Draw(d[i].site, d[i].value) /\ d[i].value \in Nat
        /\ e[i] = Draw(e[i].site, e[i].value) /\ e[i].value \in Nat
    BY <1>1, <2>1, <2>3, DrawsAreTyped
  <2>6. d[i].value # e[i].value
    BY <2>2, <2>4, <2>5
  <2>7. d[i].value < e[i].value \/ e[i].value < d[i].value
    BY <2>5, <2>6
  <2>8. PartsAt(d, e, i) \/ PartsAt(e, d, i)
    BY <1>1, <1>5, <1>6, <1>7, <2>2, <2>7 DEF PartsAt
  <2>. QED BY <1>4, <2>8 DEF Before
<1>8. CASE ~(i <= Len(d))
  <2>1. Len(d) = i - 1 /\ Len(e) >= i - 1
    BY <1>1, <1>4, <1>5, <1>8 DEF AgreeUpTo
  <2>2. ~(i <= Len(e))
    <3>. SUFFICES ASSUME i <= Len(e) PROVE FALSE
      OBVIOUS
    <3>1. i \in 1 .. Len(e)
      BY <1>1, <1>4
    <3>2. Len(d) >= i
      BY <1>6, <3>1 DEF IsTree
    <3>. QED BY <1>1, <1>4, <2>1, <3>2
  <2>3. Len(d) = Len(e) /\ \A j \in 1 .. Len(d) : d[j] = e[j]
    BY <1>1, <1>4, <1>5, <2>1, <2>2 DEF AgreeUpTo
  <2>. QED BY <1>1, <2>3, SeqEqual
<1>. QED BY <1>7, <1>8

\* The order of the universes is transitive, and none comes before itself.
LEMMA BeforeIsAnOrder ==
  ASSUME NEW d \in Seq(Draws), NEW e \in Seq(Draws), NEW f \in Seq(Draws)
  PROVE  /\ ~Before(d, d)
         /\ Before(d, e) /\ Before(e, f) => Before(d, f)
<1>1. /\ Len(d) \in Nat /\ Len(e) \in Nat /\ Len(f) \in Nat
      /\ \A i \in 1 .. Len(d) : d[i].value \in Nat
      /\ \A i \in 1 .. Len(e) : e[i].value \in Nat
      /\ \A i \in 1 .. Len(f) : f[i].value \in Nat
  BY DrawsAreTyped
<1>2. ~Before(d, d)
  BY <1>1 DEF Before, PartsAt
<1>3. ASSUME NEW i \in Nat \ {0}, NEW j \in Nat \ {0}, PartsAt(d, e, i), PartsAt(e, f, j)
      PROVE  Before(d, f)
  <2>1. /\ i \in 1 .. Len(d) /\ i \in 1 .. Len(e) /\ d[i].value < e[i].value
        /\ \A k \in 1 .. i - 1 : d[k] = e[k]
    BY <1>1, <1>3 DEF PartsAt, AgreeUpTo
  <2>2. /\ j \in 1 .. Len(e) /\ j \in 1 .. Len(f) /\ e[j].value < f[j].value
        /\ \A k \in 1 .. j - 1 : e[k] = f[k]
    BY <1>1, <1>3 DEF PartsAt, AgreeUpTo
  <2>3. CASE i <= j
    <3>1. \A k \in 1 .. i - 1 : k \in 1 .. j - 1
      BY <2>3
    <3>2. d[i].value < f[i].value
      <4>1. CASE i = j
        BY <1>1, <2>1, <2>2, <4>1
      <4>2. CASE i # j
        <5>1. i \in 1 .. j - 1
          BY <2>3, <4>2
        <5>. QED BY <2>1, <2>2, <5>1
      <4>. QED BY <4>1, <4>2
    <3>3. PartsAt(d, f, i)
      BY <1>1, <2>1, <2>2, <2>3, <3>1, <3>2 DEF PartsAt, AgreeUpTo
    <3>. QED BY <3>3 DEF Before
  <2>4. CASE j < i
    <3>1. \A k \in 1 .. j - 1 : k \in 1 .. i - 1
      BY <2>4
    <3>2. j \in 1 .. i - 1
      BY <2>4
    <3>3. d[j].value < f[j].value
      BY <2>1, <2>2, <3>2
    <3>4. PartsAt(d, f, j)
      BY <1>1, <2>1, <2>2, <2>4, <3>1, <3>3 DEF PartsAt, AgreeUpTo
    <3>. QED BY <3>4 DEF Before
  <2>. QED BY <2>3, <2>4
<1>. QED BY <1>2, <1>3 DEF Before

\* The draws of a universe up to draw n that are not zero are a finite set.
NonZero(d, n) == {i \in 1 .. n : d[i].value # 0}

LEMMA NonZeroIsFinite ==
  ASSUME NEW d, NEW n \in Nat
  PROVE  IsFiniteSet(NonZero(d, n)) /\ Cardinality(NonZero(d, n)) \in Nat
<1>1. IsFiniteSet(1 .. n)
  BY FS_Interval
<1>2. IsFiniteSet(NonZero(d, n))
  BY <1>1, FS_Subset DEF NonZero
<1>. QED BY <1>2, FS_CardinalityType

\* The delays of a universe and of its prefixes.
LEMMA DelaysOfPrefix ==
  ASSUME NEW d \in Seq(Draws), NEW n \in 0 .. Len(d)
  PROVE  /\ SubSeq(d, 1, n) \in Seq(Draws) /\ Len(SubSeq(d, 1, n)) = n
         /\ \A i \in 1 .. n : SubSeq(d, 1, n)[i] = d[i]
         /\ Delays(SubSeq(d, 1, n)) = Cardinality(NonZero(d, n))
<1>1. /\ SubSeq(d, 1, n) \in Seq(Draws) /\ Len(SubSeq(d, 1, n)) = n
      /\ \A i \in 1 .. n : SubSeq(d, 1, n)[i] = d[i]
  <2>1. Len(d) \in Nat /\ n \in Int /\ \A i \in 1 .. n : d[i] \in Draws
    BY DrawsAreTyped
  <2>2. /\ SubSeq(d, 1, n) \in Seq(Draws)
        /\ Len(SubSeq(d, 1, n)) = IF 1 <= n THEN n - 1 + 1 ELSE 0
        /\ \A i \in 1 .. n - 1 + 1 : SubSeq(d, 1, n)[i] = d[1 + i - 1]
    BY <2>1, SubSeqProperties
  <2>. QED BY <2>1, <2>2
<1>2. {i \in 1 .. Len(SubSeq(d, 1, n)) : SubSeq(d, 1, n)[i].value # 0} = NonZero(d, n)
  BY <1>1 DEF NonZero
<1>. QED BY <1>1, <1>2 DEF Delays

\* A universe has a delay more than what lies before one of its delays.
LEMMA DelayCounts ==
  ASSUME NEW d \in Seq(Draws), NEW i \in 1 .. Len(d), d[i].value # 0
  PROVE  Cardinality(NonZero(d, i - 1)) + 1 <= Delays(d) /\ Delays(d) \in Nat
<1>1. Len(d) \in Nat /\ i - 1 \in Nat
  BY DrawsAreTyped
<1>2. IsFiniteSet(NonZero(d, Len(d))) /\ IsFiniteSet(NonZero(d, i - 1))
      /\ Cardinality(NonZero(d, i - 1)) \in Nat
  BY <1>1, NonZeroIsFinite
<1>3. Delays(d) = Cardinality(NonZero(d, Len(d)))
  BY DEF Delays, NonZero
<1>4. i \notin NonZero(d, i - 1) /\ NonZero(d, i - 1) \cup {i} \in SUBSET NonZero(d, Len(d))
  BY <1>1 DEF NonZero
<1>5. Cardinality(NonZero(d, i - 1) \cup {i}) = Cardinality(NonZero(d, i - 1)) + 1
  BY <1>2, <1>4, FS_AddElement
<1>6. Cardinality(NonZero(d, i - 1) \cup {i}) <= Cardinality(NonZero(d, Len(d)))
  BY <1>2, <1>4, FS_Subset
<1>7. Delays(d) \in Nat
  BY <1>1, <1>3, NonZeroIsFinite
<1>. QED BY <1>3, <1>5, <1>6, <1>7

\* A universe within the bounds after which another one comes can be bumped where they part.
LEMMA FollowedIsBumpable ==
  ASSUME NEW p \in Programs, NEW d \in WithinBounds(p), NEW e \in WithinBounds(p),
         NEW i \in Nat \ {0}, PartsAt(d, e, i)
  PROVE  i \in Bumpable(d)
<1>0. IsTree(p) /\ d \in DOMAIN p /\ e \in DOMAIN p
  BY ProgramsAreTrees DEF WithinBounds
<1>1. d \in Seq(Draws) /\ e \in Seq(Draws) /\ Len(d) \in Nat /\ Len(e) \in Nat
  BY <1>0, DrawsAreTyped DEF IsTree
<1>2. i \in 1 .. Len(d) /\ i \in 1 .. Len(e) /\ AgreeUpTo(d, e, i - 1) /\ d[i].value < e[i].value
  BY <1>1 DEF PartsAt
<1>3. e[i].site = d[i].site
  BY <1>0, <1>2 DEF IsTree
<1>4. d[i].site # EntropySite /\ d[i].site \in Sites /\ d[i].value \in Nat /\ e[i].value \in Values(d[i].site)
  <2>1. d[i].site # EntropySite
    BY <1>0, <1>2, ProgramsAreTrees
  <2>2. d[i].site \in Sites /\ d[i].value \in Nat
    BY <1>1, <1>2, DrawsAreTyped
  <2>3. e[i].value \in Values(e[i].site)
    BY <1>1, <1>2, DrawsAreTyped
  <2>. QED BY <1>3, <2>1, <2>2, <2>3
<1>5. d[i].site.bound \in Nat \ {0} /\ e[i].value \in 0 .. d[i].site.bound - 1
  BY <1>4, SitesAssumption DEF Values
<1>6. e[i].value # 0 /\ d[i].value + 1 < d[i].site.bound
  <2>1. \A a, b \in Nat, bound \in Nat : a < b /\ b \in 0 .. bound - 1 => b # 0 /\ a + 1 < bound
    OBVIOUS
  <2>2. d[i].value < e[i].value /\ d[i].value \in Nat /\ e[i].value \in Nat
    BY <1>2, <1>4, <1>5
  <2>. QED BY <1>5, <2>1, <2>2
<1>7. d[i].site.bound <= MaxBound
  BY <1>2, <1>3, <1>6 DEF WithinBounds
<1>8. Delays(SubSeq(d, 1, i - 1)) < MaxDelays
  <2>1. Delays(SubSeq(d, 1, i - 1)) = Cardinality(NonZero(d, i - 1))
    BY <1>1, <1>2, DelaysOfPrefix
  <2>2. NonZero(d, i - 1) = NonZero(e, i - 1)
    BY <1>2 DEF NonZero, AgreeUpTo
  <2>3. Cardinality(NonZero(e, i - 1)) + 1 <= Delays(e) /\ Delays(e) \in Nat
    BY <1>1, <1>2, <1>6, DelayCounts
  <2>4. Delays(e) <= MaxDelays
    BY DEF WithinBounds
  <2>5. Cardinality(NonZero(e, i - 1)) \in Nat
    BY <1>2, NonZeroIsFinite
  <2>. QED BY <2>1, <2>2, <2>3, <2>4, <2>5, SystematicAssumption
<1>. QED BY <1>2, <1>6, <1>7, <1>8 DEF Bumpable

\* A universe that is zero from draw i + 1 on comes first among those that begin as it does.
LEMMA ZeroesComeFirst ==
  ASSUME NEW p, IsTree(p), NEW d \in DOMAIN p, NEW e \in DOMAIN p, NEW i \in Nat,
         AgreeUpTo(d, e, i), \A j \in i + 1 .. Len(d) : d[j].value = 0
  PROVE  e = d \/ Before(d, e)
<1>1. d \in Seq(Draws) /\ e \in Seq(Draws) /\ Len(d) \in Nat /\ Len(e) \in Nat
  BY DrawsAreTyped DEF IsTree
<1>2. ASSUME Before(e, d) PROVE FALSE
  <2>1. PICK j \in Nat \ {0} : PartsAt(e, d, j)
    BY <1>2 DEF Before
  <2>2. j \in 1 .. Len(e) /\ j \in 1 .. Len(d) /\ e[j].value < d[j].value
    BY <1>1, <2>1 DEF PartsAt
  <2>3. e[j].value \in Nat /\ d[j].value \in Nat
    BY <1>1, <2>2, DrawsAreTyped
  <2>4. ~(j <= i)
    BY <2>2, <2>3 DEF AgreeUpTo
  <2>5. d[j].value = 0
    BY <2>2, <2>4
  <2>. QED BY <2>2, <2>3, <2>5
<1>. QED BY <1>2, UniversesPart

\* The empty plan leads to the first universe.
LEMMA TheFirstSchedule ==
  ASSUME NEW p \in Programs
  PROVE  LET n == Realised(p, << >>)
         IN  n \in WithinBounds(p) /\ \A e \in WithinBounds(p) : e = n \/ Before(n, e)
<1>. DEFINE n == Realised(p, << >>)
<1>0. IsTree(p) /\ << >> \in Seq(Draws) /\ Len(<< >>) = 0
  BY ProgramsAreTrees
<1>1. n \in DOMAIN p /\ \E k \in Nat : Leads(<< >>, n, k, Len(n))
  BY <1>0, EveryTapeLeads
<1>. HIDE DEF n
<1>2. n \in Seq(Draws) /\ Len(n) \in Nat
  BY <1>0, <1>1, DrawsAreTyped DEF IsTree
<1>3. \A j \in 0 + 1 .. Len(n) : n[j].value = 0
  BY <1>0, <1>1, <1>2 DEF Leads, AgreeUpTo
<1>4. Delays(n) = 0
  <2>1. {i \in 1 .. Len(n) : n[i].value # 0} = {}
    BY <1>3
  <2>. QED BY <2>1, FS_EmptySet DEF Delays
<1>5. n \in WithinBounds(p)
  BY <1>1, <1>3, <1>4, SystematicAssumption DEF WithinBounds
<1>6. ASSUME NEW e \in WithinBounds(p) PROVE e = n \/ Before(n, e)
  <2>1. e \in DOMAIN p /\ Len(e) \in Nat
    BY <1>0, DrawsAreTyped DEF WithinBounds, IsTree
  <2>2. AgreeUpTo(n, e, 0)
    BY <1>2, <2>1 DEF AgreeUpTo
  <2>. QED BY <1>0, <1>1, <1>3, <2>1, <2>2, ZeroesComeFirst
<1>. QED BY <1>5, <1>6 DEF n

\* The rightmost draw that can be bumped.
Rightmost(d) == CHOOSE i \in Bumpable(d) : \A j \in Bumpable(d) : j <= i

LEMMA RightmostExists ==
  ASSUME NEW d \in Seq(Draws), Bumpable(d) # {}
  PROVE  Rightmost(d) \in Bumpable(d) /\ \A j \in Bumpable(d) : j <= Rightmost(d)
<1>1. Len(d) \in Nat /\ Bumpable(d) \subseteq 1 .. Len(d)
  BY DrawsAreTyped DEF Bumpable
<1>. DEFINE U == {k \in Nat : \A j \in Bumpable(d) : j <= k}
<1>2. Len(d) \in U
  BY <1>1
<1>3. PICK l \in U : \A k \in U : l <= k
  BY <1>2, LowestIsLeast
<1>4. l \in Bumpable(d)
  <2>. SUFFICES ASSUME l \notin Bumpable(d) PROVE FALSE
    OBVIOUS
  <2>1. l - 1 \in U
    BY <1>1
  <2>. QED BY <1>3, <2>1
<1>5. \E i \in Bumpable(d) : \A j \in Bumpable(d) : j <= i
  BY <1>4
<1>. QED BY <1>5, Zenon DEF Rightmost

\* A bumped plan is one that can be drawn.
LEMMA BumpedIsTyped ==
  ASSUME NEW p \in Programs, NEW d \in DOMAIN p, NEW i \in Bumpable(d)
  PROVE  /\ i \in 1 .. Len(d) /\ Bumped(d, i) \in Seq(Draws) /\ Len(Bumped(d, i)) = i
         /\ Bumped(d, i)[i] = Draw(d[i].site, d[i].value + 1)
         /\ \A j \in 1 .. i - 1 : Bumped(d, i)[j] = d[j]
<1>0. d \in Seq(Draws) /\ Len(d) \in Nat /\ i \in 1 .. Len(d)
  BY ProgramsAreTrees, DrawsAreTyped DEF IsTree, Bumpable
<1>. DEFINE s == SubSeq(d, 1, i - 1)
            x == Draw(d[i].site, d[i].value + 1)
<1>1. s \in Seq(Draws) /\ Len(s) = i - 1 /\ \A j \in 1 .. i - 1 : s[j] = d[j]
  BY <1>0, DelaysOfPrefix
<1>2. x \in Draws
  <2>1. d[i].site \in Sites /\ d[i].value \in Nat /\ d[i].site # EntropySite
    BY <1>0, DrawsAreTyped, ProgramsAreTrees
  <2>2. d[i].value + 1 < d[i].site.bound /\ d[i].site.bound \in Nat
    BY <2>1, SitesAssumption DEF Bumpable
  <2>3. d[i].value + 1 \in Values(d[i].site)
    BY <2>1, <2>2 DEF Values
  <2>. QED BY <2>1, <2>3, ValuesGoDown
<1>3. Bumped(d, i) = Append(s, x)
  BY DEF Bumped
<1>. HIDE DEF s, x
<1>4. /\ Append(s, x) \in Seq(Draws) /\ Len(Append(s, x)) = Len(s) + 1
      /\ \A j \in 1 .. Len(s) : Append(s, x)[j] = s[j]
      /\ Append(s, x)[Len(s) + 1] = x
  BY <1>1, <1>2, AppendProperties
<1>. QED BY <1>0, <1>1, <1>3, <1>4 DEF x

\* A bumped plan leads to the universe that comes next: it begins as the plan does, which is
\* spent then, and goes on with zeroes.
LEMMA TheNextSchedule ==
  ASSUME NEW p \in Programs, NEW d \in WithinBounds(p), Bumpable(d) # {}
  PROVE  LET n == Realised(p, Bumped(d, Rightmost(d)))
         IN  /\ n \in WithinBounds(p) /\ Before(d, n)
             /\ \A e \in WithinBounds(p) : Before(d, e) => e = n \/ Before(n, e)
<1>. DEFINE i == Rightmost(d)
            b == Bumped(d, i)
            n == Realised(p, b)
<1>0. IsTree(p) /\ d \in DOMAIN p
  BY ProgramsAreTrees DEF WithinBounds
<1>1. d \in Seq(Draws) /\ Len(d) \in Nat
  BY <1>0, DrawsAreTyped DEF IsTree
<1>2. i \in Bumpable(d) /\ \A j \in Bumpable(d) : j <= i
  BY <1>1, RightmostExists
<1>3. /\ i \in 1 .. Len(d) /\ b \in Seq(Draws) /\ Len(b) = i
      /\ b[i] = Draw(d[i].site, d[i].value + 1) /\ \A j \in 1 .. i - 1 : b[j] = d[j]
  BY <1>0, <1>2, BumpedIsTyped
<1>4. n \in DOMAIN p /\ \E k \in Nat : Leads(b, n, k, Len(n))
  BY <1>0, <1>3, EveryTapeLeads
<1>. HIDE DEF b, n, i
<1>5. n \in Seq(Draws) /\ Len(n) \in Nat
  BY <1>0, <1>4, DrawsAreTyped DEF IsTree
<1>6. PICK k \in Nat : Leads(b, n, k, Len(n))
  BY <1>4
<1>7. /\ k <= Len(n) /\ k <= i /\ AgreeUpTo(n, b, k)
      /\ k < Len(n) => k = i \/ b[k + 1].site # n[k + 1].site
      /\ \A j \in k + 1 .. Len(n) : n[j].value = 0
  BY <1>3, <1>5, <1>6 DEF Leads, AgreeUpTo
<1>8. k = i
  <2>. SUFFICES ASSUME k < i PROVE FALSE
    BY <1>3, <1>7
  <2>1. k + 1 \in 1 .. Len(d)
    BY <1>1, <1>3
  <2>2. AgreeUpTo(d, n, (k + 1) - 1)
    <3>1. \A j \in 1 .. k : j \in 1 .. i - 1
      BY <1>3
    <3>. QED BY <1>1, <1>3, <1>5, <1>7, <3>1 DEF AgreeUpTo
  <2>3. Len(n) >= k + 1 /\ n[k + 1].site = d[k + 1].site
    BY <1>0, <1>4, <2>1, <2>2 DEF IsTree
  <2>4. b[k + 1].site = d[k + 1].site
    <3>1. CASE k + 1 = i
      BY <1>3, <3>1 DEF Draw
    <3>2. CASE k + 1 # i
      <4>1. k + 1 \in 1 .. i - 1
        BY <1>3, <3>2
      <4>. QED BY <1>3, <4>1
    <3>. QED BY <3>1, <3>2
  <2>. QED BY <1>5, <1>7, <2>3, <2>4
<1>9. /\ i \in 1 .. Len(n) /\ AgreeUpTo(d, n, i - 1)
      /\ n[i].site = d[i].site /\ n[i].value = d[i].value + 1
      /\ \A j \in i + 1 .. Len(n) : n[j].value = 0
  <2>1. \A j \in 1 .. i : n[j] = b[j]
    BY <1>7, <1>8 DEF AgreeUpTo
  <2>2. i \in 1 .. Len(n) /\ i \in 1 .. i /\ \A j \in 1 .. i - 1 : j \in 1 .. i
    BY <1>1, <1>3, <1>5, <1>7, <1>8
  <2>3. n[i].site = d[i].site /\ n[i].value = d[i].value + 1
    BY <1>3, <2>1, <2>2 DEF Draw
  <2>4. AgreeUpTo(d, n, i - 1)
    BY <1>1, <1>3, <1>5, <2>1, <2>2 DEF AgreeUpTo
  <2>. QED BY <1>7, <1>8, <2>2, <2>3, <2>4
<1>10. d[i].value \in Nat
  BY <1>1, <1>3, DrawsAreTyped
<1>11. n \in WithinBounds(p)
  <2>1. NonZero(n, Len(n)) = NonZero(d, i - 1) \cup {i}
    <3>1. ASSUME NEW j \in NonZero(n, Len(n)) PROVE j \in NonZero(d, i - 1) \cup {i}
      <4>1. j \in 1 .. Len(n) /\ n[j].value # 0
        BY DEF NonZero
      <4>2. j <= i
        BY <1>5, <1>9, <4>1
      <4>3. CASE j = i
        BY <4>3
      <4>4. CASE j # i
        <5>1. j \in 1 .. i - 1
          BY <1>5, <1>9, <4>1, <4>2, <4>4
        <5>2. d[j] = n[j]
          BY <1>9, <5>1 DEF AgreeUpTo
        <5>. QED BY <4>1, <5>1, <5>2 DEF NonZero
      <4>. QED BY <4>3, <4>4
    <3>2. ASSUME NEW j \in NonZero(d, i - 1) PROVE j \in NonZero(n, Len(n))
      <4>1. j \in 1 .. i - 1 /\ d[j].value # 0
        BY DEF NonZero
      <4>2. d[j] = n[j] /\ j \in 1 .. Len(n)
        BY <1>5, <1>9, <4>1 DEF AgreeUpTo
      <4>. QED BY <4>1, <4>2 DEF NonZero
    <3>3. i \in NonZero(n, Len(n))
      BY <1>9, <1>10 DEF NonZero
    <3>. QED BY <3>1, <3>2, <3>3
  <2>2. IsFiniteSet(NonZero(d, i - 1)) /\ Cardinality(NonZero(d, i - 1)) \in Nat /\ i \notin NonZero(d, i - 1)
    <3>1. i - 1 \in Nat /\ i \notin 1 .. i - 1
      BY <1>1, <1>3
    <3>2. IsFiniteSet(NonZero(d, i - 1)) /\ Cardinality(NonZero(d, i - 1)) \in Nat
      BY <3>1, NonZeroIsFinite
    <3>. QED BY <3>1, <3>2 DEF NonZero
  <2>3. Delays(n) = Cardinality(NonZero(d, i - 1)) + 1
    <3>1. Delays(n) = Cardinality(NonZero(n, Len(n)))
      BY DEF Delays, NonZero
    <3>2. Cardinality(NonZero(d, i - 1) \cup {i}) = Cardinality(NonZero(d, i - 1)) + 1
      BY <2>2, FS_AddElement, Zenon
    <3>. QED BY <2>1, <3>1, <3>2, Zenon
  <2>4. Delays(SubSeq(d, 1, i - 1)) = Cardinality(NonZero(d, i - 1))
    <3>1. i - 1 \in 0 .. Len(d)
      BY <1>1, <1>3
    <3>. QED BY <1>1, <3>1, DelaysOfPrefix, Zenon
  <2>5. Delays(n) <= MaxDelays
    <3>1. Delays(SubSeq(d, 1, i - 1)) < MaxDelays
      BY <1>2 DEF Bumpable
    <3>. QED BY <2>2, <2>3, <2>4, <3>1, SystematicAssumption
  <2>6. ASSUME NEW j \in 1 .. Len(n), n[j].value # 0 PROVE n[j].site.bound <= MaxBound
    <3>1. j <= i
      BY <1>5, <1>9, <2>6
    <3>2. CASE j = i
      BY <1>2, <1>9, <3>2 DEF Bumpable
    <3>3. CASE j # i
      <4>1. j \in 1 .. i - 1 /\ j \in 1 .. Len(d)
        BY <1>1, <1>3, <3>1, <3>3
      <4>2. d[j] = n[j]
        BY <1>9, <4>1 DEF AgreeUpTo
      <4>. QED BY <2>6, <4>1, <4>2 DEF WithinBounds
    <3>. QED BY <3>2, <3>3
  <2>. QED BY <1>4, <2>5, <2>6 DEF WithinBounds
<1>12. Before(d, n)
  <2>1. PartsAt(d, n, i)
    BY <1>1, <1>3, <1>5, <1>9, <1>10 DEF PartsAt
  <2>. QED BY <1>3, <2>1 DEF Before
<1>13. ASSUME NEW e \in WithinBounds(p), Before(d, e)
       PROVE  e = n \/ Before(n, e)
  <2>1. PICK j \in Nat \ {0} : PartsAt(d, e, j)
    BY <1>13 DEF Before
  <2>2. j \in Bumpable(d)
    BY <2>1, FollowedIsBumpable
  <2>3. j <= i /\ j \in 1 .. Len(d)
    BY <1>2, <2>2 DEF Bumpable
  <2>4. e \in DOMAIN p /\ e \in Seq(Draws) /\ Len(e) \in Nat
    BY <1>0, DrawsAreTyped DEF WithinBounds, IsTree
  <2>5. j \in 1 .. Len(e) /\ AgreeUpTo(d, e, j - 1) /\ d[j].value < e[j].value
    BY <2>1, <2>4 DEF PartsAt
  <2>6. AgreeUpTo(n, e, j - 1)
    <3>1. \A h \in 1 .. j - 1 : h \in 1 .. i - 1
      BY <1>3, <2>3
    <3>. QED BY <1>3, <1>5, <1>9, <2>3, <2>4, <2>5, <3>1 DEF AgreeUpTo
  <2>7. e[j].value \in Nat
    BY <2>4, <2>5, DrawsAreTyped
  <2>8. CASE j < i
    <3>1. n[j] = d[j]
      <4>1. j \in 1 .. i - 1
        BY <1>1, <1>3, <2>8
      <4>. QED BY <1>9, <4>1 DEF AgreeUpTo
    <3>2. PartsAt(n, e, j)
      BY <1>5, <1>9, <2>4, <2>5, <2>6, <2>8, <3>1 DEF PartsAt
    <3>. QED BY <3>2 DEF Before
  <2>9. CASE j = i
    <3>1. CASE e[i].value = n[i].value
      <4>1. e[i].site = n[i].site
        BY <1>0, <1>4, <1>9, <2>4, <2>6, <2>9 DEF IsTree
      <4>2. e[i] = n[i]
        <5>1. e[i] = Draw(e[i].site, e[i].value)
          BY <2>4, <2>5, <2>9, DrawsAreTyped
        <5>2. n[i] = Draw(n[i].site, n[i].value)
          BY <1>5, <1>9, DrawsAreTyped
        <5>. QED BY <3>1, <4>1, <5>1, <5>2
      <4>3. AgreeUpTo(n, e, i)
        BY <1>3, <1>5, <1>9, <2>4, <2>5, <2>6, <2>9, <4>2 DEF AgreeUpTo
      <4>. QED BY <1>0, <1>3, <1>4, <1>9, <2>4, <4>3, ZeroesComeFirst
    <3>2. CASE e[i].value # n[i].value
      <4>1. n[i].value < e[i].value
        BY <1>9, <1>10, <2>5, <2>7, <2>9, <3>2
      <4>2. PartsAt(n, e, i)
        BY <1>5, <1>9, <2>4, <2>5, <2>6, <2>9, <4>1 DEF PartsAt
      <4>. QED BY <1>3, <4>2 DEF Before
    <3>. QED BY <3>1, <3>2
  <2>. QED BY <1>3, <2>3, <2>8, <2>9
<1>. QED BY <1>11, <1>12, <1>13 DEF n, b, i

\* The universes that have run.
Visited == {schedules[n] : n \in 1 .. Len(schedules)}

\* The odometer points at n: of the universes within the bounds, those before n have run, and
\* none of the others.
PointsAt(n) ==
  /\ n \in WithinBounds(program)
  /\ \A m \in 1 .. Len(schedules) : Before(schedules[m], n)
  /\ \A d \in WithinBounds(program) : d \in Visited \/ d = n \/ Before(n, d)

Stopped == StopsAtFailure /\ witness # 0

EnumInv ==
  /\ schedules \in Seq(WithinBounds(program))
  /\ Enumerating \/ schedules # << >> => program \in Programs
  /\ plan \in Seq(Draws)
  /\ \A m, n \in 1 .. Len(schedules) : m < n => Before(schedules[m], schedules[n])
  /\ exhaustive => WithinBounds(program) \subseteq Visited
  /\ Enumerating /\ ~exhaustive /\ ~Stopped => PointsAt(Realised(program, plan))

LEMMA EnumStart == Init => EnumInv
<1>. SUFFICES ASSUME Init PROVE EnumInv
  OBVIOUS
<1>1. schedules = << >> /\ plan = << >> /\ exhaustive = FALSE /\ Len(schedules) = 0
  BY DEF Init, SystematicInit
<1>2. Enumerating => program \in Programs
  BY DEF Init, Enumerating
<1>3. program \in Programs => PointsAt(Realised(program, plan))
  <2>1. 1 .. Len(schedules) = {}
    BY <1>1
  <2>. QED BY <1>1, <2>1, TheFirstSchedule DEF PointsAt
<1>. QED BY <1>1, <1>2, <1>3 DEF EnumInv

\* One turn of the odometer.
LEMMA EnumerateStep ==
  ASSUME EnumInv, Enumerate
  PROVE  EnumInv'
<1>. DEFINE W == WithinBounds(program)
            d == Realised(program, plan)
            stop == StopsAtFailure /\ program[d].error # Ok
<1>1. /\ Enumerating /\ UNCHANGED <<program, stage>> /\ ~exhaustive /\ ~Stopped
      /\ Turn(program, d, stop)
  BY DEF Enumerate, RunSchedule, Searching, sessionVars, Stopped
<1>2. program \in Programs /\ PointsAt(d) /\ schedules \in Seq(W) /\ Len(schedules) \in Nat
  BY <1>1, LenProperties DEF EnumInv
<1>3. d \in W /\ d \in DOMAIN program /\ W' = W
  BY <1>1, <1>2 DEF PointsAt, WithinBounds
<1>4. /\ schedules' = Append(schedules, d)
      /\ witness' = IF witness = 0 /\ program[d].error # Ok THEN Len(schedules) + 1 ELSE witness
      /\ IF stop THEN UNCHANGED <<plan, exhaustive>>
         ELSE IF Bumpable(d) = {} THEN exhaustive' = TRUE /\ UNCHANGED plan
         ELSE plan' = Bumped(d, Rightmost(d)) /\ UNCHANGED exhaustive
  BY <1>1 DEF Turn, Rightmost
<1>. DEFINE s == schedules'
<1>5. /\ s \in Seq(W) /\ Len(s) = Len(schedules) + 1
      /\ \A m \in 1 .. Len(schedules) : s[m] = schedules[m]
      /\ s[Len(schedules) + 1] = d
  <2>. HIDE DEF W, d
  <2>. QED BY <1>2, <1>3, <1>4, AppendProperties
<1>. HIDE DEF s, d
<1>6. Visited' = Visited \cup {d}
  <2>1. Visited' = {s[m] : m \in 1 .. Len(s)}
    BY DEF Visited, s
  <2>2. 1 .. Len(s) = 1 .. Len(schedules) \cup {Len(schedules) + 1}
    BY <1>2, <1>5
  <2>3. {s[m] : m \in 1 .. Len(schedules)} = Visited
    BY <1>5 DEF Visited
  <2>. QED BY <1>5, <2>1, <2>2, <2>3
<1>7. \A m \in 1 .. Len(schedules) : Before(schedules[m], d)
  BY <1>2 DEF PointsAt
<1>8. \A e \in W : e \in Visited \/ e = d \/ Before(d, e)
  BY <1>2 DEF PointsAt
<1>9. ASSUME NEW m \in 1 .. Len(s), NEW n \in 1 .. Len(s), m < n
      PROVE  Before(s[m], s[n])
  <2>1. CASE n = Len(schedules) + 1
    <3>1. m \in 1 .. Len(schedules)
      BY <1>2, <1>5, <1>9, <2>1
    <3>. QED BY <1>5, <1>7, <2>1, <3>1
  <2>2. CASE n # Len(schedules) + 1
    <3>1. m \in 1 .. Len(schedules) /\ n \in 1 .. Len(schedules)
      BY <1>2, <1>5, <1>9, <2>2
    <3>2. Before(schedules[m], schedules[n])
      BY <1>9, <3>1 DEF EnumInv
    <3>. QED BY <1>5, <3>1, <3>2
  <2>. QED BY <2>1, <2>2
<1>10. W \subseteq Seq(Draws)
  BY <1>2, ProgramsAreTrees DEF IsTree, WithinBounds
<1>11. CASE stop
  <2>1. witness' # 0
    BY <1>1, <1>2, <1>4, <1>11 DEF Stopped
  <2>2. Stopped' /\ plan' = plan /\ exhaustive' = exhaustive
    BY <1>1, <1>4, <1>11, <2>1 DEF Stopped, StopsAtFailure
  <2>. QED BY <1>1, <1>2, <1>3, <1>5, <1>9, <2>2 DEF EnumInv, s
<1>12. CASE ~stop /\ Bumpable(d) = {}
  <2>1. exhaustive' = TRUE /\ plan' = plan
    BY <1>4, <1>12
  <2>2. ASSUME NEW e \in W, Before(d, e) PROVE FALSE
    <3>1. PICK i \in Nat \ {0} : PartsAt(d, e, i)
      BY <2>2 DEF Before
    <3>2. i \in Bumpable(d)
      BY <1>2, <1>3, <3>1, FollowedIsBumpable
    <3>. QED BY <1>12, <3>2
  <2>3. W \subseteq Visited'
    BY <1>6, <1>8, <2>2
  <2>. QED BY <1>1, <1>2, <1>3, <1>5, <1>9, <2>1, <2>3 DEF EnumInv, s
<1>13. CASE ~stop /\ Bumpable(d) # {}
  <2>1. plan' = Bumped(d, Rightmost(d)) /\ exhaustive' = exhaustive
    BY <1>4, <1>13
  <2>2. plan' \in Seq(Draws)
    <3>1. Rightmost(d) \in Bumpable(d)
      BY <1>3, <1>10, <1>13, RightmostExists
    <3>. QED BY <1>2, <1>3, <2>1, <3>1, BumpedIsTyped
  <2>3. PICK n : /\ n = Realised(program, Bumped(d, Rightmost(d)))
                 /\ n \in W /\ Before(d, n) /\ \A e \in W : Before(d, e) => e = n \/ Before(n, e)
    BY <1>2, <1>3, <1>13, TheNextSchedule
  <2>4. Realised(program', plan') = n
    BY <1>1, <2>1, <2>3
  <2>5. \A m \in 1 .. Len(s) : Before(s[m], n)
    <3>. SUFFICES ASSUME NEW m \in 1 .. Len(s) PROVE Before(s[m], n)
      OBVIOUS
    <3>1. CASE m = Len(schedules) + 1
      BY <1>5, <2>3, <3>1
    <3>2. CASE m # Len(schedules) + 1
      <4>1. m \in 1 .. Len(schedules)
        BY <1>2, <1>5, <3>2
      <4>2. schedules[m] \in W /\ s[m] = schedules[m] /\ Before(schedules[m], d)
        BY <1>2, <1>5, <1>7, <4>1, ElementOfSeq
      <4>. QED BY <1>3, <1>10, <2>3, <4>2, BeforeIsAnOrder
    <3>. QED BY <3>1, <3>2
  <2>6. \A e \in W : e \in Visited' \/ e = n \/ Before(n, e)
    BY <1>6, <1>8, <2>3
  <2>7. PointsAt(Realised(program, plan))'
    BY <1>3, <2>3, <2>4, <2>5, <2>6 DEF PointsAt, s
  <2>. QED BY <1>1, <1>2, <1>3, <1>5, <1>9, <2>1, <2>2, <2>7 DEF EnumInv, s
<1>. QED BY <1>11, <1>12, <1>13

LEMMA EnumStep ==
  ASSUME EnumInv, [Next]_vars
  PROVE  EnumInv'
<1>1. CASE Enumerate
  BY <1>1, EnumerateStep
<1>2. CASE UNCHANGED <<program, stage, systematicVars>>
  BY <1>2 DEF EnumInv, systematicVars, Enumerating, Stopped, StopsAtFailure, PointsAt, Visited
<1>3. CASE UNCHANGED <<program, systematicVars>> /\ ~Enumerating'
  BY <1>3 DEF EnumInv, systematicVars, Visited
<1>4. ASSUME FinishExplore \/ FinishSystematic PROVE UNCHANGED <<program, systematicVars>> /\ ~Enumerating'
  BY <1>4 DEF FinishExplore, FinishSystematic, Witness, Pass, Enumerating
<1>5. ASSUME Report \/ Rerun PROVE UNCHANGED <<program, systematicVars>> /\ ~Enumerating'
  BY <1>5 DEF Report, Rerun, Enumerating
<1>. QED BY <1>1, <1>2, <1>3, <1>4, <1>5
         DEF Next, RunUniverse, TakeResult, Shrink, Soaking, vars, sessionVars

\* Systematic search runs every universe within its bounds exactly once before it says that it
\* is exhaustive, and none outside them (explore_systematic, _next_prefix): the odometer visits
\* the universes of any program in lexicographic order and leaves none out.
THEOREM EnumerationVisitsAllOnce == Spec => []EnumerationIsExact
<1>1. Init => EnumInv
  BY EnumStart
<1>2. EnumInv /\ [Next]_vars => EnumInv'
  BY EnumStep
<1>3. EnumInv => EnumerationIsExact
  <2>. SUFFICES ASSUME EnumInv PROVE EnumerationIsExact
    OBVIOUS
  <2>. DEFINE W == WithinBounds(program)
              s == schedules
  <2>1. s \in Seq(W) /\ Len(s) \in Nat /\ \A n \in 1 .. Len(s) : s[n] \in W
    BY LenProperties, ElementOfSeq DEF EnumInv
  <2>2. Visited \subseteq W
    BY <2>1 DEF Visited
  <2>3. ASSUME NEW m \in 1 .. Len(s), NEW n \in 1 .. Len(s), m < n PROVE s[m] # s[n]
    <3>1. Before(s[m], s[n])
      BY <2>3 DEF EnumInv
    <3>2. program \in Programs
      BY <2>1, <2>3 DEF EnumInv
    <3>3. s[m] \in Seq(Draws)
      BY <2>1, <3>2, ProgramsAreTrees DEF IsTree, WithinBounds
    <3>4. ~Before(s[m], s[m])
      BY <3>3, BeforeIsAnOrder
    <3>. QED BY <3>1, <3>4
  <2>4. s \in [1 .. Len(s) -> Visited]
    <3>1. s \in [1 .. Len(s) -> W]
      BY <2>1, LenProperties
    <3>. QED BY <3>1 DEF Visited
  <2>5. \A m, n \in 1 .. Len(s) : s[m] = s[n] => m = n
    BY <2>1, <2>3
  <2>6. \A v \in Visited : \E m \in 1 .. Len(s) : s[m] = v
    BY DEF Visited
  <2>7. s \in Bijection(1 .. Len(s), Visited)
    <3>. HIDE DEF s
    <3>. QED BY <2>4, <2>5, <2>6, Fun_IsBij
  <2>8. Cardinality(Visited) = Len(s)
    BY <2>1, <2>7, FS_CountingElements DEF ExistsBijection
  <2>9. exhaustive => W \subseteq Visited
    BY DEF EnumInv
  <2>. QED BY <2>2, <2>8, <2>9 DEF EnumerationIsExact, Visited
<1>. QED BY <1>1, <1>2, <1>3, PTL DEF Spec

----------------------------------------------------------------------------
(* Shrinking: the candidates, and what the replay of one leads to.         *)

\* Halving goes down.
LEMMA HalfIsLess ==
  ASSUME NEW v \in Nat \ {0}
  PROVE  v \div 2 \in Nat /\ v \div 2 < v
OBVIOUS

LEMMA TuplesJoin ==
  ASSUME NEW a \in Nat, NEW b \in Nat, NEW c \in Nat
  PROVE  <<a>> \o <<b>> \o <<c>> = <<a, b, c>> /\ <<a>> \o <<b>> \o << >> = <<a, b>>
<1>1. /\ <<a>> \in Seq(Nat) /\ <<b>> \in Seq(Nat) /\ <<c>> \in Seq(Nat) /\ << >> \in Seq(Nat)
      /\ <<a, b>> \in Seq(Nat) /\ <<a, b, c>> \in Seq(Nat)
  OBVIOUS
<1>2. \A s, t \in Seq(Nat) :
        /\ s \o t \in Seq(Nat) /\ Len(s \o t) = Len(s) + Len(t)
        /\ \A i \in 1 .. Len(s) + Len(t) : (s \o t)[i] = IF i <= Len(s) THEN s[i] ELSE t[i - Len(s)]
  BY ConcatProperties
<1>3. \A s, t \in Seq(Nat) : Len(s) = Len(t) /\ (\A i \in 1 .. Len(s) : s[i] = t[i]) => s = t
  BY SeqEqual
<1>4. <<a>> \o <<b>> = <<a, b>>
  <2>1. /\ Len(<<a>> \o <<b>>) = Len(<<a, b>>)
        /\ \A i \in 1 .. 2 : (<<a>> \o <<b>>)[i] = <<a, b>>[i]
    BY <1>1, <1>2
  <2>2. Len(<<a, b>>) = 2
    OBVIOUS
  <2>. QED BY <1>1, <1>2, <1>3, <2>1, <2>2, Zenon
<1>5. <<a, b>> \o <<c>> = <<a, b, c>>
  <2>1. /\ Len(<<a, b>> \o <<c>>) = Len(<<a, b, c>>)
        /\ \A i \in 1 .. 3 : (<<a, b>> \o <<c>>)[i] = <<a, b, c>>[i]
    BY <1>1, <1>2
  <2>2. Len(<<a, b, c>>) = 3
    OBVIOUS
  <2>. QED BY <1>1, <1>2, <1>3, <2>1, <2>2, Zenon
<1>6. <<a, b>> \o << >> = <<a, b>>
  BY <1>1, ConcatEmptySeq
<1>. QED BY <1>4, <1>5, <1>6, Zenon

\* Descend tries smaller values: zero, the half and the one before.
LEMMA DescendGoesDown ==
  ASSUME NEW v \in Nat \ {0}
  PROVE  /\ Len(Descend(v)) \in Nat
         /\ \A t \in 1 .. Len(Descend(v)) : Descend(v)[t] \in Nat /\ Descend(v)[t] < v
         /\ \A w \in {0, v \div 2, v - 1} : \E t \in 1 .. Len(Descend(v)) : Descend(v)[t] = w
<1>. DEFINE half == v \div 2
<1>1. half \in Nat /\ half < v /\ v - 1 \in Nat
  BY HalfIsLess
<1>. HIDE DEF half
<1>2. CASE half # 0 /\ v - 1 \notin {0, half}
  <2>0. Descend(v) = <<0>> \o <<half>> \o <<v - 1>>
    BY <1>2, Zenon DEF Descend, half
  <2>1. Descend(v) = <<0, half, v - 1>>
    BY <1>1, <2>0, TuplesJoin
  <2>2. Len(Descend(v)) = 3 /\ Descend(v)[1] = 0 /\ Descend(v)[2] = half /\ Descend(v)[3] = v - 1
    BY <2>1
  <2>. QED BY <1>1, <2>2 DEF half
<1>3. CASE half # 0 /\ v - 1 \in {0, half}
  <2>0. Descend(v) = <<0>> \o <<half>> \o << >>
    BY <1>3, Zenon DEF Descend, half
  <2>1. Descend(v) = <<0, half>>
    BY <1>1, <2>0, TuplesJoin
  <2>2. Len(Descend(v)) = 2 /\ Descend(v)[1] = 0 /\ Descend(v)[2] = half
    BY <2>1
  <2>. QED BY <1>1, <1>3, <2>2 DEF half
<1>4. CASE half = 0 /\ v - 1 \notin {0, half}
  <2>1. Descend(v) = <<0, v - 1>>
    BY <1>4 DEF Descend, half
  <2>2. Len(Descend(v)) = 2 /\ Descend(v)[1] = 0 /\ Descend(v)[2] = v - 1
    BY <2>1
  <2>. QED BY <1>1, <1>4, <2>2 DEF half
<1>5. CASE half = 0 /\ v - 1 \in {0, half}
  <2>1. Descend(v) = <<0>>
    BY <1>5 DEF Descend, half
  <2>2. Len(Descend(v)) = 1 /\ Descend(v)[1] = 0
    BY <2>1
  <2>. QED BY <1>1, <1>5, <2>2 DEF half
<1>. QED BY <1>2, <1>3, <1>4, <1>5

\* What is left when a chunk is deleted.
LEMMA DeletedIsTyped ==
  ASSUME NEW d \in Seq(Draws), NEW i \in 1 .. Len(d), NEW n \in Nat \ {0}
  PROVE  /\ Without(d, i, n) \in Seq(Draws)
         /\ n = 1 /\ Len(d) > 1 => Without(d, i, n) # << >>
<1>. DEFINE a == SubSeq(d, 1, i - 1)
            b == SubSeq(d, i + n, Len(d))
            w == Without(d, i, n)
<1>1. Len(d) \in Nat /\ \A j \in 1 .. Len(d) : d[j] \in Draws
  BY DrawsAreTyped
<1>2. a \in Seq(Draws) /\ Len(a) = i - 1
  BY <1>1, DelaysOfPrefix
<1>3. b \in Seq(Draws) /\ Len(b) = IF i + n <= Len(d) THEN Len(d) - (i + n) + 1 ELSE 0
  <2>1. i + n \in Int /\ Len(d) \in Int /\ \A j \in i + n .. Len(d) : d[j] \in Draws
    BY <1>1
  <2>. QED BY <2>1, SubSeqProperties
<1>4. w = a \o b
  BY DEF Without
<1>. HIDE DEF a, b, w
<1>5. w \in Seq(Draws) /\ Len(w) = Len(a) + Len(b)
  BY <1>2, <1>3, <1>4, ConcatProperties
<1>6. ASSUME n = 1, Len(d) > 1 PROVE Len(w) # 0
  BY <1>1, <1>2, <1>3, <1>5, <1>6
<1>7. ASSUME n = 1, Len(d) > 1 PROVE w # << >>
  BY <1>6, <1>7
<1>. QED BY <1>5, <1>7 DEF w

\* A chunk of zeroes, and a draw with a smaller value, can be drawn.
LEMMA ZeroedIsTyped ==
  ASSUME NEW d \in Seq(Draws), NEW i, NEW n
  PROVE  Zeroed(d, i, n) \in Seq(Draws)
<1>1. Len(d) \in Nat /\ \A j \in 1 .. Len(d) : d[j] \in Draws /\ Draw(d[j].site, 0) \in Draws
  BY DrawsAreTyped, ValuesGoDown
<1>. QED BY <1>1 DEF Zeroed

LEMMA LoweredIsTyped ==
  ASSUME NEW d \in Seq(Draws), NEW i \in 1 .. Len(d), NEW v \in Nat, v <= d[i].value
  PROVE  Lowered(d, i, v) \in Seq(Draws)
<1>1. Len(d) \in Nat /\ d \in [1 .. Len(d) -> Draws]
  BY LenProperties
<1>2. d[i] = Draw(d[i].site, d[i].value) /\ d[i].site \in Sites /\ d[i].value \in Values(d[i].site)
  BY DrawsAreTyped
<1>3. [d[i] EXCEPT !.value = v] = Draw(d[i].site, v)
  BY <1>2 DEF Draw
<1>4. Draw(d[i].site, v) \in Draws
  BY <1>2, ValuesGoDown
<1>5. Lowered(d, i, v) = [d EXCEPT ![i] = Draw(d[i].site, v)]
  BY <1>1, <1>3 DEF Lowered
<1>6. Lowered(d, i, v) \in [1 .. Len(d) -> Draws]
  BY <1>1, <1>4, <1>5
<1>. QED BY <1>1, <1>6

----------------------------------------------------------------------------
(* A session: the failure that is reported and what can be run again.      *)

Reported == stage \in {"shrink", "reported"}

\* What the stages of a session can rely on.
SessionInv ==
  /\ settings \in SettingsChoices
  /\ stage # "soak" => program \in Programs
  /\ Enumerating => settings.mode # "explore"
  /\ stage = "shrink" => settings.shrink
  /\ \A s \in DOMAIN universe : universe[s] \in DOMAIN Target
  /\ witness # 0 => /\ witness \in 1 .. Len(schedules)
                    /\ program[schedules[witness]].error # Ok
  /\ stage # "ended" => rerun = NoFailure

\* The failure is the one the seed and the tape lead to.
FailureInv ==
  Reported =>
    /\ failure.error \in Instances[failure.error]
    /\ failure.seed # NoFailure => failure.error = Target[universe[failure.seed]].error
    /\ failure.tape \in Seq(Draws)
    /\ SameProgram => failure.tape \in DOMAIN Target /\ Target[failure.tape].error = failure.error

\* The tape that is shrunk is a universe that fails in the same way.
ShrunkInv ==
  Reported /\ settings.shrink =>
    /\ current \in Seq(Draws) /\ improved \in BOOLEAN /\ runsUsed \in Nat
    /\ cursor \in [pass : {"delete", "zero", "values", "done"}, chunk : Nat \ {0},
                   index : Nat \ {0}, trial : Nat \ {0}]
    /\ SameProgram => current \in DOMAIN Target /\ Target[current].error \in Instances[failure.error]

LEMMA SessionStart == Init => SessionInv /\ FailureInv /\ ShrunkInv
<1>. SUFFICES ASSUME Init PROVE SessionInv /\ FailureInv /\ ShrunkInv
  OBVIOUS
<1>1. stage = settings.mode /\ settings.mode \in Modes /\ settings \in SettingsChoices
  BY CampaignAssumption DEF Init
<1>2. stage \notin {"shrink", "reported", "ended"}
  BY <1>1 DEF Modes
<1>3. DOMAIN universe = {} /\ witness = 0 /\ rerun = NoFailure /\ (stage # "soak" => program \in Programs)
  BY <1>1 DEF Init, SystematicInit
<1>. QED BY <1>1, <1>2, <1>3 DEF SessionInv, FailureInv, ShrunkInv, Reported, Enumerating

LEMMA SessionStep ==
  ASSUME SessionInv, EnumInv, ExploreInv, [Next]_vars
  PROVE  SessionInv'
<1>1. CASE \E s \in 0 .. TestSeeds - 1 : RunUniverse(s)
  <2>1. PICK s \in 0 .. TestSeeds - 1 : RunUniverse(s)
    BY <1>1
  <2>2. /\ stage = "explore" /\ UNCHANGED <<program, settings, stage, rerun, systematicVars>>
        /\ \E d \in DOMAIN Target :
             universe' = [t \in DOMAIN universe \cup {s} |-> IF t = s THEN d ELSE universe[t]]
    BY <2>1 DEF RunUniverse, sessionVars
  <2>3. Target' = Target
    BY <2>2 DEF Target
  <2>4. \A t \in DOMAIN universe' : universe'[t] \in DOMAIN Target
    BY <2>2 DEF SessionInv
  <2>. QED BY <2>2, <2>3, <2>4 DEF SessionInv, systematicVars, Enumerating
<1>2. CASE Enumerate
  <2>. DEFINE d == Realised(program, plan)
  <2>1. /\ Enumerating /\ UNCHANGED <<program, settings, stage, rerun, universe>>
        /\ schedules' = Append(schedules, d)
        /\ witness' = IF witness = 0 /\ program[d].error # Ok THEN Len(schedules) + 1 ELSE witness
    BY <1>2 DEF Enumerate, RunSchedule, Turn, sessionVars, exploreVars
  <2>2. schedules \in Seq(DOMAIN program) /\ Len(schedules) \in Nat
    <3>1. schedules \in Seq(WithinBounds(program)) /\ Len(schedules) \in Nat
      BY LenProperties DEF EnumInv
    <3>. QED BY <3>1 DEF WithinBounds
  <2>3. d \in DOMAIN program
    <3>1. program \in Programs /\ plan \in Seq(Draws)
      BY <2>1 DEF EnumInv
    <3>. QED BY <3>1, ProgramsAreTrees, EveryTapeLeads
  <2>. HIDE DEF d
  <2>4. /\ Len(schedules') = Len(schedules) + 1 /\ schedules'[Len(schedules) + 1] = d
        /\ \A m \in 1 .. Len(schedules) : schedules'[m] = schedules[m]
    BY <2>1, <2>2, <2>3, AppendProperties
  <2>5. witness' # 0 => witness' \in 1 .. Len(schedules') /\ program[schedules'[witness']].error # Ok
    BY <2>1, <2>2, <2>4 DEF SessionInv
  <2>. QED BY <2>1, <2>5 DEF SessionInv, Enumerating, Target
<1>3. CASE FinishExplore \/ FinishSystematic
  <2>1. /\ UNCHANGED <<program, settings, universe, rerun, witness, schedules>>
        /\ stage \in {"explore", "systematic", "enumerate"}
        /\ stage' \in {"shrink", "reported", "ended"} /\ (stage' = "shrink" => settings.shrink)
    BY <1>3 DEF FinishExplore, FinishSystematic, Witness, Pass, exploreVars, systematicVars, Enumerating
  <2>. QED BY <2>1 DEF SessionInv, Enumerating, Target
<1>4. CASE Report
  <2>1. /\ UNCHANGED <<program, settings, universe, rerun, witness, schedules>>
        /\ stage = "shrink" /\ stage' = "reported"
    BY <1>4 DEF Report, exploreVars, systematicVars
  <2>. QED BY <2>1 DEF SessionInv, Enumerating, Target
<1>5. CASE Rerun
  <2>1. /\ UNCHANGED <<program, settings, universe, witness, schedules>>
        /\ stage = "reported" /\ stage' = "ended"
    BY <1>5 DEF Rerun, RerunSeed, RerunTape, exploreVars, systematicVars
  <2>. QED BY <2>1 DEF SessionInv, Enumerating, Target
<1>6. CASE UNCHANGED <<program, settings, stage, rerun, universe, witness, schedules>>
  BY <1>6 DEF SessionInv, Enumerating, Target
<1>. QED BY <1>1, <1>2, <1>3, <1>4, <1>5, <1>6
         DEF Next, TakeResult, Shrink, Soaking, vars, sessionVars, exploreVars, systematicVars

\* A failure of a program is an instance of itself, and a universe is a sequence of draws.
LEMMA UniversesOfTarget ==
  ASSUME SessionInv, stage # "soak", NEW d \in DOMAIN Target
  PROVE  /\ d \in Seq(Draws) /\ IsTree(Target)
         /\ Target[d].error # Ok => Target[d].error \in Instances[Target[d].error]
<1>1. program \in Programs
  BY DEF SessionInv
<1>2. IsTree(Target)
  BY <1>1, SeededIsTree DEF Target
<1>3. PICK b \in DOMAIN program : Target[d] = program[b]
  BY <1>1, SeededResults DEF Target
<1>. QED BY <1>1, <1>2, <1>3, InstancesAssumption DEF IsTree

\* The witness that explore hands over.
LEMMA FinishExploreReports ==
  ASSUME SessionInv, ExploreInv, FinishExplore
  PROVE  FailureInv'
<1>1. /\ stage = "explore" /\ UNCHANGED <<settings, program, universe>>
      /\ executed \in Nat
      /\ \A s \in Nat : s < executed => s \in DOMAIN universe
      /\ failures = {s \in 0 .. executed - 1 : Failed(s)}
  BY DEF FinishExplore, ExploreInv, exploreVars
<1>2. CASE failures = {}
  <2>1. stage' = "ended"
    BY <1>2 DEF FinishExplore, Pass
  <2>. QED BY <2>1 DEF FailureInv, Reported
<1>3. CASE failures # {}
  <2>. DEFINE l == Lowest(failures)
              u == universe[l]
  <2>1. failure' = [seed |-> l, tape |-> u, error |-> Target[u].error]
    BY <1>3 DEF FinishExplore, Witness
  <2>2. l \in failures
    <3>1. failures \in SUBSET Nat
      BY <1>1
    <3>. QED BY <1>3, <3>1, LowestIsLeast
  <2>. HIDE DEF l
  <2>3. l \in DOMAIN universe /\ Failed(l)
    BY <1>1, <2>2
  <2>4. u \in DOMAIN Target /\ Target[u].error # Ok
    BY <2>3 DEF SessionInv, Failed
  <2>5. u \in Seq(Draws) /\ Target[u].error \in Instances[Target[u].error]
    BY <1>1, <2>4, UniversesOfTarget
  <2>6. Target' = Target /\ universe' = universe
    BY <1>1 DEF Target
  <2>. HIDE DEF u
  <2>7. /\ failure'.seed = l /\ failure'.tape = u /\ failure'.error = Target[u].error
    BY <2>1
  <2>8. universe'[failure'.seed] = u
    BY <2>6, <2>7 DEF u
  <2>. QED BY <2>4, <2>5, <2>6, <2>7, <2>8 DEF FailureInv
<1>. QED BY <1>2, <1>3

\* The witness that systematic search hands over; without the entropy draw its tape is one
\* of the program that is replayed.
LEMMA FinishSystematicReports ==
  ASSUME SessionInv, EnumInv, FinishSystematic
  PROVE  FailureInv'
<1>1. Enumerating /\ UNCHANGED <<settings, program, universe>>
  BY DEF FinishSystematic, exploreVars
<1>2. CASE ~(witness # 0 /\ stage = "systematic")
  <2>1. stage' = "ended"
    BY <1>2 DEF FinishSystematic, Pass
  <2>. QED BY <2>1 DEF FailureInv, Reported
<1>3. CASE witness # 0 /\ stage = "systematic"
  <2>. DEFINE d == schedules[witness]
  <2>1. failure' = [seed |-> NoFailure, tape |-> d, error |-> program[d].error]
    BY <1>3 DEF FinishSystematic, Witness
  <2>2. program \in Programs /\ settings.mode # "explore"
    BY <1>1, <1>3 DEF SessionInv
  <2>3. d \in DOMAIN program /\ program[d].error # Ok
    <3>1. witness \in 1 .. Len(schedules) /\ program[d].error # Ok
      BY <1>3 DEF SessionInv
    <3>2. d \in WithinBounds(program)
      BY <3>1, ElementOfSeq DEF EnumInv
    <3>. QED BY <3>1, <3>2 DEF WithinBounds
  <2>4. d \in Seq(Draws) /\ program[d].error \in Instances[program[d].error]
    BY <2>2, <2>3, ProgramsAreTrees, InstancesAssumption DEF IsTree
  <2>5. SameProgram' => Target' = program
    BY <1>1, <2>2 DEF SameProgram, Target, Seeded
  <2>. HIDE DEF d
  <2>6. failure'.seed = NoFailure /\ failure'.tape = d /\ failure'.error = program[d].error
    BY <2>1
  <2>. QED BY <2>3, <2>4, <2>5, <2>6 DEF FailureInv
<1>. QED BY <1>2, <1>3

LEMMA FailureStep ==
  ASSUME SessionInv, EnumInv, ExploreInv, FailureInv, [Next]_vars
  PROVE  FailureInv'
<1>1. CASE FinishExplore
  BY <1>1, FinishExploreReports
<1>2. CASE FinishSystematic
  BY <1>2, FinishSystematicReports
<1>3. CASE ~Reported'
  BY <1>3 DEF FailureInv
<1>4. CASE UNCHANGED <<settings, program, universe, failure>> /\ Reported
  BY <1>4 DEF FailureInv, Target, SameProgram
<1>5. ASSUME NEW s \in 0 .. TestSeeds - 1, RunUniverse(s) \/ TakeResult(s) PROVE ~Reported'
  BY <1>5 DEF RunUniverse, TakeResult, sessionVars, Reported
<1>6. ASSUME Enumerate \/ Rerun \/ Soaking PROVE ~Reported'
  BY <1>6 DEF Enumerate, Enumerating, Rerun, Soaking, sessionVars, Reported
<1>7. ASSUME Shrink \/ Report PROVE UNCHANGED <<settings, program, universe, failure>> /\ Reported
  BY <1>7 DEF Shrink, Report, sessionVars, exploreVars, Reported
<1>8. ASSUME UNCHANGED vars PROVE UNCHANGED <<settings, program, universe, failure, stage>>
  BY <1>8 DEF vars, sessionVars, exploreVars
<1>9. CASE UNCHANGED vars
  BY <1>3, <1>4, <1>8, <1>9 DEF Reported
<1>. QED BY <1>1, <1>2, <1>3, <1>4, <1>5, <1>6, <1>7, <1>9 DEF Next

IsCursor(c) ==
  c \in [pass : {"delete", "zero", "values", "done"}, chunk : Nat \ {0},
         index : Nat \ {0}, trial : Nat \ {0}]

LEMMA CursorsMove ==
  /\ \A pass \in {"delete", "zero", "values", "done"} : \A n \in Nat \ {0} : IsCursor(At(pass, n))
  /\ \A d \in Seq(Draws) : Coarsest(d) \in Nat \ {0}
  /\ \A n \in Nat \ {0} : n > 1 => n \div 2 \in Nat \ {0}
  /\ IsCursor(cursor) => /\ \A n \in Nat \ {0} : IsCursor(Advance(n))
                         /\ IsCursor([cursor EXCEPT !.trial = @ + 1])
<1>1. \A n \in Nat \ {0} : n > 1 => n \div 2 \in Nat \ {0}
  OBVIOUS
<1>2. \A d \in Seq(Draws) : Coarsest(d) \in Nat \ {0}
  <2>1. \A d \in Seq(Draws) : Len(d) \in Nat
    BY LenProperties
  <2>2. \A n \in Nat : n \div 2 \in Nat
    OBVIOUS
  <2>. QED BY <2>1, <2>2 DEF Coarsest
<1>3. \A pass \in {"delete", "zero", "values", "done"} : \A n \in Nat \ {0} : IsCursor(At(pass, n))
  BY DEF IsCursor, At
<1>4. ASSUME IsCursor(cursor), NEW n \in Nat \ {0}
      PROVE  IsCursor(Advance(n)) /\ IsCursor([cursor EXCEPT !.trial = @ + 1])
  <2>1. cursor.index + n \in Nat \ {0} /\ cursor.trial + 1 \in Nat \ {0}
    BY <1>4 DEF IsCursor
  <2>2. [cursor EXCEPT !.trial = cursor.trial + 1] \in
          [pass : {"delete", "zero", "values", "done"}, chunk : Nat \ {0}, index : Nat \ {0}, trial : Nat \ {0}]
    BY <1>4, <2>1 DEF IsCursor
  <2>3. [cursor EXCEPT !.index = cursor.index + n, !.trial = 1] \in
          [pass : {"delete", "zero", "values", "done"}, chunk : Nat \ {0}, index : Nat \ {0}, trial : Nat \ {0}]
    <3>. DEFINE c == [cursor EXCEPT !.index = cursor.index + n]
                a == [cursor EXCEPT !.index = cursor.index + n, !.trial = 1]
    <3>1. c \in [pass : {"delete", "zero", "values", "done"}, chunk : Nat \ {0}, index : Nat \ {0}, trial : Nat \ {0}]
      BY <1>4, <2>1 DEF IsCursor
    <3>2. a = [c EXCEPT !.trial = 1]
      BY <1>4 DEF IsCursor
    <3>. HIDE DEF c
    <3>3. [c EXCEPT !.trial = 1] \in
            [pass : {"delete", "zero", "values", "done"}, chunk : Nat \ {0}, index : Nat \ {0}, trial : Nat \ {0}]
      BY <3>1
    <3>. HIDE DEF a
    <3>4. a \in [pass : {"delete", "zero", "values", "done"}, chunk : Nat \ {0}, index : Nat \ {0}, trial : Nat \ {0}]
      BY <3>2, <3>3, Zenon
    <3>. QED BY <3>4 DEF a
  <2>. QED BY <2>2, <2>3 DEF IsCursor, Advance
<1>5. IsCursor(cursor) => IsCursor([cursor EXCEPT !.trial = @ + 1])
  <2>1. 1 \in Nat \ {0}
    OBVIOUS
  <2>. QED BY <1>4, <2>1
<1>. QED BY <1>1, <1>2, <1>3, <1>4, <1>5

\* What is tried can be drawn.
LEMMA CandidateIsTyped ==
  ASSUME current \in Seq(Draws), IsCursor(cursor), HasCandidate
  PROVE  Candidate \in Seq(Draws) /\ cursor.pass \in {"delete", "zero", "values"}
<1>1. /\ cursor.index \in 1 .. Len(current) /\ cursor.chunk \in Nat \ {0} /\ cursor.trial \in Nat \ {0}
      /\ cursor.pass \in {"delete", "zero", "values", "done"} /\ Len(current) \in Nat
  BY LenProperties DEF IsCursor, HasCandidate, InRange
<1>2. cursor.pass # "done"
  BY DEF HasCandidate
<1>3. CASE cursor.pass = "delete"
  BY <1>1, <1>3, DeletedIsTyped DEF Candidate
<1>4. CASE cursor.pass = "zero"
  BY <1>4, ZeroedIsTyped DEF Candidate
<1>5. CASE cursor.pass = "values"
  <2>. DEFINE v == current[cursor.index].value
              w == Descend(v)[cursor.trial]
  <2>1. v # 0 /\ cursor.trial <= Len(Descend(v))
    BY <1>5 DEF HasCandidate
  <2>2. v \in Nat \ {0}
    BY <1>1, <2>1, DrawsAreTyped
  <2>3. Len(Descend(v)) \in Nat /\ \A t \in 1 .. Len(Descend(v)) : Descend(v)[t] \in Nat /\ Descend(v)[t] < v
    BY <2>2, DescendGoesDown
  <2>4. w \in Nat /\ w < v
    BY <1>1, <2>1, <2>3
  <2>5. w <= v
    <3>. HIDE DEF w, v
    <3>. QED BY <2>2, <2>4
  <2>6. Candidate = Lowered(current, cursor.index, w)
    BY <1>5 DEF Candidate
  <2>. HIDE DEF w
  <2>. QED BY <1>1, <1>5, <2>4, <2>5, <2>6, LoweredIsTyped
<1>. QED BY <1>1, <1>2, <1>3, <1>4, <1>5

\* A candidate that is accepted is replaced by the universe that its replay realised.
LEMMA ShrunkStaysAFailure ==
  ASSUME SessionInv, ShrunkInv, Shrink
  PROVE  ShrunkInv'
<1>1. /\ stage = "shrink" /\ settings.shrink /\ UNCHANGED <<stage, settings, program, failure>>
      /\ ShrinkStep(Target, failure.error, settings.budget)
  BY DEF Shrink, sessionVars, SessionInv
<1>2. /\ current \in Seq(Draws) /\ improved \in BOOLEAN /\ runsUsed \in Nat /\ IsCursor(cursor)
      /\ SameProgram => current \in DOMAIN Target /\ Target[current].error \in Instances[failure.error]
  BY <1>1 DEF ShrunkInv, Reported, IsCursor
<1>3. IsTree(Target) /\ Target' = Target /\ (SameProgram' <=> SameProgram)
  <2>1. program \in Programs
    BY <1>1 DEF SessionInv
  <2>. QED BY <1>1, <2>1, SeededIsTree DEF Target, SameProgram
<1>4. SUFFICES /\ current' \in Seq(Draws) /\ improved' \in BOOLEAN /\ runsUsed' \in Nat /\ IsCursor(cursor')
               /\ SameProgram => current' \in DOMAIN Target /\ Target[current'].error \in Instances[failure.error]
  BY <1>1, <1>3 DEF ShrunkInv, IsCursor
<1>5. cursor.chunk \in Nat \ {0} /\ cursor.pass \in {"delete", "zero", "values", "done"}
  BY <1>2 DEF IsCursor
<1>6. CASE TryCandidate(Target, failure.error, settings.budget)
  <2>. DEFINE r == Realised(Target, Candidate)
  <2>1. HasCandidate /\ runsUsed' = runsUsed + 1
    BY <1>6 DEF TryCandidate
  <2>2. Candidate \in Seq(Draws) /\ cursor.pass \in {"delete", "zero", "values"}
    BY <1>2, <2>1, CandidateIsTyped
  <2>3. r \in DOMAIN Target
    BY <1>3, <2>2, EveryTapeLeads
  <2>4. CASE Accepts(Target, failure.error, current, Candidate)
    <3>1. /\ current' = r /\ improved' = TRUE /\ Target[r].error \in Instances[failure.error]
          /\ cursor' = CASE cursor.pass = "delete" -> cursor
                         [] cursor.pass = "zero" -> Advance(cursor.chunk)
                         [] cursor.pass = "values" -> Advance(1)
      BY <1>6, <2>4 DEF TryCandidate, Accept, Accepts
    <3>2. cursor' \in {cursor, Advance(cursor.chunk), Advance(1)}
      BY <2>2, <3>1
    <3>3. IsCursor(cursor')
      BY <1>2, <1>5, <3>2, CursorsMove
    <3>4. r \in Seq(Draws)
      BY <1>3, <2>3 DEF IsTree
    <3>5. runsUsed' \in Nat /\ improved' \in BOOLEAN
      BY <1>2, <2>1, <3>1
    <3>6. current' = r /\ Target[r].error \in Instances[failure.error]
      BY <3>1
    <3>. HIDE DEF r
    <3>. QED BY <2>3, <3>3, <3>4, <3>5, <3>6
  <2>5. CASE ~Accepts(Target, failure.error, current, Candidate)
    <3>1. /\ UNCHANGED <<current, improved>>
          /\ cursor' \in {[cursor EXCEPT !.trial = @ + 1], Advance(cursor.chunk)}
      BY <1>6, <2>5 DEF TryCandidate, Reject
    <3>2. IsCursor(cursor')
      BY <1>2, <1>5, <3>1, CursorsMove
    <3>. QED BY <1>2, <2>1, <3>1, <3>2
  <2>. QED BY <2>4, <2>5
<1>7. CASE MoveOn(settings.budget)
  <2>1. UNCHANGED <<current, runsUsed>> /\ improved' \in {improved, FALSE}
    BY <1>7 DEF MoveOn, NextRound
  <2>2. \/ cursor' \in {Advance(1), Advance(cursor.chunk)}
        \/ cursor.chunk > 1 /\ cursor' = At(cursor.pass, cursor.chunk \div 2)
        \/ cursor' \in {At("zero", Coarsest(current)), At("values", Coarsest(current)),
                        At("delete", Coarsest(current)), At("done", 1)}
    BY <1>7 DEF MoveOn, NextRound
  <2>3. IsCursor(cursor')
    BY <1>2, <1>5, <2>2, CursorsMove
  <2>. QED BY <1>2, <2>1, <2>3
<1>8. CASE OutOfBudget(settings.budget)
  <2>1. UNCHANGED <<current, improved, runsUsed>> /\ cursor' = At("done", 1)
    BY <1>8 DEF OutOfBudget
  <2>2. IsCursor(cursor')
    BY <2>1, CursorsMove
  <2>. QED BY <1>2, <2>1, <2>2
<1>. QED BY <1>1, <1>6, <1>7, <1>8 DEF ShrinkStep

\* The shrinker begins with the tape of the failure.
LEMMA ShrunkStep ==
  ASSUME SessionInv, EnumInv, ExploreInv, FailureInv, ShrunkInv, [Next]_vars
  PROVE  ShrunkInv'
<1>1. CASE Shrink
  BY <1>1, ShrunkStaysAFailure
<1>2. CASE FinishExplore \/ FinishSystematic
  <2>1. CASE ~(Reported /\ settings.shrink)'
    BY <2>1 DEF ShrunkInv
  <2>2. CASE (Reported /\ settings.shrink)'
    <3>1. UNCHANGED <<settings, program, universe>> /\ stage \in {"explore", "systematic", "enumerate"}
      BY <1>2 DEF FinishExplore, FinishSystematic, exploreVars, Enumerating
    <3>2. ShrinkFrom(failure'.tape)
      <4>1. ASSUME NEW seed, NEW tape, NEW error, Witness(seed, tape, error)
            PROVE  ShrinkFrom(failure'.tape)
        <5>1. settings.shrink /\ failure'.tape = tape
          BY <2>2, <3>1, <4>1 DEF Witness
        <5>. QED BY <4>1, <5>1 DEF Witness
      <4>2. ASSUME NEW v, Pass(v) PROVE FALSE
        BY <2>2, <4>2 DEF Pass, Reported
      <4>. QED BY <1>2, <4>1, <4>2 DEF FinishExplore, FinishSystematic
    <3>3. FailureInv'
      BY <1>2, FinishExploreReports, FinishSystematicReports
    <3>4. /\ failure'.error \in Instances[failure'.error]
          /\ failure'.tape \in Seq(Draws)
          /\ SameProgram' => /\ failure'.tape \in DOMAIN Target'
                             /\ Target'[failure'.tape].error = failure'.error
      BY <2>2, <3>3 DEF FailureInv
    <3>5. /\ current' = failure'.tape /\ cursor' = At("delete", Coarsest(failure'.tape))
          /\ improved' = FALSE /\ runsUsed' = 0
      BY <3>2 DEF ShrinkFrom
    <3>6. IsCursor(cursor')
      BY <3>4, <3>5, CursorsMove
    <3>. QED BY <3>4, <3>5, <3>6 DEF ShrunkInv, IsCursor
  <2>. QED BY <2>1, <2>2
<1>3. CASE ~Reported'
  BY <1>3 DEF ShrunkInv
<1>4. CASE UNCHANGED <<settings, program, failure, shrinkVars>> /\ Reported
  BY <1>4 DEF ShrunkInv, Target, SameProgram, shrinkVars
<1>5. ASSUME NEW s \in 0 .. TestSeeds - 1, RunUniverse(s) \/ TakeResult(s) PROVE ~Reported'
  BY <1>5 DEF RunUniverse, TakeResult, sessionVars, Reported
<1>6. ASSUME Enumerate \/ Rerun \/ Soaking PROVE ~Reported'
  BY <1>6 DEF Enumerate, Enumerating, Rerun, Soaking, sessionVars, Reported
<1>7. ASSUME Report PROVE UNCHANGED <<settings, program, failure, shrinkVars>> /\ Reported
  BY <1>7 DEF Report, Reported
<1>8. CASE UNCHANGED vars
  <2>1. UNCHANGED <<settings, program, failure, stage, shrinkVars>>
    BY <1>8 DEF vars, sessionVars
  <2>. QED BY <1>3, <1>4, <2>1 DEF Reported
<1>. QED BY <1>1, <1>2, <1>3, <1>4, <1>5, <1>6, <1>7, <1>8 DEF Next

\* A strict replay of a universe of the program is that universe: no other one agrees
\* with all of it.
LEMMA StrictReplayIsExact ==
  ASSUME NEW p, IsTree(p), NEW t \in DOMAIN p
  PROVE  StrictError(p, t) = p[t].error
<1>. DEFINE drawn == {d \in DOMAIN p : AgreeUpTo(d, t, Len(d))}
            left  == {d \in drawn : p[d].error = Ok /\ Len(d) < Len(t)}
<1>1. \A d \in DOMAIN p : Len(d) \in Nat /\ d \in Seq(Draws)
  BY DrawsAreTyped DEF IsTree
<1>2. ASSUME NEW d \in drawn PROVE d = t
  <2>1. Len(d) \in Nat /\ Len(t) \in Nat /\ Len(d) <= Len(t) /\ \A j \in 1 .. Len(d) : d[j] = t[j]
    BY <1>1, <1>2 DEF AgreeUpTo
  <2>2. ASSUME Len(d) < Len(t) PROVE FALSE
    <3>1. Len(d) + 1 \in 1 .. Len(t) /\ AgreeUpTo(t, d, (Len(d) + 1) - 1)
      BY <2>1, <2>2 DEF AgreeUpTo
    <3>2. Len(d) >= Len(d) + 1
      BY <3>1, <1>2 DEF IsTree
    <3>. QED BY <2>1, <3>2
  <2>3. Len(d) = Len(t)
    BY <2>1, <2>2
  <2>. QED BY <1>1, <1>2, <2>1, <2>3, SeqEqual
<1>3. t \in drawn /\ t \notin left
  BY <1>1 DEF AgreeUpTo
<1>4. drawn # left /\ (CHOOSE d \in drawn : TRUE) = t
  BY <1>2, <1>3
<1>. QED BY <1>4 DEF StrictError

\* What a later session is told.
LEMMA RerunReproduces ==
  ASSUME SessionInv, FailureInv, ShrunkInv, Rerun
  PROVE  ReportReproduces'
<1>1. stage = "reported" /\ UNCHANGED <<settings, program, failure>>
  BY DEF Rerun, RerunSeed, RerunTape
<1>2. SameProgram' <=> SameProgram
  BY <1>1 DEF SameProgram
<1>3. SUFFICES ASSUME SameProgram PROVE rerun'.error \in Instances[failure.error]
  BY <1>1, <1>2 DEF ReportReproduces
<1>4. /\ failure.error \in Instances[failure.error]
      /\ failure.seed # NoFailure => failure.error = Target[universe[failure.seed]].error
      /\ failure.tape \in DOMAIN Target /\ Target[failure.tape].error = failure.error
      /\ settings.shrink => current \in DOMAIN Target /\ Target[current].error \in Instances[failure.error]
  BY <1>1, <1>3 DEF FailureInv, ShrunkInv, Reported
<1>5. CASE RerunSeed
  <2>1. rerun'.error = Target[universe[failure.seed]].error /\ failure.seed # NoFailure
    BY <1>5 DEF RerunSeed
  <2>. QED BY <1>4, <2>1
<1>6. CASE RerunTape
  <2>1. PICK t \in {failure.tape} \cup (IF settings.shrink THEN {current} ELSE {}) :
          rerun' = [tape |-> t, error |-> StrictError(Target, t)]
    BY <1>6 DEF RerunTape
  <2>2. t \in DOMAIN Target /\ Target[t].error \in Instances[failure.error]
    BY <1>4, <2>1
  <2>3. rerun'.error = Target[t].error
    <3>1. IsTree(Target)
      BY <1>1, <2>2, UniversesOfTarget
    <3>. QED BY <2>1, <2>2, <3>1, StrictReplayIsExact
  <2>. QED BY <2>2, <2>3
<1>. QED BY <1>5, <1>6 DEF Rerun

ReportInv == SessionInv /\ FailureInv /\ ShrunkInv /\ EnumInv /\ ExploreInv

LEMMA ReportStep ==
  ASSUME ReportInv, [Next]_vars
  PROVE  ReportInv'
BY SessionStep, FailureStep, ShrunkStep, EnumStep, ExploreStep DEF ReportInv

\* What a test reports can be run again: the seed, the tape of the failure and the shrunk tape
\* end in the error that was reported, or in an instance of it (_report_failure, shrink,
\* replay), when the program that is replayed is the one that was recorded.
THEOREM ReportsReproduce == Spec => []ReportReproduces
<1>1. Init => ReportInv /\ ReportReproduces
  BY SessionStart, EnumStart, ExploreStart DEF ReportInv, ReportReproduces, Init
<1>2. (ReportInv /\ ReportReproduces) /\ [Next]_vars => (ReportInv /\ ReportReproduces)'
  <2>. SUFFICES ASSUME ReportInv, ReportReproduces, [Next]_vars PROVE ReportReproduces'
    BY ReportStep
  <2>1. CASE Rerun
    BY <2>1, RerunReproduces DEF ReportInv
  <2>2. CASE UNCHANGED <<rerun, settings, failure>>
    BY <2>2 DEF ReportReproduces, SameProgram
  <2>3. CASE rerun' = NoFailure
    BY <2>3 DEF ReportReproduces
  <2>4. ASSUME FinishExplore \/ FinishSystematic PROVE rerun' = NoFailure
    BY <2>4 DEF ReportInv, SessionInv, FinishExplore, FinishSystematic, Enumerating
  <2>. QED BY <2>1, <2>2, <2>3, <2>4
           DEF Next, RunUniverse, TakeResult, Enumerate, Shrink, Report, Soaking, vars, sessionVars
<1>. QED BY <1>1, <1>2, PTL DEF Spec

----------------------------------------------------------------------------
(* Shrinking, until nothing smaller fails.                                 *)

\* For a failure e of p and its tape d: draw i cannot be deleted; the values below that of draw i
\* will not do; the first trials at draw i were rejected.
NotDeleted(p, e, d, i) == Len(d) > 1 => ~Accepts(p, e, d, Without(d, i, 1))
NotLowered(p, e, d, i) ==
  \A v \in 0 .. d[i].value - 1 :
    v \in {0, d[i].value \div 2, d[i].value - 1} => ~Accepts(p, e, d, Lowered(d, i, v))
TriedAt(p, e, d, i, trial) ==
  \A t \in 1 .. Len(Descend(d[i].value)) :
    t < trial => ~Accepts(p, e, d, Lowered(d, i, Descend(d[i].value)[t]))

\* What the passes of a round that has accepted nothing have ruled out when they stand at c.
RuledOut(p, e, d, c) ==
  /\ c.pass = "delete" /\ c.chunk = 1 => \A i \in 1 .. Len(d) : i < c.index => NotDeleted(p, e, d, i)
  /\ c.pass \in {"zero", "values"} => \A i \in 1 .. Len(d) : NotDeleted(p, e, d, i)
  /\ c.pass = "values" =>
       /\ \A i \in 1 .. Len(d) : i < c.index => NotLowered(p, e, d, i)
       /\ c.index <= Len(d) => TriedAt(p, e, d, c.index, c.trial)

MinInv ==
  /\ stage = "shrink" /\ ~improved => RuledOut(Target, failure.error, current, cursor)
  /\ Reported /\ settings.shrink /\ cursor.pass = "done" /\ runsUsed < settings.budget =>
       LocallyMinimal(Target, failure.error, current)

\* A pass that begins has ruled out nothing yet.
LEMMA PassesBegin ==
  ASSUME NEW p, NEW e, NEW d \in Seq(Draws), NEW n \in Nat \ {0}
  PROVE  /\ RuledOut(p, e, d, At("delete", n))
         /\ (\A i \in 1 .. Len(d) : NotDeleted(p, e, d, i)) =>
              RuledOut(p, e, d, At("zero", n)) /\ RuledOut(p, e, d, At("values", n))
<1>1. Len(d) \in Nat
  BY LenProperties
<1>2. ASSUME 1 <= Len(d) PROVE TriedAt(p, e, d, 1, 1)
  <2>1. ASSUME NEW v PROVE \A t \in 1 .. Len(Descend(v)) : ~(t < 1)
    OBVIOUS
  <2>. QED BY <2>1 DEF TriedAt
<1>. QED BY <1>1, <1>2 DEF RuledOut, At

\* The trials at a draw are all there are.
LEMMA TriedMeansNotLowered ==
  ASSUME NEW p, NEW e, NEW d \in Seq(Draws), NEW i \in 1 .. Len(d), NEW n \in Nat,
         TriedAt(p, e, d, i, n), d[i].value = 0 \/ ~(n <= Len(Descend(d[i].value)))
  PROVE  NotLowered(p, e, d, i)
<1>1. d[i].value \in Nat
  BY DrawsAreTyped
<1>2. CASE d[i].value = 0
  BY <1>2 DEF NotLowered
<1>3. CASE d[i].value # 0
  <2>1. d[i].value \in Nat \ {0}
    BY <1>1, <1>3
  <2>2. /\ Len(Descend(d[i].value)) \in Nat
        /\ \A w \in {0, d[i].value \div 2, d[i].value - 1} :
             \E t \in 1 .. Len(Descend(d[i].value)) : Descend(d[i].value)[t] = w
    BY <2>1, DescendGoesDown
  <2>3. \A t \in 1 .. Len(Descend(d[i].value)) : t < n
    BY <1>3, <2>2
  <2>. QED BY <2>2, <2>3 DEF TriedAt, NotLowered
<1>. QED BY <1>2, <1>3

\* One step of the shrinker.
LEMMA ShrinkRulesOut ==
  ASSUME SessionInv, ShrunkInv, MinInv, Shrink
  PROVE  MinInv'
<1>. DEFINE p == Target
            e == failure.error
            d == current
            c == cursor
<1>1. /\ stage = "shrink" /\ stage' = "shrink" /\ settings.shrink
      /\ UNCHANGED <<settings, program, failure>>
      /\ ShrinkStep(p, e, settings.budget)
  BY DEF Shrink, sessionVars, SessionInv
<1>2. /\ d \in Seq(Draws) /\ Len(d) \in Nat /\ improved \in BOOLEAN /\ runsUsed \in Nat /\ IsCursor(c)
  BY <1>1, LenProperties DEF ShrunkInv, Reported, IsCursor
<1>3. settings.budget \in Nat /\ p' = p /\ e' = e
  BY <1>1, CampaignAssumption DEF SessionInv, Target
<1>4. /\ c.chunk \in Nat \ {0} /\ c.index \in Nat \ {0} /\ c.trial \in Nat \ {0}
      /\ c.pass \in {"delete", "zero", "values", "done"}
  BY <1>2 DEF IsCursor
<1>5. ~improved => RuledOut(p, e, d, c)
  BY <1>1 DEF MinInv
<1>6. ASSUME NEW n \in Nat
      PROVE  /\ Advance(n).pass = c.pass /\ Advance(n).chunk = c.chunk
             /\ Advance(n).index = c.index + n /\ Advance(n).trial = 1
  BY <1>2 DEF Advance, IsCursor
<1>7. SUFFICES /\ ~improved' => RuledOut(p, e, current', cursor')
               /\ cursor'.pass = "done" /\ runsUsed' < settings.budget => LocallyMinimal(p, e, current')
  BY <1>1, <1>3 DEF MinInv
<1>8. CASE TryCandidate(p, e, settings.budget)
  <2>1. HasCandidate /\ c.pass \in {"delete", "zero", "values"} /\ c.index \in 1 .. Len(d)
    BY <1>2, <1>4, <1>8, CandidateIsTyped DEF TryCandidate, HasCandidate, InRange
  <2>2. CASE Accepts(p, e, d, Candidate)
    <3>1. /\ improved' = TRUE
          /\ cursor' = CASE c.pass = "delete" -> c
                         [] c.pass = "zero" -> Advance(c.chunk)
                         [] c.pass = "values" -> Advance(1)
      BY <1>8, <2>2 DEF TryCandidate, Accept
    <3>2. cursor'.pass = c.pass
      BY <1>4, <1>6, <2>1, <3>1
    <3>. QED BY <2>1, <3>1, <3>2
  <2>3. CASE ~Accepts(p, e, d, Candidate)
    <3>1. UNCHANGED <<current, improved>>
      BY <1>8, <2>3 DEF TryCandidate, Reject
    <3>2. CASE c.pass = "values"
      <4>1. cursor' = [cursor EXCEPT !.trial = @ + 1]
        BY <1>8, <2>3, <3>2 DEF TryCandidate, Reject
      <4>2. cursor'.pass = "values" /\ cursor'.index = c.index /\ cursor'.trial = c.trial + 1
        BY <1>2, <3>2, <4>1 DEF IsCursor
      <4>3. Candidate = Lowered(d, c.index, Descend(d[c.index].value)[c.trial])
        BY <3>2 DEF Candidate
      <4>4. ASSUME TriedAt(p, e, d, c.index, c.trial) PROVE TriedAt(p, e, d, c.index, c.trial + 1)
        <5>. SUFFICES ASSUME NEW t \in 1 .. Len(Descend(d[c.index].value)), t < c.trial + 1
                      PROVE  ~Accepts(p, e, d, Lowered(d, c.index, Descend(d[c.index].value)[t]))
          BY DEF TriedAt
        <5>1. CASE t = c.trial
          BY <2>3, <4>3, <5>1
        <5>2. CASE t < c.trial
          BY <4>4, <5>2 DEF TriedAt
        <5>. QED BY <1>4, <5>1, <5>2
      <4>. QED BY <1>2, <1>5, <2>1, <3>1, <3>2, <4>2, <4>4 DEF RuledOut
    <3>3. CASE c.pass # "values"
      <4>1. cursor' = Advance(c.chunk)
        BY <1>8, <2>3, <3>3 DEF TryCandidate, Reject
      <4>2. /\ cursor'.pass = c.pass /\ cursor'.chunk = c.chunk /\ cursor'.index = c.index + c.chunk
        BY <1>4, <1>6, <4>1
      <4>3. CASE c.pass = "zero"
        BY <1>5, <2>1, <3>1, <4>2, <4>3 DEF RuledOut
      <4>4. CASE c.pass = "delete"
        <5>1. c.chunk = 1 => NotDeleted(p, e, d, c.index)
          BY <2>3, <4>4 DEF NotDeleted, Candidate
        <5>2. ASSUME c.chunk = 1, ~improved, NEW i \in 1 .. Len(d), i < c.index + 1
              PROVE  NotDeleted(p, e, d, i)
          <6>1. CASE i = c.index
            BY <5>1, <5>2, <6>1
          <6>2. CASE i < c.index
            BY <1>5, <4>4, <5>2, <6>2 DEF RuledOut
          <6>. QED BY <1>4, <5>2, <6>1, <6>2
        <5>. QED BY <2>1, <3>1, <4>2, <4>4, <5>2 DEF RuledOut
      <4>. QED BY <2>1, <3>3, <4>3, <4>4
    <3>. QED BY <3>2, <3>3
  <2>. QED BY <2>2, <2>3
<1>9. CASE MoveOn(settings.budget)
  <2>1. current' = d /\ ~HasCandidate /\ c.pass # "done"
    BY <1>9 DEF MoveOn
  <2>2. CASE InRange
    <3>1. improved' = improved /\ cursor' = Advance(IF c.pass = "values" THEN 1 ELSE c.chunk)
          /\ c.index \in 1 .. Len(d)
      BY <1>2, <1>4, <1>9, <2>2 DEF MoveOn, InRange
    <3>2. CASE c.pass = "delete"
      <4>1. cursor'.pass = "delete" /\ cursor'.chunk = c.chunk /\ cursor'.index = c.index + c.chunk
        BY <1>4, <1>6, <3>1, <3>2
      <4>2. c.chunk = 1 => NotDeleted(p, e, d, c.index)
        <5>1. Without(d, c.index, c.chunk) = << >>
          BY <2>1, <2>2, <3>2 DEF HasCandidate
        <5>. QED BY <1>2, <1>4, <3>1, <5>1, DeletedIsTyped DEF NotDeleted
      <4>3. ASSUME c.chunk = 1, ~improved, NEW i \in 1 .. Len(d), i < c.index + 1
            PROVE  NotDeleted(p, e, d, i)
        <5>1. CASE i = c.index
          BY <4>2, <4>3, <5>1
        <5>2. CASE i < c.index
          BY <1>5, <3>2, <4>3, <5>2 DEF RuledOut
        <5>. QED BY <1>4, <4>3, <5>1, <5>2
      <4>. QED BY <2>1, <3>1, <4>1, <4>3 DEF RuledOut
    <3>3. CASE c.pass = "zero"
      <4>1. cursor'.pass = "zero"
        BY <1>4, <1>6, <3>1, <3>3
      <4>. QED BY <1>5, <2>1, <3>1, <3>3, <4>1 DEF RuledOut
    <3>4. CASE c.pass = "values"
      <4>1. cursor'.pass = "values" /\ cursor'.index = c.index + 1 /\ cursor'.trial = 1
        BY <1>4, <1>6, <3>1, <3>4
      <4>2. d[c.index].value = 0 \/ ~(c.trial <= Len(Descend(d[c.index].value)))
        BY <2>1, <2>2, <3>4 DEF HasCandidate
      <4>3. ~improved => NotLowered(p, e, d, c.index)
        <5>1. ~improved => TriedAt(p, e, d, c.index, c.trial)
          BY <1>2, <1>5, <3>1, <3>4 DEF RuledOut
        <5>. QED BY <1>2, <1>4, <3>1, <4>2, <5>1, TriedMeansNotLowered
      <4>4. ASSUME ~improved, NEW i \in 1 .. Len(d), i < c.index + 1
            PROVE  NotLowered(p, e, d, i)
        <5>1. CASE i = c.index
          BY <4>3, <4>4, <5>1
        <5>2. CASE i < c.index
          BY <1>5, <3>4, <4>4, <5>2 DEF RuledOut
        <5>. QED BY <1>4, <4>4, <5>1, <5>2
      <4>5. TriedAt(p, e, d, c.index + 1, 1)
        <5>1. ASSUME NEW v PROVE \A t \in 1 .. Len(Descend(v)) : ~(t < 1)
          OBVIOUS
        <5>. QED BY <5>1 DEF TriedAt
      <4>. QED BY <1>5, <2>1, <3>1, <3>4, <4>1, <4>4, <4>5 DEF RuledOut
    <3>. QED BY <1>4, <2>1, <3>2, <3>3, <3>4
  <2>3. CASE ~InRange
    <3>1. \A i \in 1 .. Len(d) : i < c.index
      BY <1>2, <1>4, <2>3 DEF InRange
    <3>2. CASE c.pass # "values"
      <4>1. /\ improved' = improved
            /\ cursor' = IF c.chunk > 1 THEN At(c.pass, c.chunk \div 2)
                         ELSE At(IF c.pass = "delete" THEN "zero" ELSE "values", Coarsest(d))
        BY <1>9, <2>3, <3>2 DEF MoveOn
      <4>2. c.pass \in {"delete", "zero"} /\ Coarsest(d) \in Nat \ {0}
            /\ (c.chunk > 1 => c.chunk \div 2 \in Nat \ {0}) /\ (~(c.chunk > 1) => c.chunk = 1)
        BY <1>2, <1>4, <2>1, <3>2, CursorsMove
      <4>3. c.pass = "zero" \/ ~(c.chunk > 1) =>
              (~improved => \A i \in 1 .. Len(d) : NotDeleted(p, e, d, i))
        BY <1>5, <3>1, <4>2 DEF RuledOut
      <4>4. cursor'.pass # "done"
        BY <4>1, <4>2 DEF At
      <4>5. ~improved => RuledOut(p, e, d, cursor')
        BY <1>2, <4>1, <4>2, <4>3, PassesBegin
      <4>. QED BY <2>1, <4>1, <4>4, <4>5
    <3>3. CASE c.pass = "values" /\ improved
      <4>1. cursor' = At("delete", Coarsest(d))
        BY <1>9, <2>3, <3>3 DEF MoveOn, NextRound
      <4>2. Coarsest(d) \in Nat \ {0}
        BY <1>2, CursorsMove
      <4>. QED BY <1>2, <2>1, <4>1, <4>2, PassesBegin DEF At
    <3>4. CASE c.pass = "values" /\ ~improved
      <4>1. cursor' = At("done", 1)
        BY <1>9, <2>3, <3>4 DEF MoveOn, NextRound
      <4>2. \A i \in 1 .. Len(d) : NotDeleted(p, e, d, i) /\ NotLowered(p, e, d, i)
        BY <1>5, <3>1, <3>4 DEF RuledOut
      <4>3. LocallyMinimal(p, e, d)
        BY <4>2 DEF LocallyMinimal, NotDeleted, NotLowered
      <4>. QED BY <2>1, <4>1, <4>3 DEF RuledOut, At
    <3>. QED BY <3>2, <3>3, <3>4
  <2>. QED BY <2>2, <2>3
<1>10. CASE OutOfBudget(settings.budget)
  <2>1. runsUsed >= settings.budget /\ runsUsed' = runsUsed /\ cursor' = At("done", 1)
    BY <1>10 DEF OutOfBudget
  <2>2. ~(runsUsed' < settings.budget)
    BY <1>2, <1>3, <2>1
  <2>. QED BY <2>1, <2>2 DEF RuledOut, At
<1>. QED BY <1>1, <1>8, <1>9, <1>10 DEF ShrinkStep

LEMMA MinStart == Init => MinInv
<1>. SUFFICES ASSUME Init PROVE MinInv
  OBVIOUS
<1>1. stage \notin {"shrink", "reported"}
  BY CampaignAssumption DEF Init, Modes
<1>. QED BY <1>1 DEF MinInv, Reported

LEMMA MinStep ==
  ASSUME ReportInv, MinInv, [Next]_vars
  PROVE  MinInv'
<1>1. CASE Shrink
  BY <1>1, ShrinkRulesOut DEF ReportInv
<1>2. CASE ~Reported'
  BY <1>2 DEF MinInv, Reported
<1>3. CASE (FinishExplore \/ FinishSystematic) /\ (Reported /\ settings.shrink)'
  <2>1. UNCHANGED settings
    BY <1>3 DEF FinishExplore, FinishSystematic
  <2>2. stage' = "shrink" /\ current' = failure'.tape /\ cursor' = At("delete", Coarsest(failure'.tape))
    <3>1. ASSUME NEW seed, NEW tape, NEW error, Witness(seed, tape, error)
          PROVE  stage' = "shrink" /\ ShrinkFrom(tape) /\ failure'.tape = tape
      BY <1>3, <2>1, <3>1 DEF Witness
    <3>2. ASSUME NEW v, Pass(v) PROVE FALSE
      BY <1>3, <3>2 DEF Pass, Reported
    <3>. QED BY <1>3, <3>1, <3>2 DEF FinishExplore, FinishSystematic, ShrinkFrom
  <2>3. failure'.tape \in Seq(Draws)
    <3>1. FailureInv'
      BY <1>3, FinishExploreReports, FinishSystematicReports DEF ReportInv
    <3>. QED BY <1>3, <3>1 DEF FailureInv
  <2>4. Coarsest(failure'.tape) \in Nat \ {0}
    BY <2>3, CursorsMove
  <2>5. RuledOut(Target', failure'.error, current', cursor')
    BY <2>2, <2>3, <2>4, PassesBegin
  <2>6. cursor'.pass # "done"
    BY <2>2 DEF At
  <2>. QED BY <2>5, <2>6 DEF MinInv
<1>4. CASE UNCHANGED <<settings, program, failure, shrinkVars>> /\ Reported /\ stage' \in {stage, "reported"}
  BY <1>4 DEF MinInv, Target, Reported, shrinkVars
<1>5. ASSUME NEW s \in 0 .. TestSeeds - 1, RunUniverse(s) \/ TakeResult(s) PROVE ~Reported'
  BY <1>5 DEF RunUniverse, TakeResult, sessionVars, Reported
<1>6. ASSUME Enumerate \/ Rerun \/ Soaking PROVE ~Reported'
  BY <1>6 DEF Enumerate, Enumerating, Rerun, Soaking, sessionVars, Reported
<1>7. ASSUME Report
      PROVE  UNCHANGED <<settings, program, failure, shrinkVars>> /\ Reported /\ stage' \in {stage, "reported"}
  BY <1>7 DEF Report, Reported
<1>8. CASE UNCHANGED vars
  <2>1. UNCHANGED <<settings, program, failure, stage, shrinkVars>>
    BY <1>8 DEF vars, sessionVars
  <2>. QED BY <1>2, <1>4, <2>1 DEF Reported
<1>9. CASE (FinishExplore \/ FinishSystematic) /\ ~(Reported /\ settings.shrink)'
  <2>1. stage' # "shrink"
    <3>1. UNCHANGED settings
      BY <1>9 DEF FinishExplore, FinishSystematic
    <3>2. stage' = "shrink" => settings.shrink
      BY <1>9 DEF FinishExplore, FinishSystematic, Witness, Pass
    <3>. QED BY <1>9, <3>1, <3>2 DEF Reported
  <2>. QED BY <1>9, <2>1 DEF MinInv
<1>. QED BY <1>1, <1>2, <1>3, <1>4, <1>5, <1>6, <1>7, <1>8, <1>9 DEF Next

\* From a tape that the shrinker leaves with budget to spare no single draw can be deleted,
\* zeroed, halved or decremented (shrink, _descend): a round that accepts nothing has tried
\* every deletion of one draw and every smaller value that Descend names, and no other.
THEOREM TheShrunkTapeIsMinimal == Spec => []ShrunkIsMinimal
<1>1. Init => ReportInv /\ MinInv
  BY SessionStart, EnumStart, ExploreStart, MinStart DEF ReportInv
<1>2. (ReportInv /\ MinInv) /\ [Next]_vars => (ReportInv /\ MinInv)'
  BY ReportStep, MinStep
<1>3. MinInv => ShrunkIsMinimal
  BY DEF MinInv, ShrunkIsMinimal, Reported
<1>. QED BY <1>1, <1>2, <1>3, PTL DEF Spec
=============================================================================
