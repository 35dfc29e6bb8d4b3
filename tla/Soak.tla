-------------------------------- MODULE Soak --------------------------------
(***************************************************************************)
(* soak (src/simloom/_soak.py): the shards of one soak, one process each,  *)
(* that share a checkpoint file.  A process may be killed at any time and  *)
(* started again.  _write_cursor reads the file and later replaces it; the *)
(* replacement is atomic, the two together are not.                        *)
(***************************************************************************)
EXTENDS Naturals

CONSTANTS
  Shards,        \* shards
  Count,         \* count: seeds of each shard
  FailingSeeds,  \* seeds whose run ends in an error
  MaxKills       \* bound on the kills

ASSUME SoakAssumption == Shards \in Nat \ {0} /\ Count \in Nat /\ MaxKills \in Nat

VARIABLES
  checkpoint,  \* the file: the cursor of each shard
  soaker,      \* per shard: where its process stands
  index,       \* per shard: the index of its next seed
  image,       \* per shard: what _write_cursor read
  ran,         \* history: per shard and seed, how often it ran
  kills        \* kills so far, for the bound MaxKills

soakVars == <<checkpoint, soaker, index, image, ran, kills>>

Shard == 0 .. Shards - 1
Index == 0 .. Count - 1

\* [mutant] the stride is forgotten
ShardSeedMut(k, i) == k + i

\* shard_seed, from start 0
ShardSeed(k, i) == k + i * Shards

Seeds == {ShardSeed(k, i) : k \in Shard, i \in Index}
NoCursors == [k \in Shard |-> 0]

SoakInit ==
  /\ checkpoint = NoCursors /\ soaker = [k \in Shard |-> "down"]
  /\ index = NoCursors /\ image = [k \in Shard |-> NoCursors]
  /\ ran = [k \in Shard |-> [s \in 0 .. Shards * Count |-> 0]] /\ kills = 0

\* [mutant] the process resumes after the seed the cursor names
CursorReadMut(k) == IF checkpoint[k] = 0 THEN 0 ELSE checkpoint[k] + 1

\* _read_cursor; a shard that the file does not know starts at 0
CursorRead(k) == checkpoint[k]

\* soak() is called and reads the cursor; with nothing left to do it returns
StartSoak(k) ==
  /\ soaker[k] = "down"
  /\ index' = [index EXCEPT ![k] = CursorRead(k)]
  /\ soaker' = [soaker EXCEPT ![k] = IF CursorRead(k) < Count THEN "run" ELSE "finished"]
  /\ UNCHANGED <<checkpoint, image, ran, kills>>

\* one seed runs, to its end
RunSeed(k) ==
  /\ soaker[k] = "run"
  /\ ran' = [ran EXCEPT ![k][ShardSeed(k, index[k])] = @ + 1]
  /\ index' = [index EXCEPT ![k] = @ + 1]
  /\ soaker' = [soaker EXCEPT ![k] = "read"]
  /\ UNCHANGED <<checkpoint, image, kills>>

\* _write_cursor reads the cursors of all shards
ReadCheckpoint(k) ==
  /\ soaker[k] = "read"
  /\ image' = [image EXCEPT ![k] = checkpoint]
  /\ soaker' = [soaker EXCEPT ![k] = "replace"]
  /\ UNCHANGED <<checkpoint, index, ran, kills>>

\* the last seed failed and stop_on_failure is set
Stops(k, stopOnFailure) == stopOnFailure /\ ShardSeed(k, index[k] - 1) \in FailingSeeds

\* os.replace puts in place what was read, with the cursor of this shard moved on
ReplaceCheckpoint(k, stopOnFailure) ==
  /\ soaker[k] = "replace"
  /\ checkpoint' = [image[k] EXCEPT ![k] = index[k]]
  /\ soaker' = [soaker EXCEPT ![k] = IF Stops(k, stopOnFailure) THEN "down"
                                     ELSE IF index[k] < Count THEN "run" ELSE "finished"]
  /\ image' = [image EXCEPT ![k] = NoCursors]
  /\ UNCHANGED <<index, ran, kills>>

\* the process dies; what it held in memory is gone
Kill(k) ==
  /\ soaker[k] \notin {"down", "finished"} /\ kills < MaxKills
  /\ soaker' = [soaker EXCEPT ![k] = "down"]
  /\ image' = [image EXCEPT ![k] = NoCursors]
  /\ index' = [index EXCEPT ![k] = 0]
  /\ kills' = kills + 1
  /\ UNCHANGED <<checkpoint, ran>>

SoakStep(k, stopOnFailure) ==
  StartSoak(k) \/ RunSeed(k) \/ ReadCheckpoint(k) \/ ReplaceCheckpoint(k, stopOnFailure)
=============================================================================
