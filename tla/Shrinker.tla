------------------------------ MODULE Shrinker ------------------------------
(***************************************************************************)
(* shrink (src/simloom/_shrink.py): greedy minimisation of a failing tape. *)
(* Three passes over the tape, chunks of it deleted, chunks of it set to   *)
(* zero and single values set to zero, halved or decremented, repeated     *)
(* until none of them improves or the budget is spent.  One action is one  *)
(* candidate; a candidate is replayed, and the draws the replay consumed   *)
(* replace the tape if the run fails the same way and they come before it  *)
(* in the order.                                                           *)
(***************************************************************************)
EXTENDS Universe

CONSTANT Instances  \* for each error, the errors that isinstance() takes for it

ASSUME InstancesAssumption ==
  \A p \in Programs : \A d \in DOMAIN p : p[d].error # Ok => p[d].error \in Instances[p[d].error]

VARIABLES
  current,   \* the smallest failing tape so far
  cursor,    \* pass, chunk, index and trial: where the loops stand
  improved,  \* this round accepted a candidate
  runsUsed   \* candidates replayed

shrinkVars == <<current, cursor, improved, runsUsed>>

\* _key: fewest deviations, then shortest, then smallest values
Smaller(d, e) ==
  \/ Delays(d) < Delays(e)
  \/ Delays(d) = Delays(e) /\ Len(d) < Len(e)
  \/ /\ Delays(d) = Delays(e) /\ Len(d) = Len(e)
     /\ \E i \in 1 .. Len(d) : d[i].value < e[i].value
                               /\ \A j \in 1 .. i - 1 : d[j].value = e[j].value

\* try_accept: the candidate still fails as e did, in a smaller universe
Accepts(p, e, tape, candidate) ==
  LET exact == Realised(p, candidate)
  IN  p[exact].error \in Instances[e] /\ Smaller(exact, tape)

\* _descend: the values tried instead of v, most aggressive first
Descend(v) ==
  LET half == v \div 2
  IN  <<0>> \o (IF half # 0 THEN <<half>> ELSE <<>>)
            \o (IF v - 1 \notin {0, half} THEN <<v - 1>> ELSE <<>>)

Without(d, i, n) == SubSeq(d, 1, i - 1) \o SubSeq(d, i + n, Len(d))
Zeroed(d, i, n) == [j \in 1 .. Len(d) |-> IF j \in i .. i + n - 1 THEN Draw(d[j].site, 0) ELSE d[j]]
Lowered(d, i, v) == [d EXCEPT ![i].value = v]

Coarsest(d) == IF Len(d) \div 2 = 0 THEN 1 ELSE Len(d) \div 2
At(pass, chunk) == [pass |-> pass, chunk |-> chunk, index |-> 1, trial |-> 1]
Advance(n) == [cursor EXCEPT !.index = @ + n, !.trial = 1]

ShrinkFrom(tape) ==
  /\ current' = tape /\ cursor' = At("delete", Coarsest(tape))
  /\ improved' = FALSE /\ runsUsed' = 0

InRange == cursor.index <= Len(current)

\* the loops stand at a candidate
HasCandidate ==
  /\ InRange
  /\ CASE cursor.pass = "delete" -> Without(current, cursor.index, cursor.chunk) # <<>>
       [] cursor.pass = "zero" ->
            Zeroed(current, cursor.index, cursor.chunk) # current
       [] cursor.pass = "values" ->
            /\ current[cursor.index].value # 0
            /\ cursor.trial <= Len(Descend(current[cursor.index].value))
       [] OTHER -> FALSE

Candidate ==
  CASE cursor.pass = "delete" -> Without(current, cursor.index, cursor.chunk)
    [] cursor.pass = "zero" -> Zeroed(current, cursor.index, cursor.chunk)
    [] cursor.pass = "values" ->
         Lowered(current, cursor.index, Descend(current[cursor.index].value)[cursor.trial])

\* [mutant] the candidate is kept as it was edited
AcceptMut(p) ==
  /\ current' = Candidate /\ improved' = TRUE
  /\ cursor' = CASE cursor.pass = "delete" -> cursor
                 [] cursor.pass = "zero" -> Advance(cursor.chunk)
                 [] cursor.pass = "values" -> Advance(1)

\* an accepted candidate is re-recorded; a deletion is tried again at the same place
Accept(p) ==
  /\ current' = Realised(p, Candidate) /\ improved' = TRUE
  /\ cursor' = CASE cursor.pass = "delete" -> cursor
                 [] cursor.pass = "zero" -> Advance(cursor.chunk)
                 [] cursor.pass = "values" -> Advance(1)

Reject ==
  /\ UNCHANGED <<current, improved>>
  /\ cursor' = IF cursor.pass = "values" THEN [cursor EXCEPT !.trial = @ + 1]
               ELSE Advance(cursor.chunk)

TryCandidate(p, e, budget) ==
  /\ runsUsed < budget /\ HasCandidate
  /\ runsUsed' = runsUsed + 1
  /\ IF Accepts(p, e, current, Candidate) THEN Accept(p) ELSE Reject

\* [mutant] a round ends the loop, improved or not
NextRoundMut == cursor' = At("done", 1) /\ UNCHANGED improved

\* the values are done: another round if this one accepted anything
NextRound ==
  IF improved THEN cursor' = At("delete", Coarsest(current)) /\ improved' = FALSE
  ELSE cursor' = At("done", 1) /\ UNCHANGED improved

\* nothing to try at the cursor: the next position, a finer chunk or the next pass
MoveOn(budget) ==
  /\ runsUsed < budget /\ ~HasCandidate /\ cursor.pass # "done"
  /\ UNCHANGED <<current, runsUsed>>
  /\ \/ /\ InRange
        /\ cursor' = Advance(IF cursor.pass = "values" THEN 1 ELSE cursor.chunk)
        /\ UNCHANGED improved
     \/ /\ ~InRange /\ cursor.pass # "values"
        /\ cursor' = IF cursor.chunk > 1 THEN At(cursor.pass, cursor.chunk \div 2)
                     ELSE At(IF cursor.pass = "delete" THEN "zero" ELSE "values",
                             Coarsest(current))
        /\ UNCHANGED improved
     \/ ~InRange /\ cursor.pass = "values" /\ NextRound

OutOfBudget(budget) ==
  /\ runsUsed >= budget /\ cursor.pass # "done"
  /\ cursor' = At("done", 1) /\ UNCHANGED <<current, improved, runsUsed>>

ShrinkStep(p, e, budget) ==
  TryCandidate(p, e, budget) \/ MoveOn(budget) \/ OutOfBudget(budget)

\* no single draw of d can be deleted, set to zero, halved or decremented; it may well
\* be that some other value below it would do
LocallyMinimal(p, e, d) ==
  \A i \in 1 .. Len(d) :
    /\ Len(d) > 1 => ~Accepts(p, e, d, Without(d, i, 1))
    /\ \A v \in 0 .. d[i].value - 1 :
         v \in {0, d[i].value \div 2, d[i].value - 1} => ~Accepts(p, e, d, Lowered(d, i, v))
=============================================================================
