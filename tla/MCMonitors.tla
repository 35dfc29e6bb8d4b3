----------------------------- MODULE MCMonitors -----------------------------
(* One eventually() goal and one leads_to() link over a short run. *)
EXTENDS Monitors

CONSTANTS goal1, link1

MCGoals  == {goal1}
MCLinks  == {link1}
MCWithin == [m \in {goal1, link1} |-> IF m = goal1 THEN 2 ELSE 1]
MCDelays == {0, 1, 3}
=============================================================================
