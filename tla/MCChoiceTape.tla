---------------------------- MODULE MCChoiceTape ----------------------------
(* Sites that differ in their label only, and in their bound only. *)
EXTENDS ChoiceTape

MCSites == {[label |-> "pick", bound |-> 2], [label |-> "pick", bound |-> 1],
            [label |-> "delay", bound |-> 1]}
=============================================================================
