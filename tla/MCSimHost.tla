------------------------------ MODULE MCSimHost -----------------------------
(* Two files, a value of one byte and one of three, two factories. *)
EXTENDS SimHost

CONSTANTS short, long, main, helper

MCValues == {short, long}
MCSize   == [v \in MCValues |-> IF v = short THEN 1 ELSE 3]
=============================================================================
