----------------------------- MODULE MCSimRedis -----------------------------
(* Two clients and two keys; the clients are alike. *)
EXTENDS SimRedis, TLC

CONSTANTS alice, bob, x, y

MCClients == {alice, bob}
MCKeys    == {x, y}
Symmetry  == Permutations(MCClients) \cup Permutations(MCKeys)
=============================================================================
