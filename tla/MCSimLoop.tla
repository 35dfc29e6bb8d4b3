----------------------------- MODULE MCSimLoop -----------------------------
(***************************************************************************)
(* Small universes for SimLoop: a main task, one helper on no host and one *)
(* task on a host that may lose its power.                                 *)
(***************************************************************************)
EXTENDS SimLoop

CONSTANTS main, helper, node, host

MCTasks  == {main, helper, node}
MCHosts  == {host}
MCHostOf == [t \in MCTasks |-> IF t = node THEN host ELSE NoHost]
MCDelays == {1, 2}
MCMaxOps == [t \in MCTasks |-> IF t = main THEN 3 ELSE IF t = node THEN 2 ELSE 1]

\* the same program where no task belongs to a host
MCNoHosts   == {}
MCAllOnNone == [t \in MCTasks |-> NoHost]
=============================================================================
