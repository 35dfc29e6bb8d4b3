------------------------------- MODULE Links -------------------------------
(***************************************************************************)
(* The links between hosts (SimNetwork of src/simloom/_net.py): which      *)
(* directions are blocked, how slow each one is, and which hosts have lost *)
(* their power (Host of src/simloom/_world.py).                            *)
(***************************************************************************)
EXTENDS Naturals, FiniteSets

CONSTANTS
  Hosts,      \* the hosts that may crash; a root task counts as a host that does not
  Root,       \* the owner of what belongs to no host
  Cuts,       \* sets of directed pairs that one call of block or partition blocks
  Shapes,     \* overrides of a latency: [of |-> "link", "out" or "in", at, range]
  MinDelay, MaxDelay,  \* _min_delay, _max_delay
  MaxFaults   \* bound on the changes of the network and the crashes

Owners == Hosts \cup {Root}
Pairs  == Owners \X Owners

ASSUME LinksAssumption ==
  /\ Root \notin Hosts /\ MinDelay \in Nat /\ MaxDelay \in Nat /\ MinDelay <= MaxDelay
  /\ Cuts \subseteq SUBSET Pairs
  /\ \A s \in Shapes :
       /\ s.range \in Nat \X Nat /\ s.range[1] <= s.range[2]
       /\ \/ s.of = "link" /\ s.at \in Pairs
          \/ s.of \in {"out", "in"} /\ s.at \in Owners
  /\ MaxFaults \in Nat

VARIABLES
  blocked,  \* _blocked: directed pairs of owners
  crashed,  \* hosts without power
  shape,    \* the overrides of the latency: per link, per node out, per node in
  faults    \* changes so far, for the bound MaxFaults

linkVars == <<blocked, crashed, shape, faults>>

Nowhere == [x \in {} |-> <<0, 0>>]

\* a dictionary with one entry set
Put(f, x, y) == [z \in DOMAIN f \cup {x} |-> IF z = x THEN y ELSE f[z]]

LinksInit ==
  /\ blocked = {} /\ crashed = {} /\ faults = 0
  /\ shape = [of \in {"link", "out", "in"} |-> Nowhere]

LinksOK ==
  /\ blocked \subseteq Pairs /\ crashed \subseteq Hosts
  /\ DOMAIN shape["link"] \subseteq Pairs
  /\ DOMAIN shape["out"] \subseteq Owners /\ DOMAIN shape["in"] \subseteq Owners

Fault == faults < MaxFaults /\ faults' = faults + 1

\* a SYN needs both directions
Severed(a, b) == <<a, b>> \in blocked \/ <<b, a>> \in blocked

\* _effective_latency: link over egress over ingress over the global range
Latency(a, b) ==
  IF <<a, b>> \in DOMAIN shape["link"] THEN shape["link"][<<a, b>>]
  ELSE IF a \in DOMAIN shape["out"] THEN shape["out"][a]
  ELSE IF b \in DOMAIN shape["in"] THEN shape["in"][b]
  ELSE <<MinDelay, MaxDelay>>

\* what a datagram may be delayed by on its way from a to b
DelaysOn(a, b) == Latency(a, b)[1] .. Latency(a, b)[2]

\* block one direction, or partition two groups of hosts
BlockLinks ==
  /\ Fault
  /\ \E cut \in Cuts : blocked' = blocked \cup cut
  /\ UNCHANGED <<crashed, shape>>

\* heal, and unblock of one direction, which may not have been blocked
UnblockLinks ==
  /\ \E open \in {blocked, {}} \cup {{p} : p \in blocked} : blocked' = blocked \ open
  /\ UNCHANGED <<crashed, shape, faults>>

\* set_link_latency, clog_node_out, clog_node_in
ShapeLinks ==
  /\ Fault
  /\ \E s \in Shapes : shape' = [shape EXCEPT ![s.of] = Put(@, s.at, s.range)]
  /\ UNCHANGED <<blocked, crashed>>

PowerOff(h) ==
  /\ h \notin crashed /\ Fault
  /\ crashed' = crashed \cup {h} /\ UNCHANGED <<blocked, shape>>

PowerOn(h) ==
  /\ h \in crashed
  /\ crashed' = crashed \ {h} /\ UNCHANGED <<blocked, shape, faults>>
=============================================================================
