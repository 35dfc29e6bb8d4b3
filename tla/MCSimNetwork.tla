---------------------------- MODULE MCSimNetwork ----------------------------
(***************************************************************************)
(* Two hosts.  Two servers share an address, on different hosts.  Three    *)
(* tasks connect: two ways from one host, and from outside any host.       *)
(***************************************************************************)
EXTENDS SimNetwork, TLC

CONSTANTS a, b, root, web, none

MCHosts    == {a, b}
MCServers  == {1, 2}
MCSrvHost  == 1 :> a @@ 2 :> b
MCSrvAddr  == [v \in MCServers |-> web]
MCConnects == {1, 2, 3}
MCCliHost  == 1 :> b @@ 2 :> b @@ 3 :> root
MCCliAddr  == [c \in MCConnects |-> web]
MCViaSocket == {2}

MCEndpoints == {1, 2, 3}
MCEpHost    == 1 :> a @@ 2 :> b @@ 3 :> b
MCEpAddr    == 1 :> "ping" @@ 2 :> "pong" @@ 3 :> "pong"
MCRoutes    == {<<1, "pong">>}
MCDisorders == {{"loss", "dup"}, {"loss", "reorder"}}

\* one direction, and a host against everyone else
MCCuts == {{<<a, b>>}, {<<a, b>>, <<b, a>>, <<root, a>>, <<a, root>>}}

\* overrides that are faster than MinDelay, slower than MaxDelay, and of each kind
MCShapes ==
  {[of |-> "link", at |-> <<a, b>>, range |-> <<0, 0>>],
   [of |-> "out", at |-> a, range |-> <<1, 2>>], [of |-> "in", at |-> b, range |-> <<2, 2>>]}
=============================================================================
