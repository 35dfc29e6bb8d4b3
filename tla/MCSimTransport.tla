--------------------------- MODULE MCSimTransport ---------------------------
(* A client that writes and closes or aborts, and a server that only reads, *)
(* pausing and shutting its side down as it likes.                          *)
EXTENDS SimTransport

CONSTANTS client, server

MCEnds      == {client, server}
MCDelays    == {0, 1}
MCMaxWrites == [e \in MCEnds |-> IF e = client THEN 1 ELSE 0]
MCCalls     == [e \in MCEnds |->
                  IF e = client THEN {"close", "force_close"} ELSE {"write_eof", "pause"}]
=============================================================================
