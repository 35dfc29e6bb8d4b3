--------------------------- MODULE ReliableStream ---------------------------
(***************************************************************************)
(* What a simulated stream connection promises (docs/determinism.md,       *)
(* "Streams never corrupt"): each end reads a prefix of what the other     *)
(* wrote, in order, nothing lost in the middle and nothing twice; an end   *)
(* that shut down writes no more, and an end whose connection is lost      *)
(* reads no more.                                                          *)
(***************************************************************************)
EXTENDS Naturals, Sequences

CONSTANTS Ends, Peer(_)

VARIABLES
  sent,  \* sent[e]: what e wrote
  got,   \* got[e]: what e's protocol received
  shut,  \* e has closed its side for writing
  lost   \* e's connection is lost

vars == <<sent, got, shut, lost>>

Init ==
  /\ sent = [e \in Ends |-> <<>>] /\ got = [e \in Ends |-> <<>>]
  /\ shut = [e \in Ends |-> FALSE] /\ lost = [e \in Ends |-> FALSE]

\* s2 is s1 with zero or more items after it
Extends(s1, s2) == Len(s1) <= Len(s2) /\ s1 = SubSeq(s2, 1, Len(s1))

Writes(e) ==
  \/ sent'[e] = sent[e]
  \/ ~shut[e] /\ Len(sent'[e]) = Len(sent[e]) + 1 /\ Extends(sent[e], sent'[e])

Reads(e) ==
  \/ got'[e] = got[e]
  \/ ~lost[e] /\ Extends(got[e], got'[e]) /\ Extends(got'[e], sent[Peer(e)])

\* an end may read, answer and close in one step; losing is final
Act(e) ==
  /\ Writes(e) /\ Reads(e)
  /\ shut[e] => shut'[e]
  /\ lost[e] => lost'[e]

Quiet(e) == sent'[e] = sent[e] /\ got'[e] = got[e] /\ lost'[e] = lost[e] /\ shut'[e] = shut[e]

Next == \E e \in Ends : Act(e) /\ \A f \in Ends \ {e} : Quiet(f)

Spec == Init /\ [][Next]_vars
=============================================================================
