--------------------------- MODULE MessageStream ---------------------------
(***************************************************************************)
(* What a receiver is promised about the messages of one connection after  *)
(* another: until the connection is asked to close they arrive in the      *)
(* order they were sent, none twice, none left out, none changed.          *)
(***************************************************************************)
EXTENDS Sequences, Naturals

CONSTANT Message

VARIABLES sent, delivered, closing

vars == <<sent, delivered, closing>>

Init == sent = <<>> /\ delivered = <<>> /\ closing = FALSE

Send ==
  /\ \E m \in Message : sent' = Append(sent, m)
  /\ UNCHANGED <<delivered, closing>>

Deliver ==
  /\ Len(delivered) < Len(sent)
  /\ delivered' = Append(delivered, sent[Len(delivered) + 1])
  /\ UNCHANGED <<sent, closing>>

Close ==
  /\ closing' = TRUE
  /\ UNCHANGED <<sent, delivered>>

\* Of a connection that is being closed nothing is promised any more, not even
\* that what it delivers was sent.
Drain ==
  /\ closing
  /\ Len(delivered') = Len(delivered) + 1
  /\ SubSeq(delivered', 1, Len(delivered)) = delivered
  /\ UNCHANGED <<sent, closing>>

Reconnect == sent' = <<>> /\ delivered' = <<>> /\ closing' = FALSE

Next == Send \/ Deliver \/ Close \/ Drain \/ Reconnect

Spec == Init /\ [][Next]_vars
=============================================================================
