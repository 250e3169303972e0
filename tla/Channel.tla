------------------------------ MODULE Channel ------------------------------
(***************************************************************************)
(* What one direction of a connection promises to the code above it: the  *)
(* messages written are read whole, once each and in the order they were  *)
(* written, until the reading side sees the connection end.  Wire.tla's    *)
(* queues up[k] and down[k] are what is in transit on such a channel;      *)
(* Framing.tla shows that protocol.rs and secure.rs provide it.            *)
(***************************************************************************)
EXTENDS Naturals, Sequences

CONSTANT Messages

VARIABLES
  sent,  \* the messages handed to ProtocolWriter::send
  got,   \* the messages ProtocolReader handed out
  over   \* the reader has reported the end of the connection

chanVars == <<sent, got, over>>

ChanInit == sent = << >> /\ got = << >> /\ over = FALSE

Put ==
  /\ \E m \in Messages : sent' = Append(sent, m)
  /\ UNCHANGED <<got, over>>

Take ==
  /\ ~over
  /\ Len(got) < Len(sent)
  /\ got' = Append(got, sent[Len(got) + 1])
  /\ UNCHANGED <<sent, over>>

End == ~over /\ over' = TRUE /\ UNCHANGED <<sent, got>>

ChanNext == Put \/ Take \/ End
ChanSpec == ChanInit /\ [][ChanNext]_chanVars
=============================================================================
