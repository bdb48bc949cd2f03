----------------------------- MODULE FrameStream -----------------------------
(***************************************************************************)
(* What either direction of a connection promises: the frames handed in at  *)
(* one end come out at the other, whole, once and in order.                 *)
(***************************************************************************)
EXTENDS Naturals, Sequences

CONSTANT Frames

VARIABLES
    sent,      \* the frames the writer was given
    delivered  \* the frames the reader passed on

FSInit == sent = <<>> /\ delivered = <<>>

Send(f) == sent' = Append(sent, f) /\ UNCHANGED delivered

Deliver ==
    /\ Len(delivered) < Len(sent)
    /\ delivered' = Append(delivered, sent[Len(delivered) + 1])
    /\ UNCHANGED sent

FSNext == (\E f \in Frames : Send(f)) \/ Deliver

FSSpec == FSInit /\ [][FSNext]_<<sent, delivered>>
=============================================================================
