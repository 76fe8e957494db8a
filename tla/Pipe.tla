-------------------------------- MODULE Pipe --------------------------------
(***************************************************************************)
(* What the write side of a network connection promises its users: the     *)
(* messages it accepts reach the socket in the order it accepted them, and *)
(* once it is shut it accepts no more.  Messages may be lost only from the *)
(* end (delivered is a prefix of accepted).  TCPConn implements it.        *)
(***************************************************************************)
EXTENDS Sequences, Naturals

CONSTANT Msg

VARIABLES accepted, delivered, shut

pipeVars == <<accepted, delivered, shut>>

PipeInit == accepted = <<>> /\ delivered = <<>> /\ shut = FALSE

Accept == /\ ~shut
          /\ \E m \in Msg : accepted' = Append(accepted, m)
          /\ UNCHANGED <<delivered, shut>>

Deliver == /\ Len(delivered) < Len(accepted)
           /\ delivered' = Append(delivered, accepted[Len(delivered) + 1])
           /\ UNCHANGED <<accepted, shut>>

Shut == shut' = TRUE /\ UNCHANGED <<accepted, delivered>>

PipeNext == Accept \/ Deliver \/ Shut

PipeSpec == PipeInit /\ [][PipeNext]_pipeVars
=============================================================================
