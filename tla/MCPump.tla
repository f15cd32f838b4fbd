------------------------------- MODULE MCPump -------------------------------
(* Pump on a small instance: buffers of a few bytes, so that chunks are     *)
(* split by every queue and every queue fills up.                          *)
EXTENDS Pump

CONSTANT BytesEach

MCMaxBytes == [s \in Sides |-> BytesEach]

LiveSpec == FairSpec /\ FairReaders

=============================================================================
