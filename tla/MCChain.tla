------------------------------- MODULE MCChain -------------------------------
(* Chain with the smallest buffers and queues that still hold a byte at     *)
(* every place between the client and the backend.                         *)
EXTENDS Chain

CONSTANTS ClientBytes, BackendBytes

MCMaxBytes == Ends(ClientBytes, BackendBytes)
=============================================================================
