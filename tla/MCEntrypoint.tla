---------------------------- MODULE MCEntrypoint ----------------------------
(* Entrypoint with a good and a bad exit of each process, and enough        *)
(* signals to interrupt shutdown more than once.                           *)
EXTENDS Entrypoint
=============================================================================
