---------------------------- MODULE MCShutdown ----------------------------
(* The main thread and a thread it starts.                                 *)
EXTENDS Shutdown
=============================================================================
