---------------------------- MODULE MCSafepoint ----------------------------
(* Instances of Safepoint for TLC: the main thread and the threads that it *)
(* or one of its children starts.                                          *)
EXTENDS Safepoint, TLC

(* Children are interchangeable; the main thread is not. *)
Children == Permutations(Threads \ {Main})
=============================================================================
