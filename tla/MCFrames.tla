------------------------------ MODULE MCFrames ------------------------------
(* Four frames: a thread's first method, a call, a native, a call back.    *)
EXTENDS Frames
=============================================================================
