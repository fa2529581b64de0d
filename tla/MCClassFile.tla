---------------------------- MODULE MCClassFile ----------------------------
(* Tables of at most two entries and three slots of the constant pool; arrays   *)
(* and annotations nest within annotations while at most MaxPending        *)
(* symbols are to be read.                                                 *)
EXTENDS ClassFile
=============================================================================
