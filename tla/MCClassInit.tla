---------------------------- MODULE MCClassInit ----------------------------
(* Base, A < Base, B < A, and System, which the start-up sets by hand.     *)
(* java.lang.Object is initialised before a second thread exists: it is    *)
(* left out, and Base and System have no parent that is left to initialise.*)
EXTENDS ClassInit

CONSTANTS Base, A, B, Sys

MCClasses == {Base, A, B, Sys}

MCParent ==
  [c \in MCClasses |-> CASE c = A -> Base [] c = B -> A [] OTHER -> NoClass]

MCWithClinit == {Base, B, Sys}

MCDeferred == {Sys}
=============================================================================
