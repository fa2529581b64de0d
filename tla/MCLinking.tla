----------------------------- MODULE MCLinking -----------------------------
(* Two classes and two interfaces over Object.  A class file declares two  *)
(* fields, or one method: what the checks say of fields does not depend on *)
(* the methods.                                                            *)
EXTENDS Linking, TLC

CONSTANTS A, B, I, J, x, y, m

MCClasses == {A, B}

MCInterfaces == {I, J}

MCBodies ==
  {[fields |-> f[1], statics |-> f[2], methods |-> <<>>] :
      f \in {<< <<>>, <<>> >>, << <<>>, <<x>> >>, << <<x>>, <<y>> >>,
             << <<x, y>>, <<>> >>}}
  \union {[fields |-> <<>>, statics |-> <<>>, methods |-> (m :> k)] :
             k \in {"public", "private", "static"}}

Symmetry == Permutations(MCClasses)
=============================================================================
