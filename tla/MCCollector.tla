---------------------------- MODULE MCCollector ----------------------------
(* Instances of Collector for TLC.                                         *)
EXTENDS Collector

(* A string of the table, a static field, and a thread: its argument, its  *)
(* bottom frame and its entry in the ThreadTable.                          *)
AllKinds == <<"string", "klass", "arg", "frame", "table">>

(* Object 1 is the string: its first field is its characters, object 2; it *)
(* alone may hash to 0.  The last object is the thread.                    *)
References == UNION {[1..n -> 0..NObjects] : n \in 0..MaxRefs}
Heaps ==
  {[a \in Old |-> IF a = 1 THEN [zero |-> z, refs |-> s]
                            ELSE [zero |-> FALSE, refs |-> r[a]]] :
     z \in BOOLEAN, s \in {<<2, h>> : h \in Old}, r \in [2..NObjects -> References]}
Roots ==
  {<<1, k, NObjects, f, NObjects>> : k \in {Null, 2}, f \in 0..NObjects}

MCInit     == heapBefore \in Heaps /\ rootsBefore \in Roots /\ Init
MCSpec     == MCInit /\ [][Next]_vars
MCFairSpec == MCSpec /\ WF_vars(GcStep)
=============================================================================
