----------------------------- MODULE ClassTable -----------------------------
(***************************************************************************)
(* What the class loaders and the string table promise every thread: each  *)
(* class and each string is made once, a class after the classes it needs, *)
(* and whoever asks for it is given that one.                              *)
(***************************************************************************)
EXTENDS Naturals

CONSTANTS Threads,
          Things,  \* the classes and strings
          Needs,   \* the classes each of them is made from
          Boot,    \* the classes the bootstrap loader can load
          Nameless,\* the anonymous classes, which no search finds
          Ids      \* identities

VARIABLES table,   \* what has been made, by thing; 0 for nothing
          answer   \* what each thread has been answered last

vars == <<table, answer>>

NoAnswer == [how |-> "none", id |-> 0]

Made == {x \in Things : table[x] # 0}

Init ==
  /\ table \in [Things -> {0} \union Ids]
  /\ answer = [t \in Threads |-> NoAnswer]

(* A class or a string gets an identity of its own.                        *)
Make(x) ==
  /\ table[x] = 0 /\ table'[x] \in Ids
  /\ Needs[x] \subseteq Made
  /\ \A y \in Made : table[y] # table'[x]
  /\ table' = [table EXCEPT ![x] = table'[x]]
  /\ UNCHANGED answer

Give(t, how, x, id) ==
  /\ answer' = [answer EXCEPT ![t] = [how |-> how, thing |-> x, id |-> id]]
  /\ UNCHANGED table

(* Whoever asks for a thing is given the one there is.                     *)
Answer(t) == \E how \in {"boot", "my", "find"}, x \in Made : Give(t, how, x, table[x])

(* The bootstrap loader has only its own classes, and a search only those  *)
(* that are there and not anonymous.                                       *)
Nothing(t) ==
  \/ \E x \in Things \ Boot : Give(t, "boot", x, 0)
  \/ \E x \in (Things \ Made) \union Nameless : Give(t, "find", x, 0)

(* An anonymous class is a new one every time it is defined.               *)
Hidden(t) ==
  \E x \in Made \intersect Nameless : LET id == answer'[t].id IN
    /\ id \in Ids
    /\ \A y \in Made \ {x} : table[y] # id
    /\ Give(t, "anonymous", x, id)

Next ==
  \/ \E x \in Things : Make(x)
  \/ \E t \in Threads : Answer(t) \/ Nothing(t) \/ Hidden(t)

Spec == Init /\ [][Next]_vars
=============================================================================
