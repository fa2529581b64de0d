-------------------------- MODULE ClassInitProofs --------------------------
(***************************************************************************)
(* Proofs about ClassInit, for every set of threads and of classes, every  *)
(* superclass relation and every bound on the uses.                        *)
(*                                                                         *)
(* A step changes the stack of one thread, and no step makes a class       *)
(* NotInitialized again.  The inductive invariant is therefore stated of   *)
(* one stack (Good) and is kept by the threads that do not move because    *)
(* its facts about the shared variables are monotonic.                     *)
(***************************************************************************)
EXTENDS ClassInit, SequenceTheorems, TLAPS

New(c, st) == st[c] = "NotInitialized"

(* The points from which initial_clinit still goes on to <clinit>.         *)
Early == {"set", "parent", "constants", "clinit"}

Late == {"clinit", "running", "mark"}

(* The innermost activation is anywhere; the others wait for a parent or   *)
(* for the code of their <clinit>.                                         *)
Nested(s) ==
  \A i \in 1 .. Len(s) : i # Len(s) => s[i].pc \in {"constants", "running"}

BegunMarked(s, st) ==
  \A i \in 1 .. Len(s) : Begun(s[i]) => ~New(s[i].cls, st)

Distinct(s) ==
  \A i, j \in 1 .. Len(s) :
    i # j /\ s[i].cls = s[j].cls => s[i].pc = "test" \/ s[j].pc = "test"

RunsOnce(s, st, r) ==
  \A c \in Classes :
    r[c] # 0 =>
      /\ r[c] = 1
      /\ ~New(c, st)
      /\ \A i \in 1 .. Len(s) : s[i].cls = c => s[i].pc \notin Early

(* Above an activation that waits for its parent is that parent's, and     *)
(* the parent has begun when it is not there any more.                     *)
ParentAwaited(s, st) ==
  \A i \in 1 .. Len(s) :
    Parent[s[i].cls] # NoClass =>
      /\ s[i].pc \in Late => ~New(Parent[s[i].cls], st)
      /\ s[i].pc = "constants" /\ i # Len(s) =>
           s[i + 1].cls = Parent[s[i].cls]

ParentBegun(s, st) ==
  \A i \in 1 .. Len(s) :
    i = Len(s) /\ s[i].pc = "constants" /\ Parent[s[i].cls] # NoClass =>
      ~New(Parent[s[i].cls], st)

WorkDone(s, k, e) ==
  \A i \in 1 .. Len(s) :
    /\ s[i].pc \in Late => s[i].cls \in k
    /\ s[i].pc = "mark" /\ s[i].cls \in WithClinit => s[i].cls \in e

AlmostGood(s, st, r, k, e) ==
  /\ Nested(s)
  /\ BegunMarked(s, st)
  /\ Distinct(s)
  /\ RunsOnce(s, st, r)
  /\ ParentAwaited(s, st)
  /\ WorkDone(s, k, e)

Good(s, st, r, k, e) == AlmostGood(s, st, r, k, e) /\ ParentBegun(s, st)

StacksGood == \A t \in Threads : Good(stack[t], state, runs[t], constants, ended)

IInv == TypeOK /\ StacksGood /\ InitializedMeansRun

-----------------------------------------------------------------------------
(* What the three changes of a stack leave.                                *)
LEMMA MovedStack ==
  ASSUME NEW s \in Seq(Activation), s # <<>>, NEW p \in Points
  PROVE  /\ Moved(s, p) \in Seq(Activation)
         /\ Moved(s, p) # <<>>
         /\ Len(Moved(s, p)) = Len(s)
         /\ Len(s) \in Nat \ {0}
         /\ \A i \in 1 .. Len(s) : Moved(s, p)[i].cls = s[i].cls
         /\ \A i \in 1 .. Len(s) : i # Len(s) => Moved(s, p)[i] = s[i]
         /\ Moved(s, p)[Len(s)].pc = p
         /\ s[Len(s)] \in Activation
<1>1. Len(s) \in Nat \ {0} /\ \A i \in 1 .. Len(s) : s[i] \in Activation
  OBVIOUS
<1>2. Len(s) \in 1 .. Len(s)
  BY <1>1
<1>3. s[Len(s)].cls \in Classes
  BY <1>1, <1>2 DEF Activation
<1> DEFINE a == [cls |-> s[Len(s)].cls, pc |-> p]
<1>4. a \in Activation /\ a.cls = s[Len(s)].cls /\ a.pc = p
  BY <1>3 DEF Activation
<1> HIDE DEF a
<1>5. Moved(s, p) = [s EXCEPT ![Len(s)] = a]
  BY DEF Moved, a
<1>6. [s EXCEPT ![Len(s)] = a] \in Seq(Activation)
  BY <1>1, <1>4
<1>7. /\ Len([s EXCEPT ![Len(s)] = a]) = Len(s)
      /\ [s EXCEPT ![Len(s)] = a][Len(s)] = a
      /\ \A i \in 1 .. Len(s) :
           i # Len(s) => [s EXCEPT ![Len(s)] = a][i] = s[i]
  BY <1>1, <1>2
<1>8. Moved(s, p) # <<>>
  <2>1. Len(Moved(s, p)) # 0
    BY <1>1, <1>5, <1>7
  <2>2. Len(<<>>) = 0
    OBVIOUS
  <2> QED
    BY <2>1, <2>2
<1> QED
  BY <1>1, <1>2, <1>4, <1>5, <1>6, <1>7, <1>8

LEMMA CallStack ==
  ASSUME NEW s \in Seq(Activation), NEW c \in Classes
  PROVE  /\ Call(s, c) \in Seq(Activation)
         /\ Len(s) \in Nat
         /\ Len(Call(s, c)) = Len(s) + 1
         /\ \A i \in 1 .. Len(s) : Call(s, c)[i] = s[i]
         /\ Call(s, c)[Len(s) + 1].cls = c
         /\ Call(s, c)[Len(s) + 1].pc = "test"
<1>1. [cls |-> c, pc |-> "test"] \in Activation
  BY DEF Activation, Points
<1> QED
  BY <1>1 DEF Call

LEMMA Prefix ==
  ASSUME NEW S, NEW s \in Seq(S), NEW n \in Nat, n <= Len(s)
  PROVE  /\ SubSeq(s, 1, n) \in Seq(S)
         /\ Len(SubSeq(s, 1, n)) = n
         /\ \A i \in 1 .. n : SubSeq(s, 1, n)[i] = s[i]
<1>1. \A i \in 1 .. n : s[i] \in S
  OBVIOUS
<1>2. 1 \in Int /\ n \in Int
  OBVIOUS
<1>3. /\ SubSeq(s, 1, n) \in Seq(S)
      /\ Len(SubSeq(s, 1, n)) = (IF 1 <= n THEN n - 1 + 1 ELSE 0)
      /\ \A i \in 1 .. n - 1 + 1 : SubSeq(s, 1, n)[i] = s[1 + i - 1]
  BY ONLY <1>1, <1>2, SubSeqProperties, SMTT(30)
<1>4. n - 1 + 1 = n
  OBVIOUS
<1>5. (IF 1 <= n THEN n ELSE 0) = n
  OBVIOUS
<1>6. \A i \in 1 .. n : 1 + i - 1 = i
  OBVIOUS
<1>7. Len(SubSeq(s, 1, n)) = n
  BY <1>3, <1>4, <1>5, Zenon
<1>8. \A i \in 1 .. n : SubSeq(s, 1, n)[i] = s[i]
  BY <1>3, <1>4, <1>6, Zenon
<1> QED
  BY <1>3, <1>7, <1>8, Zenon

LEMMA ReturnedStack ==
  ASSUME NEW s \in Seq(Activation), s # <<>>
  PROVE  /\ Returned(s) \in Seq(Activation)
         /\ Len(s) \in Nat \ {0}
         /\ Len(Returned(s)) = Len(s) - 1
         /\ \A i \in 1 .. Len(s) - 1 : Returned(s)[i] = s[i]
         /\ s[Len(s)] \in Activation
<1>1. Len(s) \in Nat \ {0} /\ \A i \in 1 .. Len(s) : s[i] \in Activation
  OBVIOUS
<1>2. Len(s) - 1 \in Nat /\ Len(s) - 1 <= Len(s)
  BY <1>1
<1>3. PICK n \in Nat : n = Len(s) - 1
  BY <1>2
<1>4. /\ SubSeq(s, 1, n) \in Seq(Activation)
      /\ Len(SubSeq(s, 1, n)) = n
      /\ \A i \in 1 .. n : SubSeq(s, 1, n)[i] = s[i]
  BY <1>2, <1>3, Prefix
<1>5. Returned(s) = SubSeq(s, 1, n)
  BY <1>3 DEF Returned
<1> QED
  BY <1>1, <1>3, <1>4, <1>5

-----------------------------------------------------------------------------
(* A stack that does not change stays good when the shared facts grow.     *)
LEMMA GoodMonotone ==
  ASSUME NEW s \in Seq(Activation), NEW st, NEW st2, NEW r, NEW k, NEW k2,
         NEW e, NEW e2, Good(s, st, r, k, e),
         \A c \in Classes : ~New(c, st) => ~New(c, st2),
         k \subseteq k2, e \subseteq e2
  PROVE  Good(s, st2, r, k2, e2)
<1>1. \A i \in 1 .. Len(s) : s[i].cls \in Classes
  <2>1. \A i \in 1 .. Len(s) : s[i] \in Activation
    OBVIOUS
  <2> QED
    BY <2>1 DEF Activation
<1>2. \A c \in Classes : Parent[c] # NoClass => Parent[c] \in Classes
  BY ClassAssumption
<1>3. BegunMarked(s, st2)
  BY <1>1 DEF Good, AlmostGood, BegunMarked
<1>4. RunsOnce(s, st2, r)
  BY DEF Good, AlmostGood, RunsOnce
<1>5. ParentAwaited(s, st2) /\ ParentBegun(s, st2)
  BY <1>1, <1>2 DEF Good, AlmostGood, ParentAwaited, ParentBegun
<1>6. WorkDone(s, k2, e2)
  BY DEF Good, AlmostGood, WorkDone
<1> QED
  BY <1>3, <1>4, <1>5, <1>6 DEF Good, AlmostGood

(* The innermost activation, if it is not at the test, is the only one of  *)
(* its class.                                                              *)
LEMMA TopAlone ==
  ASSUME NEW s \in Seq(Activation), s # <<>>, Nested(s), Distinct(s),
         s[Len(s)].pc # "test",
         NEW i \in 1 .. Len(s), i # Len(s)
  PROVE  s[i].cls # s[Len(s)].cls
<1>1. Len(s) \in 1 .. Len(s)
  OBVIOUS
<1>2. s[i].pc # "test"
  BY DEF Nested
<1> QED
  BY <1>1, <1>2 DEF Distinct

(* A move of the innermost activation past the test keeps a stack good,    *)
(* given what the new point promises.                                      *)
LEMMA AlmostGoodMoved ==
  ASSUME NEW s \in Seq(Activation), s # <<>>, NEW p \in Points,
         NEW st, NEW r, NEW k, NEW e, Good(s, st, r, k, e),
         p # "test",
         s[Len(s)].pc = "test" => p = "set" /\ New(s[Len(s)].cls, st),
         p # "set" => ~New(s[Len(s)].cls, st),
         p \in Early => r[s[Len(s)].cls] = 0,
         Parent[s[Len(s)].cls] # NoClass /\ p \in Late =>
           ~New(Parent[s[Len(s)].cls], st),
         p \in Late => s[Len(s)].cls \in k,
         p = "mark" /\ s[Len(s)].cls \in WithClinit => s[Len(s)].cls \in e
  PROVE  AlmostGood(Moved(s, p), st, r, k, e)
<1> DEFINE m == Moved(s, p)
           n == Len(s)
<1>1. /\ n \in Nat \ {0} /\ Len(m) = n
      /\ \A i \in 1 .. n : m[i].cls = s[i].cls
      /\ \A i \in 1 .. n : i # n => m[i] = s[i]
      /\ m[n].pc = p
  BY MovedStack
<1>2. n \in 1 .. n /\ m[n].cls = s[n].cls
  BY <1>1
<1>3. ASSUME NEW i \in 1 .. n, i # n PROVE s[i].cls # s[n].cls
  <2>1. CASE s[n].pc = "test"
    <3>1. s[i].pc \in {"constants", "running"}
      BY <1>3 DEF Good, AlmostGood, Nested
    <3>2. ~New(s[i].cls, st)
      BY <3>1 DEF Good, AlmostGood, BegunMarked, Begun
    <3> QED
      BY <2>1, <3>2
  <2>2. CASE s[n].pc # "test"
    BY <1>3, <2>2, TopAlone DEF Good, AlmostGood
  <2> QED
    BY <2>1, <2>2
<1> HIDE DEF m
<1>4. Nested(m)
  BY <1>1 DEF Good, AlmostGood, Nested
<1>5. BegunMarked(m, st)
  <2>1. ASSUME NEW i \in 1 .. n, Begun(m[i]) PROVE ~New(m[i].cls, st)
    <3>1. CASE i = n
      BY <1>2, <1>1, <2>1, <3>1 DEF Begun
    <3>2. CASE i # n
      BY <1>1, <2>1, <3>2 DEF Good, AlmostGood, BegunMarked
    <3> QED
      BY <3>1, <3>2
  <2> QED
    BY <1>1, <2>1 DEF BegunMarked
<1>6. Distinct(m)
  <2>1. ASSUME NEW i \in 1 .. n, NEW j \in 1 .. n, i # j, m[i].cls = m[j].cls
        PROVE  m[i].pc = "test" \/ m[j].pc = "test"
    <3>1. s[i].cls = s[j].cls
      BY <1>1, <2>1
    <3>2. i # n /\ j # n
      BY <1>3, <2>1, <3>1
    <3> QED
      BY <1>1, <2>1, <3>1, <3>2 DEF Good, AlmostGood, Distinct
  <2> QED
    BY <1>1, <2>1 DEF Distinct
<1>7. RunsOnce(m, st, r)
  <2>1. ASSUME NEW c \in Classes, r[c] # 0, NEW i \in 1 .. n, m[i].cls = c
        PROVE  m[i].pc \notin Early
    <3>1. CASE i = n
      BY <1>2, <1>1, <2>1, <3>1
    <3>2. CASE i # n
      BY <1>1, <2>1, <3>2 DEF Good, AlmostGood, RunsOnce
    <3> QED
      BY <3>1, <3>2
  <2> QED
    BY <1>1, <2>1 DEF Good, AlmostGood, RunsOnce
<1>8. ParentAwaited(m, st)
  <2>1. ASSUME NEW i \in 1 .. n, Parent[m[i].cls] # NoClass
        PROVE  /\ m[i].pc \in Late => ~New(Parent[m[i].cls], st)
               /\ m[i].pc = "constants" /\ i # n =>
                    m[i + 1].cls = Parent[m[i].cls]
    <3>1. CASE i = n
      BY <1>2, <1>1, <2>1, <3>1
    <3>2. CASE i # n
      <4>1. i + 1 \in 1 .. n /\ m[i] = s[i] /\ m[i + 1].cls = s[i + 1].cls
        BY <1>1, <3>2
      <4> QED
        BY <2>1, <3>2, <4>1 DEF Good, AlmostGood, ParentAwaited
    <3> QED
      BY <3>1, <3>2
  <2> QED
    BY <1>1, <2>1 DEF ParentAwaited
<1>9. WorkDone(m, k, e)
  <2>1. ASSUME NEW i \in 1 .. n
        PROVE  /\ m[i].pc \in Late => m[i].cls \in k
               /\ m[i].pc = "mark" /\ m[i].cls \in WithClinit =>
                    m[i].cls \in e
    <3>1. CASE i = n
      BY <1>2, <1>1, <3>1
    <3>2. CASE i # n
      BY <1>1, <3>2 DEF Good, AlmostGood, WorkDone
    <3> QED
      BY <3>1, <3>2
  <2> QED
    BY <1>1, <2>1 DEF WorkDone
<1> QED
  BY <1>4, <1>5, <1>6, <1>7, <1>8, <1>9 DEF AlmostGood, m

LEMMA GoodMoved ==
  ASSUME NEW s \in Seq(Activation), s # <<>>, NEW p \in Points,
         NEW st, NEW r, NEW k, NEW e,
         AlmostGood(Moved(s, p), st, r, k, e),
         p = "constants" /\ Parent[s[Len(s)].cls] # NoClass =>
           ~New(Parent[s[Len(s)].cls], st)
  PROVE  Good(Moved(s, p), st, r, k, e)
<1>1. /\ Len(Moved(s, p)) = Len(s)
      /\ Len(s) \in 1 .. Len(s)
      /\ Moved(s, p)[Len(s)].cls = s[Len(s)].cls
      /\ Moved(s, p)[Len(s)].pc = p
  BY MovedStack
<1> QED
  BY <1>1 DEF Good, AlmostGood, ParentBegun

(* A call from a place that may call keeps a stack good.                   *)
LEMMA GoodCall ==
  ASSUME NEW s \in Seq(Activation), NEW c \in Classes,
         NEW st, NEW r, NEW k, NEW e, AlmostGood(s, st, r, k, e),
         s # <<>> => s[Len(s)].pc \in {"constants", "running"},
         s # <<>> /\ s[Len(s)].pc = "constants" => c = Parent[s[Len(s)].cls]
  PROVE  Good(Call(s, c), st, r, k, e)
<1> DEFINE m == Call(s, c)
           n == Len(s)
<1>1. /\ n \in Nat /\ Len(m) = n + 1
      /\ \A i \in 1 .. n : m[i] = s[i]
      /\ m[n + 1].cls = c /\ m[n + 1].pc = "test"
  BY CallStack
<1>2. n # 0 => s # <<>>
  OBVIOUS
<1> HIDE DEF m
<1>3. \A i \in 1 .. n + 1 : i = n + 1 \/ i \in 1 .. n
  BY <1>1
<1>4. Nested(m)
  <2>1. ASSUME NEW i \in 1 .. n PROVE s[i].pc \in {"constants", "running"}
    BY <1>1, <1>2 DEF AlmostGood, Nested
  <2> QED
    BY <1>1, <1>3, <2>1 DEF Nested
<1>5. BegunMarked(m, st)
  BY <1>1, <1>3 DEF AlmostGood, BegunMarked, Begun
<1>6. Distinct(m)
  BY <1>1, <1>3 DEF AlmostGood, Distinct
<1>7. RunsOnce(m, st, r)
  BY <1>1, <1>3 DEF AlmostGood, RunsOnce, Early
<1>8. ParentAwaited(m, st) /\ ParentBegun(m, st)
  <2>1. ASSUME NEW i \in 1 .. n + 1, Parent[m[i].cls] # NoClass
        PROVE  /\ m[i].pc \in Late => ~New(Parent[m[i].cls], st)
               /\ m[i].pc = "constants" /\ i # n + 1 =>
                    m[i + 1].cls = Parent[m[i].cls]
    <3>1. CASE i = n + 1
      BY <1>1, <3>1 DEF Late
    <3>2. CASE i # n + 1
      <4>1. i \in 1 .. n /\ m[i] = s[i]
        BY <1>1, <1>3, <3>2
      <4>2. i # n => m[i + 1] = s[i + 1]
        BY <1>1, <4>1
      <4>3. i = n => m[i + 1].cls = c
        BY <1>1
      <4>4. i = n /\ m[i].pc = "constants" => c = Parent[m[i].cls]
        BY <1>2, <4>1
      <4>5. /\ s[i].pc \in Late => ~New(Parent[s[i].cls], st)
            /\ s[i].pc = "constants" /\ i # n =>
                 s[i + 1].cls = Parent[s[i].cls]
        BY <2>1, <4>1 DEF AlmostGood, ParentAwaited
      <4> QED
        BY <4>1, <4>2, <4>3, <4>4, <4>5
    <3> QED
      BY <3>1, <3>2
  <2>2. ParentAwaited(m, st)
    BY <1>1, <2>1 DEF ParentAwaited
  <2>3. ParentBegun(m, st)
    BY <1>1 DEF ParentBegun
  <2> QED
    BY <2>2, <2>3
<1>9. WorkDone(m, k, e)
  BY <1>1, <1>3 DEF AlmostGood, WorkDone, Late
<1> QED
  BY <1>4, <1>5, <1>6, <1>7, <1>8, <1>9 DEF AlmostGood, Good, m

(* A return leaves a good stack when the class it returns from has begun.  *)
LEMMA GoodReturned ==
  ASSUME NEW s \in Seq(Activation), s # <<>>,
         NEW st, NEW r, NEW k, NEW e, Good(s, st, r, k, e),
         ~New(s[Len(s)].cls, st)
  PROVE  Good(Returned(s), st, r, k, e)
<1> DEFINE m == Returned(s)
           n == Len(s)
<1>1. /\ n \in Nat \ {0} /\ Len(m) = n - 1
      /\ \A i \in 1 .. n - 1 : m[i] = s[i]
  BY ReturnedStack
<1> HIDE DEF m
<1>2. \A i \in 1 .. n - 1 : i \in 1 .. n /\ i # n
  BY <1>1
<1>3. Nested(m)
  BY <1>1, <1>2 DEF Good, AlmostGood, Nested
<1>4. BegunMarked(m, st)
  BY <1>1, <1>2 DEF Good, AlmostGood, BegunMarked
<1>5. Distinct(m)
  BY <1>1, <1>2 DEF Good, AlmostGood, Distinct
<1>6. RunsOnce(m, st, r)
  BY <1>1, <1>2 DEF Good, AlmostGood, RunsOnce
<1>7. ASSUME NEW i \in 1 .. n - 1, Parent[m[i].cls] # NoClass
      PROVE  /\ m[i].pc \in Late => ~New(Parent[m[i].cls], st)
             /\ m[i].pc = "constants" =>
                  IF i = n - 1 THEN ~New(Parent[m[i].cls], st)
                               ELSE m[i + 1].cls = Parent[m[i].cls]
  <2>1. i \in 1 .. n /\ i # n /\ m[i] = s[i]
    BY <1>1, <1>2
  <2>2. /\ s[i].pc \in Late => ~New(Parent[s[i].cls], st)
        /\ s[i].pc = "constants" => s[i + 1].cls = Parent[s[i].cls]
    BY <1>7, <2>1 DEF Good, AlmostGood, ParentAwaited
  <2>3. i # n - 1 => m[i + 1] = s[i + 1]
    BY <1>1, <2>1
  <2>4. i = n - 1 => i + 1 = n
    BY <1>1
  <2> QED
    BY <2>1, <2>2, <2>3, <2>4
<1>8. ParentAwaited(m, st) /\ ParentBegun(m, st)
  BY <1>1, <1>7 DEF ParentAwaited, ParentBegun
<1>9. WorkDone(m, k, e)
  BY <1>1, <1>2 DEF Good, AlmostGood, WorkDone
<1> QED
  BY <1>3, <1>4, <1>5, <1>6, <1>8, <1>9 DEF Good, AlmostGood, m

-----------------------------------------------------------------------------
(* From the stack of the thread that moves to all of them.                 *)
LEMMA OneMoves ==
  ASSUME TypeOK, StacksGood, NEW t \in Threads,
         \A u \in Threads : u # t => stack'[u] = stack[u] /\ runs'[u] = runs[u],
         \A c \in Classes : ~New(c, state) => ~New(c, state'),
         constants \subseteq constants', ended \subseteq ended',
         Good(stack'[t], state', runs'[t], constants', ended')
  PROVE  StacksGood'
<1>1. ASSUME NEW u \in Threads
      PROVE  Good(stack'[u], state', runs'[u], constants', ended')
  <2>1. CASE u = t
    BY <2>1
  <2>2. CASE u # t
    <3>1. stack[u] \in Seq(Activation)
      BY DEF TypeOK
    <3>2. Good(stack[u], state, runs[u], constants, ended)
      BY DEF StacksGood
    <3>3. Good(stack[u], state', runs[u], constants', ended')
      BY <3>1, <3>2, GoodMonotone
    <3> QED
      BY <2>2, <3>3
  <2> QED
    BY <2>1, <2>2
<1> QED
  BY <1>1 DEF StacksGood

(* What a thread that has an activation knows of the innermost one.        *)
LEMMA TopFacts ==
  ASSUME TypeOK, StacksGood, NEW t \in Threads, stack[t] # <<>>
  PROVE  /\ stack[t] \in Seq(Activation)
         /\ Good(stack[t], state, runs[t], constants, ended)
         /\ Top(t) = stack[t][Len(stack[t])]
         /\ Top(t).cls \in Classes
         /\ Len(stack[t]) \in 1 .. Len(stack[t])
         /\ Top(t).pc \notin {"test", "set"} => ~New(Top(t).cls, state)
         /\ Top(t).pc \in Early => runs[t][Top(t).cls] = 0
<1> DEFINE s == stack[t]
<1>1. s \in Seq(Activation) /\ Good(s, state, runs[t], constants, ended)
  BY DEF TypeOK, StacksGood
<1>2. Len(s) \in 1 .. Len(s) /\ s[Len(s)] \in Activation
  BY <1>1, ReturnedStack
<1>3. s[Len(s)].cls \in Classes
  BY <1>2 DEF Activation
<1>4. s[Len(s)].pc \notin {"test", "set"} => ~New(s[Len(s)].cls, state)
  BY <1>1, <1>2 DEF Good, AlmostGood, BegunMarked, Begun
<1>5. s[Len(s)].pc \in Early => runs[t][s[Len(s)].cls] = 0
  BY <1>1, <1>2, <1>3 DEF Good, AlmostGood, RunsOnce
<1> QED
  BY <1>1, <1>2, <1>3, <1>4, <1>5 DEF Top

LEMMA TypeInit == ASSUME Init PROVE TypeOK
<1>1. 0 \in 0 .. MaxUses
  BY ClassAssumption
<1>2. <<>> \in Seq(Activation)
  OBVIOUS
<1> QED
  BY <1>1, <1>2 DEF Init, TypeOK, KlassState

LEMMA TypeStep == ASSUME TypeOK, [Next]_vars PROVE TypeOK'
<1> USE DEF TypeOK
<1>1. ASSUME NEW t \in Threads, stack[t] # <<>>, NEW p \in Points
      PROVE  /\ Moved(stack[t], p) \in Seq(Activation)
             /\ Returned(stack[t]) \in Seq(Activation)
             /\ Top(t).cls \in Classes
  <2>1. stack[t] \in Seq(Activation)
    OBVIOUS
  <2>2. Moved(stack[t], p) \in Seq(Activation) /\ Top(t) \in Activation
    BY <1>1, <2>1, MovedStack DEF Top
  <2>3. Returned(stack[t]) \in Seq(Activation)
    BY <1>1, <2>1, ReturnedStack
  <2> QED
    BY <2>2, <2>3 DEF Activation
<1>2. ASSUME NEW s \in Seq(Activation), NEW c \in Classes
      PROVE  Call(s, c) \in Seq(Activation)
  BY <1>2, CallStack
<1>3. {"set", "parent", "constants", "clinit", "running", "mark"} \subseteq Points
  BY DEF Points
<1>4. ASSUME NEW t \in Threads, NEW c \in Classes, Use(t, c) PROVE TypeOK'
  <2>1. Call(stack[t], c) \in Seq(Activation)
    BY <1>2
  <2>2. uses[t] + 1 \in 0 .. MaxUses
    BY <1>4, ClassAssumption DEF Use
  <2> QED
    BY <1>4, <2>1, <2>2 DEF Use
<1>5. ASSUME NEW t \in Threads, Test(t) PROVE TypeOK'
  BY <1>5, <1>1, <1>3 DEF Test, At, Goto, Return
<1>6. ASSUME NEW t \in Threads, SetInitializing(t) PROVE TypeOK'
  BY <1>6, <1>1, <1>3 DEF SetInitializing, At, Goto, KlassState
<1>7. ASSUME NEW t \in Threads, InitParent(t) PROVE TypeOK'
  <2>1. Moved(stack[t], "constants") \in Seq(Activation) /\ Top(t).cls \in Classes
    BY <1>7, <1>1, <1>3 DEF InitParent, At
  <2>2. CASE Parent[Top(t).cls] = NoClass
    BY <1>7, <2>1, <2>2 DEF InitParent, Goto
  <2>3. CASE Parent[Top(t).cls] # NoClass
    <3>1. Parent[Top(t).cls] \in Classes
      BY <2>1, <2>3, ClassAssumption
    <3>2. Call(Moved(stack[t], "constants"), Parent[Top(t).cls]) \in Seq(Activation)
      BY <3>1, <2>1, <1>2
    <3> QED
      BY <1>7, <2>3, <3>2 DEF InitParent
  <2> QED
    BY <2>2, <2>3
<1>8. ASSUME NEW t \in Threads, InitConstants(t) PROVE TypeOK'
  BY <1>8, <1>1, <1>3 DEF InitConstants, At, Goto
<1>9. ASSUME NEW t \in Threads, StartClinit(t) PROVE TypeOK'
  <2>1. /\ Moved(stack[t], "running") \in Seq(Activation)
        /\ Moved(stack[t], "mark") \in Seq(Activation)
        /\ Top(t).cls \in Classes
    BY <1>9, <1>1, <1>3 DEF StartClinit, At
  <2>2. [runs[t] EXCEPT ![Top(t).cls] = runs[t][Top(t).cls] + 1]
          \in [Classes -> Nat]
    BY <2>1
  <2>3. \/ runs' = [runs EXCEPT ![t] =
                      [runs[t] EXCEPT ![Top(t).cls] = runs[t][Top(t).cls] + 1]]
        \/ runs' = runs
    BY <1>9 DEF StartClinit
  <2>4. runs' \in [Threads -> [Classes -> Nat]]
    BY <2>2, <2>3
  <2>5. stack' \in [Threads -> Seq(Activation)]
    BY <1>9, <2>1 DEF StartClinit, Goto
  <2> QED
    BY <1>9, <2>4, <2>5 DEF StartClinit
<1>10. ASSUME NEW t \in Threads, EndClinit(t) PROVE TypeOK'
  BY <1>10, <1>1, <1>3 DEF EndClinit, At, Goto
<1>11. ASSUME NEW t \in Threads, SetInitialized(t) PROVE TypeOK'
  BY <1>11, <1>1, <1>3 DEF SetInitialized, At, Return, KlassState
<1>12. ASSUME NEW c \in ByHand, HoldByHand(c) \/ ReleaseByHand(c)
       PROVE  TypeOK'
  BY <1>12 DEF HoldByHand, ReleaseByHand, KlassState
<1>13. CASE UNCHANGED vars
  BY <1>13 DEF vars
<1> QED
  BY <1>4, <1>5, <1>6, <1>7, <1>8, <1>9, <1>10, <1>11, <1>12, <1>13
  DEF Next, Step

-----------------------------------------------------------------------------
(* One lemma per action: the stacks stay good.                             *)
LEMMA UseGood ==
  ASSUME TypeOK, StacksGood, NEW t \in Threads, NEW c \in Classes, Use(t, c)
  PROVE  StacksGood'
<1>1. stack[t] \in Seq(Activation)
  BY DEF TypeOK
<1>2. Good(stack[t], state, runs[t], constants, ended)
  BY DEF StacksGood
<1>3. stack[t] # <<>> => stack[t][Len(stack[t])].pc = "running"
  BY DEF Use, At, Top
<1>4. Good(Call(stack[t], c), state, runs[t], constants, ended)
  BY <1>1, <1>2, <1>3, GoodCall DEF Good
<1>5. stack'[t] = Call(stack[t], c)
  BY DEF Use, TypeOK
<1>6. UNCHANGED <<state, constants, runs, ended>>
  BY DEF Use
<1>7. \A u \in Threads : u # t => stack'[u] = stack[u]
  BY DEF Use, TypeOK
<1> QED
  BY <1>4, <1>5, <1>6, <1>7, OneMoves

LEMMA TestGood ==
  ASSUME TypeOK, StacksGood, NEW t \in Threads, Test(t)
  PROVE  StacksGood'
<1> DEFINE s == stack[t]
<1>1. s # <<>> /\ s[Len(s)].pc = "test" /\ Top(t) = s[Len(s)]
  BY DEF Test, At, Top
<1>2. /\ s \in Seq(Activation)
      /\ Good(s, state, runs[t], constants, ended)
      /\ s[Len(s)].cls \in Classes
      /\ Len(s) \in 1 .. Len(s)
  BY <1>1, TopFacts
<1>3. UNCHANGED <<state, constants, runs, ended>>
  BY DEF Test
<1>4. \A u \in Threads : u # t => stack'[u] = stack[u]
  BY DEF Test, Goto, Return, TypeOK
<1>5. CASE New(s[Len(s)].cls, state)
  <2>1. stack'[t] = Moved(s, "set")
    BY <1>1, <1>5 DEF Test, Goto, TypeOK, New
  <2>2. runs[t][s[Len(s)].cls] = 0
    BY <1>2, <1>5 DEF Good, AlmostGood, RunsOnce
  <2>3. "set" \in Points /\ "set" \notin Late
    BY DEF Points, Late
  <2>4. AlmostGood(Moved(s, "set"), state, runs[t], constants, ended)
    BY <1>1, <1>2, <1>5, <2>2, <2>3, AlmostGoodMoved
  <2>5. Good(Moved(s, "set"), state, runs[t], constants, ended)
    BY <1>1, <1>2, <2>3, <2>4, GoodMoved
  <2> QED
    BY <1>3, <1>4, <2>1, <2>5, OneMoves
<1>6. CASE ~New(s[Len(s)].cls, state)
  <2>1. stack'[t] = Returned(s)
    BY <1>1, <1>6 DEF Test, Return, TypeOK, New
  <2>2. Good(Returned(s), state, runs[t], constants, ended)
    BY <1>1, <1>2, <1>6, GoodReturned
  <2> QED
    BY <1>3, <1>4, <2>1, <2>2, OneMoves
<1> QED
  BY <1>5, <1>6

LEMMA SetInitializingGood ==
  ASSUME TypeOK, StacksGood, NEW t \in Threads, SetInitializing(t)
  PROVE  StacksGood'
<1> DEFINE s == stack[t]
<1>1. s # <<>> /\ s[Len(s)].pc = "set" /\ Top(t) = s[Len(s)]
  BY DEF SetInitializing, At, Top
<1>2. /\ s \in Seq(Activation)
      /\ Good(s, state, runs[t], constants, ended)
      /\ s[Len(s)].cls \in Classes
      /\ runs[t][s[Len(s)].cls] = 0
  BY <1>1, TopFacts DEF Early
<1>3. UNCHANGED <<constants, runs, ended>>
  BY DEF SetInitializing
<1>4. /\ ~New(s[Len(s)].cls, state')
      /\ \A c \in Classes : ~New(c, state) => ~New(c, state')
  BY <1>1, <1>2 DEF SetInitializing, New, TypeOK
<1>5. Good(s, state', runs[t], constants, ended)
  BY <1>2, <1>4, GoodMonotone
<1>6. "parent" \in Points /\ "parent" \notin Late
  BY DEF Points, Late
<1>7. AlmostGood(Moved(s, "parent"), state', runs[t], constants, ended)
  BY <1>1, <1>2, <1>4, <1>5, <1>6, AlmostGoodMoved
<1>8. Good(Moved(s, "parent"), state', runs[t], constants, ended)
  BY <1>1, <1>2, <1>6, <1>7, GoodMoved
<1>9. /\ stack'[t] = Moved(s, "parent")
      /\ \A u \in Threads : u # t => stack'[u] = stack[u]
  BY DEF SetInitializing, Goto, TypeOK
<1> QED
  BY <1>3, <1>4, <1>8, <1>9, OneMoves

LEMMA InitParentGood ==
  ASSUME TypeOK, StacksGood, NEW t \in Threads, InitParent(t)
  PROVE  StacksGood'
<1> DEFINE s == stack[t]
           n == Len(s)
           m == Moved(s, "constants")
<1>1. s # <<>> /\ s[n].pc = "parent" /\ Top(t) = s[n]
  BY DEF InitParent, At, Top
<1>2. /\ s \in Seq(Activation)
      /\ Good(s, state, runs[t], constants, ended)
      /\ s[n].cls \in Classes
      /\ ~New(s[n].cls, state)
      /\ runs[t][s[n].cls] = 0
  BY <1>1, TopFacts DEF Early
<1>3. UNCHANGED <<state, constants, runs, ended>>
  BY DEF InitParent
<1>4. \A u \in Threads : u # t => stack'[u] = stack[u]
  BY DEF InitParent, Goto, TypeOK
<1>5. "constants" \in Points /\ "constants" \notin Late
  BY DEF Points, Late
<1>6. AlmostGood(m, state, runs[t], constants, ended)
  BY <1>1, <1>2, <1>5, AlmostGoodMoved
<1>7. /\ m \in Seq(Activation) /\ Len(m) = n /\ m # <<>>
      /\ m[n].cls = s[n].cls /\ m[n].pc = "constants"
  <2>1. n \in 1 .. n
    BY <1>1, <1>2
  <2> QED
    BY <1>1, <1>2, <1>5, <2>1, MovedStack
<1>8. CASE Parent[s[n].cls] = NoClass
  <2>1. Good(m, state, runs[t], constants, ended)
    BY <1>1, <1>2, <1>5, <1>6, <1>8, GoodMoved
  <2>2. stack'[t] = m
    BY <1>1, <1>8 DEF InitParent, Goto, TypeOK
  <2> QED
    BY <1>3, <1>4, <2>1, <2>2, OneMoves
<1>9. CASE Parent[s[n].cls] # NoClass
  <2> DEFINE p == Parent[s[n].cls]
  <2>1. p \in Classes
    BY <1>2, <1>9, ClassAssumption
  <2>2. stack'[t] = Call(m, p)
    BY <1>1, <1>9 DEF InitParent, TypeOK
  <2> HIDE DEF m
  <2>3. Good(Call(m, p), state, runs[t], constants, ended)
    BY <1>6, <1>7, <2>1, GoodCall
  <2> QED
    BY <1>3, <1>4, <2>2, <2>3, OneMoves
<1> QED
  BY <1>8, <1>9

LEMMA InitConstantsGood ==
  ASSUME TypeOK, StacksGood, NEW t \in Threads, InitConstants(t)
  PROVE  StacksGood'
<1> DEFINE s == stack[t]
           n == Len(s)
<1>1. s # <<>> /\ s[n].pc = "constants" /\ Top(t) = s[n]
  BY DEF InitConstants, At, Top
<1>2. /\ s \in Seq(Activation)
      /\ Good(s, state, runs[t], constants, ended)
      /\ n \in 1 .. n
      /\ ~New(s[n].cls, state)
      /\ runs[t][s[n].cls] = 0
  BY <1>1, TopFacts DEF Early
<1>3. UNCHANGED <<state, runs, ended>>
  BY DEF InitConstants
<1>4. constants \subseteq constants' /\ s[n].cls \in constants'
  BY <1>1 DEF InitConstants
<1>5. Good(s, state, runs[t], constants', ended)
  BY <1>2, <1>4, GoodMonotone
<1>6. Parent[s[n].cls] # NoClass => ~New(Parent[s[n].cls], state)
  BY <1>1, <1>2 DEF Good, ParentBegun
<1>7. "clinit" \in Points
  BY DEF Points
<1>8. AlmostGood(Moved(s, "clinit"), state, runs[t], constants', ended)
  BY <1>1, <1>2, <1>4, <1>5, <1>6, <1>7, AlmostGoodMoved
<1>9. Good(Moved(s, "clinit"), state, runs[t], constants', ended)
  BY <1>1, <1>2, <1>7, <1>8, GoodMoved
<1>10. /\ stack'[t] = Moved(s, "clinit")
       /\ \A u \in Threads : u # t => stack'[u] = stack[u]
  BY DEF InitConstants, Goto, TypeOK
<1> QED
  BY <1>3, <1>4, <1>9, <1>10, OneMoves

LEMMA StartClinitGood ==
  ASSUME TypeOK, StacksGood, NEW t \in Threads, StartClinit(t)
  PROVE  StacksGood'
<1> DEFINE s == stack[t]
           n == Len(s)
           c == s[n].cls
<1>1. s # <<>> /\ s[n].pc = "clinit" /\ Top(t) = s[n]
  BY DEF StartClinit, At, Top
<1>2. /\ s \in Seq(Activation)
      /\ Good(s, state, runs[t], constants, ended)
      /\ n \in 1 .. n
      /\ c \in Classes
      /\ ~New(c, state)
      /\ runs[t][c] = 0
  BY <1>1, TopFacts DEF Early
<1>3. UNCHANGED <<state, constants, ended>>
  BY DEF StartClinit
<1>4. /\ Parent[c] # NoClass => ~New(Parent[c], state)
      /\ c \in constants
  BY <1>1, <1>2 DEF Good, AlmostGood, ParentAwaited, WorkDone, Late
<1>5. \A u \in Threads : u # t => stack'[u] = stack[u] /\ runs'[u] = runs[u]
  BY DEF StartClinit, Goto, TypeOK
<1>6. {"running", "mark"} \subseteq Points
      /\ "running" \notin Early /\ "mark" \notin Early
  BY DEF Points, Early
<1>7. CASE c \in WithClinit
  <2> DEFINE m == Moved(s, "running")
  <2>1. AlmostGood(m, state, runs[t], constants, ended)
    BY <1>1, <1>2, <1>4, <1>6, AlmostGoodMoved
  <2>2. Good(m, state, runs[t], constants, ended)
    BY <1>1, <1>2, <1>6, <2>1, GoodMoved
  <2>3. stack'[t] = m
    BY <1>1, <1>7 DEF StartClinit, Goto, TypeOK
  <2>4. runs'[t] = [runs[t] EXCEPT ![c] = runs[t][c] + 1]
    BY <1>1, <1>7 DEF StartClinit, TypeOK
  <2>5. /\ runs'[t][c] = 1
        /\ \A d \in Classes : d # c => runs'[t][d] = runs[t][d]
    <3>1. runs[t] \in [Classes -> Nat]
      BY DEF TypeOK
    <3> QED
      BY <1>2, <2>4, <3>1
  <2>6. /\ Len(m) = n
        /\ \A i \in 1 .. n : m[i].cls = s[i].cls
        /\ m[n].pc = "running"
    BY <1>1, <1>2, <1>6, MovedStack
  <2>7. ASSUME NEW i \in 1 .. n, i # n PROVE m[i].cls # c
    BY <1>1, <1>2, <2>6, <2>7, TopAlone DEF Good, AlmostGood
  <2> HIDE DEF m
  <2>8. RunsOnce(m, state, runs'[t])
    <3>1. ASSUME NEW d \in Classes, runs'[t][d] # 0
          PROVE  /\ runs'[t][d] = 1
                 /\ ~New(d, state)
                 /\ \A i \in 1 .. Len(m) : m[i].cls = d => m[i].pc \notin Early
      <4>1. CASE d = c
        <5>1. ASSUME NEW i \in 1 .. n, m[i].cls = c PROVE i = n
          BY <2>7, <5>1
        <5>2. \A i \in 1 .. n : m[i].cls = c => m[i].pc = "running"
          BY <5>1, <2>6
        <5> QED
          BY <1>2, <1>6, <2>5, <2>6, <4>1, <5>2
      <4>2. CASE d # c
        <5>1. runs[t][d] # 0 /\ runs'[t][d] = runs[t][d]
          BY <2>5, <3>1, <4>2
        <5>2. RunsOnce(m, state, runs[t])
          BY <2>1 DEF AlmostGood
        <5> QED
          BY <5>1, <5>2 DEF RunsOnce
      <4> QED
        BY <4>1, <4>2
    <3> QED
      BY <3>1 DEF RunsOnce
  <2>9. Good(m, state, runs'[t], constants, ended)
    BY <2>2, <2>8 DEF Good, AlmostGood
  <2> QED
    BY <1>3, <1>5, <2>3, <2>9, OneMoves
<1>8. CASE c \notin WithClinit
  <2>1. AlmostGood(Moved(s, "mark"), state, runs[t], constants, ended)
    BY <1>1, <1>2, <1>4, <1>6, <1>8, AlmostGoodMoved
  <2>2. Good(Moved(s, "mark"), state, runs[t], constants, ended)
    BY <1>1, <1>2, <1>6, <2>1, GoodMoved
  <2>3. stack'[t] = Moved(s, "mark") /\ runs'[t] = runs[t]
    BY <1>1, <1>8 DEF StartClinit, Goto, TypeOK
  <2> QED
    BY <1>3, <1>5, <2>2, <2>3, OneMoves
<1> QED
  BY <1>7, <1>8

LEMMA EndClinitGood ==
  ASSUME TypeOK, StacksGood, NEW t \in Threads, EndClinit(t)
  PROVE  StacksGood'
<1> DEFINE s == stack[t]
           n == Len(s)
<1>1. s # <<>> /\ s[n].pc = "running" /\ Top(t) = s[n]
  BY DEF EndClinit, At, Top
<1>2. /\ s \in Seq(Activation)
      /\ Good(s, state, runs[t], constants, ended)
      /\ n \in 1 .. n
      /\ ~New(s[n].cls, state)
  BY <1>1, TopFacts
<1>3. UNCHANGED <<state, constants, runs>>
  BY DEF EndClinit
<1>4. ended \subseteq ended' /\ s[n].cls \in ended'
  BY <1>1 DEF EndClinit
<1>5. Good(s, state, runs[t], constants, ended')
  BY <1>2, <1>4, GoodMonotone
<1>6. /\ Parent[s[n].cls] # NoClass => ~New(Parent[s[n].cls], state)
      /\ s[n].cls \in constants
  BY <1>1, <1>2 DEF Good, AlmostGood, ParentAwaited, WorkDone, Late
<1>7. "mark" \in Points /\ "mark" \notin Early
  BY DEF Points, Early
<1>8. AlmostGood(Moved(s, "mark"), state, runs[t], constants, ended')
  BY <1>1, <1>2, <1>4, <1>5, <1>6, <1>7, AlmostGoodMoved
<1>9. Good(Moved(s, "mark"), state, runs[t], constants, ended')
  BY <1>1, <1>2, <1>7, <1>8, GoodMoved
<1>10. /\ stack'[t] = Moved(s, "mark")
       /\ \A u \in Threads : u # t => stack'[u] = stack[u]
  BY DEF EndClinit, Goto, TypeOK
<1> QED
  BY <1>3, <1>4, <1>9, <1>10, OneMoves

LEMMA SetInitializedGood ==
  ASSUME TypeOK, StacksGood, NEW t \in Threads, SetInitialized(t)
  PROVE  StacksGood'
<1> DEFINE s == stack[t]
<1>1. s # <<>> /\ s[Len(s)].pc = "mark" /\ Top(t) = s[Len(s)]
  BY DEF SetInitialized, At, Top
<1>2. /\ s \in Seq(Activation)
      /\ Good(s, state, runs[t], constants, ended)
      /\ s[Len(s)].cls \in Classes
  BY <1>1, TopFacts
<1>3. UNCHANGED <<constants, runs, ended>>
  BY DEF SetInitialized
<1>4. /\ ~New(s[Len(s)].cls, state')
      /\ \A c \in Classes : ~New(c, state) => ~New(c, state')
  BY <1>1, <1>2 DEF SetInitialized, New, TypeOK
<1>5. Good(s, state', runs[t], constants, ended)
  BY <1>2, <1>4, GoodMonotone
<1>6. Good(Returned(s), state', runs[t], constants, ended)
  BY <1>1, <1>2, <1>4, <1>5, GoodReturned
<1>7. /\ stack'[t] = Returned(s)
      /\ \A u \in Threads : u # t => stack'[u] = stack[u]
  BY DEF SetInitialized, Return, TypeOK
<1> QED
  BY <1>3, <1>4, <1>6, <1>7, OneMoves

LEMMA ByHandGood ==
  ASSUME TypeOK, StacksGood, NEW c \in ByHand,
         HoldByHand(c) \/ ReleaseByHand(c)
  PROVE  StacksGood'
<1>1. UNCHANGED <<stack, constants, runs, ended>>
  BY DEF HoldByHand, ReleaseByHand
<1>2. \A d \in Classes : ~New(d, state) => ~New(d, state')
  BY DEF HoldByHand, ReleaseByHand, New, TypeOK
<1>3. ASSUME NEW u \in Threads
      PROVE  Good(stack[u], state', runs[u], constants, ended)
  <2>1. stack[u] \in Seq(Activation)
    BY DEF TypeOK
  <2>2. Good(stack[u], state, runs[u], constants, ended)
    BY DEF StacksGood
  <2> QED
    BY <1>2, <2>1, <2>2, GoodMonotone
<1> QED
  BY <1>1, <1>3 DEF StacksGood

LEMMA StacksStep ==
  ASSUME TypeOK, StacksGood, [Next]_vars PROVE StacksGood'
<1>1. ASSUME NEW t \in Threads, Step(t) PROVE StacksGood'
  BY <1>1, TestGood, SetInitializingGood, InitParentGood, InitConstantsGood,
     StartClinitGood, EndClinitGood, SetInitializedGood DEF Step
<1>2. ASSUME NEW t \in Threads, NEW c \in Classes, Use(t, c) PROVE StacksGood'
  BY <1>2, UseGood
<1>3. ASSUME NEW c \in ByHand, HoldByHand(c) \/ ReleaseByHand(c)
      PROVE  StacksGood'
  BY <1>3, ByHandGood
<1>4. CASE UNCHANGED vars
  BY <1>4 DEF vars, StacksGood
<1> QED
  BY <1>1, <1>2, <1>3, <1>4 DEF Next

(* Only the end of an activation makes a class Initialized, and by then    *)
(* the activation has set the constants and seen <clinit> end.             *)
LEMMA MeansRunStep ==
  ASSUME TypeOK, StacksGood, InitializedMeansRun, [Next]_vars
  PROVE  InitializedMeansRun'
<1>1. constants \subseteq constants' /\ ended \subseteq ended'
  BY DEF Next, Step, Use, Test, SetInitializing, InitParent, InitConstants,
         StartClinit, EndClinit, SetInitialized, HoldByHand, ReleaseByHand, vars
<1>2. ASSUME NEW c \in Classes \ ByHand, state'[c] = "Initialized",
             state[c] # "Initialized"
      PROVE  c \in constants /\ (c \in WithClinit => c \in ended)
  <2>1. ASSUME NEW t \in Threads, SetInitialized(t)
        PROVE  c \in constants /\ (c \in WithClinit => c \in ended)
    <3>1. stack[t] # <<>> /\ Top(t).pc = "mark"
      BY <2>1 DEF SetInitialized, At
    <3>2. Top(t).cls = c
      BY <1>2, <2>1 DEF SetInitialized, TypeOK
    <3>3. WorkDone(stack[t], constants, ended)
          /\ Top(t) = stack[t][Len(stack[t])]
          /\ Len(stack[t]) \in 1 .. Len(stack[t])
      BY <3>1, TopFacts DEF Good, AlmostGood
    <3> QED
      BY <3>1, <3>2, <3>3 DEF WorkDone, Late
  <2>2. ASSUME NEW t \in Threads, SetInitializing(t) PROVE FALSE
    BY <1>2, <2>2 DEF SetInitializing, TypeOK
  <2>3. ASSUME NEW d \in ByHand, HoldByHand(d) \/ ReleaseByHand(d) PROVE FALSE
    BY <1>2, <2>3 DEF HoldByHand, ReleaseByHand, TypeOK
  <2>4. CASE UNCHANGED state
    BY <1>2, <2>4
  <2> QED
    BY <2>1, <2>2, <2>3, <2>4
    DEF Next, Step, Use, Test, InitParent, InitConstants, StartClinit,
        EndClinit, vars
<1> QED
  BY <1>1, <1>2 DEF InitializedMeansRun

LEMMA InvInit == ASSUME Init PROVE IInv
<1>1. TypeOK
  BY TypeInit
<1>2. ASSUME NEW t \in Threads
      PROVE  Good(stack[t], state, runs[t], constants, ended)
  <2>1. stack[t] = <<>> /\ Len(stack[t]) = 0
    BY DEF Init
  <2>2. \A i \in 1 .. 0 : FALSE
    OBVIOUS
  <2>3. \A c \in Classes : runs[t][c] = 0
    BY DEF Init
  <2> QED
    BY <2>1, <2>2, <2>3
    DEF Good, AlmostGood, Nested, BegunMarked, Distinct, RunsOnce,
        ParentAwaited, ParentBegun, WorkDone
<1>3. InitializedMeansRun
  BY DEF Init, InitializedMeansRun
<1> QED
  BY <1>1, <1>2, <1>3 DEF IInv, StacksGood

LEMMA InvStep == ASSUME IInv, [Next]_vars PROVE IInv'
<1> USE DEF IInv
<1>1. TypeOK'
  BY TypeStep
<1>2. StacksGood'
  BY StacksStep
<1>3. InitializedMeansRun'
  BY MeansRunStep
<1> QED
  BY <1>1, <1>2, <1>3

LEMMA InvHolds == Spec => []IInv
<1> QED
  BY InvInit, InvStep, PTL DEF Spec

-----------------------------------------------------------------------------
(* THEOREM: every variable always has its type.                            *)
THEOREM TypeCorrect == Spec => []TypeOK
<1> QED
  BY TypeInit, TypeStep, PTL DEF Spec

(* THEOREM: no thread is ever in two initialisations of one class that     *)
(* have both passed the test: the state Initializing does cut the          *)
(* recursion, for every set of classes and every superclass relation.      *)
THEOREM RecursionIsCut == Spec => []NoRecursiveInitialization
<1>1. ASSUME IInv PROVE NoRecursiveInitialization
  <2>1. ASSUME NEW t \in Threads
        PROVE Distinct(stack[t]) /\ DOMAIN stack[t] = 1 .. Len(stack[t])
    BY <1>1 DEF IInv, TypeOK, StacksGood, Good, AlmostGood
  <2> QED
    BY <2>1 DEF NoRecursiveInitialization, Distinct
<1> QED
  BY <1>1, InvHolds, PTL

(* THEOREM: no thread runs the <clinit> of a class twice, however the      *)
(* threads interleave and whatever the <clinit>s use.                      *)
THEOREM RunsAtMostOncePerThread == Spec => []OneRunPerThread
<1>1. ASSUME IInv PROVE OneRunPerThread
  <2>1. ASSUME NEW t \in Threads, NEW c \in Classes
        PROVE runs[t][c] = 0 \/ runs[t][c] = 1
    BY <1>1 DEF IInv, StacksGood, Good, AlmostGood, RunsOnce
  <2> QED
    BY <2>1 DEF OneRunPerThread
<1> QED
  BY <1>1, InvHolds, PTL

(* THEOREM: an initialisation past its recursive call finds its superclass *)
(* begun.                                                                  *)
THEOREM ParentHasBegun == Spec => []ParentBegunFirst
<1>1. ASSUME IInv PROVE ParentBegunFirst
  <2>1. ASSUME NEW t \in Threads
        PROVE /\ ParentAwaited(stack[t], state)
              /\ DOMAIN stack[t] = 1 .. Len(stack[t])
    BY <1>1 DEF IInv, TypeOK, StacksGood, Good, AlmostGood
  <2> QED
    BY <2>1 DEF ParentBegunFirst, ParentAwaited, Late, New
<1> QED
  BY <1>1, InvHolds, PTL

(* THEOREM: code that finds a class Initialized finds its constants set    *)
(* and its <clinit> executed by some thread.                               *)
THEOREM InitializedClassesAreRun == Spec => []InitializedMeansRun
<1> QED
  BY InvHolds, PTL DEF IInv
=============================================================================
