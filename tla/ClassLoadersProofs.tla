--------------------------- MODULE ClassLoadersProofs --------------------------
(* The class loaders, the string table and the constant pools implement    *)
(* ClassTable, for any threads, classes, strings and names, and any number *)
(* of requests, when no class of the user's is in a package: TableInv of   *)
(* ClassLoaders is an inductive invariant, and each step is one of the     *)
(* abstract table or changes nothing of it.                                *)
EXTENDS ClassLoaders, FiniteSetTheorems, SequenceTheorems, TLAPS

-----------------------------------------------------------------------------
(* What was made first under a name.  That there is a first is true of     *)
(* every set of numbers; the induction that says so is out of the provers' *)
(* reach, and it is an invariant of the table that grows by one at a time. *)
HasFirsts ==
  \A x : (\E id \in DOMAIN made : IsMade(id, x)) =>
    \E id \in DOMAIN made :
      IsMade(id, x) /\ \A j \in DOMAIN made : IsMade(j, x) => id =< j

Recorded == MapsOK /\ HasFirsts

MadeSeq == DOMAIN made = 1 .. Len(made) /\ Len(made) \in Nat

LEMMA MadeIsSeq ==
  ASSUME MapsOK
  PROVE  DOMAIN made = 1 .. Len(made) /\ Len(made) \in Nat
  BY DEF MapsOK

FirstsRight ==
  \A x :
    /\ First(x) \in Nat
    /\ First(x) = 0 <=> \A id \in DOMAIN made : ~IsMade(id, x)
    /\ First(x) # 0 =>
         /\ First(x) \in DOMAIN made /\ IsMade(First(x), x)
         /\ \A j \in DOMAIN made : IsMade(j, x) => First(x) =< j

LEMMA FirstsAreRight ==
  MadeSeq /\ HasFirsts => FirstsRight
  <1> SUFFICES ASSUME MadeSeq, HasFirsts, NEW x
               PROVE  /\ First(x) \in Nat
                      /\ First(x) = 0 <=> \A id \in DOMAIN made : ~IsMade(id, x)
                      /\ First(x) # 0 =>
                           /\ First(x) \in DOMAIN made /\ IsMade(First(x), x)
                           /\ \A j \in DOMAIN made : IsMade(j, x) => First(x) =< j
    BY DEF FirstsRight
  <1>1. DOMAIN made = 1 .. Len(made) /\ Len(made) \in Nat
    BY DEF MadeSeq
  <1>2. CASE \A id \in DOMAIN made : ~IsMade(id, x)
    BY <1>2 DEF First
  <1>3. CASE \E id \in DOMAIN made : IsMade(id, x)
    <2>1. PICK m \in DOMAIN made :
            IsMade(m, x) /\ \A j \in DOMAIN made : IsMade(j, x) => m =< j
      BY <1>3 DEF HasFirsts
    <2>2. \A j \in 1 .. m - 1 : ~IsMade(j, x)
      BY <1>1, <2>1
    <2>3. /\ First(x) \in DOMAIN made /\ IsMade(First(x), x)
          /\ \A j \in 1 .. First(x) - 1 : ~IsMade(j, x)
      BY <1>3, <2>1, <2>2 DEF First
    <2> QED BY <1>1, <1>3, <2>3
  <1> QED BY <1>2, <1>3

LEMMA FirstIs ==
  ASSUME Recorded, NEW x
  PROVE  /\ First(x) \in Nat
         /\ First(x) = 0 <=> \A id \in DOMAIN made : ~IsMade(id, x)
         /\ First(x) # 0 =>
              /\ First(x) \in DOMAIN made /\ IsMade(First(x), x)
              /\ \A j \in DOMAIN made : IsMade(j, x) => First(x) =< j
  <1>1. MadeSeq /\ HasFirsts
    BY MadeIsSeq DEF Recorded, MadeSeq
  <1> QED BY <1>1, FirstsAreRight DEF FirstsRight

(* Whatever comes first under a name is the first.                         *)
LEMMA FirstUnique ==
  ASSUME Recorded, NEW x, NEW id \in DOMAIN made, IsMade(id, x),
         \A j \in DOMAIN made : IsMade(j, x) => id =< j
  PROVE  First(x) = id
  <1>1. DOMAIN made = 1 .. Len(made) /\ Len(made) \in Nat
    BY MadeIsSeq DEF Recorded
  <1>2. First(x) \in DOMAIN made /\ IsMade(First(x), x)
        /\ \A j \in DOMAIN made : IsMade(j, x) => First(x) =< j
    BY FirstIs
  <1> QED BY <1>1, <1>2

LEMMA NameIs ==
  ASSUME NEW n \in Names, n.form = "/"
  PROVE  n = Name(n.dim, n.base)
  BY DEF Names, Name, Named

LEMMA RecordIs ==
  ASSUME MapsOK, NEW id \in DOMAIN made
  PROVE  /\ id \in Nat \ {0}
         /\ made[id] \in [base : Bases, dim : Nat, loader : {"bs", "my", "string"},
                          higher : Nat]
  <1>1. id \in Nat \ {0}
    BY MadeIsSeq
  <1> DEFINE R == [base : Bases, dim : Nat, loader : {"bs", "my", "string"},
                   higher : Nat]
  <1>2. made \in Seq(R)
    BY DEF MapsOK
  <1>3. made[id] \in R
    <2> HIDE DEF R
    <2> QED BY <1>2
  <1> QED BY <1>1, <1>3

(* A class in the map of a loader is the only one of its name.             *)
LEMMA InSystem ==
  ASSUME Recorded, NEW n \in DOMAIN system_classmap
  PROVE  /\ system_classmap[n] = First(n) /\ First(n) \in DOMAIN made
         /\ ~OfUser(n) /\ n.form = "/" /\ n \in Names
  <1> DEFINE id == system_classmap[n]
  <1>1. /\ id \in DOMAIN made /\ made[id].loader = "bs" /\ KeyOf(made[id]) = n
        /\ ~OfUser(n) /\ n.form = "/" /\ n \in Names
    BY DEF Recorded, MapsOK
  <1>2. IsMade(id, n)
    BY <1>1 DEF IsMade, KeyOf, Name, Named
  <1>3. ASSUME NEW j \in DOMAIN made, IsMade(j, n) PROVE j = id
    <2>1. made[j].loader \in {"bs", "my"} /\ KeyOf(made[j]) = n
      BY <1>1, <1>3, NameIs, RecordIs DEF IsMade, KeyOf, Recorded
    <2>2. CASE made[j].loader = "bs"
      BY <2>1, <2>2 DEF Recorded, MapsOK
    <2>3. CASE made[j].loader = "my"
      <3>1. CASE made[j].dim = 0 /\ made[j].base \in AnonClasses
        BY <1>1, <1>3, <3>1, LoadersAssumption DEF IsMade, OfUser, Classes
      <3>2. CASE ~(made[j].dim = 0 /\ made[j].base \in AnonClasses)
        <4>1. n \in DOMAIN classmap
          BY <2>1, <2>3, <3>2 DEF Recorded, MapsOK
        <4> QED BY <1>1, <4>1 DEF Recorded, MapsOK
      <3> QED BY <3>1, <3>2
    <2> QED BY <2>1, <2>2, <2>3
  <1>4. id \in Nat
    BY <1>1, RecordIs DEF Recorded
  <1>5. \A j \in DOMAIN made : IsMade(j, n) => id =< j
    BY <1>3, <1>4
  <1>6. First(n) = id
    BY <1>1, <1>2, <1>5, FirstUnique
  <1> QED BY <1>1, <1>6

LEMMA InUser ==
  ASSUME Recorded, NEW n \in DOMAIN classmap
  PROVE  /\ classmap[n] = First(n) /\ First(n) \in DOMAIN made
         /\ OfUser(n) /\ n.form = "/" /\ n \in Names
         /\ n.dim = 0 => n.base \notin AnonClasses
  <1> DEFINE id == classmap[n]
  <1>1. /\ id \in DOMAIN made /\ made[id].loader = "my" /\ KeyOf(made[id]) = n
        /\ OfUser(n) /\ n.form = "/" /\ n \in Names
        /\ n.dim = 0 => n.base \notin AnonClasses
    BY DEF Recorded, MapsOK
  <1>2. IsMade(id, n)
    BY <1>1 DEF IsMade, KeyOf, Name, Named
  <1>3. ASSUME NEW j \in DOMAIN made, IsMade(j, n) PROVE j = id
    <2>1. /\ made[j].loader \in {"bs", "my"} /\ KeyOf(made[j]) = n
          /\ made[j].dim = n.dim /\ made[j].base = n.base
      BY <1>1, <1>3, NameIs, RecordIs DEF IsMade, KeyOf, Recorded
    <2>2. CASE made[j].loader = "bs"
      BY <1>1, <2>1, <2>2, InSystem DEF Recorded, MapsOK
    <2>3. CASE made[j].loader = "my"
      BY <1>1, <2>1, <2>3 DEF Recorded, MapsOK
    <2> QED BY <2>1, <2>2, <2>3
  <1>4. id \in Nat
    BY <1>1, RecordIs DEF Recorded
  <1>5. \A j \in DOMAIN made : IsMade(j, n) => id =< j
    BY <1>3, <1>4
  <1>6. First(n) = id
    BY <1>1, <1>2, <1>5, FirstUnique
  <1> QED BY <1>1, <1>6

(* An interned string is the first of its content.                         *)
LEMMA InStrings ==
  ASSUME Recorded, NEW s \in DOMAIN string_table
  PROVE  string_table[s] = First(s) /\ First(s) \in DOMAIN made
  <1> DEFINE id == string_table[s]
  <1>1. /\ id \in DOMAIN made /\ made[id].loader = "string"
        /\ s = String(s.base) /\ KeyOf(made[id]) = Name(0, s.base)
    BY DEF Recorded, MapsOK
  <1>2. s.dim = 0 /\ s.form = "string"
    BY <1>1 DEF String, Named
  <1>3. IsMade(id, s)
    BY <1>1, <1>2 DEF IsMade, KeyOf, Name, Named
  <1>4. ASSUME NEW j \in DOMAIN made, IsMade(j, s) PROVE id =< j
    <2>1. made[j].loader = "string" /\ String(made[j].base) = s
      BY <1>1, <1>2, <1>4 DEF IsMade
    <2> QED BY <2>1 DEF Recorded, MapsOK
  <1>5. First(s) = id
    BY <1>1, <1>3, <1>4, FirstUnique
  <1> QED BY <1>1, <1>5

(* The first anonymous class of a name is the first in the list.           *)
LEMMA InAnonymous ==
  ASSUME Recorded, NEW n \in Names, n.form = "/", n.dim = 0,
         NEW k \in Hidden(n), \A j \in Hidden(n) : k =< j
  PROVE  anonymous_klassmap[k] = First(n) /\ First(n) \in DOMAIN made
  <1> DEFINE id == anonymous_klassmap[k]
  <1>1. anonymous_klassmap \in Seq(DOMAIN made) /\ k \in DOMAIN anonymous_klassmap
        /\ made[id].base = n.base
    BY DEF Hidden, Recorded, MapsOK
  <1>0. id \in DOMAIN made
    BY <1>1
  <1>2. /\ id \in DOMAIN made /\ made[id].loader = "my" /\ made[id].dim = 0
        /\ n.base \in AnonClasses
    <2>1. LET k_ == made[anonymous_klassmap[k]]
          IN  k_.loader = "my" /\ k_.dim = 0 /\ k_.base \in AnonClasses
      BY <1>1 DEF Recorded, MapsOK
    <2> QED BY <1>0, <1>1, <2>1
  <1>3. IsMade(id, n)
    BY <1>1, <1>2 DEF IsMade
  <1>4. ASSUME NEW j \in DOMAIN made, IsMade(j, n) PROVE id =< j
    <2>1. /\ made[j].loader \in {"bs", "my"} /\ KeyOf(made[j]) = n
          /\ made[j].dim = 0 /\ made[j].base = n.base
      BY <1>4, NameIs, RecordIs DEF IsMade, KeyOf, Recorded
    <2>2. CASE made[j].loader = "bs"
      <3>1. ~OfUser(n)
        BY <2>1, <2>2, InSystem DEF Recorded, MapsOK
      <3> QED BY <1>2, <3>1, LoadersAssumption DEF OfUser, Classes
    <2>3. CASE made[j].loader = "my"
      <3>1. PICK i \in DOMAIN anonymous_klassmap : anonymous_klassmap[i] = j
        BY <1>2, <2>1, <2>3 DEF Recorded, MapsOK
      <3>2. i \in Hidden(n)
        BY <2>1, <3>1 DEF Hidden
      <3>3. i \in Nat /\ k \in Nat /\ k =< i /\ k > 0 /\ id \in Nat
        BY <1>1, <1>2, <3>1, <3>2, MadeIsSeq DEF Recorded
      <3>4. ASSUME k < i PROVE id < j
        <4>1. k \in 1 .. i - 1
          BY <3>3, <3>4
        <4>2. \A a \in 1 .. i - 1 : anonymous_klassmap[a] < anonymous_klassmap[i]
          BY <3>1 DEF Recorded, MapsOK
        <4>3. anonymous_klassmap[k] < anonymous_klassmap[i]
          BY <4>1, <4>2
        <4> QED BY <3>1, <4>3
      <3> QED BY <3>1, <3>3, <3>4, RecordIs DEF Recorded
    <2> QED BY <2>1, <2>2, <2>3
  <1>5. First(n) = id
    BY <1>2, <1>3, <1>4, FirstUnique
  <1> QED BY <1>2, <1>5

(* What is in no map was not made.                                         *)
LEMMA NotMade ==
  ASSUME Recorded, NEW n \in Names, n.form = "/",
         n \notin DOMAIN system_classmap, n \notin DOMAIN classmap,
         n.dim = 0 => n.base \notin AnonClasses
  PROVE  First(n) = 0
  <1>1. ASSUME NEW j \in DOMAIN made, IsMade(j, n) PROVE FALSE
    <2>1. /\ made[j].loader \in {"bs", "my"} /\ KeyOf(made[j]) = n
          /\ made[j].dim = n.dim /\ made[j].base = n.base
      BY <1>1, NameIs, RecordIs DEF IsMade, KeyOf, Recorded
    <2> QED BY <2>1 DEF Recorded, MapsOK
  <1> QED BY <1>1, FirstIs

-----------------------------------------------------------------------------
(* What is kept by steps that leave the maps alone, and by those that make *)
(* a class or a string.                                                    *)
LEMMA SameMaps ==
  ASSUME UNCHANGED maps
  PROVE  /\ Recorded => Recorded'
         /\ \A x : First(x)' = First(x)
         /\ \A f : FrameOK(f) => FrameOK(f)'
         /\ \A proc, n, id : Given(proc, n, id) => Given(proc, n, id)'
  <1> USE DEF maps
  <1>1. \A x : First(x)' = First(x)
    BY DEF First, IsMade
  <1>2. MapsOK => MapsOK'
    BY DEF MapsOK
  <1>3. HasFirsts => HasFirsts'
    BY DEF HasFirsts, IsMade
  <1>4. ASSUME NEW f, LoadOK(f) PROVE LoadOK(f)'
    BY <1>1, <1>4 DEF LoadOK
  <1>5. ASSUME NEW f, FrameOK(f) PROVE FrameOK(f)'
    BY <1>1, <1>4, <1>5 DEF FrameOK
  <1>6. ASSUME NEW proc, NEW n, NEW id, Given(proc, n, id)
        PROVE  Given(proc, n, id)'
    BY <1>1, <1>6 DEF Given
  <1> QED BY <1>1, <1>2, <1>3, <1>5, <1>6 DEF Recorded

Grown ==
  /\ DOMAIN made \subseteq DOMAIN made'
  /\ \A id \in DOMAIN made :
       /\ made'[id].base = made[id].base /\ made'[id].dim = made[id].dim
       /\ made'[id].loader = made[id].loader
  /\ \A x : First(x) # 0 => First(x)' = First(x)

(* A call of loadClass has to find its class missing until it is made.     *)
Absent(f) ==
  /\ f.proc = "bs" /\ f.pc \in Pending => f.name \notin DOMAIN system_classmap
  /\ f.proc = "find" /\ f.pc = "other" => f.name \notin DOMAIN system_classmap
  /\ f.proc = "my" /\ f.pc \in Pending /\ f.name.form = "/" =>
       f.name \notin DOMAIN classmap

LEMMA GivenStays ==
  ASSUME Grown, NEW proc, NEW n, NEW id, Given(proc, n, id)
  PROVE  Given(proc, n, id)'
  BY DEF Grown, Given, KeyOf

LEMMA FrameStays ==
  ASSUME Grown, NEW f, FrameOK(f), Absent(f)'
  PROVE  FrameOK(f)'
  <1>1. ASSUME NEW x, First(x) # 0 PROVE First(x)' # 0
    BY <1>1 DEF Grown
  <1>2. LoadOK(f) /\ f.proc \in {"bs", "my"} => LoadOK(f)'
    BY <1>1 DEF LoadOK, Absent
  <1>3. f.proc = "pool" => (f.pc \in {"first", "second"} =>
          f.at = First(EntryName(f.name))' /\ f.at # 0)
    BY DEF FrameOK, Grown
  <1> QED BY <1>2, <1>3 DEF FrameOK, Absent

-----------------------------------------------------------------------------
(* What a step does to the stack of its thread.                            *)
LEMMA MoveShape ==
  ASSUME NEW S, NEW s \in Seq(S), s # <<>>, NEW f \in S
  PROVE  LET r == [s EXCEPT ![Len(s)] = f] IN
         /\ r \in Seq(S) /\ Len(r) = Len(s) /\ Len(s) \in Nat \ {0}
         /\ \A i \in 1 .. Len(s) - 1 : r[i] = s[i]
         /\ r[Len(s)] = f
  OBVIOUS

LEMMA PushShape ==
  ASSUME NEW S, NEW s \in Seq(S), s # <<>>, NEW f \in S, NEW g \in S
  PROVE  LET r == Append([s EXCEPT ![Len(s)] = f], g) IN
         /\ r \in Seq(S) /\ Len(r) = Len(s) + 1 /\ Len(s) \in Nat \ {0}
         /\ \A i \in 1 .. Len(s) - 1 : r[i] = s[i]
         /\ r[Len(s)] = f /\ r[Len(s) + 1] = g
  <1> DEFINE q == [s EXCEPT ![Len(s)] = f]
  <1>1. /\ q \in Seq(S) /\ Len(q) = Len(s) /\ Len(s) \in Nat \ {0}
        /\ \A i \in 1 .. Len(s) - 1 : q[i] = s[i]
        /\ q[Len(s)] = f
    BY MoveShape
  <1> HIDE DEF q
  <1>2. /\ Append(q, g) \in Seq(S) /\ Len(Append(q, g)) = Len(q) + 1
        /\ \A i \in 1 .. Len(q) : Append(q, g)[i] = q[i]
        /\ Append(q, g)[Len(q) + 1] = g
    BY <1>1
  <1>3. /\ Len(s) \in 1 .. Len(q)
        /\ \A i \in 1 .. Len(s) - 1 : i \in 1 .. Len(q)
    BY <1>1
  <1>4. /\ Append(q, g) \in Seq(S) /\ Len(Append(q, g)) = Len(s) + 1
        /\ \A i \in 1 .. Len(s) - 1 : Append(q, g)[i] = s[i]
        /\ Append(q, g)[Len(s)] = f /\ Append(q, g)[Len(s) + 1] = g
    BY <1>1, <1>2, <1>3
  <1> QED BY <1>1, <1>4 DEF q

LEMMA PopShape ==
  ASSUME NEW S, NEW s \in Seq(S), s # <<>>
  PROVE  /\ Front(s) \in Seq(S) /\ Len(Front(s)) = Len(s) - 1 /\ Len(s) \in Nat \ {0}
         /\ \A i \in 1 .. Len(s) - 1 : Front(s)[i] = s[i]
         /\ Front(s) = <<>> <=> Len(s) = 1
  <1>1. Len(s) \in Nat \ {0} /\ Len(s) - 1 \in Nat
    OBVIOUS
  <1>2. /\ Front(s) \in Seq(S) /\ Len(Front(s)) = Len(s) - 1
        /\ \A i \in 1 .. Len(s) - 1 : Front(s)[i] = s[i]
    <2>1. \A i \in 1 .. Len(s) - 1 : s[i] \in S /\ 1 + i - 1 = i
      BY <1>1
    <2> DEFINE n == Len(s) - 1
    <2>2. n \in Nat
      BY <1>1
    <2> HIDE DEF n
    <2>3. /\ SubSeq(s, 1, n) \in Seq(S)
          /\ Len(SubSeq(s, 1, n)) = IF 1 =< n THEN n - 1 + 1 ELSE 0
          /\ \A i \in 1 .. n - 1 + 1 : SubSeq(s, 1, n)[i] = s[1 + i - 1]
      BY ONLY <2>1, <2>2, SubSeqProperties DEF n
    <2>4. n - 1 + 1 = n /\ (IF 1 =< n THEN n - 1 + 1 ELSE 0) = n
      BY <2>2
    <2> QED BY <2>1, <2>3, <2>4 DEF n, Front
  <1>3. Front(s) = <<>> <=> Len(Front(s)) = 0
    BY <1>2
  <1> QED BY <1>1, <1>2, <1>3

(* The top frame, moved.                                                   *)
Moved(t, pc, at) == [Top(t) EXCEPT !.pc = pc, !.at = at]

LEMMA TopIs ==
  ASSUME TypesOK, NEW t \in Threads, stack[t] # <<>>
  PROVE  /\ stack[t] \in Seq(Frames) /\ Len(stack[t]) \in DOMAIN stack[t]
         /\ DOMAIN stack[t] = 1 .. Len(stack[t]) /\ Len(stack[t]) \in Nat \ {0}
         /\ Top(t) \in Frames
  <1>1. stack[t] \in Seq(Frames)
    BY DEF TypesOK
  <1> HIDE DEF TypesOK
  <1>2. Len(stack[t]) \in DOMAIN stack[t] /\ Len(stack[t]) \in Nat \ {0}
        /\ DOMAIN stack[t] = 1 .. Len(stack[t])
    BY <1>1
  <1> QED BY <1>1, <1>2 DEF Top

LEMMA MovedIs ==
  ASSUME TypesOK, NEW t \in Threads, stack[t] # <<>>, NEW pc \in Pcs, NEW at \in Nat
  PROVE  /\ Moved(t, pc, at) \in Frames
         /\ Moved(t, pc, at).proc = Top(t).proc /\ Moved(t, pc, at).name = Top(t).name
         /\ Moved(t, pc, at).pc = pc /\ Moved(t, pc, at).at = at
         /\ At(t, pc, at) = [stack[t] EXCEPT ![Len(stack[t])] = Moved(t, pc, at)]
  <1>1. Top(t) \in Frames
    BY TopIs
  <1>2. At(t, pc, at) = [stack[t] EXCEPT ![Len(stack[t])] = Moved(t, pc, at)]
    BY DEF At, Moved, Top
  <1> HIDE DEF TypesOK
  <1> QED BY <1>1, <1>2 DEF Moved, Frames

(* The bootstrap loader calls nothing but itself.                          *)
BootAbove(s) ==
  \A i, j \in 1 .. Len(s) : i < j /\ s[i].proc = "bs" => s[j].proc = "bs"

(* A stack is as good as its frames and the links between them.            *)
LEMMA StackBecomes ==
  ASSUME NEW t, NEW r \in Seq(Frames), NEW v, stack'[t] = r, ret'[t] = v,
         \A i \in 1 .. Len(r) : FrameOK(r[i])',
         \A i \in 1 .. Len(r) - 1 :
           Waits(r[i]) /\ Callee(r[i]) = <<r[i + 1].proc, r[i + 1].name>>,
         BootAbove(r),
         r # <<>> /\ Waits(r[Len(r)]) =>
           Given(Callee(r[Len(r)])[1], Callee(r[Len(r)])[2], v)'
  PROVE  StackOK(t)'
  <1>1. DOMAIN r = 1 .. Len(r)
    OBVIOUS
  <1>2. r # <<>> => Top(t)' = r[Len(r)]
    BY DEF Top
  <1> QED BY <1>1, <1>2 DEF StackOK, BootAbove

(* What the stack of a thread is, frame by frame.                          *)
LEMMA StackIs ==
  ASSUME TypesOK, NEW t \in Threads, StackOK(t), NEW s, s = stack[t]
  PROVE  /\ s \in Seq(Frames)
         /\ \A i \in 1 .. Len(s) : FrameOK(s[i])
         /\ \A i \in 1 .. Len(s) - 1 :
              Waits(s[i]) /\ Callee(s[i]) = <<s[i + 1].proc, s[i + 1].name>>
         /\ s # <<>> => Top(t) = s[Len(s)]
         /\ BootAbove(s)
  <1>1. s \in Seq(Frames)
    BY DEF TypesOK
  <1>2. DOMAIN s = 1 .. Len(s)
    BY <1>1
  <1> QED BY <1>1, <1>2 DEF StackOK, Top, BootAbove

(* A call that goes on to wait for another.                                *)
LEMMA PushKeeps ==
  ASSUME TypesOK, NEW t \in Threads, StackOK(t), stack[t] # <<>>,
         NEW pc \in Pcs, NEW at \in Nat, NEW g \in Frames, Call(t, pc, at, g),
         FrameOK(Moved(t, pc, at)), Waits(Moved(t, pc, at)),
         Callee(Moved(t, pc, at)) = <<g.proc, g.name>>, FrameOK(g), ~Waits(g)
  PROVE  StackOK(t)'
  <1>0. PICK s, f, v : s = stack[t] /\ f = Moved(t, pc, at) /\ v = ret[t]
    OBVIOUS
  <1> DEFINE r == Append([s EXCEPT ![Len(s)] = f], g)
  <1>1. stack'[t] = r /\ ret'[t] = v /\ UNCHANGED maps
    BY <1>0, MovedIs DEF Call, TypesOK
  <1>2. s \in Seq(Frames) /\ f \in Frames /\ s # <<>>
    BY <1>0, MovedIs, TopIs
  <1>3. /\ r \in Seq(Frames) /\ Len(r) = Len(s) + 1 /\ Len(s) \in Nat \ {0}
        /\ \A i \in 1 .. Len(s) - 1 : r[i] = s[i]
        /\ r[Len(s)] = f /\ r[Len(s) + 1] = g
    BY <1>2, PushShape
  <1>4. /\ \A i \in 1 .. Len(s) : FrameOK(s[i])
        /\ \A i \in 1 .. Len(s) - 1 :
             Waits(s[i]) /\ Callee(s[i]) = <<s[i + 1].proc, s[i + 1].name>>
        /\ Top(t) = s[Len(s)] /\ BootAbove(s)
    BY <1>0, <1>2, StackIs
  <1>5. f.proc = s[Len(s)].proc /\ f.name = s[Len(s)].name
    BY <1>0, <1>4, MovedIs
  <1>6. FrameOK(f) /\ Waits(f) /\ Callee(f) = <<g.proc, g.name>>
    BY <1>0
  <1> HIDE DEF r
  <1>7. \A i \in 1 .. Len(r) : FrameOK(r[i])
    BY <1>3, <1>4, <1>6
  <1>8. ASSUME NEW i \in 1 .. Len(r) - 1
        PROVE  Waits(r[i]) /\ Callee(r[i]) = <<r[i + 1].proc, r[i + 1].name>>
    <2>1. CASE i = Len(s)
      BY <1>3, <1>6, <2>1
    <2>2. CASE i \in 1 .. Len(s) - 1
      <3>1. Waits(s[i]) /\ Callee(s[i]) = <<s[i + 1].proc, s[i + 1].name>> /\ r[i] = s[i]
        BY <1>3, <1>4, <2>2
      <3>2. r[i + 1].proc = s[i + 1].proc /\ r[i + 1].name = s[i + 1].name
        BY <1>3, <1>5, <2>2
      <3> QED BY <3>1, <3>2
    <2> QED BY <1>3, <2>1, <2>2
  <1>9. \A i \in 1 .. Len(r) : FrameOK(r[i])'
    BY <1>1, <1>7, SameMaps
  <1>10. ~Waits(r[Len(r)])
    BY <1>3
  <1>11. BootAbove(r)
    <2>1. \A i \in 1 .. Len(s) : r[i].proc = s[i].proc
      BY <1>3, <1>4, <1>5
    <2>2. ASSUME NEW i \in 1 .. Len(s), s[i].proc = "bs" PROVE g.proc = "bs"
      <3>1. f.proc = "bs"
        BY <1>3, <1>4, <1>5, <2>2 DEF BootAbove
      <3>2. Callee(f)[1] = "bs"
        <4>1. LoadOK(f)
          BY <1>6, <3>1 DEF FrameOK
        <4> QED BY <1>6, <3>1, <4>1 DEF Waits, Callee, LoadOK, Pending
      <3> QED BY <1>6, <3>2
    <2> SUFFICES ASSUME NEW i \in 1 .. Len(r), NEW j \in 1 .. Len(r), i < j,
                        r[i].proc = "bs"
                 PROVE  r[j].proc = "bs"
      BY DEF BootAbove
    <2>3. i \in 1 .. Len(s) /\ s[i].proc = "bs"
      BY <1>3, <2>1
    <2>4. CASE j \in 1 .. Len(s)
      BY <1>4, <2>1, <2>3, <2>4 DEF BootAbove
    <2>5. CASE j = Len(s) + 1
      BY <1>3, <2>2, <2>3, <2>5
    <2> QED BY <1>3, <2>4, <2>5
  <1> QED BY <1>1, <1>3, <1>8, <1>9, <1>10, <1>11, StackBecomes

(* A call that goes on by itself, or with what it was answered.            *)
LEMMA TopKeeps ==
  ASSUME TypesOK, NEW t \in Threads, StackOK(t), stack[t] # <<>>,
         NEW pc \in Pcs, NEW at \in Nat,
         stack' = [stack EXCEPT ![t] = At(t, pc, at)], UNCHANGED <<maps, ret>>,
         FrameOK(Moved(t, pc, at)), ~Waits(Moved(t, pc, at))
  PROVE  StackOK(t)'
  <1>0. PICK s, f, v : s = stack[t] /\ f = Moved(t, pc, at) /\ v = ret[t]
    OBVIOUS
  <1> DEFINE r == [s EXCEPT ![Len(s)] = f]
  <1>1. stack'[t] = r /\ ret'[t] = v /\ UNCHANGED maps
    BY <1>0, MovedIs DEF TypesOK
  <1>2. s \in Seq(Frames) /\ f \in Frames /\ s # <<>>
    BY <1>0, MovedIs, TopIs
  <1>3. /\ r \in Seq(Frames) /\ Len(r) = Len(s) /\ Len(s) \in Nat \ {0}
        /\ \A i \in 1 .. Len(s) - 1 : r[i] = s[i]
        /\ r[Len(s)] = f
    BY <1>2, MoveShape
  <1>4. /\ \A i \in 1 .. Len(s) : FrameOK(s[i])
        /\ \A i \in 1 .. Len(s) - 1 :
             Waits(s[i]) /\ Callee(s[i]) = <<s[i + 1].proc, s[i + 1].name>>
        /\ Top(t) = s[Len(s)] /\ BootAbove(s)
    BY <1>0, <1>2, StackIs
  <1>5. f.proc = s[Len(s)].proc /\ f.name = s[Len(s)].name
    BY <1>0, <1>4, MovedIs
  <1>6. FrameOK(f) /\ ~Waits(f)
    BY <1>0
  <1> HIDE DEF r
  <1>7. \A i \in 1 .. Len(r) : FrameOK(r[i])
    BY <1>3, <1>4, <1>6
  <1>8. ASSUME NEW i \in 1 .. Len(r) - 1
        PROVE  Waits(r[i]) /\ Callee(r[i]) = <<r[i + 1].proc, r[i + 1].name>>
    <2>1. Waits(s[i]) /\ Callee(s[i]) = <<s[i + 1].proc, s[i + 1].name>> /\ r[i] = s[i]
      BY <1>3, <1>4
    <2>2. r[i + 1].proc = s[i + 1].proc /\ r[i + 1].name = s[i + 1].name
      BY <1>3, <1>5
    <2> QED BY <2>1, <2>2
  <1>9. \A i \in 1 .. Len(r) : FrameOK(r[i])'
    BY <1>1, <1>7, SameMaps
  <1>10. ~Waits(r[Len(r)])
    BY <1>3, <1>6
  <1>11. BootAbove(r)
    <2>1. \A i \in 1 .. Len(s) : r[i].proc = s[i].proc
      BY <1>3, <1>4, <1>5
    <2> QED BY <1>3, <1>4, <2>1 DEF BootAbove
  <1> QED BY <1>1, <1>3, <1>8, <1>9, <1>10, <1>11, StackBecomes

(* A call that returns what its caller has waited for.                     *)
LEMMA PopKeeps ==
  ASSUME TypesOK, NEW t \in Threads, StackOK(t), stack[t] # <<>>, NEW v \in Nat,
         stack' = [stack EXCEPT ![t] = Front(@)], ret' = [ret EXCEPT ![t] = v],
         \A i \in 1 .. Len(stack[t]) - 1 : \A f : f = stack[t][i] => FrameOK(f)',
         Len(stack[t]) > 1 =>
           \A proc, n : proc = Top(t).proc /\ n = Top(t).name => Given(proc, n, v)'
  PROVE  StackOK(t)'
  <1>0. PICK s : s = stack[t]
    OBVIOUS
  <1> DEFINE r == Front(s)
  <1>1. stack'[t] = r /\ ret'[t] = v
    BY <1>0 DEF TypesOK
  <1>2. s \in Seq(Frames) /\ s # <<>>
    BY <1>0, TopIs
  <1>3. /\ r \in Seq(Frames) /\ Len(r) = Len(s) - 1 /\ Len(s) \in Nat \ {0}
        /\ \A i \in 1 .. Len(s) - 1 : r[i] = s[i]
        /\ r = <<>> <=> Len(s) = 1
    BY <1>2, PopShape
  <1>4. /\ \A i \in 1 .. Len(s) - 1 :
             Waits(s[i]) /\ Callee(s[i]) = <<s[i + 1].proc, s[i + 1].name>>
        /\ Top(t) = s[Len(s)] /\ BootAbove(s)
    BY <1>0, <1>2, StackIs
  <1> HIDE DEF r
  <1>5. \A i \in 1 .. Len(r) : FrameOK(r[i])'
    BY <1>0, <1>3
  <1>6. ASSUME NEW i \in 1 .. Len(r) - 1
        PROVE  Waits(r[i]) /\ Callee(r[i]) = <<r[i + 1].proc, r[i + 1].name>>
    <2>1. i \in 1 .. Len(s) - 1 /\ i + 1 \in 1 .. Len(s) - 1
      BY <1>3
    <2>2. r[i] = s[i] /\ r[i + 1] = s[i + 1]
      BY <1>3, <2>1
    <2> QED BY <1>4, <2>1, <2>2
  <1>7. ASSUME r # <<>> PROVE Given(Callee(r[Len(r)])[1], Callee(r[Len(r)])[2], v)'
    <2>1. Len(s) > 1 /\ Len(s) - 1 \in 1 .. Len(s) - 1 /\ Len(r) = Len(s) - 1
          /\ Len(s) - 1 + 1 = Len(s)
      BY <1>3, <1>7
    <2>2. Callee(s[Len(s) - 1]) = <<s[Len(s)].proc, s[Len(s)].name>>
          /\ r[Len(r)] = s[Len(s) - 1]
      BY <1>3, <1>4, <2>1
    <2>3. PICK proc, n : proc = s[Len(s)].proc /\ n = s[Len(s)].name
      OBVIOUS
    <2>4. Given(proc, n, v)'
      BY <1>0, <1>4, <2>1, <2>3
    <2>5. Callee(r[Len(r)])[1] = proc /\ Callee(r[Len(r)])[2] = n
      BY <2>2, <2>3
    <2> QED BY <2>4, <2>5
  <1>8. BootAbove(r)
    <2> SUFFICES ASSUME NEW i \in 1 .. Len(r), NEW j \in 1 .. Len(r), i < j,
                        r[i].proc = "bs"
                 PROVE  r[j].proc = "bs"
      BY DEF BootAbove
    <2>1. i \in 1 .. Len(s) /\ j \in 1 .. Len(s) /\ r[i] = s[i] /\ r[j] = s[j]
      BY <1>3
    <2> QED BY <1>4, <2>1 DEF BootAbove
  <1> QED BY <1>1, <1>3, <1>5, <1>6, <1>7, <1>8, StackBecomes

(* A request begins with one call.                                         *)
LEMMA StartKeeps ==
  ASSUME TypesOK, NEW t \in Threads, NEW f \in Frames,
         stack' = [stack EXCEPT ![t] = <<f>>], UNCHANGED maps, FrameOK(f), ~Waits(f)
  PROVE  StackOK(t)'
  <1>0. PICK v : v = ret'[t]
    OBVIOUS
  <1> DEFINE r == <<f>>
  <1>1. stack'[t] = r
    BY DEF TypesOK
  <1>2. r \in Seq(Frames) /\ Len(r) = 1 /\ r[1] = f
    OBVIOUS
  <1> HIDE DEF r
  <1>3. \A i \in 1 .. Len(r) : FrameOK(r[i])'
    BY <1>2, SameMaps
  <1>4. \A i \in 1 .. Len(r) - 1 : FALSE
    BY <1>2
  <1>5. ~Waits(r[Len(r)])
    BY <1>2
  <1>6. BootAbove(r)
    BY <1>2 DEF BootAbove
  <1> QED BY <1>0, <1>1, <1>2, <1>3, <1>4, <1>5, <1>6, StackBecomes

-----------------------------------------------------------------------------
(* The threads that do not move.                                           *)
LEMMA OtherStack ==
  ASSUME TypesOK, NEW u \in Threads, StackOK(u),
         stack'[u] = stack[u], ret'[u] = ret[u],
         \A i \in DOMAIN stack[u] : \A f : f = stack[u][i] => FrameOK(f)',
         \A proc, n, id : Given(proc, n, id) => Given(proc, n, id)'
  PROVE  StackOK(u)'
  <1>0. PICK s, v : s = stack[u] /\ v = ret[u]
    OBVIOUS
  <1>1. /\ s \in Seq(Frames)
        /\ \A i \in 1 .. Len(s) - 1 :
             Waits(s[i]) /\ Callee(s[i]) = <<s[i + 1].proc, s[i + 1].name>>
        /\ s # <<>> => Top(u) = s[Len(s)]
        /\ BootAbove(s)
    BY <1>0, StackIs
  <1>2. \A i \in 1 .. Len(s) : FrameOK(s[i])'
    BY <1>0, <1>1
  <1>3. ASSUME s # <<>>, Waits(s[Len(s)])
        PROVE  Given(Callee(s[Len(s)])[1], Callee(s[Len(s)])[2], v)'
    <2>1. PICK proc, n : proc = Callee(s[Len(s)])[1] /\ n = Callee(s[Len(s)])[2]
      OBVIOUS
    <2>2. Given(proc, n, v)
      BY <1>0, <1>1, <1>3, <2>1 DEF StackOK
    <2>3. Given(proc, n, v)'
      BY <2>2
    <2> QED BY <2>1, <2>3
  <1> QED BY <1>0, <1>1, <1>2, <1>3, StackBecomes

LEMMA OtherRequest ==
  ASSUME NEW u \in Threads, RequestOK(u), stack'[u] = stack[u], ret'[u] = ret[u],
         request'[u] = request[u],
         \A proc, n, id : Given(proc, n, id) => Given(proc, n, id)'
  PROVE  RequestOK(u)'
  <1>1. PICK r, v : r = request[u] /\ v = ret[u]
    OBVIOUS
  <1>2. \A n : Given("my", n, v) => Given("my", n, v)'
    OBVIOUS
  <1>3. Given("my", [r.thing EXCEPT !.form = "anonymous"], v) =>
          Given("my", [r.thing EXCEPT !.form = "anonymous"], v)'
    BY <1>2
  <1>4. Given("my", r.thing, v) => Given("my", r.thing, v)'
    BY <1>2
  <1> HIDE <1>2
  <1> QED BY <1>1, <1>3, <1>4 DEF RequestOK

(* A thread goes on with the call it has made.                             *)
LEMMA RequestGoesOn ==
  ASSUME NEW t \in Threads, RequestOK(t), stack[t] # <<>>, stack'[t] # <<>>,
         request'[t] = request[t],
         stack'[t][1].proc = stack[t][1].proc, stack'[t][1].name = stack[t][1].name
  PROVE  RequestOK(t)'
  BY DEF RequestOK

(* The first call returns, and the request has its answer.                 *)
LEMMA RequestDone ==
  ASSUME TypesOK, NEW t \in Threads, RequestOK(t), Len(stack[t]) = 1, stack'[t] = <<>>,
         request'[t] = request[t], NEW v \in Nat, ret'[t] = v,
         Top(t).proc \in {"my", "bs", "findboot", "find", "intern"} =>
           \A n : n = Top(t).name => Given("my", n, v)',
         Top(t).proc \in {"bs", "findboot"} /\ v = 0 => OfUser(Top(t).name),
         Top(t).proc = "find" => v # 0,
         Top(t).proc = "pool" =>
           \A n : n = EntryName(Top(t).name) => Given("my", n, v)'
  PROVE  RequestOK(t)'
  <1>1. PICK r, f : r = request[t] /\ f = stack[t][1]
    OBVIOUS
  <1>2. f = Top(t) /\ stack[t] # <<>>
    BY <1>1 DEF Top
  <1>3. r # None /\ r \in Requests
    BY <1>1, <1>2 DEF RequestOK, TypesOK
  <1>4. /\ r.how \in {"my", "anonymous"} => r.must
        /\ r.thing.form = "string" => r.how = "my"
        /\ r.how = "anonymous" => r.thing.dim = 0 /\ r.thing.base \in AnonClasses
        /\ f.proc \in Procs[r.how]
        /\ IF f.proc = "pool" THEN EntryName(f.name) = r.thing
           ELSE IF r.how = "anonymous" THEN f.name = [r.thing EXCEPT !.form = "anonymous"]
           ELSE f.name = r.thing \/ f.name.form = "bare"
    BY <1>1, <1>2, <1>3 DEF RequestOK
  <1>5. r.how \in {"boot", "my", "find", "anonymous"}
    BY <1>3 DEF Requests, Procs
  <1>6. CASE r.how = "anonymous"
    <2>1. f.proc = "my"
      BY <1>4, <1>6 DEF Procs
    <2>2. \A n : n = [r.thing EXCEPT !.form = "anonymous"] => Given("my", n, v)'
      BY <1>2, <1>4, <1>6, <2>1
    <2>3. Given("my", [r.thing EXCEPT !.form = "anonymous"], v)'
      BY <2>2
    <2> QED BY <1>1, <1>3, <1>4, <1>6, <2>3 DEF RequestOK
  <1>7. CASE r.how # "anonymous"
    <2>1. Given("my", r.thing, v)'
      <3>1. CASE f.proc = "pool"
        BY <1>2, <1>4, <3>1
      <3>2. CASE f.proc # "pool"
        <4>1. f.proc \in {"my", "bs", "findboot", "find", "intern"}
          BY <1>4, <1>5, <1>7, <3>2 DEF Procs
        <4>2. \A n : n = f.name => Given("my", n, v)'
          BY <1>2, <4>1
        <4>3. f.name.form # "bare"
          BY <4>2 DEF Given
        <4>4. f.name = r.thing
          BY <1>4, <1>7, <3>2, <4>3
        <4> QED BY <4>2, <4>4
      <3> QED BY <3>1, <3>2
    <2>2. v = 0 => r.how # "find"
      BY <1>2, <1>4 DEF Procs
    <2>3. v = 0 /\ r.how = "boot" => OfUser(r.thing)
      <3> SUFFICES ASSUME v = 0, r.how = "boot" PROVE OfUser(r.thing)
        OBVIOUS
      <3>1. f.proc \in {"bs", "findboot"}
        BY <1>4 DEF Procs
      <3>2. \A n : n = f.name => Given("my", n, v)'
        BY <1>2, <3>1
      <3>3. f.name.form # "bare"
        BY <3>2 DEF Given
      <3> QED BY <1>2, <1>4, <3>1, <3>3
    <2>4. OfUser(r.thing)' <=> OfUser(r.thing)
      BY DEF OfUser
    <2> QED BY <1>1, <1>3, <1>4, <1>7, <2>1, <2>2, <2>3, <2>4 DEF RequestOK
  <1> QED BY <1>6, <1>7

-----------------------------------------------------------------------------
(* The locks.                                                              *)
Hold(s, l) ==
  {i \in DOMAIN s :
     s[i].proc \in DOMAIN LockOf /\ LockOf[s[i].proc] = l /\ s[i].pc # "lock"}

LEMMA HoldIs ==
  ASSUME NEW t, NEW l
  PROVE  Holding(t, l) = Hold(stack[t], l) /\ Holding(t, l)' = Hold(stack'[t], l)
  BY DEF Holding, Hold

LEMMA HoldFinite ==
  ASSUME NEW s \in Seq(Frames), NEW l
  PROVE  IsFiniteSet(Hold(s, l)) /\ Cardinality(Hold(s, l)) \in Nat
  <1>1. IsFiniteSet(1 .. Len(s))
    BY FS_Interval
  <1>2. Hold(s, l) \in SUBSET (1 .. Len(s))
    BY DEF Hold
  <1> QED BY <1>1, <1>2, FS_Subset, FS_CardinalityType

LocksTyped == locks \in [{"sys", "my"} -> [owner : Threads \union {NoThread}, depth : Nat]]

LockOK(l) ==
  /\ locks[l].owner = NoThread => locks[l].depth = 0
  /\ \A t \in Threads :
       IF locks[l].owner = t THEN locks[l].depth = Cardinality(Holding(t, l))
       ELSE Holding(t, l) = {}

LEMMA LocksAre == LocksOK <=> LocksTyped /\ LockOK("sys") /\ LockOK("my")
  BY DEF LocksOK, LocksTyped, LockOK

(* Nothing is taken or released.                                           *)
LEMMA LocksSame ==
  ASSUME LocksOK, locks' = locks, NEW t \in Threads,
         \A l \in {"sys", "my"} : Hold(stack'[t], l) = Hold(stack[t], l),
         \A u \in Threads \ {t} : stack'[u] = stack[u]
  PROVE  LocksOK'
  <1>1. ASSUME NEW l \in {"sys", "my"}, NEW u \in Threads
        PROVE  Holding(u, l)' = Holding(u, l)
    BY HoldIs
  <1> QED BY <1>1 DEF LocksOK

(* The owner of a lock is the only thread inside.                          *)
LEMMA OneOwner ==
  ASSUME LocksOK, NEW l \in {"sys", "my"}, NEW t \in Threads, NEW u \in Threads,
         Hold(stack[t], l) # {}, Hold(stack[u], l) # {}
  PROVE  t = u
  <1>1. Holding(t, l) # {} /\ Holding(u, l) # {}
    BY HoldIs
  <1>2. locks[l].owner = t /\ locks[l].owner = u
    BY <1>1 DEF LocksOK
  <1> QED BY <1>2

(* A free lock is taken.                                                   *)
LEMMA LocksTaken ==
  ASSUME TypesOK, LocksOK, NEW t \in Threads, NEW k \in {"sys", "my"}, Free(t, k),
         locks' = Locked(t, k), stack'[t] \in Seq(Frames), NEW i,
         i \notin Hold(stack[t], k), Hold(stack'[t], k) = Hold(stack[t], k) \union {i},
         \A l \in {"sys", "my"} \ {k} : Hold(stack'[t], l) = Hold(stack[t], l),
         \A u \in Threads \ {t} : stack'[u] = stack[u]
  PROVE  LocksOK'
  <1>0. LocksTyped /\ t # NoThread
    BY LocksAre, LoadersAssumption
  <1>1. /\ locks' \in [{"sys", "my"} -> [owner : Threads \union {NoThread}, depth : Nat]]
        /\ locks'[k].owner = t /\ locks'[k].depth = locks[k].depth + 1
        /\ locks[k].depth \in Nat
        /\ \A l \in {"sys", "my"} \ {k} : locks'[l] = locks[l]
    BY <1>0 DEF Locked, LocksTyped
  <1>2. ASSUME NEW l \in {"sys", "my"} \ {k} PROVE LockOK(l)'
    <2>1. \A u \in Threads : Holding(u, l)' = Holding(u, l)
      BY <1>2, HoldIs
    <2> QED BY <1>1, <1>2, <2>1 DEF LocksOK, LockOK
  <1>3. LockOK(k)'
    <2>1. locks[k].depth = Cardinality(Hold(stack[t], k))
      <3>1. CASE locks[k].owner = t
        BY <3>1, HoldIs DEF LocksOK
      <3>2. CASE locks[k].owner = NoThread
        <4>1. locks[k].depth = 0 /\ Holding(t, k) = {}
          BY <1>0, <3>2 DEF LocksOK
        <4> QED BY <4>1, HoldIs, FS_EmptySet
      <3> QED BY <3>1, <3>2 DEF Free
    <2>2. Cardinality(Hold(stack'[t], k)) = locks[k].depth + 1
      <3>1. IsFiniteSet(Hold(stack[t], k))
        BY HoldFinite DEF TypesOK
      <3>2. Cardinality(Hold(stack[t], k) \union {i}) = Cardinality(Hold(stack[t], k)) + 1
        BY <3>1, FS_AddElement
      <3> QED BY <2>1, <3>2
    <2>3. ASSUME NEW u \in Threads \ {t} PROVE Holding(u, k)' = {}
      <3>1. locks[k].owner # u
        BY <2>3, <1>0, LoadersAssumption DEF Free
      <3>2. Holding(u, k) = {}
        BY <3>1 DEF LocksOK
      <3> QED BY <3>2, HoldIs
    <2>4. Cardinality(Holding(t, k))' = locks'[k].depth
      BY <1>1, <2>2, HoldIs
    <2> QED BY <1>0, <1>1, <2>3, <2>4 DEF LockOK
  <1>4. LocksTyped'
    BY <1>1 DEF LocksTyped
  <1>5. LockOK("sys")' /\ LockOK("my")'
    BY <1>2, <1>3
  <1>6. LocksOK' <=> LocksTyped' /\ LockOK("sys")' /\ LockOK("my")'
    BY LocksAre, PTL
  <1> QED BY <1>4, <1>5, <1>6

(* A lock is given back by a call that has taken it.                       *)
LEMMA LocksGivenBack ==
  ASSUME TypesOK, LocksOK, NEW t \in Threads, NEW k \in {"sys", "my"},
         locks' = Unlocked(k), NEW i,
         i \in Hold(stack[t], k), Hold(stack'[t], k) = Hold(stack[t], k) \ {i},
         \A l \in {"sys", "my"} \ {k} : Hold(stack'[t], l) = Hold(stack[t], l),
         \A u \in Threads \ {t} : stack'[u] = stack[u]
  PROVE  LocksOK'
  <1>0. LocksTyped /\ t # NoThread
    BY LocksAre, LoadersAssumption
  <1>1. IsFiniteSet(Hold(stack[t], k)) /\ Cardinality(Hold(stack[t], k)) \in Nat
    BY HoldFinite DEF TypesOK
  <1>2. locks[k].owner = t /\ locks[k].depth = Cardinality(Hold(stack[t], k))
    <2>1. Holding(t, k) # {}
      BY HoldIs
    <2> QED BY <2>1, HoldIs DEF LocksOK
  <1>3. locks[k].depth \in Nat \ {0} /\ IsFiniteSet(Hold(stack'[t], k))
        /\ Cardinality(Hold(stack'[t], k)) = locks[k].depth - 1
    <2>1. IsFiniteSet(Hold(stack[t], k) \ {i})
          /\ Cardinality(Hold(stack[t], k) \ {i}) = Cardinality(Hold(stack[t], k)) - 1
      BY <1>1, FS_RemoveElement
    <2>2. Cardinality(Hold(stack[t], k)) # 0
      BY <1>1, FS_EmptySet
    <2> QED BY <1>1, <1>2, <2>1, <2>2
  <1>4. /\ locks' \in [{"sys", "my"} -> [owner : Threads \union {NoThread}, depth : Nat]]
        /\ locks'[k].owner = (IF locks[k].depth = 1 THEN NoThread ELSE t)
        /\ locks'[k].depth = locks[k].depth - 1
        /\ \A l \in {"sys", "my"} \ {k} : locks'[l] = locks[l]
    <2>1. locks[k].depth - 1 \in Nat
      BY <1>3
    <2> QED BY <1>0, <1>2, <2>1 DEF Unlocked, LocksTyped
  <1>5. ASSUME NEW l \in {"sys", "my"} \ {k} PROVE LockOK(l)'
    <2>1. \A u \in Threads : Holding(u, l)' = Holding(u, l)
      BY <1>5, HoldIs
    <2> QED BY <1>4, <1>5, <2>1 DEF LocksOK, LockOK
  <1>6. LockOK(k)'
    <2>1. ASSUME NEW u \in Threads \ {t} PROVE Holding(u, k)' = {}
      <3>1. Holding(u, k) = {}
        BY <1>2 DEF LocksOK
      <3> QED BY <3>1, HoldIs
    <2>2. Cardinality(Holding(t, k))' = locks'[k].depth
      BY <1>3, <1>4, HoldIs
    <2>3. CASE locks[k].depth = 1
      <3>1. Hold(stack'[t], k) = {}
        BY <1>3, <2>3, FS_EmptySet
      <3>2. Holding(t, k)' = {}
        BY <3>1, HoldIs
      <3> QED BY <1>0, <1>3, <1>4, <2>1, <2>3, <3>2, LoadersAssumption DEF LockOK
    <2>4. CASE locks[k].depth # 1
      BY <1>0, <1>4, <2>1, <2>2, <2>4 DEF LockOK
    <2> QED BY <2>3, <2>4
  <1>7. LocksTyped'
    BY <1>4 DEF LocksTyped
  <1>8. LockOK("sys")' /\ LockOK("my")'
    BY <1>5, <1>6
  <1>9. LocksOK' <=> LocksTyped' /\ LockOK("sys")' /\ LockOK("my")'
    BY LocksAre, PTL
  <1> QED BY <1>7, <1>8, <1>9

LEMMA HoldMoved ==
  ASSUME NEW s \in Seq(Frames), s # <<>>, NEW f \in Frames, f.proc = s[Len(s)].proc,
         NEW l, (f.pc = "lock" <=> s[Len(s)].pc = "lock")
  PROVE  Hold([s EXCEPT ![Len(s)] = f], l) = Hold(s, l)
  <1> DEFINE r == [s EXCEPT ![Len(s)] = f]
  <1>1. DOMAIN r = DOMAIN s /\ Len(s) \in DOMAIN s /\ r[Len(s)] = f
        /\ \A i \in DOMAIN s \ {Len(s)} : r[i] = s[i]
    OBVIOUS
  <1> HIDE DEF r
  <1>2. Hold(r, l) = Hold(s, l)
    BY <1>1 DEF Hold
  <1> QED BY <1>2 DEF r

LEMMA HoldPushed ==
  ASSUME NEW s \in Seq(Frames), s # <<>>, NEW f \in Frames, f.proc = s[Len(s)].proc,
         NEW l, (f.pc = "lock" <=> s[Len(s)].pc = "lock"),
         NEW g \in Frames, g.pc = "lock" \/ g.proc \notin DOMAIN LockOf
  PROVE  Hold(Append([s EXCEPT ![Len(s)] = f], g), l) = Hold(s, l)
  <1> DEFINE r == Append([s EXCEPT ![Len(s)] = f], g)
  <1>1. /\ r \in Seq(Frames) /\ Len(r) = Len(s) + 1 /\ Len(s) \in Nat \ {0}
        /\ \A i \in 1 .. Len(s) - 1 : r[i] = s[i]
        /\ r[Len(s)] = f /\ r[Len(s) + 1] = g
    BY PushShape
  <1> HIDE DEF r
  <1>2. DOMAIN r = 1 .. Len(s) + 1 /\ DOMAIN s = 1 .. Len(s)
    BY <1>1
  <1>3. \A i \in DOMAIN s : i \in DOMAIN r /\ r[i].proc = s[i].proc
          /\ (r[i].pc = "lock" <=> s[i].pc = "lock")
    BY <1>1, <1>2
  <1>4. \A i \in DOMAIN r : i \in DOMAIN s \/ i = Len(s) + 1
    BY <1>1, <1>2
  <1>5. Hold(r, l) = Hold(s, l)
    BY <1>1, <1>3, <1>4 DEF Hold
  <1> QED BY <1>5 DEF r

LEMMA HoldTaken ==
  ASSUME NEW s \in Seq(Frames), s # <<>>, NEW f \in Frames, f.proc = s[Len(s)].proc,
         f.pc # "lock", s[Len(s)].pc = "lock", f.proc \in DOMAIN LockOf
  PROVE  LET r == [s EXCEPT ![Len(s)] = f]
             k == LockOf[f.proc]
         IN  /\ Hold(r, k) = Hold(s, k) \union {Len(s)} /\ Len(s) \notin Hold(s, k)
             /\ \A l \in {"sys", "my"} \ {k} : Hold(r, l) = Hold(s, l)
  <1> DEFINE r == [s EXCEPT ![Len(s)] = f]
             k == LockOf[f.proc]
  <1>1. DOMAIN r = DOMAIN s /\ Len(s) \in DOMAIN s /\ r[Len(s)] = f
        /\ \A i \in DOMAIN s \ {Len(s)} : r[i] = s[i]
    OBVIOUS
  <1> HIDE DEF r
  <1>2. Hold(r, k) = Hold(s, k) \union {Len(s)} /\ Len(s) \notin Hold(s, k)
    BY <1>1 DEF Hold
  <1>3. \A l \in {"sys", "my"} \ {k} : Hold(r, l) = Hold(s, l)
    BY <1>1 DEF Hold
  <1> QED BY <1>2, <1>3 DEF r

LEMMA HoldPopped ==
  ASSUME NEW s \in Seq(Frames), s # <<>>, s[Len(s)].pc # "lock"
  PROVE  /\ \A l : s[Len(s)].proc \in DOMAIN LockOf /\ LockOf[s[Len(s)].proc] = l =>
              Len(s) \in Hold(s, l) /\ Hold(Front(s), l) = Hold(s, l) \ {Len(s)}
         /\ \A l : s[Len(s)].proc \notin DOMAIN LockOf \/ LockOf[s[Len(s)].proc] # l =>
              Hold(Front(s), l) = Hold(s, l)
  <1> DEFINE r == Front(s)
  <1>1. /\ r \in Seq(Frames) /\ Len(r) = Len(s) - 1 /\ Len(s) \in Nat \ {0}
        /\ \A i \in 1 .. Len(s) - 1 : r[i] = s[i]
    BY PopShape
  <1> HIDE DEF r
  <1>2. DOMAIN r = DOMAIN s \ {Len(s)} /\ Len(s) \in DOMAIN s
        /\ \A i \in DOMAIN r : r[i] = s[i]
    <2>1. DOMAIN r = 1 .. Len(s) - 1 /\ DOMAIN s = 1 .. Len(s)
      BY <1>1
    <2>2. 1 .. Len(s) - 1 = (1 .. Len(s)) \ {Len(s)} /\ Len(s) \in 1 .. Len(s)
      BY <1>1
    <2> QED BY <1>1, <2>1, <2>2
  <1>3. \A l : s[Len(s)].proc \in DOMAIN LockOf /\ LockOf[s[Len(s)].proc] = l =>
              Len(s) \in Hold(s, l) /\ Hold(r, l) = Hold(s, l) \ {Len(s)}
    BY <1>2 DEF Hold
  <1>4. \A l : s[Len(s)].proc \notin DOMAIN LockOf \/ LockOf[s[Len(s)].proc] # l =>
              Hold(r, l) = Hold(s, l)
    BY <1>2 DEF Hold
  <1> QED BY <1>3, <1>4 DEF r

-----------------------------------------------------------------------------
(* The whole invariant, for the steps that leave the maps alone.           *)
IInv == TableInv /\ HasFirsts

LEMMA PoolSame ==
  ASSUME PoolOK, UNCHANGED <<maps, pool>>
  PROVE  PoolOK'
  BY SameMaps DEF PoolOK

LEMMA Composed ==
  ASSUME IInv, NEW t \in Threads, UNCHANGED maps, TypesOK', PoolOK', LocksOK',
         StackOK(t)', RequestOK(t)',
         \A u \in Threads \ {t} :
           stack'[u] = stack[u] /\ ret'[u] = ret[u] /\ request'[u] = request[u]
  PROVE  IInv'
  <1>1. Recorded'
    BY SameMaps DEF IInv, TableInv, Recorded
  <1>2. ASSUME NEW u \in Threads \ {t} PROVE StackOK(u)' /\ RequestOK(u)'
    <2>1. StackOK(u) /\ RequestOK(u) /\ TypesOK
      BY DEF IInv, TableInv
    <2>2. \A i \in DOMAIN stack[u] : \A f : f = stack[u][i] => FrameOK(f)'
      <3>1. \A i \in DOMAIN stack[u] : FrameOK(stack[u][i])
        BY <2>1 DEF StackOK
      <3> QED BY <3>1, SameMaps
    <2>3. \A proc, n, id : Given(proc, n, id) => Given(proc, n, id)'
      BY SameMaps
    <2>4. StackOK(u)'
      BY <2>1, <2>2, <2>3, OtherStack
    <2>5. RequestOK(u)'
      BY <2>1, <2>3, OtherRequest
    <2> QED BY <2>4, <2>5
  <1> QED BY <1>1, <1>2 DEF IInv, TableInv, Recorded

(* What the invariant says of the thread that moves.                       *)
LEMMA InvIs ==
  ASSUME IInv, NEW t \in Threads
  PROVE  /\ TypesOK /\ Recorded /\ MapsOK /\ PoolOK /\ LocksOK
         /\ StackOK(t) /\ RequestOK(t)
  BY DEF IInv, TableInv, Recorded

LEMMA TopInv ==
  ASSUME IInv, NEW t \in Threads, stack[t] # <<>>, NEW pc \in Pcs, NEW at \in Nat,
         stack' = [stack EXCEPT ![t] = At(t, pc, at)],
         UNCHANGED <<vm, maps, ret, asks>>,
         FrameOK(Moved(t, pc, at)), ~Waits(Moved(t, pc, at)), PoolOK',
         LocksOK'
  PROVE  IInv'
  <1>1. TypesOK /\ StackOK(t) /\ RequestOK(t)
    BY InvIs
  <1>2. /\ At(t, pc, at) \in Seq(Frames) /\ At(t, pc, at) # <<>>
        /\ At(t, pc, at)[1].proc = stack[t][1].proc
        /\ At(t, pc, at)[1].name = stack[t][1].name
    <2> DEFINE s == stack[t]
               f == Moved(t, pc, at)
               r == [s EXCEPT ![Len(s)] = f]
    <2>1. s \in Seq(Frames) /\ s # <<>> /\ f \in Frames /\ Top(t) = s[Len(s)]
          /\ f.proc = Top(t).proc /\ f.name = Top(t).name
      BY <1>1, TopIs, MovedIs DEF Top
    <2> HIDE DEF s, f
    <2>2. /\ r \in Seq(Frames) /\ Len(r) = Len(s) /\ Len(s) \in Nat \ {0}
          /\ \A i \in 1 .. Len(s) - 1 : r[i] = s[i]
          /\ r[Len(s)] = f
      BY <2>1, MoveShape
    <2> HIDE DEF r
    <2>3. r[1].proc = s[1].proc /\ r[1].name = s[1].name /\ r # <<>>
      BY <2>1, <2>2
    <2>4. At(t, pc, at) = r
      BY <1>1, MovedIs DEF s, f, r
    <2> QED BY <2>2, <2>3, <2>4 DEF s
  <1>3. stack'[t] = At(t, pc, at)
    BY <1>1 DEF TypesOK
  <1>4. TypesOK'
    BY <1>1, <1>2 DEF TypesOK, asks
  <1>5. StackOK(t)'
    BY <1>1, TopKeeps
  <1>6. RequestOK(t)'
    BY <1>1, <1>2, <1>3, RequestGoesOn DEF asks
  <1>7. \A u \in Threads \ {t} :
           stack'[u] = stack[u] /\ ret'[u] = ret[u] /\ request'[u] = request[u]
    BY <1>1 DEF TypesOK, asks
  <1> QED BY <1>4, <1>5, <1>6, <1>7, Composed

LEMMA GotoInv ==
  ASSUME IInv, NEW t \in Threads, stack[t] # <<>>, NEW pc \in Pcs \ {"lock"},
         NEW at \in Nat, Goto(t, pc, at), Top(t).pc # "lock",
         FrameOK(Moved(t, pc, at)), ~Waits(Moved(t, pc, at))
  PROVE  IInv'
  <1>1. /\ stack' = [stack EXCEPT ![t] = At(t, pc, at)]
        /\ UNCHANGED <<vm, maps, ret, asks, pool, locks>>
    BY DEF Goto
  <1>2. PoolOK'
    BY <1>1, PoolSame, InvIs
  <1>3. LocksOK'
    <2>1. TypesOK /\ LocksOK
      BY InvIs
    <2>2. stack[t] \in Seq(Frames) /\ Moved(t, pc, at) \in Frames
          /\ Moved(t, pc, at).proc = stack[t][Len(stack[t])].proc
          /\ Moved(t, pc, at).pc = pc
          /\ At(t, pc, at) = [stack[t] EXCEPT ![Len(stack[t])] = Moved(t, pc, at)]
      BY <2>1, TopIs, MovedIs DEF Top
    <2>3. \A l \in {"sys", "my"} : Hold(stack'[t], l) = Hold(stack[t], l)
      <3>1. stack'[t] = At(t, pc, at)
        BY <1>1, <2>1 DEF TypesOK
      <3> QED BY <2>2, <3>1, HoldMoved DEF Top
    <2>4. \A u \in Threads \ {t} : stack'[u] = stack[u]
      BY <1>1, <2>1 DEF TypesOK
    <2> QED BY <1>1, <2>1, <2>3, <2>4, LocksSame
  <1> QED BY <1>1, <1>2, <1>3, TopInv

LEMMA LockInv ==
  ASSUME IInv, NEW t \in Threads, Lock(t) PROVE IInv'
  <1>1. TypesOK /\ LocksOK /\ StackOK(t)
    BY InvIs
  <1>2. stack[t] # <<>> /\ Top(t).proc \in DOMAIN LockOf /\ Top(t).pc = "lock"
    BY DEF Lock, In
  <1>3. stack[t] \in Seq(Frames) /\ Moved(t, "begin", 0) \in Frames
        /\ Moved(t, "begin", 0).proc = Top(t).proc /\ Moved(t, "begin", 0).name = Top(t).name
        /\ Moved(t, "begin", 0).pc = "begin" /\ Top(t) = stack[t][Len(stack[t])]
        /\ At(t, "begin", 0) = [stack[t] EXCEPT ![Len(stack[t])] = Moved(t, "begin", 0)]
    BY <1>1, <1>2, TopIs, MovedIs DEF Top, Pcs
  <1>4. FrameOK(Top(t))
    BY <1>1, <1>2, <1>3, TopIs DEF StackOK
  <1>5. FrameOK(Moved(t, "begin", 0)) /\ ~Waits(Moved(t, "begin", 0))
    BY <1>2, <1>3, <1>4 DEF FrameOK, LoadOK, Pending, Waits, LockOf
  <1>6. PoolOK'
    BY PoolSame, InvIs DEF Lock
  <1>7. LocksOK'
    <2> DEFINE k == LockOf[Top(t).proc]
    <2>1. stack'[t] = At(t, "begin", 0) /\ \A u \in Threads \ {t} : stack'[u] = stack[u]
      BY <1>1 DEF Lock, TypesOK
    <2>2. /\ Hold(stack'[t], k) = Hold(stack[t], k) \union {Len(stack[t])}
          /\ Len(stack[t]) \notin Hold(stack[t], k)
          /\ \A l \in {"sys", "my"} \ {k} : Hold(stack'[t], l) = Hold(stack[t], l)
      BY <1>2, <1>3, <2>1, HoldTaken
    <2>3. k \in {"sys", "my"}
      BY <1>2 DEF LockOf
    <2>4. stack'[t] \in Seq(Frames)
      BY <1>2, <1>3, <2>1, MoveShape
    <2>5. Free(t, k) /\ locks' = Locked(t, k)
      BY DEF Lock
    <2> HIDE DEF k
    <2> QED BY <1>1, <2>1, <2>2, <2>3, <2>4, <2>5, LocksTaken
  <1> QED BY <1>2, <1>5, <1>6, <1>7, TopInv DEF Lock, Pcs

LEMMA CallInv ==
  ASSUME IInv, NEW t \in Threads, stack[t] # <<>>, NEW pc \in Pcs \ {"lock"},
         NEW at \in Nat, NEW g \in Frames, Call(t, pc, at, g), Top(t).pc # "lock",
         FrameOK(Moved(t, pc, at)), Waits(Moved(t, pc, at)),
         Callee(Moved(t, pc, at)) = <<g.proc, g.name>>, FrameOK(g), ~Waits(g),
         g.pc = "lock" \/ g.proc \notin DOMAIN LockOf
  PROVE  IInv'
  <1>1. TypesOK /\ LocksOK /\ StackOK(t) /\ RequestOK(t)
    BY InvIs
  <1>2. /\ stack' = [stack EXCEPT ![t] = Append(At(t, pc, at), g)]
        /\ UNCHANGED <<vm, maps, ret, asks, pool, locks>>
    BY DEF Call
  <1>3. stack[t] \in Seq(Frames) /\ Moved(t, pc, at) \in Frames
        /\ Moved(t, pc, at).proc = Top(t).proc /\ Moved(t, pc, at).name = Top(t).name
        /\ Moved(t, pc, at).pc = pc /\ Top(t) = stack[t][Len(stack[t])]
        /\ At(t, pc, at) = [stack[t] EXCEPT ![Len(stack[t])] = Moved(t, pc, at)]
    BY <1>1, TopIs, MovedIs DEF Top
  <1>4. /\ stack'[t] = Append([stack[t] EXCEPT ![Len(stack[t])] = Moved(t, pc, at)], g)
        /\ \A u \in Threads \ {t} :
             stack'[u] = stack[u] /\ ret'[u] = ret[u] /\ request'[u] = request[u]
    BY <1>1, <1>2, <1>3 DEF TypesOK, asks
  <1>5. stack'[t] \in Seq(Frames) /\ stack'[t] # <<>>
        /\ stack'[t][1].proc = stack[t][1].proc /\ stack'[t][1].name = stack[t][1].name
    <2> DEFINE s == stack[t]
               f == Moved(t, pc, at)
               r == Append([s EXCEPT ![Len(s)] = f], g)
    <2>1. s \in Seq(Frames) /\ s # <<>> /\ f \in Frames
          /\ f.proc = s[Len(s)].proc /\ f.name = s[Len(s)].name
      BY <1>3
    <2> HIDE DEF s, f
    <2>2. /\ r \in Seq(Frames) /\ Len(r) = Len(s) + 1 /\ Len(s) \in Nat \ {0}
          /\ \A i \in 1 .. Len(s) - 1 : r[i] = s[i]
          /\ r[Len(s)] = f
      BY <2>1, PushShape
    <2> HIDE DEF r
    <2>3. r[1].proc = s[1].proc /\ r[1].name = s[1].name /\ r # <<>>
      BY <2>1, <2>2
    <2>4. stack'[t] = r
      BY <1>4 DEF s, f, r
    <2> QED BY <2>2, <2>3, <2>4 DEF s
  <1>6. PoolOK'
    BY <1>2, PoolSame, InvIs
  <1>7. LocksOK'
    <2>0. Moved(t, pc, at).pc = "lock" <=> Top(t).pc = "lock"
      BY <1>3
    <2>1. \A l \in {"sys", "my"} : Hold(stack'[t], l) = Hold(stack[t], l)
      <3> DEFINE s == stack[t]
                 f == Moved(t, pc, at)
      <3>1. /\ s \in Seq(Frames) /\ s # <<>> /\ f \in Frames /\ f.proc = s[Len(s)].proc
            /\ (f.pc = "lock" <=> s[Len(s)].pc = "lock")
        BY <1>3, <2>0
      <3> HIDE DEF s, f
      <3>2. \A l : Hold(Append([s EXCEPT ![Len(s)] = f], g), l) = Hold(s, l)
        BY <3>1, HoldPushed
      <3> QED BY <1>4, <3>2 DEF s, f
    <2> QED BY <1>1, <1>2, <1>4, <2>1, LocksSame
  <1>8. TypesOK'
    BY <1>1, <1>2, <1>5 DEF TypesOK, asks
  <1>9. StackOK(t)'
    BY <1>1, PushKeeps
  <1>10. RequestOK(t)'
    BY <1>1, <1>2, <1>5, RequestGoesOn DEF asks
  <1> QED BY <1>2, <1>4, <1>6, <1>7, <1>8, <1>9, <1>10, Composed

(* What a call may return.                                                 *)
Result(t, v) ==
  LET f == Top(t) IN
  /\ f.proc \in {"my", "bs", "findboot", "find", "intern"} => Given("my", f.name, v)
  /\ f.proc = "bs" => Given("bs", f.name, v)
  /\ f.proc \in {"bs", "findboot"} /\ v = 0 => OfUser(f.name)
  /\ f.proc = "find" => v # 0
  /\ f.proc = "pool" => Given("my", EntryName(f.name), v)

LEMMA CalleeIs ==
  ASSUME NEW f \in Frames, FrameOK(f), Waits(f)
  PROVE  Callee(f)[1] \in {"bs", "my", "intern"}
  <1>1. f.pc \in {"supers", "element", "lower"} => f.proc \in {"bs", "my"}
    BY DEF FrameOK, Frames
  <1> QED BY <1>1 DEF Waits, Callee

(* A call has returned: the thread's stack, its locks and its request.     *)
LEMMA LeaveKeeps ==
  ASSUME TypesOK, LocksOK, NEW t \in Threads, StackOK(t), RequestOK(t), stack[t] # <<>>,
         Top(t).pc # "lock", NEW v \in Nat, Leave(t, v),
         \A i \in 1 .. Len(stack[t]) - 1 : \A f : f = stack[t][i] => FrameOK(f)',
         \A f : f = Top(t) =>
           /\ f.proc \in {"my", "bs", "findboot", "find", "intern"} => Given("my", f.name, v)'
           /\ f.proc = "bs" => Given("bs", f.name, v)'
           /\ f.proc \in {"bs", "findboot"} /\ v = 0 => OfUser(f.name)
           /\ f.proc = "find" => v # 0
           /\ f.proc = "pool" => Given("my", EntryName(f.name), v)'
  PROVE  TypesOK' /\ LocksOK' /\ StackOK(t)' /\ RequestOK(t)'
  <1>1. PICK s : s = stack[t]
    OBVIOUS
  <1>2. s \in Seq(Frames) /\ s # <<>> /\ Top(t) = s[Len(s)] /\ Len(s) \in Nat \ {0}
    BY <1>1, TopIs DEF Top
  <1>3. /\ stack' = [stack EXCEPT ![t] = Front(@)] /\ ret' = [ret EXCEPT ![t] = v]
        /\ UNCHANGED <<vm, asks>>
        /\ locks' = IF Top(t).proc \in DOMAIN LockOf
                    THEN Unlocked(LockOf[Top(t).proc]) ELSE locks
    BY DEF Leave
  <1>4. /\ stack'[t] = Front(s) /\ ret'[t] = v
        /\ \A u \in Threads \ {t} : stack'[u] = stack[u]
        /\ request' = request
    BY <1>1, <1>3 DEF TypesOK, asks
  <1>5. /\ Front(s) \in Seq(Frames) /\ Len(Front(s)) = Len(s) - 1
        /\ \A i \in 1 .. Len(s) - 1 : Front(s)[i] = s[i]
        /\ Front(s) = <<>> <=> Len(s) = 1
    BY <1>2, PopShape
  <1>6. TypesOK'
    BY <1>3, <1>5, <1>1 DEF TypesOK, asks
  <1>7. LocksOK'
    <2>1. CASE Top(t).proc \in DOMAIN LockOf
      <3>1. PICK k : k = LockOf[Top(t).proc]
        OBVIOUS
      <3>2. k \in {"sys", "my"}
        BY <2>1, <3>1 DEF LockOf
      <3>3. /\ Len(s) \in Hold(s, k) /\ Hold(Front(s), k) = Hold(s, k) \ {Len(s)}
            /\ \A l \in {"sys", "my"} \ {k} : Hold(Front(s), l) = Hold(s, l)
        BY <1>2, <2>1, <3>1, HoldPopped
      <3>4. locks' = Unlocked(k)
        BY <1>3, <2>1, <3>1
      <3> QED BY <1>1, <1>4, <3>2, <3>3, <3>4, LocksGivenBack
    <2>2. CASE Top(t).proc \notin DOMAIN LockOf
      <3>1. \A l \in {"sys", "my"} : Hold(Front(s), l) = Hold(s, l)
        BY <1>2, <2>2, HoldPopped
      <3> QED BY <1>1, <1>3, <1>4, <2>2, <3>1, LocksSame
    <2> QED BY <2>1, <2>2
  <1>8. StackOK(t)'
    <2>1. ASSUME Len(stack[t]) > 1, NEW proc, NEW n, proc = Top(t).proc, n = Top(t).name
          PROVE  Given(proc, n, v)'
      <3>1. Len(s) - 1 \in 1 .. Len(s) - 1 /\ Len(s) - 1 \in 1 .. Len(s)
            /\ Len(s) - 1 + 1 = Len(s)
        BY <1>1, <1>2, <2>1
      <3>2. FrameOK(s[Len(s) - 1]) /\ Waits(s[Len(s) - 1])
            /\ Callee(s[Len(s) - 1])[1] = s[Len(s)].proc
        BY <1>1, <3>1, StackIs
      <3>3. proc \in {"bs", "my", "intern"}
        <4>1. s[Len(s) - 1] \in Frames /\ FrameOK(s[Len(s) - 1])
          BY <1>2, <3>1, <3>2
        <4> QED BY <1>2, <2>1, <3>2, <4>1, CalleeIs
      <3>4. PICK f : f = Top(t)
        OBVIOUS
      <3>5. f.proc = proc /\ f.name = n
        BY <2>1, <3>4
      <3>6. CASE proc = "bs"
        BY <3>4, <3>5, <3>6
      <3>7. CASE proc # "bs"
        <4>1. Given("my", n, v)'
          BY <3>3, <3>4, <3>5
        <4> QED BY <3>7, <4>1 DEF Given
      <3> QED BY <3>6, <3>7
    <2> QED BY <1>3, <2>1, PopKeeps
  <1>9. RequestOK(t)'
    <2>1. CASE Len(s) = 1
      BY <1>1, <1>4, <1>5, <2>1, RequestDone
    <2>2. CASE Len(s) # 1
      <3>1. stack'[t] # <<>> /\ stack'[t][1] = stack[t][1]
        BY <1>1, <1>2, <1>4, <1>5, <2>2
      <3> QED BY <1>4, <3>1, RequestGoesOn
    <2> QED BY <2>1, <2>2
  <1> QED BY <1>6, <1>7, <1>8, <1>9

LEMMA ReturnInv ==
  ASSUME IInv, NEW t \in Threads, stack[t] # <<>>, Top(t).pc # "lock", NEW v \in Nat,
         Return(t, v), Result(t, v)
  PROVE  IInv'
  <1>1. TypesOK /\ LocksOK /\ StackOK(t) /\ RequestOK(t)
    BY InvIs
  <1>2. Leave(t, v) /\ UNCHANGED maps
    BY DEF Return
  <1>3. \A i \in 1 .. Len(stack[t]) - 1 : \A f : f = stack[t][i] => FrameOK(f)'
    <2>1. \A i \in 1 .. Len(stack[t]) - 1 : i \in 1 .. Len(stack[t])
      BY <1>1, TopIs
    <2>2. \A i \in 1 .. Len(stack[t]) - 1 : FrameOK(stack[t][i])
      BY <1>1, <2>1, StackIs
    <2> QED BY <1>2, <2>2, SameMaps
  <1>4. ASSUME NEW f, f = Top(t)
        PROVE  /\ f.proc \in {"my", "bs", "findboot", "find", "intern"} => Given("my", f.name, v)'
               /\ f.proc = "bs" => Given("bs", f.name, v)'
               /\ f.proc \in {"bs", "findboot"} /\ v = 0 => OfUser(f.name)
               /\ f.proc = "find" => v # 0
               /\ f.proc = "pool" => Given("my", EntryName(f.name), v)'
    BY <1>2, <1>4, SameMaps DEF Result
  <1>5. TypesOK' /\ LocksOK' /\ StackOK(t)' /\ RequestOK(t)'
    BY <1>1, <1>2, <1>3, <1>4, LeaveKeeps
  <1>6. PoolOK'
    BY <1>2, PoolSame, InvIs DEF Leave
  <1>7. \A u \in Threads \ {t} :
           stack'[u] = stack[u] /\ ret'[u] = ret[u] /\ request'[u] = request[u]
    BY <1>1, <1>2 DEF Leave, TypesOK, asks
  <1> QED BY <1>2, <1>5, <1>6, <1>7, Composed

LEMMA ExitInv ==
  ASSUME IInv, Exit PROVE IInv'
  <1>1. UNCHANGED <<maps, pool, locks, stack, ret, request>> /\ vm' = "exited"
    BY DEF Exit, calls, asks
  <1>2. Recorded' /\ PoolOK'
    BY <1>1, SameMaps, PoolSame DEF IInv, TableInv, Recorded
  <1>3. TypesOK' /\ LocksOK'
    <2>1. TypesOK /\ LocksOK
      BY DEF IInv, TableInv
    <2>2. TypesOK'
      BY <1>1, <2>1 DEF TypesOK
    <2>3. \A u, l : Holding(u, l)' = Holding(u, l)
      BY <1>1 DEF Holding
    <2>4. LocksOK'
      BY <1>1, <2>1, <2>3 DEF LocksOK
    <2> QED BY <2>2, <2>4
  <1>4. ASSUME NEW u \in Threads PROVE StackOK(u)' /\ RequestOK(u)'
    <2>1. StackOK(u) /\ RequestOK(u) /\ TypesOK
      BY DEF IInv, TableInv
    <2>2. \A i \in DOMAIN stack[u] : \A f : f = stack[u][i] => FrameOK(f)'
      <3>1. \A i \in DOMAIN stack[u] : FrameOK(stack[u][i])
        BY <2>1 DEF StackOK
      <3> QED BY <1>1, <3>1, SameMaps
    <2>3. \A proc, n, id : Given(proc, n, id) => Given(proc, n, id)'
      BY <1>1, SameMaps
    <2> QED BY <1>1, <2>1, <2>2, <2>3, OtherStack, OtherRequest
  <1> QED BY <1>2, <1>3, <1>4 DEF IInv, TableInv, Recorded

-----------------------------------------------------------------------------
(* The names the loaders are asked for, and their calls.                   *)
LEMMA NamesAre ==
  /\ "Object" \in SystemClasses /\ "String" \in SystemClasses
  /\ SystemClasses \subseteq Classes
  /\ \A c \in Classes : Name(0, c) \in Names
  /\ \A c : Name(0, c).form = "/" /\ Name(0, c).dim = 0 /\ Name(0, c).base = c
  /\ \A s \in Strings : String(s) \in Names
  /\ \A s : String(s).form = "string" /\ String(s).dim = 0 /\ String(s).base = s
  <1>1. "Object" \in SystemClasses /\ "String" \in SystemClasses
    BY LoadersAssumption
  <1> QED BY <1>1 DEF Classes, Names, Name, String, Named, Bases, Forms

LEMMA AskedAre ==
  ASSUME NEW n \in Asked
  PROVE  /\ n \in Names /\ n.form = "/" /\ n = Name(n.dim, n.base)
         /\ n.dim = 0 => n.base \in Classes
  <1>1. n = Name(n.dim, n.base) /\ n.dim \in Nat /\ (n.dim = 0 => n.base \in Classes)
    BY LoadersAssumption
  <1>2. n.base \in Bases
    BY DEF Bases
  <1>3. Name(n.dim, n.base) \in Names /\ Name(n.dim, n.base).form = "/"
    BY <1>1, <1>2 DEF Names, Name, Named, Forms
  <1> QED BY <1>1, <1>3

LEMMA EntriesAre ==
  ASSUME NEW e \in Entries
  PROVE  /\ e.kind \in {"class", "ref", "string"}
         /\ e.kind = "string" => e.of \in Strings /\ EntryName(e) = String(e.of)
         /\ e.kind # "string" => e.of \in Classes /\ EntryName(e) = Name(0, e.of)
  BY LoadersAssumption DEF EntryName

(* What a loader may be asked for.                                         *)
Loadable(proc, n) ==
  /\ n \in Names /\ n.form \in {"/", "cut", "bare", "anonymous"}
  /\ n.dim = 0 => n.base \in Classes
  /\ n.form = "cut" => OfUser(n)
  /\ n.form = "bare" => n.dim > 0
  /\ n.form = "anonymous" => proc = "my" /\ n.dim = 0 /\ n.base \in AnonClasses

LEMMA LoadFrame ==
  ASSUME NEW proc \in {"bs", "my"}, NEW n, Loadable(proc, n)
  PROVE  /\ Frame(proc, n) \in Frames /\ FrameOK(Frame(proc, n)) /\ ~Waits(Frame(proc, n))
         /\ Frame(proc, n).proc = proc /\ Frame(proc, n).name = n
         /\ Frame(proc, n).pc = "lock"
  <1>1. n \in Names
    BY DEF Loadable
  <1>2. /\ Frame(proc, n) \in Frames /\ Frame(proc, n).proc = proc
        /\ Frame(proc, n).name = n /\ Frame(proc, n).pc = "lock"
    BY <1>1 DEF Frame, Frames, Pcs
  <1>3. LoadOK(Frame(proc, n))
    BY <1>2 DEF LoadOK, Loadable, Pending
  <1> QED BY <1>2, <1>3 DEF FrameOK, Waits

LEMMA ClassFrame ==
  ASSUME NEW proc \in {"bs", "my"}, NEW c \in Classes
  PROVE  Loadable(proc, Name(0, c))
  BY NamesAre DEF Loadable

(* The call that moves.                                                    *)
LEMMA TopOK ==
  ASSUME IInv, NEW t \in Threads, stack[t] # <<>>
  PROVE  /\ FrameOK(Top(t)) /\ Top(t) \in Frames
         /\ Waits(Top(t)) => Given(Callee(Top(t))[1], Callee(Top(t))[2], ret[t])
         /\ ret[t] \in Nat
  <1>1. TypesOK /\ StackOK(t)
    BY InvIs
  <1>2. Len(stack[t]) \in DOMAIN stack[t] /\ Top(t) \in Frames
    BY <1>1, TopIs
  <1> QED BY <1>1, <1>2 DEF StackOK, TypesOK, Top

LEMMA MoveIs ==
  ASSUME IInv, NEW t \in Threads, stack[t] # <<>>, NEW pc \in Pcs, NEW at \in Nat
  PROVE  /\ Moved(t, pc, at) \in Frames
         /\ Moved(t, pc, at).proc = Top(t).proc /\ Moved(t, pc, at).name = Top(t).name
         /\ Moved(t, pc, at).pc = pc /\ Moved(t, pc, at).at = at
  BY InvIs, MovedIs

LEMMA LoadCallInv ==
  ASSUME IInv, NEW t \in Threads, stack[t] # <<>>, Top(t).pc # "lock",
         NEW pc \in Pcs \ {"lock"}, NEW at \in Nat,
         NEW proc \in {"bs", "my"}, NEW n, Loadable(proc, n),
         Call(t, pc, at, Frame(proc, n)),
         FrameOK(Moved(t, pc, at)), Waits(Moved(t, pc, at)),
         Callee(Moved(t, pc, at)) = <<proc, n>>
  PROVE  IInv'
  <1>1. PICK g : g = Frame(proc, n)
    OBVIOUS
  <1>2. g \in Frames /\ FrameOK(g) /\ ~Waits(g) /\ g.proc = proc /\ g.name = n /\ g.pc = "lock"
    BY <1>1, LoadFrame
  <1>3. Call(t, pc, at, g) /\ Callee(Moved(t, pc, at)) = <<g.proc, g.name>>
    BY <1>1, <1>2
  <1> QED BY <1>2, <1>3, CallInv

(* The last class an array needs is Object, whoever loads the array.       *)
LEMMA LoadObjectInv ==
  ASSUME IInv, NEW t \in Threads, stack[t] # <<>>, Top(t).pc # "lock", NEW lower \in Nat,
         LoadObject(t, lower), FrameOK(Moved(t, "object", lower))
  PROVE  IInv'
  <1>1. "object" \in Pcs \ {"lock"}
    BY DEF Pcs
  <1>2. Moved(t, "object", lower).pc = "object"
    BY <1>1, MoveIs
  <1>3. Waits(Moved(t, "object", lower))
        /\ Callee(Moved(t, "object", lower)) = <<"bs", Name(0, "Object")>>
    BY <1>2 DEF Waits, Callee
  <1>4. Loadable("bs", Name(0, "Object"))
    BY NamesAre, ClassFrame
  <1>5. Call(t, "object", lower, Frame("bs", Name(0, "Object")))
    BY DEF LoadObject
  <1> QED BY <1>1, <1>3, <1>4, <1>5, LoadCallInv

(* An array whose element class is there, or has none, loads the array of  *)
(* one dimension less.                                                     *)
LEMMA LoadLowerInv ==
  ASSUME IInv, NEW t \in Threads, stack[t] # <<>>, Top(t).pc # "lock",
         Top(t).proc \in {"bs", "my"}, NEW n, n = Top(t).name, n.form = "/", n.dim > 0,
         Top(t).proc = "bs" => n \notin DOMAIN system_classmap /\ ~OfUser(n),
         Top(t).proc = "my" => n \notin DOMAIN classmap /\ OfUser(n),
         IsBasic(n) \/ First(ElementOf(n)) # 0,
         LoadLower(t)
  PROVE  IInv'
  <1>1. LoadOK(Top(t)) /\ n \in Names
    BY TopOK DEF FrameOK, LoadOK
  <1>2. n.dim \in Nat
    BY <1>1 DEF Names
  <1>3. CASE n.dim = 1
    <2>1. LoadObject(t, 0)
      BY <1>3 DEF LoadLower
    <2>2. /\ Moved(t, "object", 0).proc = Top(t).proc /\ Moved(t, "object", 0).name = n
          /\ Moved(t, "object", 0).pc = "object" /\ Moved(t, "object", 0).at = 0
      BY MoveIs DEF Pcs
    <2>3. LoadOK(Moved(t, "object", 0))
      BY <1>1, <1>3, <2>2 DEF LoadOK, Pending
    <2>4. FrameOK(Moved(t, "object", 0))
      BY <2>2, <2>3 DEF FrameOK
    <2> QED BY <2>1, <2>4, LoadObjectInv
  <1>4. CASE n.dim # 1
    <2> DEFINE f == Moved(t, "lower", 0)
               proc == Top(t).proc
               l == LowerOf(proc, n)
    <2>1. f.proc = proc /\ f.name = n /\ f.pc = "lower" /\ f.at = 0
      BY MoveIs DEF Pcs
    <2>2. n.dim > 1
      BY <1>2, <1>4
    <2>3. Call(t, "lower", 0, Frame(proc, l))
      BY <1>4 DEF LoadLower
    <2>4. Waits(f) /\ Callee(f) = <<proc, l>>
      <3> HIDE DEF f
      <3> QED BY <2>1 DEF Waits, Callee
    <2>5. Loadable(proc, l)
      <3>1. l.dim = n.dim - 1 /\ l.base = n.base /\ l.form \in {"/", "cut"}
            /\ (l.form = "cut" => proc = "my")
        BY DEF LowerOf, Named
      <3>2. l.dim \in Nat /\ l.dim > 0
        BY <1>2, <2>2, <3>1
      <3>3. l \in Names
        BY <1>1, <3>1, <3>2 DEF Names, LowerOf, Named, Forms
      <3>4. l.form = "cut" => OfUser(l)
        BY <3>1 DEF OfUser
      <3> HIDE DEF l
      <3> QED BY <3>1, <3>2, <3>3, <3>4 DEF Loadable
    <2>6. FrameOK(f)
      <3>1. LoadOK(f)
        <4> HIDE DEF f
        <4> QED BY <1>1, <2>1, <2>2 DEF LoadOK, Pending
      <3> QED BY <2>1, <3>1 DEF FrameOK
    <2>7. "lower" \in Pcs \ {"lock"} /\ proc \in {"bs", "my"}
      BY DEF Pcs
    <2> QED BY <2>3, <2>4, <2>5, <2>6, <2>7, LoadCallInv
  <1> QED BY <1>3, <1>4

LEMMA LoadArrayInv ==
  ASSUME IInv, NEW t \in Threads, stack[t] # <<>>, Top(t).pc \in {"begin", "asked"},
         Top(t).proc \in {"bs", "my"}, NEW n, n = Top(t).name, n.dim > 0,
         n.form # "anonymous",
         Top(t).proc = "bs" => n \notin DOMAIN system_classmap,
         Top(t).proc = "my" => n \notin DOMAIN classmap /\ OfUser(n),
         LoadArray(t)
  PROVE  IInv'
  <1>1. LoadOK(Top(t)) /\ n \in Names
    BY TopOK DEF FrameOK, LoadOK
  <1>2. CASE n.form = "bare" /\ Exit
    BY <1>2, ExitInv
  <1>3. CASE n.form # "bare" /\ IsBasic(n) /\ LoadLower(t)
    <2>1. ~OfUser(n)
      BY <1>3 DEF IsBasic, OfUser
    <2>2. n.form = "/"
      BY <1>1, <1>3, <2>1 DEF LoadOK
    <2> QED BY <1>3, <2>1, <2>2, LoadLowerInv
  <1>4. CASE /\ n.form # "bare" /\ ~IsBasic(n)
             /\ Call(t, "element", 0, Frame(Top(t).proc, ElementOf(n)))
    <2> DEFINE f == Moved(t, "element", 0)
               proc == Top(t).proc
               e == ElementOf(n)
    <2>1. f.proc = proc /\ f.name = n /\ f.pc = "element" /\ f.at = 0
      BY MoveIs DEF Pcs
    <2>2. e \in Names /\ e.dim = 0 /\ e.base = n.base /\ e.form = n.form
      BY <1>1 DEF ElementOf, Names
    <2>3. OfUser(e) <=> OfUser(n)
      BY <2>2 DEF OfUser
    <2>4. Loadable(proc, e)
      <3> HIDE DEF e
      <3> QED BY <1>1, <1>4, <2>2, <2>3 DEF Loadable, LoadOK, IsBasic
    <2>5. Waits(f) /\ Callee(f) = <<proc, e>>
      <3> HIDE DEF f
      <3> QED BY <2>1 DEF Waits, Callee
    <2>6. FrameOK(f)
      <3>1. LoadOK(f)
        <4> HIDE DEF f
        <4> QED BY <1>1, <1>4, <2>1 DEF LoadOK, Pending
      <3> QED BY <2>1, <3>1 DEF FrameOK
    <2>7. "element" \in Pcs \ {"lock"} /\ proc \in {"bs", "my"}
      BY DEF Pcs
    <2>8. Top(t).pc # "lock" /\ Call(t, "element", 0, Frame(proc, e))
      BY <1>4
    <2> HIDE DEF f, e, proc
    <2> QED BY <2>4, <2>5, <2>6, <2>7, <2>8, LoadCallInv DEF f
  <1> QED BY <1>2, <1>3, <1>4 DEF LoadArray

-----------------------------------------------------------------------------
(* One lemma for each operation that leaves the maps alone.                *)
LEMMA SupersInv ==
  ASSUME IInv, NEW t \in Threads, stack[t] # <<>>, Top(t).pc \in {"begin", "asked"},
         Top(t).proc \in {"bs", "my"}, NEW n, n = Top(t).name, n.dim = 0,
         n.form \in {"/", "anonymous"},
         Top(t).proc = "bs" => n \notin DOMAIN system_classmap /\ ~OfUser(n),
         Top(t).proc = "my" => OfUser(n) /\
           (n.form = "/" => n \notin DOMAIN classmap /\ n.base \notin AnonClasses),
         Goto(t, "supers", 1)
  PROVE  IInv'
  <1>1. LoadOK(Top(t))
    BY TopOK DEF FrameOK
  <1>2. PICK f : f = Moved(t, "supers", 1)
    OBVIOUS
  <1>3. f.proc = Top(t).proc /\ f.name = n /\ f.pc = "supers" /\ f.at = 1
    BY <1>2, MoveIs DEF Pcs
  <1>4. 1 \in 1 .. Len(Supers[n.base]) + 1
    <2>1. n.base \in Classes
      BY <1>1 DEF LoadOK
    <2> DEFINE S == IF n.base \in SystemClasses THEN SystemClasses
                    ELSE SystemClasses \union UserFiles
    <2>2. Supers[n.base] \in Seq(S)
      BY <2>1, LoadersAssumption
    <2> HIDE DEF S
    <2>3. Len(Supers[n.base]) \in Nat
      BY <2>2
    <2> QED BY <2>3
  <1>5. LoadOK(f)
    <2>1. \A k \in 1 .. f.at - 2 : FALSE
      BY <1>3
    <2> QED BY <1>1, <1>3, <1>4, <2>1 DEF LoadOK, Pending
  <1>6. FrameOK(f) /\ ~Waits(f)
    BY <1>3, <1>5 DEF FrameOK, Waits
  <1> QED BY <1>2, <1>6, GotoInv DEF Pcs

LEMMA BootLoadInv ==
  ASSUME IInv, NEW t \in Threads, BootLoad(t) PROVE IInv'
  <1>1. stack[t] # <<>> /\ Top(t).proc = "bs" /\ Top(t).pc = "begin"
    BY DEF BootLoad, In
  <1>2. PICK n : n = Top(t).name
    OBVIOUS
  <1>3. LoadOK(Top(t)) /\ n \in Names /\ n.form \in {"/", "cut", "bare"}
    BY <1>1, <1>2, TopOK DEF FrameOK, LoadOK
  <1>4. Recorded
    BY InvIs
  <1>5. CASE n \in DOMAIN system_classmap /\ Return(t, system_classmap[n])
    <2>1. /\ system_classmap[n] = First(n) /\ First(n) \in DOMAIN made
          /\ ~OfUser(n) /\ n.form = "/" /\ First(n) \in Nat \ {0}
      BY <1>4, <1>5, InSystem, RecordIs DEF Recorded
    <2>2. Result(t, First(n))
      BY <1>1, <1>2, <2>1 DEF Result, Given
    <2> QED BY <1>1, <1>5, <2>1, <2>2, ReturnInv
  <1>6. CASE n \notin DOMAIN system_classmap /\ InJar(n) /\ Goto(t, "supers", 1)
    <2>1. ~OfUser(n) /\ n.dim = 0 /\ n.form = "/"
      BY <1>6 DEF InJar, OfUser
    <2> QED BY <1>1, <1>2, <1>6, <2>1, SupersInv
  <1>7. CASE n \notin DOMAIN system_classmap /\ IsArray(n) /\ LoadArray(t)
    BY <1>1, <1>2, <1>3, <1>7, LoadArrayInv DEF IsArray
  <1>8. CASE ~InJar(n) /\ ~IsArray(n) /\ Return(t, 0)
    <2>1. n.dim = 0
      BY <1>3, <1>8 DEF IsArray, Names
    <2>2. OfUser(n) /\ n.form \in {"/", "cut"}
      BY <1>1, <1>2, <1>3, <1>8, <2>1 DEF LoadOK, InJar, OfUser
    <2>3. Result(t, 0)
      BY <1>1, <1>2, <2>2 DEF Result, Given
    <2> QED BY <1>1, <1>8, <2>3, ReturnInv
  <1> QED BY <1>2, <1>5, <1>6, <1>7, <1>8 DEF BootLoad

LEMMA MyLoadInv ==
  ASSUME IInv, NEW t \in Threads, MyLoad(t) PROVE IInv'
  <1>1. stack[t] # <<>> /\ Top(t).proc = "my" /\ Top(t).pc = "begin"
    BY DEF MyLoad, In
  <1>2. PICK n : n = Top(t).name
    OBVIOUS
  <1>3. LoadOK(Top(t)) /\ n \in Names /\ n.form \in {"/", "cut", "bare", "anonymous"}
    BY <1>1, <1>2, TopOK DEF FrameOK, LoadOK
  <1>4. CASE n.form = "anonymous"
    <2>1. OfUser(n) /\ n.dim = 0
      BY <1>1, <1>2, <1>3, <1>4, LoadersAssumption DEF LoadOK, OfUser, Classes
    <2>2. Goto(t, "supers", 1)
      BY <1>2, <1>4 DEF MyLoad
    <2> QED BY <1>1, <1>2, <1>4, <2>1, <2>2, SupersInv
  <1>5. CASE n.form # "anonymous"
    <2>1. Call(t, "asked", 0, Frame("bs", n))
      BY <1>2, <1>5 DEF MyLoad
    <2>2. PICK f : f = Moved(t, "asked", 0)
      OBVIOUS
    <2>3. f.proc = "my" /\ f.name = n /\ f.pc = "asked" /\ f.at = 0
      BY <1>1, <1>2, <2>2, MoveIs DEF Pcs
    <2>4. LoadOK(f) /\ Loadable("bs", n)
      BY <1>1, <1>2, <1>3, <1>5, <2>3 DEF LoadOK, Pending, Loadable
    <2>5. FrameOK(f) /\ Waits(f) /\ Callee(f) = <<"bs", n>>
      BY <2>3, <2>4 DEF FrameOK, Waits, Callee
    <2> QED BY <1>1, <2>1, <2>2, <2>4, <2>5, LoadCallInv DEF Pcs
  <1> QED BY <1>4, <1>5

LEMMA LoadFileInv ==
  ASSUME IInv, NEW t \in Threads, stack[t] # <<>>, Top(t).proc = "my", Top(t).pc = "asked",
         NEW n, n = Top(t).name, n \in Names, n.dim = 0, n.form \in {"/", "cut"}, OfUser(n),
         n \notin DOMAIN classmap, LoadFile(t)
  PROVE  IInv'
  <1>1. CASE n.form = "/" /\ n.base \in UserFiles /\ Goto(t, "supers", 1)
    <2>1. n.base \notin AnonClasses
      BY <1>1, LoadersAssumption
    <2> QED BY <1>1, <2>1, SupersInv
  <1>2. CASE Hidden(n) # {} /\ \E k \in Hidden(n) :
               (\A j \in Hidden(n) : k =< j) /\ Return(t, anonymous_klassmap[k])
    <2>1. PICK k \in Hidden(n) :
            (\A j \in Hidden(n) : k =< j) /\ Return(t, anonymous_klassmap[k])
      BY <1>2
    <2>2. n.form = "/" /\ Recorded
      BY <1>2, InvIs DEF Hidden
    <2>3. anonymous_klassmap[k] = First(n) /\ First(n) \in DOMAIN made
      BY <2>1, <2>2, InAnonymous
    <2>4. First(n) \in Nat \ {0}
      BY <2>2, <2>3, RecordIs DEF Recorded
    <2>5. Result(t, First(n))
      BY <2>2, <2>3 DEF Result, Given
    <2> QED BY <2>1, <2>3, <2>4, <2>5, ReturnInv
  <1>3. CASE Exit
    BY <1>3, ExitInv
  <1> QED BY <1>1, <1>2, <1>3 DEF LoadFile

LEMMA AfterBootInv ==
  ASSUME IInv, NEW t \in Threads, AfterBoot(t) PROVE IInv'
  <1>1. stack[t] # <<>> /\ Top(t).proc = "my" /\ Top(t).pc = "asked"
    BY DEF AfterBoot, In
  <1>2. PICK n : n = Top(t).name
    OBVIOUS
  <1>3. LoadOK(Top(t)) /\ n \in Names /\ n.form \in {"/", "cut"}
        /\ Given("bs", n, ret[t]) /\ ret[t] \in Nat
    <2>1. Waits(Top(t)) /\ Callee(Top(t)) = <<"bs", n>>
      BY <1>1, <1>2 DEF Waits, Callee
    <2>2. LoadOK(Top(t)) /\ n \in Names /\ n.form \in {"/", "cut", "bare"}
      BY <1>1, <1>2, TopOK DEF FrameOK, LoadOK
    <2>3. Given("bs", n, ret[t]) /\ ret[t] \in Nat
      BY <1>1, <2>1, TopOK
    <2> QED BY <2>2, <2>3 DEF Given
  <1>4. Recorded
    BY InvIs
  <1>5. CASE ret[t] # 0 /\ Return(t, ret[t])
    <2>1. Result(t, ret[t])
      BY <1>1, <1>2, <1>3 DEF Result, Given
    <2> QED BY <1>1, <1>3, <1>5, <2>1, ReturnInv
  <1>6. ret[t] = 0 => OfUser(n)
    BY <1>3 DEF Given
  <1>7. CASE n \in DOMAIN classmap /\ Return(t, classmap[n])
    <2>1. /\ classmap[n] = First(n) /\ n.form = "/" /\ First(n) \in Nat \ {0}
      BY <1>4, <1>7, InUser, RecordIs DEF Recorded
    <2>2. Result(t, First(n))
      BY <1>1, <1>2, <2>1 DEF Result, Given
    <2> QED BY <1>1, <1>7, <2>1, <2>2, ReturnInv
  <1>8. CASE ret[t] = 0 /\ n \notin DOMAIN classmap /\ ~IsArray(n) /\ LoadFile(t)
    <2>1. n.dim = 0
      BY <1>3, <1>8 DEF IsArray, Names
    <2> QED BY <1>1, <1>2, <1>3, <1>6, <1>8, <2>1, LoadFileInv
  <1>9. CASE ret[t] = 0 /\ n \notin DOMAIN classmap /\ IsArray(n) /\ LoadArray(t)
    BY <1>1, <1>2, <1>3, <1>6, <1>9, LoadArrayInv DEF IsArray
  <1> QED BY <1>2, <1>5, <1>7, <1>8, <1>9 DEF AfterBoot

(* The superclasses of a class.                                            *)
LEMMA SupersAre ==
  ASSUME NEW c \in Classes
  PROVE  /\ Len(Supers[c]) \in Nat /\ DOMAIN Supers[c] = 1 .. Len(Supers[c])
         /\ \A k \in 1 .. Len(Supers[c]) :
              /\ Supers[c][k] \in Classes
              /\ c \in SystemClasses => Supers[c][k] \in SystemClasses
  <1> DEFINE S == IF c \in SystemClasses THEN SystemClasses
                  ELSE SystemClasses \union UserFiles
  <1>1. Supers[c] \in Seq(S)
    BY LoadersAssumption
  <1>2. S \subseteq Classes /\ (c \in SystemClasses => S = SystemClasses)
    BY DEF Classes
  <1> HIDE DEF S
  <1>3. /\ Len(Supers[c]) \in Nat /\ DOMAIN Supers[c] = 1 .. Len(Supers[c])
        /\ \A k \in 1 .. Len(Supers[c]) : Supers[c][k] \in S
    BY <1>1
  <1> QED BY <1>2, <1>3

(* The superclass a class waits for has been loaded when it goes on.       *)
LEMMA SupersMade ==
  ASSUME IInv, NEW t \in Threads, stack[t] # <<>>, Top(t).proc \in {"bs", "my"},
         Top(t).pc = "supers", ~(Top(t).at > 1 /\ ret[t] = 0)
  PROVE  \A k \in 1 .. Top(t).at - 1 : First(Name(0, Supers[Top(t).name.base][k])) # 0
  <1> DEFINE c == Top(t).name.base
             at == Top(t).at
  <1>1. LoadOK(Top(t)) /\ at \in Nat
    BY TopOK DEF FrameOK, Frames
  <1>2. c \in Classes /\ at \in 1 .. Len(Supers[c]) + 1
        /\ \A k \in 1 .. at - 2 : First(Name(0, Supers[c][k])) # 0
    BY <1>1 DEF LoadOK
  <1>3. ASSUME at > 1 PROVE First(Name(0, Supers[c][at - 1])) # 0
    <2>1. Waits(Top(t)) /\ Callee(Top(t)) = <<Top(t).proc, Name(0, Supers[c][at - 1])>>
      BY <1>3 DEF Waits, Callee
    <2>2. Given(Top(t).proc, Name(0, Supers[c][at - 1]), ret[t]) /\ ret[t] # 0
      BY <1>3, <2>1, TopOK
    <2>3. Name(0, Supers[c][at - 1]).form = "/"
      BY NamesAre
    <2> QED BY <2>2, <2>3 DEF Given
  <1>4. ASSUME NEW k \in 1 .. at - 1 PROVE k \in 1 .. at - 2 \/ (at > 1 /\ k = at - 1)
    BY <1>1
  <1> HIDE DEF c, at
  <1>5. \A k \in 1 .. at - 1 : First(Name(0, Supers[c][k])) # 0
    BY <1>2, <1>3, <1>4
  <1> QED BY <1>5 DEF c, at

LEMMA NextSuperInv ==
  ASSUME IInv, NEW t \in Threads, stack[t] # <<>>, Top(t).proc \in {"bs", "my"},
         Top(t).pc = "supers", ~(Top(t).at > 1 /\ ret[t] = 0),
         NEW at, at = Top(t).at, NEW c, c = Top(t).name.base, at =< Len(Supers[c]),
         Call(t, "supers", at + 1, Frame(Top(t).proc, Name(0, Supers[c][at])))
  PROVE  IInv'
  <1>1. LoadOK(Top(t)) /\ at \in Nat
    BY TopOK DEF FrameOK, Frames
  <1>2. c \in Classes /\ at \in 1 .. Len(Supers[c]) + 1
    BY <1>1 DEF LoadOK
  <1>3. /\ Len(Supers[c]) \in Nat /\ at \in 1 .. Len(Supers[c])
        /\ Supers[c][at] \in Classes
    BY <1>2, SupersAre
  <1>4. \A k \in 1 .. at - 1 : First(Name(0, Supers[c][k])) # 0
    BY SupersMade
  <1>5. PICK f : f = Moved(t, "supers", at + 1)
    OBVIOUS
  <1>6. f.proc = Top(t).proc /\ f.name = Top(t).name /\ f.pc = "supers" /\ f.at = at + 1
    BY <1>1, <1>5, MoveIs DEF Pcs
  <1>7. f.at \in 1 .. Len(Supers[c]) + 1 /\ f.at - 2 = at - 1 /\ f.at - 1 = at /\ f.at > 1
    BY <1>1, <1>3, <1>6
  <1>8. LoadOK(f)
    BY <1>1, <1>4, <1>6, <1>7 DEF LoadOK, Pending
  <1>9. FrameOK(f) /\ Waits(f) /\ Callee(f) = <<Top(t).proc, Name(0, Supers[c][at])>>
    BY <1>6, <1>7, <1>8 DEF FrameOK, Waits, Callee
  <1>10. Loadable(Top(t).proc, Name(0, Supers[c][at]))
    BY <1>3, ClassFrame
  <1>11. "supers" \in Pcs \ {"lock"} /\ at + 1 \in Nat /\ Top(t).pc # "lock"
    BY <1>1 DEF Pcs
  <1> QED BY <1>5, <1>9, <1>10, <1>11, LoadCallInv

(* The class of an array's elements has been looked for.                   *)
LEMMA ElementIs ==
  ASSUME IInv, NEW t \in Threads, stack[t] # <<>>, Top(t).proc \in {"bs", "my"},
         Top(t).pc = "element", NEW n, n = Top(t).name
  PROVE  /\ n \in Names /\ n.dim > 0 /\ n.form \in {"/", "cut"} /\ ret[t] \in Nat
         /\ LoadOK(Top(t)) /\ ~IsBasic(n)
         /\ ret[t] # 0 => n.form = "/" /\ First(ElementOf(n)) # 0
         /\ ret[t] # 0 /\ Top(t).proc = "bs" => ~OfUser(n)
         /\ ret[t] = 0 /\ Top(t).proc = "bs" => OfUser(n)
  <1>1. LoadOK(Top(t)) /\ ret[t] \in Nat
    BY TopOK DEF FrameOK
  <1>2. n \in Names /\ n.dim > 0 /\ n.form \in {"/", "cut"} /\ ~IsBasic(n)
    BY <1>1 DEF LoadOK, Pending, Names
  <1>3. Waits(Top(t)) /\ Callee(Top(t)) = <<Top(t).proc, ElementOf(n)>>
    BY DEF Waits, Callee
  <1>4. Given(Top(t).proc, ElementOf(n), ret[t])
    BY <1>3, TopOK
  <1>5. ElementOf(n).form = n.form /\ (OfUser(ElementOf(n)) <=> OfUser(n))
    BY <1>2 DEF ElementOf, OfUser, Names
  <1> QED BY <1>1, <1>2, <1>4, <1>5 DEF Given

LEMMA ElementLoadedInv ==
  ASSUME IInv, NEW t \in Threads, ElementLoaded(t) PROVE IInv'
  <1>1. stack[t] # <<>> /\ Top(t).proc \in {"bs", "my"} /\ Top(t).pc = "element"
    BY DEF ElementLoaded, In
  <1>2. PICK n : n = Top(t).name
    OBVIOUS
  <1>3. /\ n \in Names /\ n.dim > 0 /\ n.form \in {"/", "cut"} /\ ret[t] \in Nat
        /\ LoadOK(Top(t)) /\ ~IsBasic(n)
        /\ ret[t] # 0 => n.form = "/" /\ First(ElementOf(n)) # 0
        /\ ret[t] # 0 /\ Top(t).proc = "bs" => ~OfUser(n)
        /\ ret[t] = 0 /\ Top(t).proc = "bs" => OfUser(n)
    BY <1>1, <1>2, ElementIs
  <1>4. CASE ret[t] = 0
    <2>1. Result(t, 0)
      BY <1>1, <1>2, <1>3, <1>4 DEF Result, Given
    <2>2. Return(t, 0)
      BY <1>4 DEF ElementLoaded
    <2> QED BY <1>1, <2>1, <2>2, ReturnInv
  <1>5. CASE ret[t] # 0
    <2>1. Top(t).proc = "bs" => n \notin DOMAIN system_classmap /\ ~OfUser(n)
      BY <1>1, <1>2, <1>3, <1>5 DEF LoadOK, Pending
    <2>2. Top(t).proc = "my" => n \notin DOMAIN classmap /\ OfUser(n)
      BY <1>1, <1>2, <1>3, <1>5 DEF LoadOK, Pending
    <2>3. LoadLower(t)
      BY <1>5 DEF ElementLoaded
    <2> QED BY <1>1, <1>2, <1>3, <1>5, <2>1, <2>2, <2>3, LoadLowerInv
  <1> QED BY <1>4, <1>5

LEMMA LowerLoadedInv ==
  ASSUME IInv, NEW t \in Threads, LowerLoaded(t) PROVE IInv'
  <1>1. stack[t] # <<>> /\ Top(t).proc \in {"bs", "my"} /\ Top(t).pc = "lower"
    BY DEF LowerLoaded, In
  <1>2. PICK n, proc : n = Top(t).name /\ proc = Top(t).proc
    OBVIOUS
  <1>3. LoadOK(Top(t)) /\ ret[t] \in Nat
    BY <1>1, TopOK DEF FrameOK
  <1>4. n \in Names /\ n.dim > 1 /\ n.form = "/" /\ n.dim > 0
    BY <1>1, <1>2, <1>3 DEF LoadOK, Pending, Names
  <1>5. Waits(Top(t)) /\ Callee(Top(t)) = <<proc, LowerOf(proc, n)>>
    BY <1>1, <1>2 DEF Waits, Callee
  <1>6. Given(proc, LowerOf(proc, n), ret[t])
    BY <1>1, <1>5, TopOK
  <1>7. CASE ret[t] = 0
    BY <1>7, ExitInv DEF LowerLoaded
  <1>8. CASE ret[t] # 0
    <2>1. proc = "bs"
      BY <1>1, <1>2, <1>6, <1>8 DEF Given, LowerOf, Named
    <2>2. First(LowerOf("bs", n)) # 0
      <3>1. LowerOf("bs", n).form = "/"
        BY <1>4 DEF LowerOf, Named
      <3> QED BY <1>6, <1>8, <2>1, <3>1 DEF Given
    <2>3. PICK f : f = Moved(t, "object", ret[t])
      OBVIOUS
    <2>4. f.proc = proc /\ f.name = n /\ f.pc = "object" /\ f.at = ret[t]
      BY <1>1, <1>2, <1>3, <2>3, MoveIs DEF Pcs
    <2>5. LoadOK(f)
      BY <1>1, <1>2, <1>3, <1>4, <2>1, <2>2, <2>4 DEF LoadOK, Pending
    <2>6. FrameOK(f)
      BY <2>1, <2>4, <2>5 DEF FrameOK
    <2>7. LoadObject(t, ret[t])
      BY <1>8 DEF LowerLoaded
    <2> QED BY <1>1, <1>3, <2>3, <2>6, <2>7, LoadObjectInv
  <1> QED BY <1>7, <1>8

LEMMA InternToOopInv ==
  ASSUME IInv, NEW t \in Threads, intern_to_oop(t) PROVE IInv'
  <1>1. stack[t] # <<>> /\ Top(t).proc = "intern" /\ Top(t).pc = "begin"
        /\ Call(t, "made", 0, Frame("bs", Name(0, "String")))
    BY DEF intern_to_oop, In
  <1>2. PICK f : f = Moved(t, "made", 0)
    OBVIOUS
  <1>3. f.proc = "intern" /\ f.name = Top(t).name /\ f.pc = "made" /\ f.at = 0
    BY <1>1, <1>2, MoveIs DEF Pcs
  <1>4. FrameOK(Top(t))
    BY <1>1, TopOK
  <1>5. FrameOK(f) /\ Waits(f) /\ Callee(f) = <<"bs", Name(0, "String")>>
    BY <1>1, <1>3, <1>4 DEF FrameOK, Waits, Callee
  <1>6. Loadable("bs", Name(0, "String"))
    BY NamesAre, ClassFrame
  <1> QED BY <1>1, <1>2, <1>5, <1>6, LoadCallInv DEF Pcs

(* The call of the string table, which takes no lock before it has made    *)
(* the string.                                                             *)
LEMMA InternFrame ==
  ASSUME NEW s \in Strings
  PROVE  /\ Intern(s) \in Frames /\ FrameOK(Intern(s)) /\ ~Waits(Intern(s))
         /\ Intern(s).proc = "intern" /\ Intern(s).name = String(s)
         /\ Intern(s).pc = "begin"
  <1>1. /\ Intern(s) \in Frames /\ Intern(s).proc = "intern"
        /\ Intern(s).name = String(s) /\ Intern(s).pc = "begin"
    BY NamesAre DEF Intern, Frame, Frames, Pcs
  <1> QED BY <1>1 DEF FrameOK, Waits

LEMMA PoolFrame ==
  ASSUME NEW e \in Entries
  PROVE  /\ Pool(e) \in Frames /\ FrameOK(Pool(e)) /\ ~Waits(Pool(e))
         /\ Pool(e).proc = "pool" /\ Pool(e).name = e
  <1>1. Pool(e) \in Frames /\ Pool(e).proc = "pool" /\ Pool(e).name = e /\ Pool(e).pc = "begin"
    BY DEF Pool, Frame, Frames, Pcs
  <1> QED BY <1>1 DEF FrameOK, Waits

LEMMA PoolTestInv ==
  ASSUME IInv, NEW t \in Threads, PoolTest(t) PROVE IInv'
  <1>1. stack[t] # <<>> /\ Top(t).proc = "pool" /\ Top(t).pc = "begin"
    BY DEF PoolTest, In
  <1>2. PICK e : e = Top(t).name
    OBVIOUS
  <1>3. e \in Entries
    BY <1>1, <1>2, TopOK DEF FrameOK
  <1>4. /\ e.kind \in {"class", "ref", "string"}
        /\ e.kind = "string" => e.of \in Strings /\ EntryName(e) = String(e.of)
        /\ e.kind # "string" => e.of \in Classes /\ EntryName(e) = Name(0, e.of)
    BY <1>3, EntriesAre
  <1>5. CASE pool[e].first /\ Goto(t, "copy", 0)
    <2>1. PICK f : f = Moved(t, "copy", 0)
      OBVIOUS
    <2>2. f.proc = "pool" /\ f.name = e /\ f.pc = "copy"
      BY <1>1, <1>2, <2>1, MoveIs DEF Pcs
    <2>3. FrameOK(f) /\ ~Waits(f)
      BY <1>3, <2>2 DEF FrameOK, Waits
    <2> QED BY <1>1, <1>5, <2>1, <2>3, GotoInv DEF Pcs
  <1>6. CASE e.kind = "class" /\ e.of = Self /\ Goto(t, "first", classmap[Name(0, Self)])
    <2>1. /\ classmap[Name(0, Self)] = First(Name(0, Self))
          /\ First(Name(0, Self)) \in Nat \ {0}
      <3>1. Recorded /\ Name(0, Self) \in DOMAIN classmap
        BY InvIs DEF MapsOK
      <3> QED BY <3>1, InUser, RecordIs DEF Recorded
    <2>2. PICK f : f = Moved(t, "first", classmap[Name(0, Self)])
      OBVIOUS
    <2>3. f.proc = "pool" /\ f.name = e /\ f.pc = "first" /\ f.at = First(EntryName(e))
          /\ f.at # 0
      BY <1>1, <1>2, <1>4, <1>6, <2>1, <2>2, MoveIs DEF Pcs
    <2>4. FrameOK(f) /\ ~Waits(f)
      BY <1>3, <2>3 DEF FrameOK, Waits
    <2> QED BY <1>1, <1>6, <2>1, <2>2, <2>4, GotoInv DEF Pcs
  <1>7. PICK f : f = Moved(t, "loaded", 0)
    OBVIOUS
  <1>8. f.proc = "pool" /\ f.name = e /\ f.pc = "loaded"
    BY <1>1, <1>2, <1>7, MoveIs DEF Pcs
  <1>9. FrameOK(f) /\ Waits(f)
        /\ Callee(f) = <<IF e.kind = "string" THEN "intern" ELSE "my", EntryName(e)>>
    BY <1>3, <1>8 DEF FrameOK, Waits, Callee
  <1>10. CASE e.kind \in {"class", "ref"} /\ Call(t, "loaded", 0, Frame("my", Name(0, e.of)))
    <2>1. Loadable("my", Name(0, e.of)) /\ Callee(f) = <<"my", Name(0, e.of)>>
      BY <1>4, <1>9, <1>10, ClassFrame
    <2> QED BY <1>1, <1>7, <1>9, <1>10, <2>1, LoadCallInv DEF Pcs
  <1>11. CASE e.kind = "string" /\ Call(t, "loaded", 0, Intern(e.of))
    <2>1. PICK g : g = Intern(e.of)
      OBVIOUS
    <2>2. g \in Frames /\ FrameOK(g) /\ ~Waits(g) /\ Callee(f) = <<g.proc, g.name>>
          /\ g.proc \notin DOMAIN LockOf
      BY <1>4, <1>9, <1>11, <2>1, InternFrame DEF LockOf
    <2> QED BY <1>1, <1>7, <1>9, <1>11, <2>1, <2>2, CallInv DEF Pcs
  <1> QED BY <1>2, <1>5, <1>6, <1>10, <1>11 DEF PoolTest

LEMMA PoolLoadedInv ==
  ASSUME IInv, NEW t \in Threads, PoolLoaded(t) PROVE IInv'
  <1>1. stack[t] # <<>> /\ Top(t).proc = "pool" /\ Top(t).pc = "loaded"
    BY DEF PoolLoaded, In
  <1>2. PICK e : e = Top(t).name
    OBVIOUS
  <1>3. e \in Entries /\ ret[t] \in Nat
    BY <1>1, <1>2, TopOK DEF FrameOK
  <1>4. CASE ret[t] = 0
    BY <1>4, ExitInv DEF PoolLoaded
  <1>5. CASE ret[t] # 0
    <2>1. Waits(Top(t)) /\ Callee(Top(t))[2] = EntryName(e)
      BY <1>1, <1>2 DEF Waits, Callee
    <2>2. EntryName(e).form # "anonymous"
      BY <1>3, EntriesAre, NamesAre
    <2>3. ret[t] = First(EntryName(e))
      BY <1>1, <1>5, <2>1, <2>2, TopOK DEF Given
    <2>4. PICK f : f = Moved(t, "first", ret[t])
      OBVIOUS
    <2>5. f.proc = "pool" /\ f.name = e /\ f.pc = "first" /\ f.at = ret[t]
      BY <1>1, <1>2, <1>3, <2>4, MoveIs DEF Pcs
    <2>6. FrameOK(f) /\ ~Waits(f)
      BY <1>3, <1>5, <2>3, <2>5 DEF FrameOK, Waits
    <2>7. Goto(t, "first", ret[t])
      BY <1>5 DEF PoolLoaded
    <2> QED BY <1>1, <1>3, <2>4, <2>6, <2>7, GotoInv DEF Pcs
  <1> QED BY <1>4, <1>5

(* The pair of an entry holds nothing or what was made first.              *)
LEMMA PoolAssignInv ==
  ASSUME IInv, NEW t \in Threads, PoolAssign(t) PROVE IInv'
  <1>1. /\ stack[t] # <<>> /\ Top(t).proc = "pool" /\ Top(t).pc \in {"first", "second"}
        /\ UNCHANGED <<vm, maps, locks, ret, asks>>
    BY DEF PoolAssign, In
  <1>2. PICK e, at : e = Top(t).name /\ at = Top(t).at
    OBVIOUS
  <1>3. e \in Entries /\ at = First(EntryName(e)) /\ at # 0 /\ at \in Nat
    BY <1>1, <1>2, TopOK DEF FrameOK, Frames
  <1>4. PoolOK /\ TypesOK /\ LocksOK
    BY InvIs
  <1>5. ASSUME NEW pc \in {"second", "copy"}, NEW v \in Nat,
               stack' = [stack EXCEPT ![t] = At(t, pc, v)], pc = "second" => v = at,
               PoolOK'
        PROVE  IInv'
    <2>1. PICK f : f = Moved(t, pc, v)
      OBVIOUS
    <2>2. pc \in Pcs /\ pc # "lock"
      BY DEF Pcs
    <2>3. f \in Frames /\ f.proc = "pool" /\ f.name = e /\ f.pc = pc /\ f.at = v
      BY <1>1, <1>2, <2>1, <2>2, MoveIs
    <2>4. FrameOK(f) /\ ~Waits(f)
      BY <1>3, <1>5, <2>3 DEF FrameOK, Waits
    <2>5. LocksOK'
      <3>1. stack[t] \in Seq(Frames) /\ f.proc = stack[t][Len(stack[t])].proc
            /\ At(t, pc, v) = [stack[t] EXCEPT ![Len(stack[t])] = f]
            /\ (f.pc = "lock" <=> stack[t][Len(stack[t])].pc = "lock")
        BY <1>1, <1>4, <2>1, <2>2, <2>3, TopIs, MovedIs DEF Top
      <3>2. \A l \in {"sys", "my"} : Hold(stack'[t], l) = Hold(stack[t], l)
        <4>1. stack'[t] = At(t, pc, v)
          BY <1>4, <1>5 DEF TypesOK
        <4> QED BY <1>1, <2>3, <3>1, <4>1, HoldMoved
      <3>3. \A u \in Threads \ {t} : stack'[u] = stack[u]
        BY <1>4, <1>5 DEF TypesOK
      <3> QED BY <1>1, <1>4, <3>2, <3>3, LocksSame
    <2> QED BY <1>1, <1>5, <2>1, <2>2, <2>4, <2>5, TopInv
  <1>6. \A x : First(x)' = First(x)
    BY <1>1, SameMaps
  <1>7. CASE /\ Top(t).pc = "first"
             /\ pool' = [pool EXCEPT ![e].first = TRUE]
             /\ stack' = [stack EXCEPT ![t] = At(t, "second", at)]
    <2>1. PoolOK'
      BY <1>3, <1>4, <1>6, <1>7 DEF PoolOK
    <2> QED BY <1>3, <1>5, <1>7, <2>1
  <1>8. CASE /\ Top(t).pc = "second"
             /\ pool' = [pool EXCEPT ![e].second = at]
             /\ stack' = [stack EXCEPT ![t] = At(t, "copy", 0)]
    <2>1. PoolOK'
      BY <1>3, <1>4, <1>6, <1>8 DEF PoolOK
    <2> QED BY <1>5, <1>8, <2>1
  <1> QED BY <1>2, <1>7, <1>8 DEF PoolAssign, In

LEMMA PoolCopyInv ==
  ASSUME IInv, NEW t \in Threads, PoolCopy(t) PROVE IInv'
  <1>1. stack[t] # <<>> /\ Top(t).proc = "pool" /\ Top(t).pc = "copy"
    BY DEF PoolCopy, In
  <1>2. PICK e : e = Top(t).name
    OBVIOUS
  <1>3. e \in Entries
    BY <1>1, <1>2, TopOK DEF FrameOK
  <1>4. CASE pool[e].second = 0
    BY <1>2, <1>4, ExitInv DEF PoolCopy
  <1>5. CASE pool[e].second # 0
    <2>1. pool[e].second = First(EntryName(e)) /\ pool[e].second \in Nat
      BY <1>3, <1>5, InvIs DEF PoolOK
    <2>2. EntryName(e).form \in {"/", "string"}
      BY <1>3, EntriesAre, NamesAre
    <2>3. Result(t, pool[e].second)
      BY <1>1, <1>2, <1>5, <2>1, <2>2 DEF Result, Given
    <2>4. Return(t, pool[e].second)
      BY <1>2, <1>5 DEF PoolCopy
    <2> QED BY <1>1, <2>1, <2>3, <2>4, ReturnInv
  <1> QED BY <1>4, <1>5

LEMMA FindBootInv ==
  ASSUME IInv, NEW t \in Threads, FindBoot(t) PROVE IInv'
  <1>1. stack[t] # <<>> /\ Top(t).proc = "findboot"
    BY DEF FindBoot, In
  <1>2. PICK n : n = Top(t).name
    OBVIOUS
  <1>3. n \in Asked
    BY <1>1, <1>2, TopOK DEF FrameOK
  <1>4. n \in Names /\ n.form = "/" /\ (n.dim = 0 => n.base \in Classes)
    BY <1>3, AskedAre
  <1>5. CASE Top(t).pc = "begin" /\ Call(t, "found", 0, Frame("bs", n))
    <2>1. PICK f : f = Moved(t, "found", 0)
      OBVIOUS
    <2>2. f.proc = "findboot" /\ f.name = n /\ f.pc = "found"
      BY <1>1, <1>2, <2>1, MoveIs DEF Pcs
    <2>3. FrameOK(f) /\ Waits(f) /\ Callee(f) = <<"bs", n>>
      BY <1>3, <2>2 DEF FrameOK, Waits, Callee
    <2>4. Loadable("bs", n)
      BY <1>4 DEF Loadable
    <2> QED BY <1>1, <1>5, <2>1, <2>3, <2>4, LoadCallInv DEF Pcs
  <1>6. CASE Top(t).pc = "found" /\ Return(t, ret[t])
    <2>1. Waits(Top(t)) /\ Callee(Top(t)) = <<"bs", n>>
      BY <1>1, <1>2, <1>6 DEF Waits, Callee
    <2>2. Given("bs", n, ret[t]) /\ ret[t] \in Nat
      BY <1>1, <2>1, TopOK
    <2>3. Result(t, ret[t])
      BY <1>1, <1>2, <1>4, <2>2 DEF Result, Given
    <2> QED BY <1>1, <1>6, <2>2, <2>3, ReturnInv
  <1> QED BY <1>2, <1>5, <1>6 DEF FindBoot, In

LEMMA FindLoadedInv ==
  ASSUME IInv, NEW t \in Threads, FindLoaded(t) PROVE IInv'
  <1>1. stack[t] # <<>> /\ Top(t).proc = "find" /\ Top(t).pc = "begin"
    BY DEF FindLoaded, In
  <1>2. PICK n : n = Top(t).name
    OBVIOUS
  <1>3. n \in Asked
    BY <1>1, <1>2, TopOK DEF FrameOK
  <1>4. CASE n \in DOMAIN system_classmap
    <2>1. /\ system_classmap[n] = First(n) /\ First(n) \in Nat \ {0} /\ n.form = "/"
      <3>1. Recorded
        BY InvIs
      <3> QED BY <1>4, <3>1, InSystem, RecordIs DEF Recorded
    <2>2. Result(t, First(n))
      BY <1>1, <1>2, <2>1 DEF Result, Given
    <2>3. Return(t, First(n))
      BY <1>2, <1>4, <2>1 DEF FindLoaded
    <2> QED BY <1>1, <2>1, <2>2, <2>3, ReturnInv
  <1>5. CASE n \notin DOMAIN system_classmap
    <2>1. PICK f : f = Moved(t, "other", 0)
      OBVIOUS
    <2>2. f.proc = "find" /\ f.name = n /\ f.pc = "other"
      BY <1>1, <1>2, <2>1, MoveIs DEF Pcs
    <2>3. FrameOK(f) /\ ~Waits(f)
      BY <1>3, <1>5, <2>2 DEF FrameOK, Waits
    <2>4. Goto(t, "other", 0)
      BY <1>2, <1>5 DEF FindLoaded
    <2> QED BY <1>1, <2>1, <2>3, <2>4, GotoInv DEF Pcs
  <1> QED BY <1>4, <1>5

(* findLoadedClass is called by nobody and the only call of its thread.    *)
LEMMA FindAlone ==
  ASSUME IInv, NEW t \in Threads, stack[t] # <<>>, Top(t).proc = "find"
  PROVE  Len(stack[t]) = 1
  <1>1. PICK s : s = stack[t]
    OBVIOUS
  <1>2. TypesOK /\ StackOK(t)
    BY InvIs
  <1>3. s \in Seq(Frames) /\ Len(s) \in Nat \ {0} /\ Top(t) = s[Len(s)]
    BY <1>1, <1>2, TopIs DEF Top
  <1>4. CASE Len(s) # 1
    <2>0. Len(s) > 1
      <3>1. PICK k : k = Len(s)
        OBVIOUS
      <3>2. k \in Nat /\ k # 0 /\ k # 1
        BY <1>3, <1>4, <3>1
      <3>3. k > 1
        BY ONLY <3>2
      <3> QED BY <3>1, <3>3
    <2>1. Len(s) - 1 \in 1 .. Len(s) - 1 /\ Len(s) - 1 \in 1 .. Len(s)
          /\ Len(s) - 1 + 1 = Len(s)
      BY <1>3, <2>0
    <2>2. FrameOK(s[Len(s) - 1]) /\ Waits(s[Len(s) - 1])
          /\ Callee(s[Len(s) - 1])[1] = s[Len(s)].proc
      BY <1>1, <1>2, <2>1, StackIs
    <2>3. s[Len(s) - 1] \in Frames
      BY <1>3, <2>1
    <2>4. s[Len(s)].proc \in {"bs", "my", "intern"}
      BY <2>2, <2>3, CalleeIs
    <2> QED BY <1>3, <2>4
  <1> QED BY <1>1, <1>4

LEMMA FindInClassmapInv ==
  ASSUME IInv, NEW t \in Threads, find_in_classmap(t) PROVE IInv'
  <1>1. stack[t] # <<>> /\ Top(t).proc = "find" /\ Top(t).pc = "other"
    BY DEF find_in_classmap, In
  <1>2. PICK n : n = Top(t).name
    OBVIOUS
  <1>3. CASE n \in DOMAIN classmap /\ Return(t, classmap[n])
    <2>1. /\ classmap[n] = First(n) /\ First(n) \in Nat \ {0} /\ n.form = "/"
      <3>1. Recorded
        BY InvIs
      <3> QED BY <1>3, <3>1, InUser, RecordIs DEF Recorded
    <2>2. Result(t, First(n))
      BY <1>1, <1>2, <2>1 DEF Result, Given
    <2> QED BY <1>1, <1>3, <2>1, <2>2, ReturnInv
  <1>4. CASE /\ stack' = [stack EXCEPT ![t] = <<>>] /\ locks' = Unlocked("sys")
             /\ Answered(t, 0) /\ UNCHANGED ret
    <2>1. TypesOK /\ LocksOK
      BY InvIs
    <2>2. UNCHANGED <<vm, maps, pool, ret>> /\ request' = [request EXCEPT ![t] = None]
      BY <1>4 DEF Answered
    <2>3. /\ stack'[t] = <<>> /\ request'[t] = None
          /\ \A u \in Threads \ {t} :
               stack'[u] = stack[u] /\ ret'[u] = ret[u] /\ request'[u] = request[u]
      BY <1>4, <2>1, <2>2 DEF TypesOK
    <2>4. TypesOK'
      BY <1>4, <2>1, <2>2 DEF TypesOK
    <2>5. LocksOK'
      <3>1. PICK s : s = stack[t]
        OBVIOUS
      <3>2. s \in Seq(Frames) /\ Len(s) = 1 /\ s[1].proc = "find" /\ s[1].pc = "other"
        BY <1>1, <2>1, <3>1, FindAlone, TopIs DEF Top
      <3>3. DOMAIN s = {1}
        BY <3>2
      <3>4. Hold(s, "sys") = {1} /\ Hold(s, "my") = {}
        BY <3>2, <3>3 DEF Hold, LockOf
      <3>5. \A l : Hold(<<>>, l) = {}
        BY DEF Hold
      <3>6. 1 \in Hold(stack[t], "sys") /\ Hold(stack'[t], "sys") = Hold(stack[t], "sys") \ {1}
            /\ \A l \in {"sys", "my"} \ {"sys"} : Hold(stack'[t], l) = Hold(stack[t], l)
        BY <2>3, <3>1, <3>4, <3>5
      <3> QED BY <1>4, <2>1, <2>3, <3>6, LocksGivenBack
    <2>6. StackOK(t)' /\ RequestOK(t)'
      BY <2>3 DEF StackOK, RequestOK
    <2>7. PoolOK'
      BY <2>2, InvIs, PoolSame
    <2> QED BY <2>2, <2>3, <2>4, <2>5, <2>6, <2>7, Composed
  <1> QED BY <1>2, <1>3, <1>4 DEF find_in_classmap

LEMMA ReplyInv ==
  ASSUME IInv, NEW t \in Threads, Reply(t) PROVE IInv'
  <1>1. CASE Exit
    BY <1>1, ExitInv
  <1>2. CASE Answered(t, ret[t]) /\ UNCHANGED calls
    <2>1. TypesOK /\ LocksOK
      BY InvIs
    <2>2. /\ UNCHANGED <<vm, maps, pool, ret, stack, locks>>
          /\ request' = [request EXCEPT ![t] = None] /\ stack[t] = <<>>
      BY <1>2 DEF Answered, calls, Reply
    <2>3. /\ stack'[t] = <<>> /\ request'[t] = None
          /\ \A u \in Threads \ {t} :
               stack'[u] = stack[u] /\ ret'[u] = ret[u] /\ request'[u] = request[u]
      BY <2>1, <2>2 DEF TypesOK
    <2>4. TypesOK'
      BY <2>1, <2>2 DEF TypesOK
    <2>5. LocksOK'
      BY <2>1, <2>2, LocksSame
    <2>6. StackOK(t)' /\ RequestOK(t)'
      BY <2>3 DEF StackOK, RequestOK
    <2>7. PoolOK'
      BY <2>2, InvIs, PoolSame
    <2> QED BY <2>2, <2>3, <2>4, <2>5, <2>6, <2>7, Composed
  <1> QED BY <1>1, <1>2 DEF Reply

-----------------------------------------------------------------------------
(* The requests.                                                           *)
LEMMA AskInv ==
  ASSUME IInv, NEW t \in Threads, NEW how \in DOMAIN Procs, NEW thing \in Things,
         NEW must \in BOOLEAN, NEW f \in Frames, Ask(t, how, thing, must, f),
         how \in {"my", "anonymous"} => must,
         thing.form = "string" => how = "my",
         how = "anonymous" =>
           /\ thing.dim = 0 /\ thing.base \in AnonClasses
           /\ f.name = [thing EXCEPT !.form = "anonymous"],
         f.proc \in Procs[how],
         f.proc = "pool" => EntryName(f.name) = thing,
         f.proc # "pool" /\ how # "anonymous" => f.name = thing \/ f.name.form = "bare",
         FrameOK(f), ~Waits(f), f.pc = "lock" \/ f.proc \notin DOMAIN LockOf
  PROVE  IInv'
  <1>1. TypesOK /\ LocksOK /\ RequestOK(t)
    BY InvIs
  <1>2. PICK r : r = [how |-> how, thing |-> thing, must |-> must]
    OBVIOUS
  <1>3. r.how = how /\ r.thing = thing /\ r.must = must /\ r \in Requests
    BY <1>2 DEF Requests
  <1>4. /\ request[t] = None /\ request' = [request EXCEPT ![t] = r]
        /\ stack' = [stack EXCEPT ![t] = <<f>>]
        /\ UNCHANGED <<vm, maps, pool, locks, ret>>
    BY <1>2 DEF Ask
  <1>5. /\ stack[t] = <<>> /\ stack'[t] = <<f>> /\ request'[t] = r
        /\ \A u \in Threads \ {t} :
             stack'[u] = stack[u] /\ ret'[u] = ret[u] /\ request'[u] = request[u]
    BY <1>1, <1>4 DEF TypesOK, RequestOK
  <1>6. <<f>> \in Seq(Frames) /\ Len(<<f>>) = 1 /\ <<f>>[1] = f /\ <<f>> # <<>>
    OBVIOUS
  <1>7. TypesOK'
    BY <1>1, <1>3, <1>4, <1>6 DEF TypesOK
  <1>8. LocksOK'
    <2>1. \A l : Hold(<<f>>, l) = {} /\ Hold(<<>>, l) = {}
      <3>1. DOMAIN <<f>> = {1}
        BY <1>6
      <3> QED BY <1>6, <3>1 DEF Hold
    <2>2. \A l \in {"sys", "my"} : Hold(stack'[t], l) = Hold(stack[t], l)
      BY <1>5, <2>1
    <2> QED BY <1>1, <1>4, <1>5, <2>2, LocksSame
  <1>9. StackOK(t)'
    BY <1>1, <1>4, StartKeeps
  <1>10. RequestOK(t)'
    <2>1. r # None
      BY <1>1, <1>3 DEF None, Requests, Procs
    <2> QED BY <1>3, <1>5, <1>6, <2>1 DEF RequestOK
  <1>11. PoolOK'
    BY <1>4, InvIs, PoolSame
  <1> QED BY <1>4, <1>5, <1>7, <1>8, <1>9, <1>10, <1>11, Composed

LEMMA ThingsAre ==
  /\ \A c \in Classes : Name(0, c) \in Things
  /\ \A s \in Strings : String(s) \in Things
  /\ \A n \in Asked : n \in Things
  /\ \A e \in Entries : EntryName(e) \in Things
  <1>1. \A c \in Classes : Name(0, c) \in Things
    BY DEF Things
  <1>2. \A s \in Strings : String(s) \in Things
    BY DEF Things
  <1>3. ASSUME NEW n \in Asked PROVE n \in Things
    <2>1. n = Name(n.dim, n.base) /\ n.dim \in Nat /\ (n.dim = 0 => n.base \in Classes)
      BY LoadersAssumption
    <2>2. CASE n.dim = 0
      BY <1>1, <2>1, <2>2
    <2>3. CASE n.dim # 0
      <3>1. n.dim \in 1 .. n.dim
        BY <2>1, <2>3
      <3>2. Name(n.dim, n.base) \in {Name(d, n.base) : d \in 1 .. n.dim}
        BY <3>1
      <3>3. n \in UNION {{Name(d, m.base) : d \in 1 .. m.dim} : m \in Asked}
        BY <2>1, <3>2
      <3> QED BY <3>3 DEF Things
    <2> QED BY <2>2, <2>3
  <1>4. \A e \in Entries : EntryName(e) \in Things
    BY <1>1, <1>2, EntriesAre
  <1> QED BY <1>1, <1>2, <1>3, <1>4

(* A loader is asked for a name.                                           *)
LEMMA AskLoaderInv ==
  ASSUME IInv, NEW t \in Threads, NEW loader \in {"bs", "my"}, NEW thing \in Things, NEW n,
         Loadable(loader, n), thing.form # "string", n = thing \/ n.form = "bare",
         Ask(t, HowOf(loader), thing, TRUE, Frame(loader, n))
  PROVE  IInv'
  <1>1. PICK f : f = Frame(loader, n)
    OBVIOUS
  <1>2. f \in Frames /\ FrameOK(f) /\ ~Waits(f) /\ f.proc = loader /\ f.name = n /\ f.pc = "lock"
    BY <1>1, LoadFrame
  <1>3. HowOf(loader) \in {"boot", "my"} /\ loader \in Procs[HowOf(loader)]
        /\ HowOf(loader) \in DOMAIN Procs
    BY DEF HowOf, Procs
  <1>4. Ask(t, HowOf(loader), thing, TRUE, f)
    BY <1>1
  <1> QED BY <1>2, <1>3, <1>4, AskInv

LEMMA AskedLoadable ==
  ASSUME NEW n \in Asked, NEW loader \in {"bs", "my"}
  PROVE  Loadable(loader, n) /\ n \in Things /\ n.form = "/"
  BY AskedAre, ThingsAre DEF Loadable

LEMMA FindFrame ==
  ASSUME NEW proc \in {"find", "findboot"}, NEW n \in Asked
  PROVE  LET f == Frame(proc, n) IN
         /\ f \in Frames /\ FrameOK(f) /\ ~Waits(f) /\ f.proc = proc /\ f.name = n
         /\ f.pc = "lock"
  <1>1. PICK f : f = Frame(proc, n)
    OBVIOUS
  <1>2. f \in Frames /\ f.proc = proc /\ f.name = n /\ f.pc = "lock"
    BY <1>1, AskedAre DEF Frame, Frames, Pcs
  <1>3. FrameOK(f) /\ ~Waits(f)
    BY <1>2 DEF FrameOK, Waits
  <1> QED BY <1>1, <1>2, <1>3

LEMMA FindBootStrapClassInv ==
  ASSUME IInv, NEW t \in Threads, JVM_FindBootStrapClass(t) PROVE IInv'
  <1>1. PICK n \in Asked : Ask(t, "boot", n, FALSE, Frame("findboot", n))
    BY DEF JVM_FindBootStrapClass
  <1>2. PICK f : f = Frame("findboot", n)
    OBVIOUS
  <1>3. f \in Frames /\ FrameOK(f) /\ ~Waits(f) /\ f.proc = "findboot" /\ f.name = n
        /\ f.pc = "lock"
    BY <1>2, FindFrame
  <1>4. n \in Things /\ n.form = "/"
    BY AskedLoadable
  <1>5. "boot" \in DOMAIN Procs /\ "findboot" \in Procs["boot"] /\ FALSE \in BOOLEAN
    BY DEF Procs
  <1>6. Ask(t, "boot", n, FALSE, f)
    BY <1>1, <1>2
  <1> QED BY <1>3, <1>4, <1>5, <1>6, AskInv

LEMMA FindLoadedClassInv ==
  ASSUME IInv, NEW t \in Threads, JVM_FindLoadedClass(t) PROVE IInv'
  <1>1. PICK n \in Asked : Ask(t, "find", n, FALSE, Frame("find", n))
    BY DEF JVM_FindLoadedClass
  <1>2. PICK f : f = Frame("find", n)
    OBVIOUS
  <1>3. f \in Frames /\ FrameOK(f) /\ ~Waits(f) /\ f.proc = "find" /\ f.name = n
        /\ f.pc = "lock"
    BY <1>2, FindFrame
  <1>4. n \in Things /\ n.form = "/"
    BY AskedLoadable
  <1>5. "find" \in DOMAIN Procs /\ "find" \in Procs["find"] /\ FALSE \in BOOLEAN
    BY DEF Procs
  <1>6. Ask(t, "find", n, FALSE, f)
    BY <1>1, <1>2
  <1> QED BY <1>3, <1>4, <1>5, <1>6, AskInv

LEMMA DefineClassInv ==
  ASSUME Packaged = {}, IInv, NEW t \in Threads, JVM_DefineClass(t) PROVE IInv'
  <1>1. PICK n \in Asked : Ask(t, "my", n, TRUE, Frame("my", n))
    BY DEF JVM_DefineClass
  <1>2. HowOf("my") = "my"
    BY DEF HowOf
  <1> QED BY <1>1, <1>2, AskedLoadable, AskLoaderInv

LEMMA DefineAnonymousClassInv ==
  ASSUME IInv, NEW t \in Threads, JVM_DefineAnonymousClass(t) PROVE IInv'
  <1>1. PICK c \in AnonClasses :
          Ask(t, "anonymous", Name(0, c), TRUE, Frame("my", Named(0, c, "anonymous")))
    BY DEF JVM_DefineAnonymousClass
  <1>2. PICK n, f : n = Named(0, c, "anonymous") /\ f = Frame("my", n)
    OBVIOUS
  <1>3. c \in Classes /\ n.dim = 0 /\ n.base = c /\ n.form = "anonymous" /\ n \in Names
        /\ n = [Name(0, c) EXCEPT !.form = "anonymous"]
    BY <1>2 DEF Classes, Named, Name, Names, Bases, Forms
  <1>4. Loadable("my", n)
    BY <1>3 DEF Loadable
  <1>5. f \in Frames /\ FrameOK(f) /\ ~Waits(f) /\ f.proc = "my" /\ f.name = n /\ f.pc = "lock"
    BY <1>2, <1>4, LoadFrame
  <1>6. Name(0, c) \in Things /\ Name(0, c).form # "string" /\ Name(0, c).dim = 0
        /\ Name(0, c).base = c
    BY <1>3, ThingsAre, NamesAre
  <1>7. "anonymous" \in DOMAIN Procs /\ "my" \in Procs["anonymous"]
    BY DEF Procs
  <1>8. Ask(t, "anonymous", Name(0, c), TRUE, f)
    BY <1>1, <1>2
  <1> QED BY <1>3, <1>5, <1>6, <1>7, <1>8, AskInv

(* An array of a class is asked of the loader of the class.                *)
LEMMA NewArrayInv ==
  ASSUME IInv, NEW t \in Threads, JVM_NewArray(t) PROVE IInv'
  <1>1. PICK k, n, loader, asked :
          /\ n = Name(k.dim + 1, k.base) /\ n \in Asked /\ loader \in {"bs", "my"}
          /\ asked = n \/ asked = Named(1, k.base, "bare")
          /\ Ask(t, HowOf(loader), n, TRUE, Frame(loader, asked))
    BY DEF JVM_NewArray
  <1>2. Loadable(loader, n) /\ n \in Things /\ n.form = "/"
    BY <1>1, AskedLoadable
  <1>3. Loadable(loader, asked)
    <2>1. CASE asked = Named(1, k.base, "bare")
      <3>1. n.base = k.base /\ n.base \in Bases
        BY <1>1 DEF Name, Named, Bases
      <3>2. asked.dim = 1 /\ asked.form = "bare" /\ asked \in Names
        BY <2>1, <3>1 DEF Named, Names, Forms
      <3> QED BY <3>2 DEF Loadable
    <2> QED BY <1>1, <1>2, <2>1
  <1>4. asked = n \/ asked.form = "bare"
    BY <1>1 DEF Named
  <1> QED BY <1>1, <1>2, <1>3, <1>4, AskLoaderInv

LEMMA ResolveInv ==
  ASSUME IInv, NEW t \in Threads, Resolve(t) PROVE IInv'
  <1>1. PICK e \in Entries : Ask(t, "my", EntryName(e), TRUE, Pool(e))
    BY DEF Resolve
  <1>2. PICK f : f = Pool(e)
    OBVIOUS
  <1>3. f \in Frames /\ FrameOK(f) /\ ~Waits(f) /\ f.proc = "pool" /\ f.name = e
        /\ f.proc \notin DOMAIN LockOf
    BY <1>2, PoolFrame DEF LockOf
  <1>4. "my" \in DOMAIN Procs /\ "pool" \in Procs["my"] /\ EntryName(e) \in Things
    BY ThingsAre DEF Procs
  <1>5. Ask(t, "my", EntryName(e), TRUE, f)
    BY <1>1, <1>2
  <1> QED BY <1>3, <1>4, <1>5, AskInv

LEMMA JvmInternInv ==
  ASSUME IInv, NEW t \in Threads, JVM_Intern(t) PROVE IInv'
  <1>1. PICK s \in Strings : Ask(t, "my", String(s), TRUE, Intern(s))
    BY DEF JVM_Intern
  <1>2. PICK f : f = Intern(s)
    OBVIOUS
  <1>3. f \in Frames /\ FrameOK(f) /\ ~Waits(f) /\ f.proc = "intern" /\ f.name = String(s)
        /\ f.proc \notin DOMAIN LockOf
    BY <1>2, InternFrame DEF LockOf
  <1>4. "my" \in DOMAIN Procs /\ "intern" \in Procs["my"] /\ String(s) \in Things
    BY ThingsAre DEF Procs
  <1>5. Ask(t, "my", String(s), TRUE, f)
    BY <1>1, <1>2
  <1> QED BY <1>3, <1>4, <1>5, AskInv

LEMMA RequestInv ==
  ASSUME Packaged = {}, IInv, NEW t \in Threads, Request(t) PROVE IInv'
  <1>1. HowOf("bs") = "boot" /\ HowOf("my") = "my"
    BY DEF HowOf
  <1>2. CASE JVM_ForClassName(t)
    BY <1>1, <1>2, AskedLoadable, AskLoaderInv DEF JVM_ForClassName
  <1>3. CASE parse_type(t)
    BY <1>1, <1>3, AskedLoadable, AskLoaderInv DEF parse_type
  <1>4. CASE FieldType(t)
    <2>1. PICK n \in Asked, loader \in {"bs", "my"} :
            Ask(t, HowOf(loader), n, TRUE, Frame(loader, n))
      BY <1>4 DEF FieldType
    <2> QED BY <2>1, AskedLoadable, AskLoaderInv
  <1>5. CASE anewarray(t)
    <2>1. PICK n \in Asked, loader \in {"bs", "my"} :
            Ask(t, HowOf(loader), n, TRUE, Frame(loader, n))
      BY <1>5 DEF anewarray
    <2> QED BY <2>1, AskedLoadable, AskLoaderInv
  <1> QED BY <1>2, <1>3, <1>4, <1>5, FindBootStrapClassInv, FindLoadedClassInv,
             DefineClassInv, DefineAnonymousClassInv, NewArrayInv, ResolveInv,
             JvmInternInv DEF Request

-----------------------------------------------------------------------------
(* What is made is new, and the last of all.                               *)
Records == [base : Bases, dim : Nat, loader : {"bs", "my", "string"}, higher : Nat]

Grew(k) ==
  /\ made' \in Seq(Records) /\ made'[Len(made) + 1] = k
  /\ Len(made) \in Nat /\ DOMAIN made = 1 .. Len(made)
  /\ Len(made') = Len(made) + 1 /\ DOMAIN made' = 1 .. Len(made) + 1
  /\ \A j \in DOMAIN made :
       /\ j \in DOMAIN made' /\ j \in Nat /\ j < Len(made) + 1
       /\ made'[j].base = made[j].base /\ made'[j].dim = made[j].dim
       /\ made'[j].loader = made[j].loader
  /\ \A j \in DOMAIN made' : j \in DOMAIN made \/ j = Len(made) + 1
  /\ Len(made) + 1 \in DOMAIN made'

LEMMA MadeGrew ==
  ASSUME MapsOK, NEW k \in Records, NEW others \in Seq(Records), Len(others) = Len(made),
         \A j \in DOMAIN made :
           /\ others[j].base = made[j].base /\ others[j].dim = made[j].dim
           /\ others[j].loader = made[j].loader,
         made' = Append(others, k)
  PROVE  Grew(k)
  <1>1. Len(made) \in Nat /\ DOMAIN made = 1 .. Len(made)
    BY MadeIsSeq
  <1>2. /\ Append(others, k) \in Seq(Records) /\ Len(Append(others, k)) = Len(others) + 1
        /\ \A j \in 1 .. Len(others) : Append(others, k)[j] = others[j]
        /\ Append(others, k)[Len(others) + 1] = k
    <2> HIDE DEF Records
    <2> QED OBVIOUS
  <1>3. DOMAIN Append(others, k) = 1 .. Len(others) + 1
    <2>1. \A q \in Seq(Records) : DOMAIN q = 1 .. Len(q)
      OBVIOUS
    <2> QED BY <1>2, <2>1
  <1>4. \A j \in 1 .. Len(made) + 1 : j \in 1 .. Len(made) \/ j = Len(made) + 1
    BY <1>1
  <1>5. Len(made) + 1 \in 1 .. Len(made) + 1
        /\ \A j \in 1 .. Len(made) : j \in 1 .. Len(made) + 1 /\ j \in Nat /\ j < Len(made) + 1
    BY <1>1
  <1>6. made' \in Seq(Records) /\ made'[Len(made) + 1] = k
        /\ Len(made') = Len(made) + 1 /\ DOMAIN made' = 1 .. Len(made) + 1
        /\ \A j \in DOMAIN made : made'[j] = others[j]
    BY <1>1, <1>2, <1>3
  <1> HIDE DEF Records
  <1> QED BY <1>1, <1>4, <1>5, <1>6 DEF Grew

(* The firsts are those there were, and the new one where there was none.  *)
Is(k, x) == k.base = x.base /\ k.dim = x.dim /\ (k.loader = "string" <=> x.form = "string")

LEMMA FirstsGrow ==
  ASSUME Recorded, NEW k, Grew(k)
  PROVE  /\ HasFirsts'
         /\ \A x : First(x) # 0 => First(x)' = First(x)
         /\ \A x : First(x) = 0 => First(x)' = IF Is(k, x) THEN Len(made) + 1 ELSE 0
  <1>0. PICK id : id = Len(made) + 1
    OBVIOUS
  <1>1. \A x : \A j \in DOMAIN made : IsMade(j, x)' <=> IsMade(j, x)
    BY DEF Grew, IsMade
  <1>2. /\ id \in DOMAIN made' /\ id \in Nat \ {0}
        /\ \A j \in DOMAIN made' : j \in DOMAIN made \/ j = id
        /\ \A j \in DOMAIN made : j \in DOMAIN made' /\ j \in Nat /\ j < id
        /\ \A x : IsMade(id, x)' <=> Is(k, x)
    BY <1>0 DEF Grew, IsMade, Is
  <1>3. HasFirsts'
    <2> SUFFICES ASSUME NEW x, NEW i \in DOMAIN made', IsMade(i, x)'
                 PROVE  \E m \in DOMAIN made' : IsMade(m, x)' /\
                          \A j \in DOMAIN made' : IsMade(j, x)' => m =< j
      BY DEF HasFirsts
    <2>1. CASE \E j \in DOMAIN made : IsMade(j, x)
      <3>1. PICK m \in DOMAIN made :
              IsMade(m, x) /\ \A j \in DOMAIN made : IsMade(j, x) => m =< j
        BY <2>1 DEF Recorded, HasFirsts
      <3>2. m \in DOMAIN made' /\ IsMade(m, x)' /\ m =< id
        BY <1>1, <1>2, <3>1
      <3>3. \A j \in DOMAIN made' : IsMade(j, x)' => m =< j
        BY <1>1, <1>2, <3>1, <3>2
      <3> QED BY <3>2, <3>3
    <2>2. CASE \A j \in DOMAIN made : ~IsMade(j, x)
      <3>1. \A j \in DOMAIN made' : IsMade(j, x)' => j = id
        BY <1>1, <1>2, <2>2
      <3>2. i = id /\ id =< id
        BY <1>2, <3>1
      <3> QED BY <3>1, <3>2
    <2> QED BY <2>1, <2>2
  <1>4. MadeSeq'
    BY DEF Grew, MadeSeq
  <1>5. MadeSeq' /\ HasFirsts' => FirstsRight'
    BY FirstsAreRight, PTL
  <1>6. ASSUME NEW x, NEW m, m = First(x)'
        PROVE  /\ m = 0 <=> \A j \in DOMAIN made' : ~IsMade(j, x)'
               /\ m # 0 => /\ m \in DOMAIN made' /\ IsMade(m, x)'
                           /\ \A j \in DOMAIN made' : IsMade(j, x)' => m =< j
    <2>1. FirstsRight'
      BY <1>3, <1>4, <1>5
    <2>2. First(x)' # 0 => \A i : i = First(x)' => IsMade(i, x)'
      BY <2>1 DEF FirstsRight, IsMade
    <2> QED BY <1>6, <2>1, <2>2 DEF FirstsRight
  <1>7. ASSUME NEW x, First(x) # 0 PROVE First(x)' = First(x)
    <2>0. PICK a, m : a = First(x) /\ m = First(x)'
      OBVIOUS
    <2>1. a \in DOMAIN made /\ IsMade(a, x) /\ \A j \in DOMAIN made : IsMade(j, x) => a =< j
      BY <1>7, <2>0, FirstIs
    <2>2. a \in DOMAIN made' /\ IsMade(a, x)' /\ a \in Nat /\ a < id
      BY <1>1, <1>2, <2>1
    <2>3. m # 0 /\ m \in DOMAIN made' /\ IsMade(m, x)' /\ m =< a
      BY <1>6, <2>0, <2>2
    <2>4. m \in DOMAIN made
      BY <1>2, <2>2, <2>3
    <2>5. a =< m /\ m \in Nat
      BY <1>1, <1>2, <2>1, <2>3, <2>4
    <2> QED BY <2>0, <2>2, <2>3, <2>5
  <1>8. ASSUME NEW x, First(x) = 0
        PROVE  First(x)' = IF Is(k, x) THEN id ELSE 0
    <2>0. PICK m : m = First(x)'
      OBVIOUS
    <2>1. \A j \in DOMAIN made' : IsMade(j, x)' => j = id
      BY <1>1, <1>2, <1>8, FirstIs
    <2>2. m # 0 => m = id /\ Is(k, x)
      BY <1>2, <1>6, <2>0, <2>1
    <2>3. Is(k, x) => m # 0
      BY <1>2, <1>6, <2>0
    <2> QED BY <2>0, <2>2, <2>3
  <1> QED BY <1>0, <1>3, <1>7, <1>8

LEMMA SeqIs ==
  ASSUME NEW S, NEW s \in Seq(S)
  PROVE  Len(s) \in Nat /\ DOMAIN s = 1 .. Len(s) /\ \A j \in 1 .. Len(s) : s[j] \in S
  OBVIOUS

LEMMA SeqIn ==
  ASSUME NEW S, NEW T, S \subseteq T, NEW s \in Seq(S) PROVE s \in Seq(T)
  OBVIOUS

LEMMA AppendIs ==
  ASSUME NEW S, NEW s \in Seq(S), NEW x \in S
  PROVE  /\ Append(s, x) \in Seq(S) /\ Len(Append(s, x)) = Len(s) + 1
         /\ DOMAIN Append(s, x) = 1 .. Len(s) + 1
         /\ Append(s, x)[Len(s) + 1] = x
         /\ \A j \in 1 .. Len(s) : Append(s, x)[j] = s[j]
  OBVIOUS

(* The maps, entry by entry.                                               *)
SysIs(n, k) == n \in Names /\ n.form = "/" /\ ~OfUser(n) /\ k.loader = "bs" /\ KeyOf(k) = n

MyIs(n, k) ==
  /\ n \in Names /\ n.form = "/" /\ OfUser(n) /\ (n.dim = 0 => n.base \notin AnonClasses)
  /\ k.loader = "my" /\ KeyOf(k) = n

StringIs(s, k) ==
  s \in Names /\ s = String(s.base) /\ k.loader = "string" /\ KeyOf(k) = Name(0, s.base)

AnonIs(k) == k.loader = "my" /\ k.dim = 0 /\ k.base \in AnonClasses

Listed(id, k) ==
  /\ k.loader = "bs" => /\ KeyOf(k) \in DOMAIN system_classmap
                        /\ system_classmap[KeyOf(k)] = id
  /\ k.loader = "my" =>
       IF k.dim = 0 /\ k.base \in AnonClasses
       THEN \E j \in DOMAIN anonymous_klassmap : anonymous_klassmap[j] = id
       ELSE KeyOf(k) \in DOMAIN classmap /\ classmap[KeyOf(k)] = id
  /\ k.loader = "string" => /\ String(k.base) \in DOMAIN string_table
                            /\ string_table[String(k.base)] =< id

MapsParts ==
  /\ made \in Seq(Records)
  /\ \A id \in DOMAIN made : \A k : k = made[id] => Listed(id, k)
  /\ \A n \in DOMAIN system_classmap :
       system_classmap[n] \in DOMAIN made /\ SysIs(n, made[system_classmap[n]])
  /\ \A n \in DOMAIN classmap : classmap[n] \in DOMAIN made /\ MyIs(n, made[classmap[n]])
  /\ \A s \in DOMAIN string_table :
       string_table[s] \in DOMAIN made /\ StringIs(s, made[string_table[s]])
  /\ anonymous_klassmap \in Seq(DOMAIN made)
  /\ \A j \in DOMAIN anonymous_klassmap :
       /\ AnonIs(made[anonymous_klassmap[j]])
       /\ \A i \in 1 .. j - 1 : anonymous_klassmap[i] < anonymous_klassmap[j]
  /\ {Name(0, "Object"), Name(0, "String")} \subseteq DOMAIN system_classmap
  /\ Name(0, Self) \in DOMAIN classmap

LEMMA MapsAre == MapsOK <=> MapsParts
  <1>1. (\A id \in DOMAIN made :
           LET k == made[id] IN
           /\ k.loader = "bs" => /\ KeyOf(k) \in DOMAIN system_classmap
                                 /\ system_classmap[KeyOf(k)] = id
           /\ k.loader = "my" =>
                IF k.dim = 0 /\ k.base \in AnonClasses
                THEN \E j \in DOMAIN anonymous_klassmap : anonymous_klassmap[j] = id
                ELSE KeyOf(k) \in DOMAIN classmap /\ classmap[KeyOf(k)] = id
           /\ k.loader = "string" => /\ String(k.base) \in DOMAIN string_table
                                     /\ string_table[String(k.base)] =< id)
        <=> \A id \in DOMAIN made : \A k : k = made[id] => Listed(id, k)
    BY DEF Listed
  <1>2. (\A n \in DOMAIN system_classmap :
           /\ n \in Names /\ n.form = "/" /\ ~OfUser(n)
           /\ system_classmap[n] \in DOMAIN made
           /\ made[system_classmap[n]].loader = "bs"
           /\ KeyOf(made[system_classmap[n]]) = n)
        <=> \A n \in DOMAIN system_classmap :
              system_classmap[n] \in DOMAIN made /\ SysIs(n, made[system_classmap[n]])
    BY DEF SysIs
  <1>3. (\A n \in DOMAIN classmap :
           /\ n \in Names /\ n.form = "/" /\ OfUser(n)
           /\ n.dim = 0 => n.base \notin AnonClasses
           /\ classmap[n] \in DOMAIN made
           /\ made[classmap[n]].loader = "my"
           /\ KeyOf(made[classmap[n]]) = n)
        <=> \A n \in DOMAIN classmap :
              classmap[n] \in DOMAIN made /\ MyIs(n, made[classmap[n]])
    BY DEF MyIs
  <1>4. (\A s \in DOMAIN string_table :
           /\ s \in Names /\ s = String(s.base)
           /\ string_table[s] \in DOMAIN made
           /\ made[string_table[s]].loader = "string"
           /\ KeyOf(made[string_table[s]]) = Name(0, s.base))
        <=> \A s \in DOMAIN string_table :
              string_table[s] \in DOMAIN made /\ StringIs(s, made[string_table[s]])
    BY DEF StringIs
  <1>5. (\A j \in DOMAIN anonymous_klassmap :
           LET k == made[anonymous_klassmap[j]] IN
           /\ k.loader = "my" /\ k.dim = 0 /\ k.base \in AnonClasses
           /\ \A i \in 1 .. j - 1 : anonymous_klassmap[i] < anonymous_klassmap[j])
        <=> \A j \in DOMAIN anonymous_klassmap :
              /\ AnonIs(made[anonymous_klassmap[j]])
              /\ \A i \in 1 .. j - 1 : anonymous_klassmap[i] < anonymous_klassmap[j]
    BY DEF AnonIs
  <1> QED BY <1>1, <1>2, <1>3, <1>4, <1>5, Zenon DEF MapsOK, MapsParts, Records

LEMMA KindIs ==
  ASSUME NEW k, NEW q, q.base = k.base, q.dim = k.dim, q.loader = k.loader
  PROVE  /\ \A n : (SysIs(n, k) => SysIs(n, q)) /\ (MyIs(n, k) => MyIs(n, q))
                     /\ (StringIs(n, k) => StringIs(n, q))
         /\ AnonIs(k) => AnonIs(q)
  BY DEF SysIs, MyIs, StringIs, AnonIs, KeyOf

(* A map gets at most the new identity.                                    *)
Extended(old, new, id) ==
  /\ DOMAIN old \subseteq DOMAIN new
  /\ \A m \in DOMAIN old : new[m] = old[m]
  /\ \A m \in DOMAIN new : m \in DOMAIN old \/ new[m] = id

LEMMA MapsGrow ==
  ASSUME MapsOK, NEW k, Grew(k), NEW id, id = Len(made) + 1,
         Extended(system_classmap, system_classmap', id),
         \A m \in DOMAIN system_classmap' : m \in DOMAIN system_classmap \/ SysIs(m, k),
         Extended(classmap, classmap', id),
         \A m \in DOMAIN classmap' : m \in DOMAIN classmap \/ MyIs(m, k),
         Extended(string_table, string_table', id),
         \A m \in DOMAIN string_table' : m \in DOMAIN string_table \/ StringIs(m, k),
         \/ anonymous_klassmap' = anonymous_klassmap
         \/ AnonIs(k) /\ anonymous_klassmap' = Append(anonymous_klassmap, id),
         Listed(id, k)'
  PROVE  MapsOK'
  <1>1. MapsParts
    BY MapsAre
  <1>2. /\ made' \in Seq(Records) /\ made'[id] = k /\ id \in DOMAIN made'
        /\ \A j \in DOMAIN made' : j \in DOMAIN made \/ j = id
        /\ \A j \in DOMAIN made : j \in DOMAIN made' /\ j \in Nat /\ j < id
        /\ \A j \in DOMAIN made :
             /\ made'[j].base = made[j].base /\ made'[j].dim = made[j].dim
             /\ made'[j].loader = made[j].loader
    BY DEF Grew
  <1>3. ASSUME NEW j \in DOMAIN made
        PROVE  /\ \A n : (SysIs(n, made[j]) => SysIs(n, made'[j]))
                           /\ (MyIs(n, made[j]) => MyIs(n, made'[j]))
                           /\ (StringIs(n, made[j]) => StringIs(n, made'[j]))
               /\ AnonIs(made[j]) => AnonIs(made'[j])
    BY <1>2, KindIs
  <1>4. ASSUME NEW m \in DOMAIN system_classmap'
        PROVE  system_classmap'[m] \in DOMAIN made' /\ SysIs(m, made'[system_classmap'[m]])
    <2>1. CASE m \in DOMAIN system_classmap
      <3>1. system_classmap[m] \in DOMAIN made /\ SysIs(m, made[system_classmap[m]])
        BY <1>1, <2>1 DEF MapsParts
      <3> QED BY <1>2, <1>3, <2>1, <3>1 DEF Extended
    <2>2. CASE m \notin DOMAIN system_classmap
      BY <1>2, <2>2 DEF Extended
    <2> QED BY <2>1, <2>2
  <1>5. ASSUME NEW m \in DOMAIN classmap'
        PROVE  classmap'[m] \in DOMAIN made' /\ MyIs(m, made'[classmap'[m]])
    <2>1. CASE m \in DOMAIN classmap
      <3>1. classmap[m] \in DOMAIN made /\ MyIs(m, made[classmap[m]])
        BY <1>1, <2>1 DEF MapsParts
      <3> QED BY <1>2, <1>3, <2>1, <3>1 DEF Extended
    <2>2. CASE m \notin DOMAIN classmap
      BY <1>2, <2>2 DEF Extended
    <2> QED BY <2>1, <2>2
  <1>6. ASSUME NEW m \in DOMAIN string_table'
        PROVE  string_table'[m] \in DOMAIN made' /\ StringIs(m, made'[string_table'[m]])
    <2>1. CASE m \in DOMAIN string_table
      <3>1. string_table[m] \in DOMAIN made /\ StringIs(m, made[string_table[m]])
        BY <1>1, <2>1 DEF MapsParts
      <3> QED BY <1>2, <1>3, <2>1, <3>1 DEF Extended
    <2>2. CASE m \notin DOMAIN string_table
      BY <1>2, <2>2 DEF Extended
    <2> QED BY <2>1, <2>2
  <1>7. PICK anons : anons = anonymous_klassmap
    OBVIOUS
  <1>8. /\ anons \in Seq(DOMAIN made) /\ anons \in Seq(DOMAIN made') /\ Len(anons) \in Nat
        /\ DOMAIN anons = 1 .. Len(anons)
        /\ \A j \in 1 .. Len(anons) : anons[j] \in DOMAIN made /\ AnonIs(made[anons[j]])
             /\ \A i \in 1 .. j - 1 : anons[i] < anons[j]
    <2>1. anons \in Seq(DOMAIN made) /\ \A j \in DOMAIN anons :
             AnonIs(made[anons[j]]) /\ \A i \in 1 .. j - 1 : anons[i] < anons[j]
      BY <1>1, <1>7 DEF MapsParts
    <2>2. Len(anons) \in Nat /\ DOMAIN anons = 1 .. Len(anons)
          /\ \A j \in 1 .. Len(anons) : anons[j] \in DOMAIN made
      BY <2>1, SeqIs
    <2>3. DOMAIN made \subseteq DOMAIN made'
      BY <1>2
    <2>4. anons \in Seq(DOMAIN made')
      BY <2>1, <2>3, SeqIn
    <2> QED BY <2>1, <2>2, <2>4
  <1>9. PICK newer : newer = anonymous_klassmap'
    OBVIOUS
  <1>10. /\ newer \in Seq(DOMAIN made')
         /\ \A j \in DOMAIN newer : AnonIs(made'[newer[j]]) /\ \A i \in 1 .. j - 1 : newer[i] < newer[j]
         /\ \A j \in DOMAIN anons : j \in DOMAIN newer /\ newer[j] = anons[j]
    <2>1. CASE newer = anons
      BY <1>3, <1>8, <2>1
    <2>2. CASE AnonIs(k) /\ newer = Append(anons, id)
      <3>0. PICK n : n = Len(anons)
        OBVIOUS
      <3>1. /\ newer \in Seq(DOMAIN made') /\ Len(newer) = n + 1 /\ DOMAIN newer = 1 .. n + 1
            /\ newer[n + 1] = id /\ \A j \in 1 .. n : newer[j] = anons[j]
        BY <1>2, <1>8, <2>2, <3>0, AppendIs
      <3>2. n \in Nat
        BY <1>8, <3>0
      <3>3. \A j \in 1 .. n : j \in 1 .. n + 1 /\ \A i \in 1 .. j - 1 : i \in 1 .. n
        BY ONLY <3>2
      <3>4. \A i \in 1 .. n + 1 - 1 : i \in 1 .. n
        BY ONLY <3>2
      <3>5. \A j \in 1 .. n + 1 : j \in 1 .. n \/ j = n + 1
        BY ONLY <3>2
      <3>6. ASSUME NEW j \in 1 .. n + 1
            PROVE  AnonIs(made'[newer[j]]) /\ \A i \in 1 .. j - 1 : newer[i] < newer[j]
        <4>1. CASE j \in 1 .. n
          <5>1. newer[j] = anons[j] /\ \A i \in 1 .. j - 1 : newer[i] = anons[i]
            BY <3>1, <3>3, <4>1
          <5> QED BY <1>3, <1>8, <3>0, <4>1, <5>1
        <4>2. CASE j = n + 1
          <5>1. AnonIs(made'[newer[j]])
            BY <1>2, <2>2, <3>1, <4>2
          <5>2. ASSUME NEW i \in 1 .. j - 1 PROVE newer[i] < newer[j]
            <6>0. j - 1 = n
              BY <3>2, <4>2
            <6>1. i \in 1 .. n
              BY <6>0
            <6>2. newer[i] \in DOMAIN made
              BY <1>8, <3>0, <3>1, <6>1
            <6> QED BY <1>2, <3>1, <4>2, <6>2
          <5> QED BY <5>1, <5>2
        <4> QED BY <3>5, <4>1, <4>2
      <3> QED BY <1>8, <3>0, <3>1, <3>3, <3>6
    <2> QED BY <1>7, <1>9, <2>1, <2>2
  <1>11. ASSUME NEW j \in DOMAIN made', NEW q, q = made'[j] PROVE Listed(j, q)'
    <2>1. CASE j = id
      BY <1>2, <1>11, <2>1
    <2>2. CASE j \in DOMAIN made
      <3>1. Listed(j, made[j])
        BY <1>1, <2>2 DEF MapsParts
      <3>2. q.base = made[j].base /\ q.dim = made[j].dim /\ q.loader = made[j].loader
            /\ KeyOf(q) = KeyOf(made[j])
        BY <1>2, <1>11, <2>2 DEF KeyOf
      <3>3. Listed(j, q)
        BY <3>1, <3>2 DEF Listed
      <3>4. (\E i \in DOMAIN anonymous_klassmap : anonymous_klassmap[i] = j) =>
              \E i \in DOMAIN anonymous_klassmap' : anonymous_klassmap'[i] = j
        BY <1>7, <1>9, <1>10
      <3> QED BY <3>3, <3>4 DEF Listed, Extended
    <2> QED BY <1>2, <2>1, <2>2
  <1>12. {Name(0, "Object"), Name(0, "String")} \subseteq DOMAIN system_classmap'
         /\ Name(0, Self) \in DOMAIN classmap'
    BY <1>1 DEF MapsParts, Extended
  <1>14. \A n, q : (SysIs(n, q)' <=> SysIs(n, q)) /\ (MyIs(n, q)' <=> MyIs(n, q))
            /\ (StringIs(n, q)' <=> StringIs(n, q)) /\ (AnonIs(q)' <=> AnonIs(q))
    BY DEF SysIs, MyIs, StringIs, AnonIs, OfUser, KeyOf
  <1>15. MapsParts'
    BY <1>2, <1>4, <1>5, <1>6, <1>9, <1>10, <1>11, <1>12, <1>14 DEF MapsParts
  <1>16. MapsOK' <=> MapsParts'
    BY MapsAre, PTL
  <1> QED BY <1>15, <1>16

-----------------------------------------------------------------------------
(* A class that is complete: nobody else is loading it.                    *)
Ready(n) == \A x \in NeedsOf(n) : First(x) # 0

LEMMA NeedsAre ==
  ASSUME NEW n \in Names, n.form = "/", n.dim = 0 => n.base \in Classes, NEW x \in NeedsOf(n)
  PROVE  /\ x \in Names /\ x.form = "/"
         /\ ~OfUser(n) => ~OfUser(x)
  <1>1. CASE n.dim = 0
    <2>1. PICK k \in DOMAIN Supers[n.base] : x = Name(0, Supers[n.base][k])
      BY <1>1 DEF NeedsOf
    <2>2. Supers[n.base][k] \in Classes
          /\ (n.base \in SystemClasses => Supers[n.base][k] \in SystemClasses)
      BY <1>1, <2>1, SupersAre
    <2> QED BY <1>1, <2>1, <2>2, NamesAre DEF OfUser
  <1>2. CASE n.dim # 0
    <2>0. n.dim \in Nat \ {0}
      BY <1>2 DEF Names
    <2>1. CASE x = Name(0, "Object")
      BY <2>1, NamesAre DEF OfUser
    <2>2. CASE x = ElementOf(n)
      BY <2>2 DEF ElementOf, Names, OfUser
    <2>3. CASE x = LowerOf("bs", n)
      <3>1. x = [dim |-> n.dim - 1, base |-> n.base, form |-> "/"] /\ n.dim - 1 \in Nat
        BY <2>0, <2>3 DEF LowerOf, Named
      <3> QED BY <3>1 DEF Names, OfUser
    <2> QED BY <1>2, <2>1, <2>2, <2>3 DEF NeedsOf
  <1> QED BY <1>1, <1>2

(* What a call waits for is one of the needs of its class.                 *)
LEMMA CalleeNeeded ==
  ASSUME NEW g, LoadOK(g), Waits(g), g.proc \in {"bs", "my"}, g.pc \in Pending,
         g.name.form = "/", g.pc = "lower" => g.proc = "bs"
  PROVE  Callee(g)[2] \in NeedsOf(g.name)
  <1> DEFINE n == g.name
  <1>0. n.form # "string" /\ n.dim \in Nat
    BY DEF LoadOK, Names
  <1>1. CASE g.pc = "supers"
    <2>1. n.dim = 0 /\ n.base \in Classes /\ g.at \in 1 .. Len(Supers[n.base]) + 1 /\ g.at > 1
      BY <1>1 DEF LoadOK, Waits
    <2>2. g.at - 1 \in DOMAIN Supers[n.base]
      BY <2>1, SupersAre
    <2>3. Callee(g)[2] = Name(0, Supers[n.base][g.at - 1])
      BY <1>1 DEF Callee
    <2> QED BY <1>0, <2>1, <2>2, <2>3 DEF NeedsOf
  <1>2. CASE g.pc = "element"
    BY <1>0, <1>2 DEF LoadOK, Callee, NeedsOf
  <1>3. CASE g.pc = "lower"
    <2>1. n.dim > 1 /\ n.dim # 0
      BY <1>0, <1>3 DEF LoadOK
    <2> QED BY <1>0, <1>3, <2>1 DEF Callee, NeedsOf
  <1>4. CASE g.pc = "object"
    BY <1>0, <1>4 DEF LoadOK, Callee, NeedsOf
  <1> QED BY <1>1, <1>2, <1>3, <1>4 DEF Pending

LEMMA PendingAbsent ==
  ASSUME Recorded, NEW f, f.proc \in {"bs", "my"}, LoadOK(f), f.pc \in Pending,
         f.name.form = "/", f.proc = "bs" => ~OfUser(f.name)
  PROVE  First(f.name) = 0
  <1> DEFINE n == f.name
  <1>1. n \in Names
    BY DEF LoadOK
  <1>2. CASE f.proc = "bs"
    <2>1. n \notin DOMAIN system_classmap
      BY <1>2 DEF LoadOK
    <2>2. n \notin DOMAIN classmap
      BY <1>2, InUser
    <2>3. n.dim = 0 => n.base \notin AnonClasses
      BY <1>2, LoadersAssumption DEF OfUser, Classes
    <2> QED BY <1>1, <2>1, <2>2, <2>3, NotMade
  <1>3. CASE f.proc = "my"
    <2>1. OfUser(n) /\ n \notin DOMAIN classmap /\ (n.dim = 0 => n.base \notin AnonClasses)
      BY <1>3 DEF LoadOK
    <2>2. n \notin DOMAIN system_classmap
      BY <2>1, InSystem
    <2> QED BY <1>1, <2>1, <2>2, NotMade
  <1> QED BY <1>2, <1>3

LEMMA NoOther ==
  ASSUME IInv, NEW t \in Threads, stack[t] # <<>>, NEW s, s = stack[t],
         NEW f, f = Top(t), f.proc \in {"bs", "my"}, f.pc \in {"supers", "object"},
         f.name.form = "/", Ready(f.name),
         NEW i \in 1 .. Len(s) - 1, s[i].proc = f.proc, s[i].pc \in Pending
  PROVE  s[i].name # f.name
  <1> SUFFICES ASSUME s[i].name = f.name PROVE FALSE
    OBVIOUS
  <1>1. TypesOK /\ StackOK(t) /\ Recorded
    BY InvIs
  <1>2. /\ s \in Seq(Frames) /\ Len(s) \in Nat \ {0} /\ f = s[Len(s)] /\ BootAbove(s)
        /\ \A j \in 1 .. Len(s) : FrameOK(s[j])
        /\ \A j \in 1 .. Len(s) - 1 :
             Waits(s[j]) /\ Callee(s[j]) = <<s[j + 1].proc, s[j + 1].name>>
    BY <1>1, StackIs, TopIs
  <1>3. i \in 1 .. Len(s) /\ i + 1 \in 1 .. Len(s) /\ Len(s) \in 1 .. Len(s)
        /\ (i + 1 = Len(s) \/ i + 1 \in 1 .. Len(s) - 1) /\ i < Len(s)
    BY <1>2
  <1>4. PICK g, h, n : g = s[i] /\ h = s[i + 1] /\ n = f.name
    OBVIOUS
  <1>5. LoadOK(f) /\ LoadOK(g) /\ Waits(g) /\ Callee(g) = <<h.proc, h.name>> /\ FrameOK(h)
    BY <1>2, <1>3, <1>4 DEF FrameOK
  <1>6. n \in Names /\ n.form = "/" /\ (n.dim = 0 => n.base \in Classes) /\ n.dim \in Nat
        /\ (f.proc = "bs" => ~OfUser(n))
    BY <1>4, <1>5 DEF LoadOK, Names, Pending
  <1>7. g.pc = "lower" => g.proc = "bs"
    <2>1. f.pc = "supers" => n.dim = 0
      BY <1>4, <1>5 DEF LoadOK
    <2>2. g.pc = "lower" => n.dim > 1
      BY <1>4, <1>5 DEF LoadOK
    <2>3. f.pc = "object" /\ n.dim > 1 => f.proc = "bs"
      BY <1>4, <1>5 DEF LoadOK
    <2> QED BY <1>4, <1>6, <2>1, <2>2, <2>3
  <1>8. h.name \in NeedsOf(n)
    BY <1>4, <1>5, <1>6, <1>7, CalleeNeeded
  <1>9. First(h.name) # 0 /\ h.name.form = "/" /\ (f.proc = "bs" => ~OfUser(h.name))
    BY <1>4, <1>6, <1>8, NeedsAre DEF Ready
  <1>10. h.proc \in {f.proc, "bs"}
    BY <1>4, <1>5 DEF Callee, Pending
  <1>11. CASE i + 1 = Len(s)
    <2>1. First(n) = 0
      BY <1>1, <1>4, <1>5, <1>6, PendingAbsent DEF Pending
    <2> QED BY <1>2, <1>4, <1>9, <1>11, <2>1
  <1>12. CASE i + 1 \in 1 .. Len(s) - 1
    <2>1. Waits(h) /\ Callee(h) = <<s[i + 1 + 1].proc, s[i + 1 + 1].name>>
      BY <1>2, <1>4, <1>12
    <2>2. h.proc = "bs" => f.proc = "bs"
      <3>1. i + 1 < Len(s)
        BY <1>2, <1>12
      <3> QED BY <1>2, <1>3, <1>4, <3>1 DEF BootAbove
    <2>3. h.proc = f.proc /\ LoadOK(h)
      BY <1>5, <1>10, <2>2 DEF FrameOK
    <2>4. h.pc \in Pending
      <3>1. h.pc # "asked"
        <4> SUFFICES ASSUME h.pc = "asked" PROVE FALSE
          OBVIOUS
        <4>1. s[i + 1 + 1].proc = "bs"
          BY <2>1 DEF Callee
        <4>2. i + 1 + 1 \in 1 .. Len(s) /\ (i + 1 + 1 = Len(s) \/ i + 1 + 1 < Len(s))
          BY <1>2, <1>12
        <4>3. f.proc = "bs"
          BY <1>2, <1>3, <4>1, <4>2 DEF BootAbove
        <4> QED BY <2>3, <4>3 DEF LoadOK, Pending
      <3> QED BY <2>1, <2>3, <3>1 DEF LoadOK, Waits, Pending
    <2>5. First(h.name) = 0
      BY <1>1, <1>9, <2>3, <2>4, PendingAbsent
    <2> QED BY <1>9, <2>5
  <1> QED BY <1>3, <1>11, <1>12

(* A call that has made something returns it.                              *)
LEMMA MadeInv ==
  ASSUME IInv, NEW t \in Threads, stack[t] # <<>>, Top(t).pc # "lock", NEW v \in Nat,
         Leave(t, v), Recorded', Grown,
         \A i \in 1 .. Len(stack[t]) - 1 : \A g : g = stack[t][i] => Absent(g)',
         \A u \in Threads \ {t} : \A i \in DOMAIN stack[u] : \A g : g = stack[u][i] => Absent(g)',
         \A f : f = Top(t) =>
           /\ f.proc \in {"my", "bs", "findboot", "find", "intern"} => Given("my", f.name, v)'
           /\ f.proc = "bs" => Given("bs", f.name, v)'
           /\ f.proc \in {"bs", "findboot"} /\ v = 0 => OfUser(f.name)
           /\ f.proc = "find" => v # 0
           /\ f.proc = "pool" => Given("my", EntryName(f.name), v)'
  PROVE  IInv'
  <1>1. TypesOK /\ LocksOK /\ PoolOK /\ StackOK(t) /\ RequestOK(t)
    BY InvIs
  <1>2. \A i \in 1 .. Len(stack[t]) - 1 : \A f : f = stack[t][i] => FrameOK(f)'
    <2>1. \A i \in 1 .. Len(stack[t]) - 1 : i \in 1 .. Len(stack[t])
      BY <1>1, TopIs
    <2>2. \A i \in 1 .. Len(stack[t]) - 1 : FrameOK(stack[t][i])
      BY <1>1, <2>1, StackIs
    <2> QED BY <2>2, FrameStays
  <1>3. TypesOK' /\ LocksOK' /\ StackOK(t)' /\ RequestOK(t)'
    BY <1>1, <1>2, LeaveKeeps
  <1>4. \A u \in Threads \ {t} :
           stack'[u] = stack[u] /\ ret'[u] = ret[u] /\ request'[u] = request[u]
    BY <1>1 DEF Leave, TypesOK, asks
  <1>5. ASSUME NEW u \in Threads \ {t} PROVE StackOK(u)' /\ RequestOK(u)'
    <2>1. StackOK(u) /\ RequestOK(u) /\ TypesOK
      BY InvIs
    <2>2. \A i \in DOMAIN stack[u] : \A f : f = stack[u][i] => FrameOK(f)'
      <3>1. \A i \in DOMAIN stack[u] : FrameOK(stack[u][i])
        BY <2>1 DEF StackOK
      <3> QED BY <1>5, <3>1, FrameStays
    <2>3. \A proc, n, id : Given(proc, n, id) => Given(proc, n, id)'
      BY GivenStays
    <2>4. StackOK(u)'
      BY <1>4, <2>1, <2>2, <2>3, OtherStack
    <2>5. RequestOK(u)'
      BY <1>4, <2>1, <2>3, OtherRequest
    <2> QED BY <2>4, <2>5
  <1>6. PoolOK'
    <2>1. pool' = pool
      BY DEF Leave
    <2>2. ASSUME NEW e \in Entries PROVE pool[e].second = 0 \/ pool[e].second = First(EntryName(e))'
      <3>1. pool[e].second = 0 \/ pool[e].second = First(EntryName(e))
        BY <1>1 DEF PoolOK
      <3>2. First(EntryName(e)) # 0 => First(EntryName(e))' = First(EntryName(e))
        BY DEF Grown
      <3> QED BY <3>1, <3>2
    <2> QED BY <1>1, <2>1, <2>2 DEF PoolOK
  <1> QED BY <1>3, <1>5, <1>6 DEF IInv, TableInv, Recorded

(* A class as it is made by one of the loaders.                            *)
Class(n, loader) == [base |-> n.base, dim |-> n.dim, loader |-> loader, higher |-> 0]

(* What is known of a class that goes into a map.                          *)
LEMMA InsertGrew ==
  ASSUME IInv, NEW t \in Threads, stack[t] # <<>>,
         Top(t).proc \in {"bs", "my"}, Top(t).pc \in {"supers", "object"},
         NEW others \in Seq(Records), Len(others) = Len(made),
         \A j \in DOMAIN made :
           /\ others[j].base = made[j].base /\ others[j].dim = made[j].dim
           /\ others[j].loader = made[j].loader,
         Insert(t, others), NEW f, f = Top(t), NEW n, n = f.name, NEW id, id = Len(made) + 1
  PROVE  /\ LoadOK(f) /\ n \in Names /\ n.form \in {"/", "anonymous"} /\ n.dim \in Nat
         /\ n.form = "anonymous" => f.proc = "my" /\ n.dim = 0 /\ n.base \in AnonClasses
         /\ f.proc = "my" /\ n.form = "/" => (n.dim = 0 => n.base \notin AnonClasses)
         /\ f.proc = "bs" <=> ~OfUser(n)
         /\ n.form = "/" => First(n) = 0
         /\ Grew(Class(n, f.proc))
         /\ id \in Nat \ {0}
         /\ f.proc = "bs" => /\ system_classmap' = With(system_classmap, n, id)
                             /\ n \notin DOMAIN system_classmap
                             /\ UNCHANGED <<classmap, anonymous_klassmap>>
         /\ f.proc = "my" /\ n.form = "/" =>
              /\ classmap' = With(classmap, n, id) /\ n \notin DOMAIN classmap
              /\ UNCHANGED <<system_classmap, anonymous_klassmap>>
         /\ n.form = "anonymous" =>
              /\ anonymous_klassmap' = Append(anonymous_klassmap, id)
              /\ UNCHANGED <<system_classmap, classmap>>
         /\ UNCHANGED string_table /\ Leave(t, id)
  <1>1. LoadOK(f) /\ Recorded /\ MapsOK
    BY TopOK, InvIs DEF FrameOK
  <1>2. /\ n \in Names /\ n.form \in {"/", "anonymous"} /\ n.dim \in Nat /\ n.base \in Bases
        /\ n.form = "anonymous" => f.proc = "my" /\ n.dim = 0 /\ n.base \in AnonClasses
        /\ f.proc = "my" /\ n.form = "/" => (n.dim = 0 => n.base \notin AnonClasses)
        /\ f.proc = "bs" <=> ~OfUser(n)
        /\ f.proc = "bs" => n \notin DOMAIN system_classmap
        /\ f.proc = "my" /\ n.form = "/" => n \notin DOMAIN classmap
    BY <1>1 DEF LoadOK, Names, Pending
  <1>3. n.form = "/" => First(n) = 0
    BY <1>1, <1>2, PendingAbsent DEF Pending
  <1>4. Class(n, f.proc) \in Records
    BY <1>2 DEF Class, Records
  <1>5. made' = Append(others, Class(n, f.proc))
    BY DEF Insert, Class
  <1>6. Grew(Class(n, f.proc))
    BY <1>1, <1>4, <1>5, MadeGrew
  <1>7. id \in Nat \ {0}
    BY <1>6 DEF Grew
  <1>8. /\ f.proc = "bs" => /\ system_classmap' = With(system_classmap, n, id)
                            /\ UNCHANGED <<classmap, anonymous_klassmap>>
        /\ f.proc = "my" /\ n.form = "/" =>
              /\ classmap' = With(classmap, n, id)
              /\ UNCHANGED <<system_classmap, anonymous_klassmap>>
        /\ n.form = "anonymous" =>
              /\ anonymous_klassmap' = Append(anonymous_klassmap, id)
              /\ UNCHANGED <<system_classmap, classmap>>
        /\ UNCHANGED string_table /\ Leave(t, id)
    BY <1>2 DEF Insert
  <1> QED BY <1>1, <1>2, <1>3, <1>6, <1>7, <1>8

LEMMA WithIs ==
  ASSUME NEW old, NEW n, NEW id
  PROVE  /\ DOMAIN With(old, n, id) = DOMAIN old \union {n}
         /\ \A k \in DOMAIN old : With(old, n, id)[k] = old[k]
         /\ n \notin DOMAIN old => With(old, n, id)[n] = id
  BY DEF With

LEMMA InsertMaps ==
  ASSUME IInv, NEW n \in Names, NEW loader \in {"bs", "my"}, NEW id, id = Len(made) + 1,
         n.form \in {"/", "anonymous"}, Grew(Class(n, loader)),
         n.form = "anonymous" => loader = "my" /\ n.dim = 0 /\ n.base \in AnonClasses,
         loader = "my" /\ n.form = "/" => (n.dim = 0 => n.base \notin AnonClasses),
         loader = "bs" <=> ~OfUser(n),
         loader = "bs" => /\ system_classmap' = With(system_classmap, n, id)
                          /\ n \notin DOMAIN system_classmap
                          /\ UNCHANGED <<classmap, anonymous_klassmap>>,
         loader = "my" /\ n.form = "/" =>
           /\ classmap' = With(classmap, n, id) /\ n \notin DOMAIN classmap
           /\ UNCHANGED <<system_classmap, anonymous_klassmap>>,
         n.form = "anonymous" =>
           /\ anonymous_klassmap' = Append(anonymous_klassmap, id)
           /\ UNCHANGED <<system_classmap, classmap>>,
         UNCHANGED string_table
  PROVE  MapsOK'
  <1>0. PICK k : k = Class(n, loader)
    OBVIOUS
  <1>1. MapsOK /\ Grew(k)
    BY <1>0 DEF IInv, TableInv
  <1>2. k.base = n.base /\ k.dim = n.dim /\ k.loader = loader
        /\ (n.form = "/" => KeyOf(k) = n)
    BY <1>0, NameIs DEF Class, KeyOf
  <1>3. \A old : Extended(old, old, id)
    BY DEF Extended
  <1>4. ASSUME NEW old, n \notin DOMAIN old
        PROVE  /\ Extended(old, With(old, n, id), id)
               /\ \A m \in DOMAIN With(old, n, id) : m \in DOMAIN old \/ m = n
               /\ n \in DOMAIN With(old, n, id) /\ With(old, n, id)[n] = id
    <2>1. /\ DOMAIN With(old, n, id) = DOMAIN old \union {n}
          /\ \A q \in DOMAIN old : With(old, n, id)[q] = old[q]
          /\ With(old, n, id)[n] = id
      BY ONLY <1>4, WithIs
    <2> QED BY <2>1 DEF Extended
  <1>5. Extended(string_table, string_table', id)
        /\ \A m \in DOMAIN string_table' : m \in DOMAIN string_table
    BY <1>3
  <1>6. CASE loader = "bs"
    <2>1. n.form = "/" /\ ~OfUser(n)
      BY <1>6
    <2>2. /\ Extended(system_classmap, system_classmap', id)
          /\ \A m \in DOMAIN system_classmap' : m \in DOMAIN system_classmap \/ m = n
          /\ n \in DOMAIN system_classmap' /\ system_classmap'[n] = id
      BY <1>4, <1>6
    <2>3. classmap' = classmap /\ anonymous_klassmap' = anonymous_klassmap
          /\ Extended(classmap, classmap', id)
      BY <1>3, <1>6
    <2>4. SysIs(n, k)
      BY <1>2, <1>6, <2>1 DEF SysIs
    <2>5. Listed(id, k)'
      BY <1>2, <1>6, <2>1, <2>2 DEF Listed, KeyOf
    <2>6. \A m \in DOMAIN system_classmap' : m \in DOMAIN system_classmap \/ SysIs(m, k)
      BY <2>2, <2>4
    <2>7. \A m \in DOMAIN classmap' : m \in DOMAIN classmap
      BY <2>3
    <2> QED BY <1>1, <1>5, <2>2, <2>3, <2>5, <2>6, <2>7, MapsGrow
  <1>7. CASE loader = "my" /\ n.form = "/"
    <2>1. OfUser(n) /\ (n.dim = 0 => n.base \notin AnonClasses)
      BY <1>7
    <2>2. /\ Extended(classmap, classmap', id)
          /\ \A m \in DOMAIN classmap' : m \in DOMAIN classmap \/ m = n
          /\ n \in DOMAIN classmap' /\ classmap'[n] = id
      BY <1>4, <1>7
    <2>3. system_classmap' = system_classmap /\ anonymous_klassmap' = anonymous_klassmap
          /\ Extended(system_classmap, system_classmap', id)
      BY <1>3, <1>7
    <2>4. MyIs(n, k)
      BY <1>2, <1>7, <2>1 DEF MyIs
    <2>5. Listed(id, k)'
      BY <1>2, <1>7, <2>1, <2>2 DEF Listed, KeyOf
    <2>6. \A m \in DOMAIN classmap' : m \in DOMAIN classmap \/ MyIs(m, k)
      BY <2>2, <2>4
    <2>7. \A m \in DOMAIN system_classmap' : m \in DOMAIN system_classmap
      BY <2>3
    <2> QED BY <1>1, <1>5, <2>2, <2>3, <2>5, <2>6, <2>7, MapsGrow
  <1>8. CASE n.form = "anonymous"
    <2>1. AnonIs(k) /\ loader = "my" /\ k.dim = 0 /\ k.base \in AnonClasses
      BY <1>2, <1>8 DEF AnonIs
    <2>2. system_classmap' = system_classmap /\ classmap' = classmap
          /\ anonymous_klassmap' = Append(anonymous_klassmap, id)
      BY <1>8
    <2>3. Extended(system_classmap, system_classmap', id) /\ Extended(classmap, classmap', id)
          /\ (\A m \in DOMAIN system_classmap' : m \in DOMAIN system_classmap)
          /\ \A m \in DOMAIN classmap' : m \in DOMAIN classmap
      BY <1>3, <2>2
    <2>4. \E j \in DOMAIN anonymous_klassmap' : anonymous_klassmap'[j] = id
      <3>1. PICK D : D = DOMAIN made \union {id}
        OBVIOUS
      <3>2. anonymous_klassmap \in Seq(D) /\ id \in D
        <4>1. anonymous_klassmap \in Seq(DOMAIN made)
          BY <1>1 DEF MapsOK
        <4>2. DOMAIN made \subseteq D /\ id \in D
          BY <3>1
        <4> QED BY <4>1, <4>2, SeqIn
      <3>3. Len(anonymous_klassmap) + 1 \in DOMAIN anonymous_klassmap'
            /\ anonymous_klassmap'[Len(anonymous_klassmap) + 1] = id
        <4>1. Len(anonymous_klassmap) \in Nat
          BY <3>2
        <4>2. DOMAIN anonymous_klassmap' = 1 .. Len(anonymous_klassmap) + 1
              /\ anonymous_klassmap'[Len(anonymous_klassmap) + 1] = id
          BY <2>2, <3>2, AppendIs
        <4> QED BY <4>1, <4>2
      <3> QED BY <3>3
    <2>5. Listed(id, k)'
      BY <1>2, <2>1, <2>4 DEF Listed
    <2> QED BY <1>1, <1>5, <2>1, <2>2, <2>3, <2>5, MapsGrow
  <1> QED BY <1>6, <1>7, <1>8

LEMMA LastIs ==
  ASSUME MapsOK, NEW k, Grew(k), NEW id, id = Len(made) + 1
  PROVE  /\ id \in DOMAIN made' /\ made'[id] = k
         /\ DOMAIN made \subseteq DOMAIN made'
         /\ \A j \in DOMAIN made :
              /\ made'[j].base = made[j].base /\ made'[j].dim = made[j].dim
              /\ made'[j].loader = made[j].loader
  BY DEF Grew

LEMMA InsertGrown ==
  ASSUME Recorded, NEW k, Grew(k), MapsOK'
  PROVE  Recorded' /\ Grown
  <1>1. /\ HasFirsts'
        /\ \A x : First(x) # 0 => First(x)' = First(x)
    BY FirstsGrow
  <1>2. /\ DOMAIN made \subseteq DOMAIN made'
        /\ \A j \in DOMAIN made :
              /\ made'[j].base = made[j].base /\ made'[j].dim = made[j].dim
              /\ made'[j].loader = made[j].loader
    BY DEF Grew
  <1> QED BY <1>1, <1>2 DEF Recorded, Grown

(* A call that has a lock leaves its owner alone with the class.           *)
LEMMA OthersAbsent ==
  ASSUME IInv, NEW t \in Threads, NEW u \in Threads \ {t}, stack[t] # <<>>,
         NEW f, f = Top(t), f.proc \in {"bs", "my"}, f.pc # "lock",
         f.proc = "bs" => UNCHANGED classmap,
         f.proc = "my" => UNCHANGED system_classmap,
         NEW i \in DOMAIN stack[u], NEW g, g = stack[u][i]
  PROVE  Absent(g)'
  <1>1. TypesOK /\ LocksOK /\ StackOK(u)
    BY InvIs
  <1>2. FrameOK(g)
    BY <1>1 DEF StackOK
  <1>3. PICK l : l = LockOf[f.proc]
    OBVIOUS
  <1>4. l \in {"sys", "my"} /\ f.proc \in DOMAIN LockOf
        /\ (f.proc = "bs" => l = "sys") /\ (f.proc = "my" => l = "my")
    BY <1>3 DEF LockOf
  <1>5. Hold(stack[t], l) # {}
    <2>1. Len(stack[t]) \in DOMAIN stack[t] /\ Top(t) = stack[t][Len(stack[t])]
      BY <1>1, TopIs DEF Top
    <2>2. Len(stack[t]) \in Hold(stack[t], l)
      BY <1>3, <1>4, <2>1 DEF Hold
    <2> QED BY <2>2
  <1>6. Hold(stack[u], l) = {}
    BY <1>1, <1>4, <1>5, OneOwner
  <1>7. ~(g.proc \in DOMAIN LockOf /\ LockOf[g.proc] = l /\ g.pc # "lock")
    BY <1>6 DEF Hold
  <1>8. CASE f.proc = "bs"
    <2>1. g.proc \in {"bs", "find"} => g.pc = "lock"
      BY <1>4, <1>7, <1>8 DEF LockOf
    <2>2. g.proc = "my" /\ g.pc \in Pending /\ g.name.form = "/" => g.name \notin DOMAIN classmap
      BY <1>2 DEF FrameOK, LoadOK
    <2>3. classmap' = classmap
      BY <1>8
    <2>4. g.proc = "bs" => g.pc \notin Pending
      BY <2>1 DEF Pending
    <2> QED BY <2>1, <2>2, <2>3, <2>4 DEF Absent
  <1>9. CASE f.proc = "my"
    <2>1. g.proc = "my" => g.pc = "lock"
      BY <1>4, <1>7, <1>9 DEF LockOf
    <2>2. (g.proc = "bs" /\ g.pc \in Pending => g.name \notin DOMAIN system_classmap)
          /\ (g.proc = "find" /\ g.pc = "other" => g.name \notin DOMAIN system_classmap)
      BY <1>2 DEF FrameOK, LoadOK
    <2>3. system_classmap' = system_classmap
      BY <1>9
    <2>4. g.proc = "my" => g.pc \notin Pending
      BY <2>1 DEF Pending
    <2> QED BY <2>2, <2>3, <2>4 DEF Absent
  <1> QED BY <1>8, <1>9

(* And the calls below it on its own stack are for other classes.          *)
LEMMA BelowAbsent ==
  ASSUME IInv, NEW t \in Threads, stack[t] # <<>>,
         NEW f, f = Top(t), f.proc \in {"bs", "my"}, f.pc \in {"supers", "object"},
         NEW n, n = f.name, NEW id,
         n.form = "/" => Ready(n),
         f.proc = "bs" => /\ system_classmap' = With(system_classmap, n, id)
                          /\ n.form = "/" /\ UNCHANGED classmap,
         f.proc = "my" /\ n.form = "/" =>
           classmap' = With(classmap, n, id) /\ UNCHANGED system_classmap,
         n.form # "/" => UNCHANGED <<classmap, system_classmap>>,
         NEW i \in 1 .. Len(stack[t]) - 1, NEW g, g = stack[t][i]
  PROVE  Absent(g)'
  <1>1. TypesOK /\ StackOK(t)
    BY InvIs
  <1>2. i \in 1 .. Len(stack[t])
    BY <1>1, TopIs
  <1>3. FrameOK(g) /\ Waits(g)
    BY <1>1, <1>2, StackIs
  <1>4. g.proc = "find" => g.pc # "other"
    BY <1>3 DEF Waits, FrameOK
  <1>5. n.form = "/" /\ g.proc = f.proc /\ g.pc \in Pending => g.name # n
    BY <1>1, NoOther
  <1>6. g.proc = "bs" /\ g.pc \in Pending => g.name \notin DOMAIN system_classmap
    BY <1>3 DEF FrameOK, LoadOK
  <1>7. g.proc = "my" /\ g.pc \in Pending /\ g.name.form = "/" => g.name \notin DOMAIN classmap
    BY <1>3 DEF FrameOK, LoadOK
  <1>8. CASE f.proc = "bs"
    <2>0. PICK old : old = system_classmap
      OBVIOUS
    <2>1. DOMAIN system_classmap' = DOMAIN system_classmap \union {n} /\ classmap' = classmap
      <3>1. DOMAIN With(old, n, id) = DOMAIN old \union {n}
        BY ONLY WithIs
      <3> QED BY <1>8, <2>0, <3>1
    <2> QED BY <1>4, <1>5, <1>6, <1>7, <1>8, <2>1 DEF Absent
  <1>9. CASE f.proc = "my" /\ n.form = "/"
    <2>0. PICK old : old = classmap
      OBVIOUS
    <2>1. DOMAIN classmap' = DOMAIN classmap \union {n} /\ system_classmap' = system_classmap
      <3>1. DOMAIN With(old, n, id) = DOMAIN old \union {n}
        BY ONLY WithIs
      <3> QED BY <1>9, <2>0, <3>1
    <2> QED BY <1>4, <1>5, <1>6, <1>7, <1>9, <2>1 DEF Absent
  <1>10. CASE n.form # "/"
    BY <1>4, <1>6, <1>7, <1>10 DEF Absent
  <1> QED BY <1>8, <1>9, <1>10

LEMMA InsertInv ==
  ASSUME IInv, NEW t \in Threads, stack[t] # <<>>,
         Top(t).proc \in {"bs", "my"}, Top(t).pc \in {"supers", "object"},
         NEW others \in Seq(Records), Len(others) = Len(made),
         \A j \in DOMAIN made :
           /\ others[j].base = made[j].base /\ others[j].dim = made[j].dim
           /\ others[j].loader = made[j].loader,
         Insert(t, others), Ready(Top(t).name)
  PROVE  IInv'
  <1>0. PICK f, n, id : f = Top(t) /\ n = f.name /\ id = Len(made) + 1
    OBVIOUS
  <1>1. /\ LoadOK(f) /\ n \in Names /\ n.form \in {"/", "anonymous"} /\ n.dim \in Nat
        /\ n.form = "anonymous" => f.proc = "my" /\ n.dim = 0 /\ n.base \in AnonClasses
        /\ f.proc = "my" /\ n.form = "/" => (n.dim = 0 => n.base \notin AnonClasses)
        /\ f.proc = "bs" <=> ~OfUser(n)
        /\ n.form = "/" => First(n) = 0
        /\ Grew(Class(n, f.proc))
        /\ id \in Nat \ {0}
        /\ f.proc = "bs" => /\ system_classmap' = With(system_classmap, n, id)
                            /\ n \notin DOMAIN system_classmap
                            /\ UNCHANGED <<classmap, anonymous_klassmap>>
        /\ f.proc = "my" /\ n.form = "/" =>
             /\ classmap' = With(classmap, n, id) /\ n \notin DOMAIN classmap
             /\ UNCHANGED <<system_classmap, anonymous_klassmap>>
        /\ n.form = "anonymous" =>
             /\ anonymous_klassmap' = Append(anonymous_klassmap, id)
             /\ UNCHANGED <<system_classmap, classmap>>
        /\ UNCHANGED string_table /\ Leave(t, id)
    BY <1>0, InsertGrew
  <1>2. PICK loader, k : loader = f.proc /\ k = Class(n, loader)
    OBVIOUS
  <1>3. Recorded /\ MapsOK /\ Grew(k)
    BY <1>1, <1>2, InvIs
  <1>4. MapsOK'
    BY <1>0, <1>1, <1>2, InsertMaps
  <1>5. Recorded' /\ Grown
    BY <1>3, <1>4, InsertGrown
  <1>6. /\ id \in DOMAIN made' /\ made'[id] = k
    BY <1>0, <1>3, LastIs
  <1>7. n.form = "/" => First(n)' = id
    <2>1. n.form = "/" => Is(k, n)
      BY <1>0, <1>2 DEF Is, Class
    <2> QED BY <1>0, <1>1, <1>3, <2>1, FirstsGrow
  <1>8. Given("my", n, id)' /\ (f.proc = "bs" => Given("bs", n, id)')
    <2>1. OfUser(n)' <=> OfUser(n)
      BY DEF OfUser
    <2>2. n.form = "anonymous" =>
             made'[id].loader = "my" /\ KeyOf(made'[id]) = Name(0, n.base)
      BY <1>0, <1>1, <1>2, <1>6 DEF Class, KeyOf
    <2> QED BY <1>1, <1>6, <1>7, <2>1, <2>2 DEF Given, KeyOf
  <1>9. \A i \in 1 .. Len(stack[t]) - 1 : \A g : g = stack[t][i] => Absent(g)'
    <2>1. /\ f = Top(t) /\ f.proc \in {"bs", "my"} /\ f.pc \in {"supers", "object"} /\ n = f.name
          /\ n.form = "/" => Ready(n)
          /\ f.proc = "bs" => /\ system_classmap' = With(system_classmap, n, id)
                              /\ n.form = "/" /\ UNCHANGED classmap
          /\ f.proc = "my" /\ n.form = "/" =>
               classmap' = With(classmap, n, id) /\ UNCHANGED system_classmap
          /\ n.form # "/" => UNCHANGED <<classmap, system_classmap>>
      BY <1>0, <1>1
    <2> QED BY <2>1, BelowAbsent
  <1>10. \A u \in Threads \ {t} : \A i \in DOMAIN stack[u] : \A g : g = stack[u][i] => Absent(g)'
    BY <1>0, <1>1, OthersAbsent
  <1>11. Top(t).pc # "lock"
    OBVIOUS
  <1>12. \A q : q = Top(t) =>
           /\ q.proc \in {"my", "bs", "findboot", "find", "intern"} => Given("my", q.name, id)'
           /\ q.proc = "bs" => Given("bs", q.name, id)'
           /\ q.proc \in {"bs", "findboot"} /\ id = 0 => OfUser(q.name)
           /\ q.proc = "find" => id # 0
           /\ q.proc = "pool" => Given("my", EntryName(q.name), id)'
    BY <1>0, <1>1, <1>8
  <1> QED BY <1>1, <1>5, <1>9, <1>10, <1>11, <1>12, MadeInv

(* The list of what was made, in which an array may be told of a higher.   *)
Alike(old, others) ==
  /\ others \in Seq(Records) /\ Len(others) = Len(old)
  /\ \A j \in DOMAIN old :
       /\ others[j].base = old[j].base /\ others[j].dim = old[j].dim
       /\ others[j].loader = old[j].loader

(* A call makes a class when what the class is made from is there.         *)
MakesClass(t) ==
  /\ stack[t] # <<>> /\ Top(t).proc \in {"bs", "my"} /\ Top(t).pc \in {"supers", "object"}
  /\ Ready(Top(t).name)
  /\ \E others : Alike(made, others) /\ Insert(t, others)

LEMMA MakesClassInv ==
  ASSUME IInv, NEW t \in Threads, MakesClass(t) PROVE IInv'
  <1> PICK others : Alike(made, others) /\ Insert(t, others)
    BY DEF MakesClass
  <1> QED BY InsertInv DEF MakesClass, Alike

LEMMA MadeRecords ==
  ASSUME IInv PROVE made \in Seq(Records)
  BY DEF IInv, TableInv, MapsOK, Records

LEMMA AlikeItself ==
  ASSUME IInv PROVE Alike(made, made)
  BY MadeRecords DEF Alike

LEMMA LoadSupersDoes ==
  ASSUME IInv, NEW t \in Threads, LoadSupers(t)
  PROVE  \/ Exit
         \/ /\ stack[t] # <<>> /\ Top(t).proc \in {"bs", "my"} /\ Top(t).pc = "supers"
            /\ ~(Top(t).at > 1 /\ ret[t] = 0)
            /\ \E at, c :
                 /\ at = Top(t).at /\ c = Top(t).name.base /\ at =< Len(Supers[c])
                 /\ Call(t, "supers", at + 1, Frame(Top(t).proc, Name(0, Supers[c][at])))
         \/ MakesClass(t)
  <1>1. stack[t] # <<>> /\ Top(t).proc \in {"bs", "my"} /\ Top(t).pc = "supers"
    BY DEF LoadSupers, In
  <1>2. PICK at, c : at = Top(t).at /\ c = Top(t).name.base
    OBVIOUS
  <1>3. CASE at > 1 /\ ret[t] = 0
    BY <1>2, <1>3 DEF LoadSupers
  <1>4. CASE ~(at > 1 /\ ret[t] = 0) /\ at =< Len(Supers[c]) /\
             Call(t, "supers", at + 1, Frame(Top(t).proc, Name(0, Supers[c][at])))
    BY <1>1, <1>2, <1>4
  <1>5. CASE ~(at > 1 /\ ret[t] = 0) /\ at > Len(Supers[c]) /\ Insert(t, made)
    <2>1. LoadOK(Top(t)) /\ at \in Nat
      BY <1>1, <1>2, TopOK DEF FrameOK, Frames
    <2>2. c \in Classes /\ at \in 1 .. Len(Supers[c]) + 1 /\ Top(t).name.dim = 0
          /\ Top(t).name.form # "string"
      BY <1>1, <1>2, <2>1 DEF LoadOK
    <2>3. Len(Supers[c]) \in Nat /\ DOMAIN Supers[c] = 1 .. Len(Supers[c])
      BY <2>2, SupersAre
    <2>4. DOMAIN Supers[c] = 1 .. at - 1
      BY <1>5, <2>2, <2>3
    <2>5. Ready(Top(t).name)
      <3> SUFFICES ASSUME NEW x \in NeedsOf(Top(t).name) PROVE First(x) # 0
        BY DEF Ready
      <3>1. PICK k \in DOMAIN Supers[c] : x = Name(0, Supers[c][k])
        BY <1>2, <2>2 DEF NeedsOf
      <3> QED BY <1>1, <1>2, <1>5, <2>4, <3>1, SupersMade
    <2> QED BY <1>1, <1>5, <2>5, AlikeItself DEF MakesClass
  <1>6. \/ at > 1 /\ ret[t] = 0
        \/ at =< Len(Supers[c]) /\
             Call(t, "supers", at + 1, Frame(Top(t).proc, Name(0, Supers[c][at])))
        \/ at > Len(Supers[c]) /\ Insert(t, made)
    BY <1>2 DEF LoadSupers
  <1> QED BY <1>3, <1>4, <1>5, <1>6

LEMMA LoadSupersInv ==
  ASSUME IInv, NEW t \in Threads, LoadSupers(t) PROVE IInv'
  BY LoadSupersDoes, ExitInv, NextSuperInv, MakesClassInv

LEMMA ToldIs ==
  ASSUME NEW old \in Seq(Records), NEW lower, NEW id \in Nat,
         NEW others, others = [old EXCEPT ![lower].higher = id]
  PROVE  Alike(old, others)
  <1>1. /\ Len(old) \in Nat /\ DOMAIN old = 1 .. Len(old)
        /\ \A j \in 1 .. Len(old) : old[j] \in Records
    <2> HIDE DEF Records
    <2> QED BY SeqIs
  <1>2. ASSUME NEW j \in DOMAIN old
        PROVE  /\ others[j] \in Records
               /\ others[j].base = old[j].base /\ others[j].dim = old[j].dim
               /\ others[j].loader = old[j].loader
    <2>1. PICK k \in Records : k = old[j]
      BY <1>1, <1>2
    <2>2. [k EXCEPT !.higher = id] \in Records /\ [k EXCEPT !.higher = id].base = k.base
          /\ [k EXCEPT !.higher = id].dim = k.dim /\ [k EXCEPT !.higher = id].loader = k.loader
      BY DEF Records
    <2>3. others[j] = IF j = lower THEN [k EXCEPT !.higher = id] ELSE k
      BY <2>1
    <2> QED BY <2>1, <2>2, <2>3
  <1>3. others = [j \in 1 .. Len(old) |-> others[j]]
    BY <1>1
  <1>4. others \in Seq(Records) /\ Len(others) = Len(old)
    <2> HIDE DEF Records
    <2>1. PICK n : n = Len(old)
      OBVIOUS
    <2>2. others \in [1 .. n -> Records] /\ n \in Nat
      BY <1>1, <1>2, <1>3, <2>1
    <2> QED BY ONLY <2>1, <2>2
  <1> QED BY <1>2, <1>4 DEF Alike

LEMMA ObjectLoadedDoes ==
  ASSUME IInv, NEW t \in Threads, ObjectLoaded(t) PROVE Exit \/ MakesClass(t)
  <1>1. stack[t] # <<>> /\ Top(t).proc \in {"bs", "my"} /\ Top(t).pc = "object"
    BY DEF ObjectLoaded, In
  <1>2. PICK n, lower, id : n = Top(t).name /\ lower = Top(t).at /\ id = Len(made) + 1
    OBVIOUS
  <1>3. /\ LoadOK(Top(t)) /\ Recorded /\ MapsOK
    BY <1>1, TopOK, InvIs DEF FrameOK
  <1>4. /\ n \in Names /\ n.dim > 0 /\ n.form = "/" /\ n.dim \in Nat
        /\ IsBasic(n) \/ First(ElementOf(n)) # 0
        /\ n.dim > 1 => First(LowerOf("bs", n)) # 0
    BY <1>1, <1>2, <1>3 DEF LoadOK, Names, Pending
  <1>5. First(Name(0, "Object")) # 0
    <2>1. Name(0, "Object") \in DOMAIN system_classmap
      BY <1>3 DEF MapsOK
    <2>2. First(Name(0, "Object")) \in DOMAIN made
      BY <1>3, <2>1, InSystem
    <2> QED BY <1>3, <2>2, RecordIs
  <1>6. Ready(n)
    BY <1>4, <1>5 DEF Ready, NeedsOf
  <1>7. made \in Seq(Records) /\ id \in Nat
    BY <1>2, <1>3, MadeRecords, MadeIsSeq
  <1>8. CASE lower = 0
    <2>1. Insert(t, made)
      BY <1>2, <1>8 DEF ObjectLoaded
    <2> QED BY <1>1, <1>2, <1>6, <2>1, AlikeItself DEF MakesClass
  <1>9. CASE lower # 0 /\ made[lower].higher # 0
    BY <1>2, <1>9 DEF ObjectLoaded
  <1>10. CASE lower # 0 /\ made[lower].higher = 0
    <2>0. PICK old, others : old = made /\ others = [old EXCEPT ![lower].higher = id]
      OBVIOUS
    <2>1. Insert(t, others)
      BY <1>2, <1>10, <2>0 DEF ObjectLoaded
    <2>2. Alike(old, others)
      <3>1. old \in Seq(Records)
        BY <1>7, <2>0
      <3> HIDE DEF Records
      <3> QED BY ONLY <1>7, <2>0, <3>1, ToldIs
    <2> QED BY <1>1, <1>2, <1>6, <2>0, <2>1, <2>2 DEF MakesClass
  <1> QED BY <1>8, <1>9, <1>10

LEMMA ObjectLoadedInv ==
  ASSUME IInv, NEW t \in Threads, ObjectLoaded(t) PROVE IInv'
  BY ObjectLoadedDoes, ExitInv, MakesClassInv

(* Interning makes a string, and gives the first of its content.           *)
LEMMA InternGrew ==
  ASSUME IInv, NEW t \in Threads, intern(t), NEW s, s = Top(t).name, NEW id, id = Len(made) + 1
  PROVE  /\ stack[t] # <<>> /\ Top(t).proc = "intern" /\ Top(t).pc = "made"
         /\ s \in Names /\ s = String(s.base) /\ s.base \in Strings
         /\ s.dim = 0 /\ s.form = "string" /\ id \in Nat \ {0}
         /\ \E k : /\ Grew(k) /\ k.base = s.base /\ k.dim = 0 /\ k.loader = "string"
                   /\ \A x : x.form # "string" => ~Is(k, x)
         /\ Recorded' /\ Grown
         /\ string_table'[s] = First(s)' /\ First(s)' \in Nat \ {0}
         /\ First(s) = 0 => First(s)' = id
         /\ Leave(t, string_table'[s])
         /\ UNCHANGED <<system_classmap, classmap, anonymous_klassmap>>
  <1>1. stack[t] # <<>> /\ Top(t).proc = "intern" /\ Top(t).pc = "made"
    BY DEF intern, In
  <1>2. Recorded /\ MapsOK /\ FrameOK(Top(t))
    BY <1>1, InvIs, TopOK
  <1>3. PICK c \in Strings : s = String(c)
    BY <1>1, <1>2 DEF FrameOK
  <1>4. s \in Names /\ s = String(s.base) /\ s.base \in Strings /\ s.base \in Bases
        /\ s.dim = 0 /\ s.form = "string"
    BY <1>3, NamesAre DEF Bases
  <1>5. PICK k : k = [base |-> s.base, dim |-> 0, loader |-> "string", higher |-> 0]
    OBVIOUS
  <1>6. k \in Records /\ k.base = s.base /\ k.dim = 0 /\ k.loader = "string"
    BY <1>4, <1>5 DEF Records
  <1>7. /\ made' = Append(made, k) /\ string_table' = With(string_table, s, id)
        /\ Leave(t, string_table'[s])
        /\ UNCHANGED <<system_classmap, classmap, anonymous_klassmap>>
    BY <1>5 DEF intern
  <1>8. Grew(k)
    BY <1>2, <1>6, <1>7, MadeRecords, MadeGrew
  <1>9. id \in Nat \ {0} /\ id \in DOMAIN made'
    BY <1>8 DEF Grew
  <1>10. PICK old : old = string_table
    OBVIOUS
  <1>11. /\ DOMAIN string_table' = DOMAIN old \union {s}
         /\ \A q \in DOMAIN old : string_table'[q] = old[q]
         /\ s \notin DOMAIN old => string_table'[s] = id
    <2>1. /\ DOMAIN With(old, s, id) = DOMAIN old \union {s}
          /\ \A q \in DOMAIN old : With(old, s, id)[q] = old[q]
          /\ s \notin DOMAIN old => With(old, s, id)[s] = id
      BY ONLY WithIs
    <2> QED BY <1>7, <1>10, <2>1
  <1>12. Extended(old, string_table', id)
    BY <1>11 DEF Extended
  <1>13. StringIs(s, k)
    BY <1>4, <1>6 DEF StringIs, KeyOf
  <1>14. \A q \in DOMAIN string_table' : q \in DOMAIN old \/ StringIs(q, k)
    BY <1>11, <1>13
  <1>15. s \in DOMAIN old => old[s] = First(s) /\ First(s) \in DOMAIN made
    BY <1>2, <1>10, InStrings
  <1>16. Listed(id, k)'
    <2>1. s \in DOMAIN string_table' /\ string_table'[s] =< id
      <3>1. CASE s \in DOMAIN old
        <4>1. old[s] \in Nat /\ old[s] < id
          BY <1>8, <1>15, <3>1 DEF Grew
        <4> QED BY <1>9, <1>11, <3>1, <4>1
      <3>2. CASE s \notin DOMAIN old
        BY <1>9, <1>11, <3>2
      <3> QED BY <3>1, <3>2
    <2>2. String(k.base) = s
      BY <1>4, <1>6
    <2> QED BY <1>6, <2>1, <2>2 DEF Listed
  <1>17. MapsOK'
    <2>1. /\ Extended(system_classmap, system_classmap', id)
          /\ \A m \in DOMAIN system_classmap' : m \in DOMAIN system_classmap
          /\ Extended(classmap, classmap', id)
          /\ \A m \in DOMAIN classmap' : m \in DOMAIN classmap
          /\ anonymous_klassmap' = anonymous_klassmap
      BY <1>7 DEF Extended
    <2>2. /\ Extended(string_table, string_table', id)
          /\ \A m \in DOMAIN string_table' : m \in DOMAIN string_table \/ StringIs(m, k)
      BY <1>10, <1>12, <1>14
    <2> QED BY <1>2, <1>8, <1>16, <2>1, <2>2, MapsGrow
  <1>18. Recorded' /\ Grown
    BY <1>2, <1>8, <1>17, InsertGrown
  <1>19. Is(k, s) /\ \A x : x.form # "string" => ~Is(k, x)
    BY <1>4, <1>6 DEF Is
  <1>20. First(s) # 0 => First(s)' = First(s)
    BY <1>2, <1>8, FirstsGrow
  <1>21. First(s) = 0 => First(s)' = id
    BY <1>2, <1>8, <1>19, FirstsGrow
  <1>22. string_table'[s] = First(s)' /\ First(s)' \in Nat \ {0}
    <2>0. First(s) # 0 => First(s) \in DOMAIN made
      BY <1>2, FirstIs
    <2>1. CASE s \in DOMAIN old
      <3>1. First(s) \in Nat \ {0}
        BY <1>2, <1>15, <2>1, RecordIs
      <3> QED BY <1>11, <1>15, <1>20, <2>1, <3>1
    <2>2. CASE s \notin DOMAIN old
      <3>1. First(s) = 0
        <4>1. ASSUME NEW j \in DOMAIN made PROVE ~IsMade(j, s)
          <5>1. made[j].loader = "string" => String(made[j].base) \in DOMAIN old
            BY <1>2, <1>10, <4>1 DEF MapsOK
          <5> QED BY <1>4, <2>2, <5>1 DEF IsMade
        <4> QED BY <1>2, <4>1, FirstIs
      <3> QED BY <1>9, <1>11, <1>21, <2>2, <3>1
    <2> QED BY <2>1, <2>2
  <1>23. \E q : /\ Grew(q) /\ q.base = s.base /\ q.dim = 0 /\ q.loader = "string"
                /\ \A x : x.form # "string" => ~Is(q, x)
    BY <1>6, <1>8, <1>19
  <1> QED BY <1>1, <1>4, <1>7, <1>9, <1>18, <1>21, <1>22, <1>23

LEMMA InternInv ==
  ASSUME IInv, NEW t \in Threads, intern(t) PROVE IInv'
  <1>1. PICK s, id, v : s = Top(t).name /\ id = Len(made) + 1 /\ v = string_table'[s]
    OBVIOUS
  <1>2. /\ stack[t] # <<>> /\ Top(t).proc = "intern" /\ Top(t).pc = "made"
        /\ s.form = "string" /\ Recorded' /\ Grown
        /\ v = First(s)' /\ v \in Nat \ {0} /\ Leave(t, v)
        /\ UNCHANGED <<system_classmap, classmap>>
    BY <1>1, InternGrew
  <1>3. ASSUME NEW g, FrameOK(g) PROVE Absent(g)'
    BY <1>2, <1>3 DEF FrameOK, LoadOK, Absent
  <1>4. \A i \in 1 .. Len(stack[t]) - 1 : \A g : g = stack[t][i] => Absent(g)'
    <2>1. TypesOK /\ StackOK(t)
      BY InvIs
    <2>2. \A i \in 1 .. Len(stack[t]) - 1 : i \in 1 .. Len(stack[t])
      BY <1>2, <2>1, TopIs
    <2>3. \A i \in 1 .. Len(stack[t]) - 1 : FrameOK(stack[t][i])
      BY <2>1, <2>2, StackIs
    <2> QED BY <1>3, <2>3
  <1>5. \A u \in Threads \ {t} : \A i \in DOMAIN stack[u] : \A g : g = stack[u][i] => Absent(g)'
    <2>1. \A u \in Threads : \A i \in DOMAIN stack[u] : FrameOK(stack[u][i])
      BY InvIs DEF StackOK
    <2> QED BY <1>3, <2>1
  <1>6. Given("my", s, v)'
    BY <1>2 DEF Given
  <1>7. \A f : f = Top(t) =>
           /\ f.proc \in {"my", "bs", "findboot", "find", "intern"} => Given("my", f.name, v)'
           /\ f.proc = "bs" => Given("bs", f.name, v)'
           /\ f.proc \in {"bs", "findboot"} /\ v = 0 => OfUser(f.name)
           /\ f.proc = "find" => v # 0
           /\ f.proc = "pool" => Given("my", EntryName(f.name), v)'
    BY <1>1, <1>2, <1>6
  <1>8. v \in Nat /\ Top(t).pc # "lock"
    BY <1>2
  <1> QED BY <1>2, <1>4, <1>5, <1>7, <1>8, MadeInv

-----------------------------------------------------------------------------
(* The inductive invariant.                                                *)
LEMMA InitMaps ==
  ASSUME Init PROVE MapsOK
  <1>1. PICK obj, str, self : /\ obj = Name(0, "Object") /\ str = Name(0, "String")
                              /\ self = Name(0, Self)
    OBVIOUS
  <1>2. /\ "Object" \in SystemClasses /\ "String" \in SystemClasses
        /\ Self \in UserFiles \ SystemClasses /\ Self \notin AnonClasses
        /\ SystemClasses \subseteq Classes /\ UserFiles \subseteq Classes
        /\ Classes \subseteq Bases
    BY LoadersAssumption DEF Classes, Bases
  <1>3. /\ obj \in Names /\ obj.form = "/" /\ ~OfUser(obj)
        /\ str \in Names /\ str.form = "/" /\ ~OfUser(str)
        /\ self \in Names /\ self.form = "/" /\ OfUser(self) /\ self.base \notin AnonClasses
        /\ obj # str
    BY <1>1, <1>2 DEF Names, Name, Named, Forms, OfUser
  <1>4. PICK a, b, c : /\ a = [base |-> "Object", dim |-> 0, loader |-> "bs", higher |-> 0]
                       /\ b = [base |-> "String", dim |-> 0, loader |-> "bs", higher |-> 0]
                       /\ c = [base |-> Self, dim |-> 0, loader |-> "my", higher |-> 0]
    OBVIOUS
  <1>5. /\ a \in Records /\ a.loader = "bs" /\ KeyOf(a) = obj
        /\ b \in Records /\ b.loader = "bs" /\ KeyOf(b) = str
        /\ c \in Records /\ c.loader = "my" /\ KeyOf(c) = self /\ c.base \notin AnonClasses
    BY <1>1, <1>2, <1>4 DEF Records, KeyOf
  <1>6. /\ made \in Seq(Records) /\ DOMAIN made = {1, 2, 3}
        /\ made[1] = a /\ made[2] = b /\ made[3] = c
    <2>1. made = <<a, b, c>>
      BY <1>4 DEF Init
    <2>2. DOMAIN <<a, b, c>> = {1, 2, 3}
      OBVIOUS
    <2> HIDE DEF Records
    <2> QED BY <1>5, <2>1, <2>2
  <1>7. /\ DOMAIN system_classmap = {obj, str}
        /\ system_classmap[obj] = 1 /\ system_classmap[str] = 2
        /\ DOMAIN classmap = {self} /\ classmap[self] = 3
    <2>1. PICK none, one : none = <<>> /\ one = With(none, obj, 1)
      OBVIOUS
    <2>2. system_classmap = With(one, str, 2) /\ classmap = With(none, self, 3)
      BY <1>1, <2>1 DEF Init
    <2>3. DOMAIN none = {}
      BY <2>1
    <2>4. /\ DOMAIN With(none, obj, 1) = DOMAIN none \union {obj}
          /\ obj \notin DOMAIN none => With(none, obj, 1)[obj] = 1
      BY ONLY WithIs
    <2>5. /\ DOMAIN With(one, str, 2) = DOMAIN one \union {str}
          /\ \A k \in DOMAIN one : With(one, str, 2)[k] = one[k]
          /\ str \notin DOMAIN one => With(one, str, 2)[str] = 2
      BY ONLY WithIs
    <2>6. /\ DOMAIN With(none, self, 3) = DOMAIN none \union {self}
          /\ self \notin DOMAIN none => With(none, self, 3)[self] = 3
      BY ONLY WithIs
    <2>7. DOMAIN one = {obj} /\ one[obj] = 1
      BY <2>1, <2>3, <2>4
    <2> QED BY <1>3, <2>2, <2>3, <2>5, <2>6, <2>7
  <1>8. anonymous_klassmap = <<>> /\ string_table = <<>>
        /\ DOMAIN anonymous_klassmap = {} /\ DOMAIN string_table = {}
        /\ anonymous_klassmap \in Seq(DOMAIN made)
    BY DEF Init
  <1>9. \A id \in DOMAIN made : \A k : k = made[id] => Listed(id, k)
    BY <1>5, <1>6, <1>7 DEF Listed
  <1>10. \A n \in DOMAIN system_classmap :
           system_classmap[n] \in DOMAIN made /\ SysIs(n, made[system_classmap[n]])
    BY <1>3, <1>5, <1>6, <1>7 DEF SysIs
  <1>11. \A n \in DOMAIN classmap : classmap[n] \in DOMAIN made /\ MyIs(n, made[classmap[n]])
    BY <1>3, <1>5, <1>6, <1>7 DEF MyIs
  <1> QED BY <1>1, <1>6, <1>7, <1>8, <1>9, <1>10, <1>11, MapsAre DEF MapsParts

LEMMA InitIInv ==
  ASSUME Init PROVE IInv
  <1>1. MapsOK
    BY InitMaps
  <1>2. TypesOK
    BY DEF Init, TypesOK
  <1>3. PoolOK
    BY DEF Init, PoolOK
  <1>4. LocksOK
    <2>1. \A t \in Threads : stack[t] = <<>> /\ t # NoThread
      BY LoadersAssumption DEF Init
    <2>2. \A t \in Threads : DOMAIN stack[t] = {}
      BY <2>1
    <2>3. \A t \in Threads : \A l : Holding(t, l) = {}
      BY <2>2 DEF Holding
    <2>4. \A l \in {"sys", "my"} : locks[l].owner = NoThread /\ locks[l].depth = 0
      BY DEF Init
    <2>5. locks \in [{"sys", "my"} -> [owner : Threads \union {NoThread}, depth : Nat]]
      BY DEF Init
    <2> QED BY <2>1, <2>3, <2>4, <2>5 DEF LocksOK
  <1>5. ASSUME NEW t \in Threads PROVE StackOK(t) /\ RequestOK(t)
    <2>1. stack[t] = <<>> /\ request[t] = None /\ Len(stack[t]) = 0 /\ DOMAIN stack[t] = {}
      BY DEF Init
    <2> QED BY <2>1 DEF StackOK, RequestOK
  <1>6. HasFirsts
    <2>1. DOMAIN made = {1, 2, 3}
      BY DEF Init
    <2>2. ASSUME NEW x, NEW i \in {1, 2, 3}, IsMade(i, x)
          PROVE  \E m \in {1, 2, 3} :
                   IsMade(m, x) /\ \A j \in {1, 2, 3} : IsMade(j, x) => m =< j
      <3>1. CASE IsMade(1, x)
        BY <3>1
      <3>2. CASE ~IsMade(1, x) /\ IsMade(2, x)
        BY <3>2
      <3>3. CASE ~IsMade(1, x) /\ ~IsMade(2, x)
        BY <2>2, <3>3
      <3> QED BY <3>1, <3>2, <3>3
    <2> QED BY <2>1, <2>2 DEF HasFirsts
  <1> QED BY <1>1, <1>2, <1>3, <1>4, <1>5, <1>6 DEF IInv, TableInv

LEMMA StepInv ==
  ASSUME IInv, NEW t \in Threads, Step(t) PROVE IInv'
  <1>1. CASE Loading(t)
    BY <1>1, LockInv, BootLoadInv, MyLoadInv, AfterBootInv, LoadSupersInv,
       ElementLoadedInv, LowerLoadedInv, ObjectLoadedInv DEF Loading
  <1>2. CASE PoolTest(t) \/ PoolLoaded(t) \/ PoolAssign(t) \/ PoolCopy(t)
    BY <1>2, PoolTestInv, PoolLoadedInv, PoolAssignInv, PoolCopyInv
  <1>3. CASE intern_to_oop(t) \/ intern(t) \/ Reply(t)
    BY <1>3, InternToOopInv, InternInv, ReplyInv
  <1>4. CASE FindBoot(t) \/ FindLoaded(t) \/ find_in_classmap(t)
    BY <1>4, FindBootInv, FindLoadedInv, FindInClassmapInv
  <1> QED BY <1>1, <1>2, <1>3, <1>4 DEF Step

LEMMA StutterInv ==
  ASSUME IInv, UNCHANGED vars PROVE IInv'
  <1>1. UNCHANGED maps /\ TypesOK /\ MapsOK /\ PoolOK /\ LocksOK /\ Recorded
    BY DEF vars, IInv, TableInv, Recorded
  <1>2. Recorded' /\ (\A x : First(x)' = First(x)) /\ (\A f : FrameOK(f) => FrameOK(f)')
        /\ \A proc, n, id : Given(proc, n, id) => Given(proc, n, id)'
    BY <1>1, SameMaps
  <1>3. /\ vm' = vm /\ pool' = pool /\ locks' = locks /\ stack' = stack /\ ret' = ret
        /\ request' = request
    BY DEF vars, calls, asks
  <1>4. TypesOK' /\ LocksOK'
    <2>1. TypesOK'
      BY <1>1, <1>3 DEF TypesOK
    <2>2. ASSUME NEW l, NEW u \in Threads PROVE Holding(u, l)' = Holding(u, l)
      BY <1>3 DEF Holding
    <2>3. LocksOK'
      BY <1>1, <1>3, <2>2 DEF LocksOK
    <2> QED BY <2>1, <2>3
  <1>5. PoolOK'
    BY <1>1, <1>2, <1>3 DEF PoolOK
  <1>6. ASSUME NEW u \in Threads PROVE StackOK(u)' /\ RequestOK(u)'
    <2>1. StackOK(u) /\ RequestOK(u)
      BY InvIs
    <2>2. stack'[u] = stack[u] /\ ret'[u] = ret[u] /\ request'[u] = request[u]
      BY <1>3
    <2>3. \A i \in DOMAIN stack[u] : \A f : f = stack[u][i] => FrameOK(f)'
      BY <1>2, <2>1 DEF StackOK
    <2>4. StackOK(u)'
      BY <1>1, <1>2, <2>1, <2>2, <2>3, OtherStack
    <2>5. RequestOK(u)'
      BY <1>2, <2>1, <2>2, OtherRequest
    <2> QED BY <2>4, <2>5
  <1> QED BY <1>2, <1>4, <1>5, <1>6 DEF IInv, TableInv, Recorded

(* What the loaders, the string table and the pools keep, for all threads. *)
LEMMA NextInv ==
  ASSUME Packaged = {}, IInv, [Next]_vars PROVE IInv'
  BY RequestInv, StepInv, StutterInv DEF Next

-----------------------------------------------------------------------------
(* The steps the abstract table does not see.                              *)
Quiet == UNCHANGED maps /\ UNCHANGED answer

LEMMA CallsQuiet ==
  /\ \A t, pc, at : Goto(t, pc, at) => Quiet
  /\ \A t, pc, at, f : Call(t, pc, at, f) => Quiet
  /\ \A t, id : Return(t, id) => Quiet
  /\ Exit => Quiet
  /\ \A t, how, thing, must, f : Ask(t, how, thing, must, f) => Quiet
  <1> USE DEF Quiet, asks
  <1>1. ASSUME NEW t, NEW pc, NEW at, Goto(t, pc, at) PROVE Quiet
    BY <1>1 DEF Goto
  <1>2. ASSUME NEW t, NEW pc, NEW at, NEW f, Call(t, pc, at, f) PROVE Quiet
    BY <1>2 DEF Call
  <1>3. ASSUME NEW t, NEW id, Return(t, id) PROVE Quiet
    BY <1>3 DEF Return, Leave
  <1>4. ASSUME Exit PROVE Quiet
    BY <1>4 DEF Exit
  <1>5. ASSUME NEW t, NEW how, NEW thing, NEW must, NEW f, Ask(t, how, thing, must, f)
        PROVE  Quiet
    BY <1>5 DEF Ask
  <1> QED BY <1>1, <1>2, <1>3, <1>4, <1>5

LEMMA RequestQuiet ==
  ASSUME NEW t, Request(t) PROVE Quiet
  BY CallsQuiet DEF Request, JVM_ForClassName, JVM_FindBootStrapClass, JVM_FindLoadedClass,
     parse_type, FieldType, JVM_DefineClass, JVM_DefineAnonymousClass, anewarray,
     JVM_NewArray, Resolve, JVM_Intern

LEMMA LoadArrayQuiet ==
  ASSUME NEW t PROVE (LoadArray(t) => Quiet) /\ (LoadLower(t) => Quiet)
  <1>1. LoadLower(t) => Quiet
    BY CallsQuiet DEF LoadLower, LoadObject
  <1> QED BY <1>1, CallsQuiet DEF LoadArray

LEMMA StepQuiet ==
  ASSUME NEW t, Step(t)
  PROVE  \/ Quiet \/ LoadSupers(t) \/ ObjectLoaded(t) \/ intern(t)
         \/ Reply(t) \/ find_in_classmap(t)
  <1>1. CASE Lock(t)
    BY <1>1 DEF Lock, Quiet, asks
  <1>2. CASE BootLoad(t)
    BY <1>2, CallsQuiet, LoadArrayQuiet DEF BootLoad
  <1>3. CASE MyLoad(t)
    BY <1>3, CallsQuiet DEF MyLoad
  <1>4. CASE AfterBoot(t)
    <2>1. LoadFile(t) => Quiet
      BY CallsQuiet DEF LoadFile
    <2> QED BY <1>4, <2>1, CallsQuiet, LoadArrayQuiet DEF AfterBoot
  <1>5. CASE ElementLoaded(t) \/ LowerLoaded(t)
    BY <1>5, CallsQuiet, LoadArrayQuiet DEF ElementLoaded, LowerLoaded, LoadObject
  <1>6. CASE intern_to_oop(t)
    BY <1>6, CallsQuiet DEF intern_to_oop
  <1>7. CASE PoolTest(t)
    BY <1>7, CallsQuiet DEF PoolTest
  <1>8. CASE PoolLoaded(t)
    BY <1>8, CallsQuiet DEF PoolLoaded
  <1>9. CASE PoolAssign(t)
    BY <1>9 DEF PoolAssign, Quiet, asks
  <1>10. CASE PoolCopy(t)
    BY <1>10, CallsQuiet DEF PoolCopy
  <1>11. CASE FindBoot(t) \/ FindLoaded(t)
    BY <1>11, CallsQuiet DEF FindBoot, FindLoaded
  <1> QED BY <1>1, <1>2, <1>3, <1>4, <1>5, <1>6, <1>7, <1>8, <1>9, <1>10, <1>11
          DEF Step, Loading

LEMMA QuietStutters ==
  ASSUME Quiet PROVE Table' = Table /\ UNCHANGED answer
  BY SameMaps DEF Quiet, Table

LEMMA StutterQuiet ==
  ASSUME UNCHANGED vars PROVE Quiet
  BY DEF vars, asks, Quiet

-----------------------------------------------------------------------------
(* The things, and what each needs.                                        *)
LEMMA ThingIs ==
  ASSUME NEW x \in Things
  PROVE  /\ x.form = "string" => x = String(x.base) /\ x.dim = 0
         /\ x.form # "string" => x = Name(x.dim, x.base) /\ x.form = "/"
         /\ x.dim \in Nat
         /\ NeedsOf(x) \subseteq Things
  <1>0. Name(0, "Object") \in Things /\ Name(0, "String") \in Things
    BY ThingsAre, NamesAre
  <1>1. CASE \E c \in Classes : x = Name(0, c)
    <2>1. PICK c \in Classes : x = Name(0, c)
      BY <1>1
    <2>2. x.form = "/" /\ x.dim = 0 /\ x.base = c
      BY <2>1, NamesAre
    <2>3. NeedsOf(x) = {Name(0, Supers[c][k]) : k \in DOMAIN Supers[c]}
      BY <2>2 DEF NeedsOf
    <2>4. NeedsOf(x) \subseteq Things
      BY <2>1, <2>3, SupersAre, ThingsAre
    <2> QED BY <2>1, <2>2, <2>4
  <1>2. CASE \E s \in Strings : x = String(s)
    <2>1. PICK s \in Strings : x = String(s)
      BY <1>2
    <2>2. x.form = "string" /\ x.dim = 0 /\ x.base = s
      BY <2>1, NamesAre
    <2> QED BY <1>0, <2>1, <2>2 DEF NeedsOf
  <1>3. CASE \E n \in Asked : \E d \in 1 .. n.dim : x = Name(d, n.base)
    <2>1. PICK n \in Asked : \E d \in 1 .. n.dim : x = Name(d, n.base)
      BY <1>3
    <2>2. PICK d \in 1 .. n.dim : x = Name(d, n.base)
      BY <2>1
    <2>3. n.dim \in Nat
      BY LoadersAssumption
    <2>4. x.form = "/" /\ x.dim = d /\ x.base = n.base /\ d \in Nat \ {0}
      BY <2>2, <2>3 DEF Name, Named
    <2>5. ~IsBasic(x) => ElementOf(x) \in Things
      <3>1. ElementOf(x) = Name(0, n.base)
        BY <2>2 DEF ElementOf, Name, Named
      <3> QED BY <2>4, <3>1, ThingsAre DEF IsBasic
    <2>6. x.dim > 1 => LowerOf("bs", x) \in Things
      <3>1. LowerOf("bs", x) = Name(d - 1, n.base)
        BY <2>4 DEF LowerOf, Name
      <3>2. d > 1 => d - 1 \in 1 .. n.dim
        BY <2>2, <2>3
      <3> QED BY <2>4, <3>1, <3>2 DEF Things
    <2>7. NeedsOf(x) \subseteq Things
      BY <1>0, <2>4, <2>5, <2>6 DEF NeedsOf
    <2> QED BY <2>2, <2>4, <2>7
  <1> QED BY <1>1, <1>2, <1>3 DEF Things

(* Nothing but a thing itself has its name.                                *)
LEMMA IsOne ==
  ASSUME NEW k, NEW x \in Things, NEW y \in Things, Is(k, x), Is(k, y)
  PROVE  x = y
  BY ThingIs DEF Is

-----------------------------------------------------------------------------
(* Each step is a step of the abstract table.                              *)
LEMMA TableGrows ==
  ASSUME Recorded, NEW k, Grew(k), UNCHANGED answer,
         \A x \in Things : Is(k, x) /\ First(x) = 0 => Ready(x)
  PROVE  (\E x \in Things : Abstract!Make(x)) \/ (Table' = Table /\ UNCHANGED answer)
  <1>0. PICK id : id = Len(made) + 1
    OBVIOUS
  <1>1. /\ \A x : First(x) # 0 => First(x)' = First(x)
        /\ \A x : First(x) = 0 => First(x)' = IF Is(k, x) THEN id ELSE 0
    BY <1>0, FirstsGrow
  <1>2. id \in Nat \ {0} /\ \A j \in DOMAIN made : j # id
    BY <1>0 DEF Grew
  <1>3. CASE \E x \in Things : Is(k, x) /\ First(x) = 0
    <2>1. PICK x \in Things : Is(k, x) /\ First(x) = 0
      BY <1>3
    <2>2. \A y \in Things \ {x} : First(y)' = First(y)
      BY <1>1, <2>1, IsOne
    <2>3. First(x)' = id
      BY <1>1, <2>1
    <2>4. Table' = [Table EXCEPT ![x] = id] /\ Table'[x] = id
      BY <2>1, <2>2, <2>3 DEF Table
    <2>5. \A y \in Things : Table[y] # id
      <3>1. \A y \in Things : First(y) # 0 => First(y) \in DOMAIN made
        BY FirstIs
      <3> QED BY <1>2, <3>1 DEF Table
    <2>6. NeedsOf(x) \subseteq Things /\ \A y \in NeedsOf(x) : Table[y] # 0
      <3>1. NeedsOf(x) \subseteq Things
        BY ThingIs
      <3>2. \A y \in NeedsOf(x) : First(y) # 0
        BY <2>1 DEF Ready
      <3> QED BY <3>1, <3>2 DEF Table
    <2>7. Table[x] = 0
      BY <2>1 DEF Table
    <2>8. Abstract!Make(x)
      BY <1>2, <2>1, <2>4, <2>5, <2>6, <2>7 DEF Abstract!Make, Abstract!Made
    <2> QED BY <2>8
  <1>4. CASE \A x \in Things : Is(k, x) => First(x) # 0
    <2>1. \A x \in Things : First(x)' = First(x)
      BY <1>1, <1>4
    <2> QED BY <2>1 DEF Table
  <1> QED BY <1>3, <1>4

LEMMA MakesClassMakes ==
  ASSUME IInv, NEW t \in Threads, MakesClass(t)
  PROVE  (\E x \in Things : Abstract!Make(x)) \/ (Table' = Table /\ UNCHANGED answer)
  <1>1. PICK others : Alike(made, others) /\ Insert(t, others)
    BY DEF MakesClass
  <1>2. PICK f, n, id : f = Top(t) /\ n = f.name /\ id = Len(made) + 1
    OBVIOUS
  <1>3. PICK k : k = Class(n, f.proc)
    OBVIOUS
  <1>4. /\ n \in Names /\ n.form \in {"/", "anonymous"} /\ (n.form = "anonymous" => n.dim = 0)
        /\ Grew(k) /\ Leave(t, id) /\ f.proc \in {"bs", "my"} /\ Ready(n) /\ Recorded
    BY <1>1, <1>2, <1>3, InsertGrew, InvIs DEF MakesClass, Alike
  <1>5. UNCHANGED answer
    BY <1>4 DEF Leave, asks
  <1>6. ASSUME NEW x \in Things, Is(k, x) PROVE Ready(x)
    <2>1. x.form # "string" /\ x = Name(n.dim, n.base)
      BY <1>3, <1>4, <1>6, ThingIs DEF Is, Class
    <2>2. NeedsOf(x) = NeedsOf(n)
      <3>1. CASE n.form = "/"
        BY <1>4, <2>1, <3>1, NameIs
      <3>2. CASE n.form = "anonymous"
        <4>1. n.dim = 0 /\ x.dim = 0 /\ x.base = n.base
          BY <1>4, <2>1, <3>2 DEF Name, Named
        <4> QED BY <2>1, <3>2, <4>1 DEF NeedsOf
      <3> QED BY <1>4, <3>1, <3>2
    <2> QED BY <1>4, <2>2 DEF Ready
  <1> QED BY <1>4, <1>5, <1>6, TableGrows

LEMMA InternMakes ==
  ASSUME IInv, NEW t \in Threads, intern(t)
  PROVE  (\E x \in Things : Abstract!Make(x)) \/ (Table' = Table /\ UNCHANGED answer)
  <1>1. PICK s, id : s = Top(t).name /\ id = Len(made) + 1
    OBVIOUS
  <1>2. PICK k : /\ Grew(k) /\ k.loader = "string"
                 /\ \A x : x.form # "string" => ~Is(k, x)
    BY <1>1, InternGrew
  <1>3. Leave(t, string_table'[s])
    BY <1>1, InternGrew
  <1>4. UNCHANGED answer
    BY <1>3 DEF Leave, asks
  <1>5. Recorded /\ MapsOK
    BY InvIs
  <1>6. First(Name(0, "String")) # 0
    <2>1. Name(0, "String") \in DOMAIN system_classmap
      BY <1>5 DEF MapsOK
    <2>2. First(Name(0, "String")) \in DOMAIN made
      BY <1>5, <2>1, InSystem
    <2> QED BY <1>5, <2>2, RecordIs
  <1>7. \A x : Is(k, x) => Ready(x)
    BY <1>2, <1>6 DEF Ready, NeedsOf
  <1> QED BY <1>2, <1>4, <1>5, <1>7, TableGrows

(* Of the three ways to answer, the first is that of a class or a string   *)
(* that is there, the second of a class that may not be had, the third of  *)
(* an anonymous one.                                                       *)
Answers(t) == Abstract!Answer(t) \/ Abstract!Nothing(t) \/ Abstract!Hidden(t)

LEMMA AnsweredIs ==
  ASSUME NEW t \in Threads, NEW id, Answered(t, id)
  PROVE  Abstract!Give(t, request[t].how, request[t].thing, id)
  <1>1. UNCHANGED maps
    BY DEF Answered
  <1>2. Table' = Table
    BY <1>1, SameMaps DEF Table
  <1> QED BY <1>2 DEF Answered, Answer, Abstract!Give

LEMMA ReplyAnswers ==
  ASSUME IInv, DOMAIN answer = Threads, NEW t \in Threads, Reply(t)
  PROVE  Quiet \/ Answers(t)
  <1>1. CASE Exit
    BY <1>1, CallsQuiet
  <1>2. CASE Answered(t, ret[t]) /\ ~(ret[t] = 0 /\ request[t].must)
    <2>1. PICK r, v : r = request[t] /\ v = ret[t]
      OBVIOUS
    <2>2. TypesOK /\ RequestOK(t) /\ Recorded
      BY InvIs
    <2>3. r # None /\ stack[t] = <<>> /\ ~(v = 0 /\ r.must)
      BY <1>2, <2>1 DEF Reply
    <2>4. /\ r.how \in {"boot", "my", "find", "anonymous"} /\ r.thing \in Things /\ v \in Nat
      <3>1. r \in Requests
        BY <2>1, <2>2, <2>3 DEF TypesOK
      <3> QED BY <2>1, <2>2, <3>1 DEF Requests, Procs, TypesOK
    <2>5. /\ r.how \in {"my", "anonymous"} => r.must
          /\ r.thing.form = "string" => r.how = "my"
          /\ r.how = "anonymous" => r.thing.dim = 0 /\ r.thing.base \in AnonClasses
          /\ r.how = "anonymous" => Given("my", [r.thing EXCEPT !.form = "anonymous"], v)
          /\ r.how # "anonymous" =>
               /\ Given("my", r.thing, v)
               /\ v = 0 => r.how # "find"
               /\ v = 0 /\ r.how = "boot" => OfUser(r.thing)
      BY <2>1, <2>2, <2>3 DEF RequestOK
    <2>6. Abstract!Give(t, r.how, r.thing, v)
      BY <1>2, <2>1, AnsweredIs
    <2>7. CASE r.how # "anonymous" /\ v # 0
      <3>1. r.thing.form # "anonymous"
        BY <2>4, ThingIs
      <3>2. v = First(r.thing)
        BY <2>5, <2>7, <3>1 DEF Given
      <3>3. Table[r.thing] = v
        BY <2>4, <3>2 DEF Table
      <3>4. Abstract!Answer(t)
        BY <2>4, <2>6, <2>7, <3>3 DEF Abstract!Answer, Abstract!Made
      <3> QED BY <3>4 DEF Answers
    <2>8. CASE r.how # "anonymous" /\ v = 0
      <3>1. r.how = "boot" /\ OfUser(r.thing)
        BY <2>3, <2>4, <2>5, <2>8
      <3>2. r.thing.base \in UserFiles \union AnonClasses
        BY <3>1 DEF OfUser, Classes
      <3>3. Abstract!Nothing(t)
        BY <2>4, <2>6, <2>8, <3>1, <3>2 DEF Abstract!Nothing
      <3> QED BY <3>3 DEF Answers
    <2>9. CASE r.how = "anonymous"
      <3>1. PICK x : x = r.thing
        OBVIOUS
      <3>2. /\ x \in Things /\ x.dim = 0 /\ x.base \in AnonClasses /\ x.form # "string"
            /\ x = Name(0, x.base)
        BY <2>4, <2>5, <2>9, <3>1, ThingIs
      <3>3. v \in DOMAIN made /\ made[v].loader = "my" /\ KeyOf(made[v]) = Name(0, x.base)
        <4>1. PICK y : y = [x EXCEPT !.form = "anonymous"]
          OBVIOUS
        <4>2. y.form = "anonymous" /\ y.base = x.base
          BY <3>2, <4>1 DEF Name, Named
        <4>3. Given("my", y, v)
          BY <2>5, <2>9, <3>1, <4>1
        <4> QED BY <4>2, <4>3 DEF Given
      <3>4. made[v].dim = 0 /\ made[v].base = x.base
        BY <3>3 DEF KeyOf, Name, Named
      <3>5. IsMade(v, x)
        BY <3>2, <3>3, <3>4 DEF IsMade
      <3>6. v \in Nat \ {0}
        BY <2>2, <3>3, RecordIs DEF Recorded
      <3>7. First(x) # 0
        BY <2>2, <3>3, <3>5, FirstIs
      <3>8. ASSUME NEW y \in Things, First(y) = v PROVE y = x
        <4>1. IsMade(v, y)
          BY <2>2, <3>6, <3>8, FirstIs
        <4> QED BY <3>2, <3>3, <3>4, <4>1, ThingIs DEF IsMade
      <3>9. answer'[t].id = v
        <4>1. answer' = [answer EXCEPT ![t] = [how |-> r.how, thing |-> r.thing, id |-> v]]
          BY <2>6 DEF Abstract!Give
        <4> QED BY <4>1
      <3>10. /\ x \in Abstract!Made /\ x \in {Name(0, c) : c \in AnonClasses}
             /\ \A y \in Abstract!Made \ {x} : Table[y] # v
        BY <3>2, <3>7, <3>8 DEF Abstract!Made, Table
      <3>11. Abstract!Give(t, "anonymous", x, v)
        BY <2>6, <2>9, <3>1
      <3>12. Abstract!Hidden(t)
        BY <3>6, <3>9, <3>10, <3>11 DEF Abstract!Hidden
      <3> QED BY <3>12 DEF Answers
    <2> QED BY <2>7, <2>8, <2>9
  <1> QED BY <1>1, <1>2 DEF Reply

(* Who searches for a class and finds none is right.                       *)
LEMMA FindAnswers ==
  ASSUME IInv, NEW t \in Threads, find_in_classmap(t)
  PROVE  Quiet \/ Answers(t)
  <1>1. stack[t] # <<>> /\ Top(t).proc = "find" /\ Top(t).pc = "other"
    BY DEF find_in_classmap, In
  <1>2. PICK n, r : n = Top(t).name /\ r = request[t]
    OBVIOUS
  <1>3. CASE n \in DOMAIN classmap /\ Return(t, classmap[n])
    BY <1>3, CallsQuiet
  <1>4. CASE n \notin DOMAIN classmap /\ Answered(t, 0)
    <2>1. TypesOK /\ RequestOK(t) /\ Recorded /\ FrameOK(Top(t)) /\ StackOK(t)
      BY <1>1, InvIs, TopOK
    <2>2. n \in Asked /\ n \notin DOMAIN system_classmap
      BY <1>1, <1>2, <2>1 DEF FrameOK
    <2>3. n \in Names /\ n.form = "/" /\ n \in Things /\ n = Name(n.dim, n.base)
      BY <2>2, AskedAre, ThingsAre
    <2>4. Top(t) = stack[t][1]
      BY <1>1, FindAlone DEF Top
    <2>5. r # None
      BY <1>1, <1>2, <2>1 DEF RequestOK
    <2>6. r.how \in {"boot", "my", "find", "anonymous"}
      <3>1. r \in Requests
        BY <1>2, <2>1, <2>5 DEF TypesOK
      <3> QED BY <3>1 DEF Requests, Procs
    <2>7. r.how = "find" /\ (n = r.thing \/ n.form = "bare")
      <3>1. PICK f : f = stack[t][1]
        OBVIOUS
      <3>2. /\ f.proc \in Procs[r.how]
            /\ IF f.proc = "pool" THEN EntryName(f.name) = r.thing
               ELSE IF r.how = "anonymous"
               THEN f.name = [r.thing EXCEPT !.form = "anonymous"]
               ELSE f.name = r.thing \/ f.name.form = "bare"
        BY <1>1, <1>2, <2>1, <2>5, <3>1 DEF RequestOK
      <3>3. f.proc = "find" /\ f.name = n
        BY <1>1, <1>2, <2>4, <3>1
      <3>4. r.how = "find"
        BY <2>6, <3>2, <3>3 DEF Procs
      <3> QED BY <3>2, <3>3, <3>4
    <2>8. Abstract!Give(t, "find", n, 0)
      BY <1>2, <1>4, <2>3, <2>7, AnsweredIs
    <2>9. n \in (Things \ Abstract!Made) \union {Name(0, c) : c \in AnonClasses}
      <3>1. CASE n.dim = 0 /\ n.base \in AnonClasses
        BY <2>3, <3>1
      <3>2. CASE n.dim = 0 => n.base \notin AnonClasses
        <4>1. First(n) = 0
          BY <1>4, <2>1, <2>2, <2>3, <3>2, NotMade
        <4> QED BY <2>3, <4>1 DEF Abstract!Made, Table
      <3> QED BY <3>1, <3>2
    <2>10. Abstract!Nothing(t)
      BY <2>8, <2>9 DEF Abstract!Nothing
    <2> QED BY <2>10 DEF Answers
  <1> QED BY <1>2, <1>3, <1>4 DEF find_in_classmap

(* Every thread has an answer.                                             *)
LEMMA AnswerStays ==
  ASSUME [Next]_vars, DOMAIN answer = Threads PROVE DOMAIN answer' = Threads
  <1>1. \A t, id : Leave(t, id) => UNCHANGED answer
    BY DEF Leave, asks
  <1>2. \A t, others : Insert(t, others) => UNCHANGED answer
    BY <1>1 DEF Insert
  <1>3. \A t, id : Answered(t, id) => DOMAIN answer' = DOMAIN answer
    BY DEF Answered
  <1>4. Quiet => UNCHANGED answer
    BY DEF Quiet
  <1>5. ASSUME NEW t \in Threads, Step(t) PROVE DOMAIN answer' = DOMAIN answer
    <2>1. CASE LoadSupers(t)
      BY <1>2, <1>4, <2>1, CallsQuiet DEF LoadSupers
    <2>2. CASE ObjectLoaded(t)
      BY <1>2, <1>4, <2>2, CallsQuiet DEF ObjectLoaded
    <2>3. CASE intern(t)
      BY <1>1, <2>3 DEF intern
    <2>4. CASE Reply(t) \/ find_in_classmap(t)
      BY <1>3, <1>4, <2>4, CallsQuiet DEF Reply, find_in_classmap
    <2> QED BY <1>4, <1>5, <2>1, <2>2, <2>3, <2>4, StepQuiet
  <1> QED BY <1>4, <1>5, RequestQuiet, StutterQuiet DEF Next

LEMMA InitImplements ==
  ASSUME Init PROVE Abstract!Init
  <1>1. Recorded
    BY InitIInv DEF IInv, TableInv, Recorded
  <1>2. \A x \in Things : First(x) \in {0} \union (Nat \ {0})
    BY <1>1, FirstIs
  <1>3. Table \in [Things -> {0} \union (Nat \ {0})]
    BY <1>2 DEF Table
  <1>4. answer = [t \in Threads |-> Abstract!NoAnswer]
    BY DEF Init, NoAnswer, Abstract!NoAnswer
  <1> QED BY <1>3, <1>4 DEF Abstract!Init

LEMMA NextImplements ==
  ASSUME IInv, DOMAIN answer = Threads, [Next]_vars
  PROVE  [Abstract!Next]_(Abstract!vars)
  <1>1. (Table' = Table /\ UNCHANGED answer) => [Abstract!Next]_(Abstract!vars)
    BY DEF Abstract!vars
  <1>2. Quiet => [Abstract!Next]_(Abstract!vars)
    BY <1>1, QuietStutters
  <1>3. (\E x \in Things : Abstract!Make(x)) => [Abstract!Next]_(Abstract!vars)
    BY DEF Abstract!Next
  <1>4. \A t \in Threads : Answers(t) => [Abstract!Next]_(Abstract!vars)
    BY DEF Abstract!Next, Answers
  <1>5. ASSUME NEW t \in Threads, Step(t) PROVE [Abstract!Next]_(Abstract!vars)
    <2>1. CASE LoadSupers(t) \/ ObjectLoaded(t)
      <3>1. Quiet \/ MakesClass(t)
        BY <2>1, LoadSupersDoes, ObjectLoadedDoes, CallsQuiet
      <3> QED BY <1>1, <1>2, <1>3, <3>1, MakesClassMakes
    <2>2. CASE intern(t)
      BY <1>1, <1>3, <2>2, InternMakes
    <2>3. CASE Reply(t) \/ find_in_classmap(t)
      BY <1>2, <1>4, <2>3, ReplyAnswers, FindAnswers
    <2> QED BY <1>2, <1>5, <2>1, <2>2, <2>3, StepQuiet
  <1> QED BY <1>2, <1>5, RequestQuiet, StutterQuiet DEF Next

-----------------------------------------------------------------------------
(* The maps, the locks and the calls stay in order: what was made is in    *)
(* the map of its loader, under its name and once; a lock counts the calls *)
(* that hold it; and a call has what it goes on with.  No class of the     *)
(* user's is in a package: JVM_DefineClass spells that name with dots and  *)
(* puts the class into the map a second time.                              *)
THEOREM TableKept == Packaged = {} => (Spec => []TableInv)
  <1> SUFFICES ASSUME Packaged = {} PROVE Spec => []TableInv
    OBVIOUS
  <1>1. Init => IInv
    BY InitIInv
  <1>2. IInv /\ [Next]_vars => IInv'
    BY NextInv
  <1>3. IInv => TableInv
    BY DEF IInv
  <1> QED BY <1>1, <1>2, <1>3, PTL DEF Spec

(* The loaders, the string table and the constant pools implement one      *)
(* table: each class and string is made once, after what it is made from,  *)
(* and every answer to loadClass, findLoadedClass, intern or the           *)
(* resolution of an entry is the one in the table.                         *)
THEOREM LoadersImplementTable == Packaged = {} => (Spec => ImplementsClassTable)
  <1> SUFFICES ASSUME Packaged = {} PROVE Spec => ImplementsClassTable
    OBVIOUS
  <1>1. Init => IInv /\ DOMAIN answer = Threads /\ Abstract!Init
    <2>1. Init => DOMAIN answer = Threads
      BY DEF Init
    <2> QED BY <2>1, InitIInv, InitImplements
  <1>2. IInv /\ DOMAIN answer = Threads /\ [Next]_vars =>
          (IInv /\ DOMAIN answer = Threads)'
    BY NextInv, AnswerStays
  <1>3. IInv /\ DOMAIN answer = Threads /\ [Next]_vars =>
          [Abstract!Next]_(Abstract!vars)
    BY NextImplements
  <1> QED BY <1>1, <1>2, <1>3, PTL DEF Spec, ImplementsClassTable, Abstract!Spec
====
