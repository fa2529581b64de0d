------------------------------ MODULE Collector ------------------------------
(***************************************************************************)
(* The copying collection of wind_jvm, GC::system_gc: every object that a  *)
(* root reaches is copied, depth first, the pointers of the roots and of   *)
(* the copies are replaced on the way, and the old objects are deleted.    *)
(*                                                                         *)
(* An address is a position of heap: allocation appends.  An object is the *)
(* sequence of the references it holds (an instance's fields, an array's   *)
(* elements; a boxed number holds none).  A root is a slot that holds one  *)
(* reference; the slots are numbered in the order system_gc visits them.   *)
(*                                                                         *)
(* The collector's thread is alone (module Safepoint) but for threads that *)
(* leave their first wait during the collection: BootRead and BootPush.    *)
(***************************************************************************)
EXTENDS Naturals, Sequences

CONSTANTS NObjects,     \* objects allocated before the collection
          MaxRefs,      \* bound: references one object holds
          Kind          \* what each root slot is, in visiting order

(* The basic types' mirrors; the StringTable; what a klass refers to       *)
(* (static fields, loader, resolved strings of its rt_pool, mirror); per   *)
(* thread its arg, then its frames' locals and stacks; the ThreadTable.    *)
Kinds == {"mirror", "string", "klass", "arg", "frame", "table"}

ASSUME CollectorAssumption ==
  /\ NObjects \in Nat
  /\ MaxRefs \in Nat
  /\ Kind \in Seq(Kinds)
  /\ \A i \in DOMAIN Kind :
       Kind[i] = "arg" => i + 1 \in DOMAIN Kind /\ Kind[i + 1] = "frame"

Null  == 0
Old   == 1..NObjects
Slots == DOMAIN Kind
(* One slot for each thread: its arg.  The next slot is its bottom frame.  *)
Args  == {i \in Slots : Kind[i] = "arg"}
(* Where a java.lang.String keeps its cached hash (a boxed int).           *)
HashField == 2

VARIABLES
  heap,     \* the objects; zero: a String whose characters hash to 0
  pool,     \* Mempool::oop_handler_pool, the objects that are not deleted
  roots,    \* the reference each root slot holds
  fwd,      \* new_oop_map: where the objects copied so far have gone
  at,       \* visit: next root; descend: inside a root's object; done
  cursor,   \* the root slot being visited
  stack,    \* the marker's recursion: object and next field to visit
  boot,     \* has the thread pushed its bottom frame
  temp,     \* the argument a starting thread has read for that frame
  (* history *)
  rootsBefore, \* the roots before the collection, the new frames included
  heapBefore,  \* the objects before the collection
  raced        \* a thread read its argument on one side of the collector's
               \* visit of its frame and pushed it on the other

gcVars   == <<pool, fwd, at, cursor, stack>>
bootVars == <<boot, temp, rootsBefore, raced>>
vars     == <<heap, roots, gcVars, bootVars, heapBefore>>

-----------------------------------------------------------------------------
(* recursive_add_oop_and_its_inner_oops_and_modify_pointers_by_the_way     *)
Known(r) == r = Null \/ r \in DOMAIN fwd
Fwd(r)   == IF r = Null THEN Null ELSE fwd[r]
Fresh    == Len(heap) + 1

(* The heap with reference r in field j of object o. *)
Store(o, j, r) ==
  [heap EXCEPT ![o] = [zero |-> heap[o].zero,
                       refs |-> [heap[o].refs EXCEPT ![j] = r]]]
Record(r, new) ==
  [a \in DOMAIN fwd \union {r} |-> IF a = r THEN new ELSE fwd[a]]

(* A root that is null or whose object has been copied. *)
VisitKnownRoot_Keeps ==
  /\ at = "visit"
  /\ cursor \in Slots
  /\ Known(roots[cursor])
  /\ at' = "descend"
  /\ UNCHANGED <<heap, roots, pool, fwd, cursor, stack, bootVars, heapBefore>>

VisitKnownRoot ==
  /\ at = "visit"
  /\ cursor \in Slots
  /\ Known(roots[cursor])
  /\ roots' = [roots EXCEPT ![cursor] = Fwd(@)]
  /\ at' = "descend"
  /\ UNCHANGED <<heap, pool, fwd, cursor, stack, bootVars, heapBefore>>

(* The first visit of an object copies it, records where it has gone,      *)
(* replaces the pointer and goes on with what the copy refers to.          *)
VisitNewRoot_FromZero ==
  /\ at = "visit"
  /\ cursor \in Slots
  /\ ~Known(roots[cursor])
  /\ heap' = Append(heap, heap[roots[cursor]])
  /\ fwd' = Record(roots[cursor], Fresh)
  /\ roots' = [roots EXCEPT ![cursor] = Fresh]
  /\ stack' = <<[obj |-> Fresh, next |-> 0]>>
  /\ at' = "descend"
  /\ UNCHANGED <<pool, cursor, bootVars, heapBefore>>

VisitNewRoot ==
  /\ at = "visit"
  /\ cursor \in Slots
  /\ ~Known(roots[cursor])
  /\ heap' = Append(heap, heap[roots[cursor]])
  /\ fwd' = Record(roots[cursor], Fresh)
  /\ roots' = [roots EXCEPT ![cursor] = Fresh]
  /\ stack' = <<[obj |-> Fresh, next |-> 1]>>
  /\ at' = "descend"
  /\ UNCHANGED <<pool, cursor, bootVars, heapBefore>>

Top == stack[Len(stack)]
MoreFields ==
  /\ at = "descend"
  /\ stack # <<>>
  /\ Top.next <= Len(heap[Top.obj].refs)
Field == heap[Top.obj].refs[Top.next]
Advanced ==
  [stack EXCEPT ![Len(stack)] = [obj |-> Top.obj, next |-> Top.next + 1]]

VisitKnownField_Keeps ==
  /\ MoreFields
  /\ Known(Field)
  /\ stack' = Advanced
  /\ UNCHANGED <<heap, roots, pool, fwd, at, cursor, bootVars, heapBefore>>

VisitKnownField ==
  /\ MoreFields
  /\ Known(Field)
  /\ heap' = Store(Top.obj, Top.next, Fwd(Field))
  /\ stack' = Advanced
  /\ UNCHANGED <<roots, pool, fwd, at, cursor, bootVars, heapBefore>>

(* Only the first field of a copy is followed. *)
VisitNewField_Shallow ==
  /\ MoreFields
  /\ ~Known(Field)
  /\ heap' = Append(Store(Top.obj, Top.next, Fresh), heap[Field])
  /\ fwd' = Record(Field, Fresh)
  /\ stack' = Advanced
  /\ UNCHANGED <<roots, pool, at, cursor, bootVars, heapBefore>>

VisitNewField ==
  /\ MoreFields
  /\ ~Known(Field)
  /\ heap' = Append(Store(Top.obj, Top.next, Fresh), heap[Field])
  /\ fwd' = Record(Field, Fresh)
  /\ stack' = Append(Advanced, [obj |-> Fresh, next |-> 1])
  /\ UNCHANGED <<roots, pool, at, cursor, bootVars, heapBefore>>

Return_OffByOne ==
  /\ at = "descend"
  /\ stack # <<>>
  /\ Top.next > Len(heap[Top.obj].refs) + 1
  /\ stack' = SubSeq(stack, 1, Len(stack) - 1)
  /\ UNCHANGED <<heap, roots, pool, fwd, at, cursor, bootVars, heapBefore>>

Return ==
  /\ at = "descend"
  /\ stack # <<>>
  /\ Top.next > Len(heap[Top.obj].refs)
  /\ stack' = SubSeq(stack, 1, Len(stack) - 1)
  /\ UNCHANGED <<heap, roots, pool, fwd, at, cursor, bootVars, heapBefore>>

(* The object of a root is complete.  A string goes into the new table,    *)
(* whose hash function caches the hash of a string that has none, that is, *)
(* whose cached hash is 0: the box is allocated (and recorded) as any new  *)
(* object is.                                                              *)
Rehashed == Kind[cursor] = "string" /\ heap[roots[cursor]].zero

NextRoot ==
  /\ at = "descend"
  /\ stack = <<>>
  /\ IF Rehashed
     THEN /\ heap' = Append(Store(roots[cursor], HashField, Fresh),
                            [zero |-> FALSE, refs |-> <<>>])
          /\ pool' = pool \union {Fresh}
     ELSE UNCHANGED <<heap, pool>>
  /\ cursor' = cursor + 1
  /\ at' = "visit"
  /\ UNCHANGED <<roots, fwd, stack, bootVars, heapBefore>>

(* Every object of the pool is deleted; the copies become the pool. *)
Finish_KeepsOld ==
  /\ at = "visit"
  /\ cursor \notin Slots
  /\ pool' = pool \union {fwd[a] : a \in DOMAIN fwd}
  /\ at' = "done"
  /\ UNCHANGED <<heap, roots, fwd, cursor, stack, bootVars, heapBefore>>

Finish ==
  /\ at = "visit"
  /\ cursor \notin Slots
  /\ pool' = {fwd[a] : a \in DOMAIN fwd}
  /\ at' = "done"
  /\ UNCHANGED <<heap, roots, fwd, cursor, stack, bootVars, heapBefore>>

-----------------------------------------------------------------------------
(* A thread that leaves its first wait during the collection: start()      *)
(* builds the bottom frame from its argument and pushes it.                *)
BootRead(i) ==
  /\ boot[i] = "fresh"
  /\ boot' = [boot EXCEPT ![i] = "reading"]
  /\ temp' = [temp EXCEPT ![i] = roots[i]]
  /\ UNCHANGED <<heap, roots, gcVars, rootsBefore, raced, heapBefore>>

Ahead(i) == cursor < i \/ (cursor = i /\ at = "visit")

BootPush(i) ==
  /\ boot[i] = "reading"
  /\ boot' = [boot EXCEPT ![i] = "started"]
  /\ roots' = [roots EXCEPT ![i + 1] = temp[i]]
  /\ rootsBefore' = [rootsBefore EXCEPT ![i + 1] = rootsBefore[i]]
  /\ raced' = (raced \/ (temp[i] \in Old) # Ahead(i + 1))
  /\ UNCHANGED <<heap, gcVars, temp, heapBefore>>

-----------------------------------------------------------------------------
Objects == [zero : BOOLEAN,
            refs : UNION {[1..n -> 0..NObjects] : n \in 0..MaxRefs}]

Init ==
  /\ heapBefore \in [Old -> {o \in Objects : o.zero => Len(o.refs) >= HashField}]
  /\ heap = heapBefore
  /\ pool = Old
  /\ rootsBefore \in [Slots -> 0..NObjects]
  /\ \A i \in Slots : Kind[i] = "string" => rootsBefore[i] # Null
  /\ roots = rootsBefore
  /\ fwd = <<>>
  /\ at = "visit"
  /\ cursor = 1
  /\ stack = <<>>
  /\ boot \in [Args -> {"fresh", "started"}]
  /\ \A i \in Args : boot[i] = "fresh" =>
       rootsBefore[i] # Null /\ rootsBefore[i + 1] = Null
  /\ temp = [i \in Args |-> Null]
  /\ raced = FALSE

GcStep ==
  \/ VisitKnownRoot
  \/ VisitNewRoot
  \/ VisitKnownField
  \/ VisitNewField
  \/ Return
  \/ NextRoot
  \/ Finish

BootStep == \E i \in Args : BootRead(i) \/ BootPush(i)

Next == GcStep \/ BootStep
Spec == Init /\ [][Next]_vars

(* The collector's thread runs on: nothing in system_gc blocks.            *)
FairSpec == Spec /\ WF_vars(GcStep)

-----------------------------------------------------------------------------
(* Every reference is null or the address of an object there is, and the   *)
(* marker is inside the fields of the objects it descends into.            *)
TypeOK ==
  /\ heap \in Seq([zero : BOOLEAN, refs : Seq(Nat)])
  /\ NObjects <= Len(heap)
  /\ \A a \in DOMAIN heap : \A j \in DOMAIN heap[a].refs :
       heap[a].refs[j] <= Len(heap)
  /\ \A a \in DOMAIN heap : heap[a].zero => HashField <= Len(heap[a].refs)
  /\ pool \subseteq DOMAIN heap
  /\ roots \in [Slots -> 0..Len(heap)]
  /\ \A i \in Slots : Kind[i] = "string" => roots[i] # Null
  /\ fwd \in [DOMAIN fwd -> DOMAIN heap]
  /\ DOMAIN fwd \subseteq DOMAIN heap
  /\ at \in {"visit", "descend", "done"}
  /\ cursor \in Nat \ {0}
  /\ cursor \notin Slots => at # "descend"
  /\ at = "done" => cursor \notin Slots
  /\ stack \in Seq([obj : Nat, next : Nat \ {0}])
  /\ \A k \in DOMAIN stack :
       /\ stack[k].obj \in DOMAIN heap
       /\ stack[k].next <= Len(heap[stack[k].obj].refs) + 1
  /\ boot \in [Args -> {"fresh", "reading", "started"}]
  /\ temp \in [Args -> 0..Len(heap)]
  /\ raced \in BOOLEAN
  /\ rootsBefore \in [Slots -> 0..NObjects]
  /\ heapBefore \in [Old -> [zero : BOOLEAN, refs : Seq(0..NObjects)]]

(* The objects the program could reach when the collection began, without  *)
(* a recursive definition: what every closed set contains.                 *)
Closed(S) ==
  /\ \A i \in Slots : rootsBefore[i] # Null => rootsBefore[i] \in S
  /\ \A a \in S : \A j \in DOMAIN heapBefore[a].refs :
       heapBefore[a].refs[j] # Null => heapBefore[a].refs[j] \in S

(* The cached hash of a string that hashes to 0 is the one field that the  *)
(* collection changes.                                                     *)
IsZeroHash(a, j) == heapBefore[a].zero /\ j = HashField

(* What the marker has still to do: field j of copy c. *)
Pending(c, j) == \E k \in DOMAIN stack : stack[k].obj = c /\ stack[k].next <= j
Visited(i) == at = "done" \/ i < cursor \/ (i = cursor /\ at = "descend")

-----------------------------------------------------------------------------
(* The inductive invariant, for a collection no starting thread races.     *)

OldUntouched == \A a \in Old : heap[a] = heapBefore[a]

FwdInjective ==
  /\ DOMAIN fwd \subseteq Old
  /\ \A a \in DOMAIN fwd : fwd[a] > NObjects
  /\ \A a, b \in DOMAIN fwd : fwd[a] = fwd[b] => a = b

RootsForwarded ==
  \A i \in Slots :
    IF Visited(i)
    THEN Known(rootsBefore[i]) /\ roots[i] = Fwd(rootsBefore[i])
    ELSE roots[i] = rootsBefore[i]

CopiesForwarded ==
  \A a \in DOMAIN fwd :
    /\ heap[fwd[a]].zero = heapBefore[a].zero
    /\ Len(heap[fwd[a]].refs) = Len(heapBefore[a].refs)
    /\ \A j \in DOMAIN heapBefore[a].refs :
         IF Pending(fwd[a], j)
         THEN heap[fwd[a]].refs[j] = heapBefore[a].refs[j]
         ELSE /\ Known(heapBefore[a].refs[j])
              /\ \/ heap[fwd[a]].refs[j] = Fwd(heapBefore[a].refs[j])
                 \/ IsZeroHash(a, j)

StackOfCopies ==
  /\ at # "descend" => stack = <<>>
  /\ \A k \in DOMAIN stack : \E a \in DOMAIN fwd : fwd[a] = stack[k].obj
  /\ \A k, l \in DOMAIN stack : stack[k].obj = stack[l].obj => k = l

OnlyReachable == \A S \in SUBSET Old : Closed(S) => DOMAIN fwd \subseteq S

StartsAgree ==
  /\ \A i \in Args : boot[i] # "started" => roots[i + 1] = Null /\ rootsBefore[i + 1] = Null
  /\ \A i \in Args : boot[i] = "reading" =>
       \/ temp[i] = rootsBefore[i]
       \/ Visited(i) /\ Known(rootsBefore[i]) /\ temp[i] = Fwd(rootsBefore[i])

PoolSwapped == at = "done" => pool = {fwd[a] : a \in DOMAIN fwd}

Marking ==
  /\ OldUntouched
  /\ FwdInjective
  /\ RootsForwarded
  /\ CopiesForwarded
  /\ StackOfCopies
  /\ OnlyReachable
  /\ StartsAgree
  /\ PoolSwapped

CInv == ~raced => Marking

-----------------------------------------------------------------------------
(* The old objects are deleted (gc.cpp:298) only when nothing refers to    *)
(* them: neither a root nor an object that is kept.                        *)
NothingDangles ==
  at = "done" /\ ~raced =>
    /\ \A i \in Slots : roots[i] \in pool \union {Null}
    /\ \A a \in DOMAIN fwd : \A j \in DOMAIN heap[fwd[a]].refs :
         heap[fwd[a]].refs[j] \in pool \union {Null} \/ IsZeroHash(a, j)

(* The roots see the same objects as before the collection: what was one   *)
(* object is one object, what were two are two, and each field refers to   *)
(* the copy of what it referred to.                                        *)
GraphPreserved ==
  at = "done" /\ ~raced =>
    /\ \A i \in Slots : Known(rootsBefore[i]) /\ roots[i] = Fwd(rootsBefore[i])
    /\ \A a, b \in DOMAIN fwd : fwd[a] = fwd[b] => a = b
    /\ \A a \in DOMAIN fwd : \A j \in DOMAIN heapBefore[a].refs :
         \/ /\ Known(heapBefore[a].refs[j])
            /\ heap[fwd[a]].refs[j] = Fwd(heapBefore[a].refs[j])
         \/ IsZeroHash(a, j)

(* Exactly what a root reaches is kept: the copied objects are a closed    *)
(* set, they lie in every closed set, and the pool is their copies.        *)
GarbageDropped ==
  at = "done" /\ ~raced =>
    /\ pool = {fwd[a] : a \in DOMAIN fwd}
    /\ Closed(DOMAIN fwd)
    /\ \A S \in SUBSET Old : Closed(S) => DOMAIN fwd \subseteq S

(* The marker ends, whatever cycles the objects form.                      *)
CollectionEnds == <>(at = "done")

-----------------------------------------------------------------------------
(* What comments of the code say and the code does not do.                 *)

(* gc.cpp:212: the StringTable's strings "are all remained".  The table's  *)
(* hash function gives the copy of a string that hashes to 0 (the empty    *)
(* string) a box that is recorded in the pool about to be deleted.         *)
StringsRemain ==
  at = "done" /\ ~raced =>
    \A i \in Slots : Kind[i] = "string" =>
      \A j \in DOMAIN heap[roots[i]].refs :
        heap[roots[i]].refs[j] \in pool \union {Null}

(* gc.cpp:219: new_oop_map is a map "for getting rid of duplication".  A   *)
(* thread that pushes its frame between the visits of its argument and of  *)
(* its frames gives the marker a copy, which it copies again.              *)
NoDuplication == DOMAIN fwd \subseteq Old
=============================================================================
