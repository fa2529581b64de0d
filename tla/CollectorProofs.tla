--------------------------- MODULE CollectorProofs ---------------------------
(***************************************************************************)
(* Proofs about Collector: for every heap, every set of roots and every    *)
(* start of a thread that does not race with the collector's visit of its  *)
(* stack, the collection keeps exactly the reachable objects, and the      *)
(* roots see the same graph.                                               *)
(***************************************************************************)
EXTENDS Collector, TLAPS

Object == [zero : BOOLEAN, refs : Seq(Nat)]

-----------------------------------------------------------------------------
LEMMA SeqElement ==
  ASSUME NEW S, NEW s \in Seq(S)
  PROVE  /\ Len(s) \in Nat
         /\ DOMAIN s = 1..Len(s)
         /\ \A i \in 1..Len(s) : s[i] \in S
  OBVIOUS

LEMMA SeqNonEmpty ==
  ASSUME NEW S, NEW s \in Seq(S), s # <<>>
  PROVE  Len(s) \in 1..Len(s)
  OBVIOUS

LEMMA FunctionIsSeq ==
  ASSUME NEW S, NEW n \in Nat, NEW s \in [1..n -> S]
  PROVE  s \in Seq(S) /\ Len(s) = n
  OBVIOUS

LEMMA FrontFacts ==
  ASSUME NEW S, NEW s \in Seq(S), s # <<>>
  PROVE  /\ SubSeq(s, 1, Len(s) - 1) \in Seq(S)
         /\ DOMAIN SubSeq(s, 1, Len(s) - 1) = 1..(Len(s) - 1)
         /\ \A i \in 1..(Len(s) - 1) : SubSeq(s, 1, Len(s) - 1)[i] = s[i]
  BY SeqNonEmpty

LEMMA ObjectParts ==
  ASSUME NEW o \in Object
  PROVE  /\ o.refs \in Seq(Nat)
         /\ o.zero \in BOOLEAN
         /\ Len(o.refs) \in Nat
         /\ DOMAIN o.refs = 1..Len(o.refs)
         /\ \A j \in 1..Len(o.refs) : o.refs[j] \in Nat
<1>1. o.refs \in Seq(Nat) /\ o.zero \in BOOLEAN
  BY DEF Object
<1> QED
  BY <1>1, SeqElement

(* Storing a reference changes one field of one object.                    *)
LEMMA StoreFacts ==
  ASSUME heap \in Seq(Object), NEW o \in DOMAIN heap,
         NEW j \in DOMAIN heap[o].refs, NEW v \in Nat
  PROVE  /\ Store(o, j, v) \in Seq(Object)
         /\ Len(Store(o, j, v)) = Len(heap)
         /\ \A a \in 1..Len(heap) : a # o => Store(o, j, v)[a] = heap[a]
         /\ \A a \in 1..Len(heap) :
              /\ Store(o, j, v)[a].zero = heap[a].zero
              /\ Len(Store(o, j, v)[a].refs) = Len(heap[a].refs)
              /\ \A k \in DOMAIN heap[a].refs :
                   Store(o, j, v)[a].refs[k] =
                     IF a = o /\ k = j THEN v ELSE heap[a].refs[k]
<1> DEFINE new == [heap[o].refs EXCEPT ![j] = v]
           x == [zero |-> heap[o].zero, refs |-> new]
<1>1. /\ heap[o] \in Object
      /\ heap[o].refs \in Seq(Nat)
      /\ heap[o].zero \in BOOLEAN
  BY SeqElement, ObjectParts
<1>2. /\ new \in Seq(Nat)
      /\ Len(new) = Len(heap[o].refs)
      /\ \A k \in DOMAIN heap[o].refs :
           new[k] = IF k = j THEN v ELSE heap[o].refs[k]
  BY <1>1
<1> HIDE DEF new
<1>3. /\ x \in Object
      /\ x.zero = heap[o].zero
      /\ x.refs = new
  BY <1>1, <1>2 DEF Object
<1>4. Store(o, j, v) = [heap EXCEPT ![o] = x]
  BY DEF Store, new
<1> HIDE DEF x
<1>5. [heap EXCEPT ![o] = x] \in Seq(Object)
  BY <1>3
<1>6. Len([heap EXCEPT ![o] = x]) = Len(heap)
  BY <1>3
<1>7. \A a \in 1..Len(heap) :
        [heap EXCEPT ![o] = x][a] = IF a = o THEN x ELSE heap[a]
  OBVIOUS
<1> QED
  BY <1>2, <1>3, <1>4, <1>5, <1>6, <1>7

(* Allocation leaves every address as it is and adds one.                  *)
LEMMA AppendFacts ==
  ASSUME NEW h \in Seq(Object), NEW x \in Object
  PROVE  /\ Append(h, x) \in Seq(Object)
         /\ Len(Append(h, x)) = Len(h) + 1
         /\ \A a \in 1..Len(h) : Append(h, x)[a] = h[a]
         /\ Append(h, x)[Len(h) + 1] = x
  OBVIOUS

-----------------------------------------------------------------------------
(* What TypeOK says of the heap and of the marker, in the form the steps   *)
(* use.                                                                    *)
LEMMA HeapTyped ==
  ASSUME TypeOK
  PROVE  /\ heap \in Seq(Object)
         /\ Len(heap) \in Nat
         /\ DOMAIN heap = 1..Len(heap)
         /\ \A a \in DOMAIN heap : /\ heap[a] \in Object
                                   /\ heap[a].refs \in Seq(Nat)
                                   /\ heap[a].zero \in BOOLEAN
         /\ NObjects \in Nat
         /\ Fresh \in Nat
         /\ Fresh > Len(heap)
<1>1. heap \in Seq(Object) /\ NObjects \in Nat
  BY CollectorAssumption DEF TypeOK, Object
<1>2. /\ Len(heap) \in Nat
      /\ DOMAIN heap = 1..Len(heap)
      /\ \A a \in 1..Len(heap) : heap[a] \in Object
  BY <1>1, SeqElement
<1> QED
  BY <1>1, <1>2, ObjectParts DEF Fresh

LEMMA Bounds ==
  ASSUME TypeOK
  PROVE  /\ \A a \in 1..Len(heap) : \A k \in DOMAIN heap[a].refs :
              heap[a].refs[k] <= Len(heap)
         /\ \A a \in 1..Len(heap) : heap[a].zero => HashField <= Len(heap[a].refs)
         /\ NObjects <= Len(heap)
<1>1. /\ \A a \in DOMAIN heap : \A k \in DOMAIN heap[a].refs :
           heap[a].refs[k] <= Len(heap)
      /\ \A a \in DOMAIN heap : heap[a].zero => HashField <= Len(heap[a].refs)
      /\ NObjects <= Len(heap)
  BY DEF TypeOK
<1> QED
  BY <1>1, HeapTyped

LEMMA StackTyped ==
  ASSUME TypeOK
  PROVE  /\ stack \in Seq([obj : Nat, next : Nat \ {0}])
         /\ \A k \in DOMAIN stack :
              /\ stack[k].obj \in DOMAIN heap
              /\ stack[k].next <= Len(heap[stack[k].obj].refs) + 1
  BY DEF TypeOK

LEMMA TopTyped ==
  ASSUME TypeOK, stack # <<>>
  PROVE  /\ Len(stack) \in DOMAIN stack
         /\ Top.obj \in DOMAIN heap
         /\ Top.next \in Nat \ {0}
         /\ Top \in [obj : Nat, next : Nat \ {0}]
<1>1. stack \in Seq([obj : Nat, next : Nat \ {0}])
  BY DEF TypeOK
<1>2. Len(stack) \in 1..Len(stack) /\ DOMAIN stack = 1..Len(stack)
  BY <1>1, SeqNonEmpty, SeqElement
<1>4. Top \in [obj : Nat, next : Nat \ {0}]
  BY <1>1, <1>2, SeqElement DEF Top
<1>3. \A k \in DOMAIN stack : stack[k].obj \in DOMAIN heap
  BY DEF TypeOK
<1> QED
  BY <1>2, <1>3, <1>4 DEF Top

LEMMA FieldTyped ==
  ASSUME TypeOK, MoreFields
  PROVE  /\ Top.next \in DOMAIN heap[Top.obj].refs
         /\ Field \in 0..Len(heap)
         /\ stack # <<>>
<1>1. stack # <<>> /\ Top.obj \in DOMAIN heap /\ Top.next \in Nat \ {0}
  BY TopTyped DEF MoreFields
<1>2. Top.next \in DOMAIN heap[Top.obj].refs
  BY <1>1, HeapTyped DEF MoreFields
<1>3. Field \in Nat /\ Field <= Len(heap)
  <2>1. Field \in Nat
    BY <1>1, <1>2, HeapTyped, ObjectParts DEF Field
  <2>2. \A a \in DOMAIN heap : \A j \in DOMAIN heap[a].refs :
          heap[a].refs[j] <= Len(heap)
    BY DEF TypeOK
  <2> QED
    BY <1>1, <1>2, <2>1, <2>2 DEF Field
<1> QED
  BY <1>1, <1>2, <1>3, HeapTyped

(* The marker moves to the next field.                                     *)
LEMMA AdvancedFacts ==
  ASSUME TypeOK, MoreFields
  PROVE  /\ Advanced \in Seq([obj : Nat, next : Nat \ {0}])
         /\ Len(Advanced) = Len(stack)
         /\ DOMAIN Advanced = DOMAIN stack
         /\ \A k \in DOMAIN stack :
              /\ Advanced[k].obj = stack[k].obj
              /\ Advanced[k].next =
                   IF k = Len(stack) THEN Top.next + 1 ELSE stack[k].next
         /\ Top = stack[Len(stack)]
         /\ Top.next + 1 <= Len(heap[Top.obj].refs) + 1
<1>1. Len(stack) \in DOMAIN stack /\ Top.next \in Nat \ {0}
  BY TopTyped, FieldTyped
<1>2. stack \in Seq([obj : Nat, next : Nat \ {0}])
  BY DEF TypeOK
<1>3. Top.next + 1 <= Len(heap[Top.obj].refs) + 1
  BY <1>1, HeapTyped, TopTyped, FieldTyped DEF MoreFields
<1> DEFINE x == [obj |-> Top.obj, next |-> Top.next + 1]
<1>4. /\ x \in [obj : Nat, next : Nat \ {0}]
      /\ x.obj = Top.obj
      /\ x.next = Top.next + 1
  BY <1>1, TopTyped, FieldTyped
<1>5. Advanced = [stack EXCEPT ![Len(stack)] = x] /\ Top = stack[Len(stack)]
  BY DEF Advanced, Top
<1> HIDE DEF x
<1>6. /\ Advanced \in Seq([obj : Nat, next : Nat \ {0}])
      /\ Len(Advanced) = Len(stack)
      /\ DOMAIN Advanced = DOMAIN stack
      /\ \A k \in DOMAIN stack :
           Advanced[k] = IF k = Len(stack) THEN x ELSE stack[k]
  BY <1>1, <1>2, <1>4, <1>5
<1> QED
  BY <1>3, <1>4, <1>5, <1>6

-----------------------------------------------------------------------------
LEMMA TypeInit == Init => TypeOK
<1> SUFFICES ASSUME Init PROVE TypeOK
  OBVIOUS
<1>1. \A o \in Objects : /\ o \in [zero : BOOLEAN, refs : Seq(Nat)]
                         /\ o \in [zero : BOOLEAN, refs : Seq(0..NObjects)]
                         /\ \A j \in DOMAIN o.refs : o.refs[j] <= NObjects
  BY CollectorAssumption DEF Objects
<1>2. /\ heap \in [1..NObjects -> Objects]
      /\ \A a \in 1..NObjects : heap[a].zero => HashField <= Len(heap[a].refs)
      /\ heap = heapBefore
  BY DEF Init, Old
<1>3. heap \in Seq(Objects) /\ Len(heap) = NObjects /\ DOMAIN heap = 1..NObjects
  BY <1>2, CollectorAssumption
<1>4. heap \in Seq([zero : BOOLEAN, refs : Seq(Nat)])
  <2>1. \A a \in 1..NObjects : heap[a] \in [zero : BOOLEAN, refs : Seq(Nat)]
    BY <1>1, <1>2
  <2>2. heap \in [1..NObjects -> [zero : BOOLEAN, refs : Seq(Nat)]]
    BY <1>2, <2>1
  <2> HIDE DEF Objects
  <2> QED
    BY <2>2, CollectorAssumption, FunctionIsSeq
<1>5. \A a \in DOMAIN heap : \A j \in DOMAIN heap[a].refs :
        heap[a].refs[j] <= Len(heap)
  BY <1>1, <1>2, <1>3
<1>6. heapBefore \in [Old -> [zero : BOOLEAN, refs : Seq(0..NObjects)]]
  BY <1>1, <1>2 DEF Old
<1>7. DOMAIN fwd = {}
  BY DEF Init
<1>8. fwd \in [DOMAIN fwd -> DOMAIN heap]
  BY DEF Init
<1>9. stack \in Seq([obj : Nat, next : Nat \ {0}]) /\ DOMAIN stack = {}
  BY DEF Init
<1>10. /\ \A a \in DOMAIN heap : heap[a].zero => HashField <= Len(heap[a].refs)
       /\ pool \subseteq DOMAIN heap
  BY <1>2, <1>3 DEF Init, Old
<1>11. /\ roots \in [Slots -> 0..Len(heap)]
       /\ rootsBefore \in [Slots -> 0..NObjects]
       /\ temp \in [Args -> 0..Len(heap)]
       /\ boot \in [Args -> {"fresh", "reading", "started"}]
  BY <1>3, CollectorAssumption DEF Init, Null
<1>13. \A i \in Slots : Kind[i] = "string" => roots[i] # Null
  BY DEF Init
<1>12. /\ at = "visit"
       /\ cursor \in Nat \ {0}
       /\ raced \in BOOLEAN
       /\ NObjects <= Len(heap)
  <2>1. NObjects <= Len(heap)
    BY <1>3, CollectorAssumption
  <2>2. at = "visit" /\ cursor = 1 /\ raced = FALSE
    BY DEF Init
  <2>3. raced \in BOOLEAN
    BY <2>2, Zenon
  <2> QED
    BY <2>1, <2>2, <2>3
<1> QED
  BY <1>4, <1>5, <1>6, <1>7, <1>8, <1>9, <1>10, <1>11, <1>12, <1>13
  DEF TypeOK

-----------------------------------------------------------------------------
(* A well-formed heap: the parts of TypeOK that speak of the objects.      *)
HeapOK(h) ==
  /\ h \in Seq(Object)
  /\ NObjects <= Len(h)
  /\ \A a \in DOMAIN h : \A j \in DOMAIN h[a].refs : h[a].refs[j] <= Len(h)
  /\ \A a \in DOMAIN h : h[a].zero => HashField <= Len(h[a].refs)

LEMMA StoreOK ==
  ASSUME TypeOK, NEW o \in DOMAIN heap, NEW j \in DOMAIN heap[o].refs,
         NEW v \in 0..Len(heap)
  PROVE  HeapOK(Store(o, j, v))
<1>1. heap \in Seq(Object) /\ v \in Nat
  BY HeapTyped
<1>2. \A a \in 1..Len(heap) : DOMAIN heap[a].refs = 1..Len(heap[a].refs)
  BY HeapTyped
<1>3. Store(o, j, v) \in Seq(Object) /\ Len(Store(o, j, v)) = Len(heap)
  BY <1>1, StoreFacts
<1>4. \A a \in 1..Len(heap) :
        /\ Store(o, j, v)[a].zero = heap[a].zero
        /\ Len(Store(o, j, v)[a].refs) = Len(heap[a].refs)
        /\ \A k \in DOMAIN heap[a].refs :
             Store(o, j, v)[a].refs[k] =
               IF a = o /\ k = j THEN v ELSE heap[a].refs[k]
  BY <1>1, StoreFacts
<1>5. \A a \in 1..Len(heap) :
        DOMAIN Store(o, j, v)[a].refs = 1..Len(heap[a].refs)
  BY <1>3, <1>4, SeqElement, ObjectParts
<1>6. /\ \A a \in 1..Len(heap) : \A k \in DOMAIN heap[a].refs :
           heap[a].refs[k] <= Len(heap)
      /\ \A a \in 1..Len(heap) : heap[a].zero => HashField <= Len(heap[a].refs)
      /\ NObjects <= Len(heap)
      /\ v <= Len(heap)
  BY Bounds, HeapTyped
<1>7. ASSUME NEW a \in 1..Len(heap), NEW k \in 1..Len(heap[a].refs)
      PROVE  Store(o, j, v)[a].refs[k] <= Len(heap)
  <2>1. k \in DOMAIN heap[a].refs
    BY <1>2
  <2>2. heap[a].refs[k] <= Len(heap) /\ v <= Len(heap)
    BY <2>1, <1>6
  <2>3. Store(o, j, v)[a].refs[k] = IF a = o /\ k = j THEN v ELSE heap[a].refs[k]
    BY <2>1, <1>4
  <2> QED BY <2>2, <2>3
<1>8. DOMAIN Store(o, j, v) = 1..Len(heap)
  BY <1>3, SeqElement
<1> QED
  BY <1>3, <1>4, <1>5, <1>6, <1>7, <1>8, HeapTyped DEF HeapOK

(* The copy of an object, or a new box, may be appended to a heap that     *)
(* already refers to it.                                                   *)
LEMMA AppendOK ==
  ASSUME NEW h \in Seq(Object), NObjects <= Len(h), NEW x \in Object,
         \A a \in 1..Len(h) : \A j \in DOMAIN h[a].refs :
           h[a].refs[j] <= Len(h) + 1,
         \A a \in 1..Len(h) : h[a].zero => HashField <= Len(h[a].refs),
         \A j \in DOMAIN x.refs : x.refs[j] <= Len(h) + 1,
         x.zero => HashField <= Len(x.refs)
  PROVE  HeapOK(Append(h, x))
<1>1. /\ Append(h, x) \in Seq(Object)
      /\ Len(Append(h, x)) = Len(h) + 1
      /\ \A a \in 1..Len(h) : Append(h, x)[a] = h[a]
      /\ Append(h, x)[Len(h) + 1] = x
  BY AppendFacts
<1>2. Len(h) \in Nat /\ DOMAIN Append(h, x) = 1..Len(h) + 1
  BY <1>1
<1>3. \A a \in DOMAIN Append(h, x) : a \in 1..Len(h) \/ a = Len(h) + 1
  BY <1>2
<1> QED
  BY <1>1, <1>2, <1>3, CollectorAssumption DEF HeapOK

LEMMA StoreAppendOK ==
  ASSUME TypeOK, NEW o \in DOMAIN heap, NEW j \in DOMAIN heap[o].refs,
         NEW x \in Object,
         \A k \in DOMAIN x.refs : x.refs[k] <= Len(heap),
         x.zero => HashField <= Len(x.refs)
  PROVE  HeapOK(Append(Store(o, j, Fresh), x))
<1> DEFINE h == Store(o, j, Fresh)
<1>1. heap \in Seq(Object) /\ Fresh \in Nat /\ Len(heap) \in Nat
  BY HeapTyped
<1>2. h \in Seq(Object) /\ Len(h) = Len(heap)
  BY <1>1, StoreFacts
<1>3. \A a \in 1..Len(heap) :
        /\ h[a].zero = heap[a].zero
        /\ Len(h[a].refs) = Len(heap[a].refs)
        /\ \A k \in DOMAIN heap[a].refs :
             h[a].refs[k] = IF a = o /\ k = j THEN Fresh ELSE heap[a].refs[k]
  BY <1>1, StoreFacts
<1> HIDE DEF h
<1>4. \A a \in 1..Len(heap) : /\ DOMAIN h[a].refs = 1..Len(heap[a].refs)
                              /\ DOMAIN heap[a].refs = 1..Len(heap[a].refs)
  <2> SUFFICES ASSUME NEW a \in 1..Len(heap)
               PROVE  /\ DOMAIN h[a].refs = 1..Len(heap[a].refs)
                      /\ DOMAIN heap[a].refs = 1..Len(heap[a].refs)
    OBVIOUS
  <2>1. heap[a] \in Object /\ h[a] \in Object
    BY <1>1, <1>2, SeqElement
  <2>2. /\ DOMAIN heap[a].refs = 1..Len(heap[a].refs)
        /\ DOMAIN h[a].refs = 1..Len(h[a].refs)
    BY <2>1, ObjectParts
  <2> QED BY <2>2, <1>3
<1>5. \A a \in 1..Len(h) : \A k \in DOMAIN h[a].refs : h[a].refs[k] <= Len(h) + 1
  <2> SUFFICES ASSUME NEW a \in 1..Len(heap), NEW k \in 1..Len(heap[a].refs)
               PROVE  h[a].refs[k] <= Len(heap) + 1
    BY <1>2, <1>4
  <2>1. heap[a].refs[k] <= Len(heap)
    BY <1>4, HeapTyped DEF TypeOK
  <2>2. h[a].refs[k] = IF a = o /\ k = j THEN Fresh ELSE heap[a].refs[k]
    BY <1>3, <1>4
  <2> QED
    <3>1. heap[a].refs[k] \in Nat
      BY <1>4, HeapTyped, ObjectParts
    <3> QED
      BY <1>1, <2>1, <2>2, <3>1 DEF Fresh
<1>6. \A a \in 1..Len(h) : h[a].zero => HashField <= Len(h[a].refs)
  <2>1. \A a \in DOMAIN heap : heap[a].zero => HashField <= Len(heap[a].refs)
    BY DEF TypeOK
  <2> QED
    BY <1>2, <1>3, <2>1, HeapTyped
<1>7. \A k \in DOMAIN x.refs : x.refs[k] <= Len(h) + 1
  BY <1>1, <1>2 DEF Object
<1>8. NObjects <= Len(h)
  BY <1>2 DEF TypeOK
<1>9. HeapOK(Append(h, x))
  BY <1>2, <1>5, <1>6, <1>7, <1>8, AppendOK
<1> QED
  BY <1>9 DEF h

-----------------------------------------------------------------------------
(* The rest of TypeOK is monotone in the size of the heap.                 *)
LEMMA TypeFromHeap ==
  ASSUME TypeOK, HeapOK(heap'), Len(heap) <= Len(heap'),
         \A a \in DOMAIN heap : Len(heap'[a].refs) = Len(heap[a].refs)
  PROVE  /\ DOMAIN heap \subseteq DOMAIN heap'
         /\ 0..Len(heap) \subseteq 0..Len(heap')
         /\ heap' \in Seq([zero : BOOLEAN, refs : Seq(Nat)])
         /\ NObjects <= Len(heap')
         /\ \A a \in DOMAIN heap' : \A j \in DOMAIN heap'[a].refs :
              heap'[a].refs[j] <= Len(heap')
         /\ \A a \in DOMAIN heap' : heap'[a].zero => HashField <= Len(heap'[a].refs)
         /\ pool \subseteq DOMAIN heap'
         /\ roots \in [Slots -> 0..Len(heap')]
         /\ fwd \in [DOMAIN fwd -> DOMAIN heap']
         /\ DOMAIN fwd \subseteq DOMAIN heap'
         /\ temp \in [Args -> 0..Len(heap')]
         /\ \A k \in DOMAIN stack :
              /\ stack[k].obj \in DOMAIN heap'
              /\ stack[k].next <= Len(heap'[stack[k].obj].refs) + 1
<1>1. heap' \in Seq(Object) /\ heap \in Seq(Object)
  BY HeapTyped DEF HeapOK
<1>2. DOMAIN heap \subseteq DOMAIN heap' /\ 0..Len(heap) \subseteq 0..Len(heap')
  BY <1>1
<1>3. HeapOK(heap')
  OBVIOUS
<1>4. roots \in [Slots -> 0..Len(heap')] /\ temp \in [Args -> 0..Len(heap')]
  BY <1>2 DEF TypeOK
<1>5. fwd \in [DOMAIN fwd -> DOMAIN heap'] /\ DOMAIN fwd \subseteq DOMAIN heap'
  BY <1>2 DEF TypeOK
<1>6. \A k \in DOMAIN stack :
        /\ stack[k].obj \in DOMAIN heap'
        /\ stack[k].next <= Len(heap'[stack[k].obj].refs) + 1
  BY <1>2 DEF TypeOK
<1>7. pool \subseteq DOMAIN heap'
  BY <1>2 DEF TypeOK
<1> QED
  BY <1>1, <1>2, <1>3, <1>4, <1>5, <1>6, <1>7 DEF HeapOK, Object

LEMMA RecordFacts ==
  ASSUME NEW r, NEW new
  PROVE  /\ DOMAIN Record(r, new) = DOMAIN fwd \union {r}
         /\ Record(r, new)[r] = new
         /\ \A a \in DOMAIN fwd : a # r => Record(r, new)[a] = fwd[a]
         /\ Record(r, new) \in [DOMAIN fwd \union {r} ->
                                  {fwd[a] : a \in DOMAIN fwd} \union {new}]
  BY DEF Record

LEMMA FwdTyped ==
  ASSUME TypeOK, NEW r \in 0..Len(heap), Known(r)
  PROVE  Fwd(r) \in 0..Len(heap)
  BY HeapTyped, SMTT(30) DEF TypeOK, Known, Fwd, Null

(* ... and what Record adds to it. *)
LEMMA RecordTyped ==
  ASSUME TypeOK, NEW r \in DOMAIN heap,
         DOMAIN heap' = 1..Fresh, fwd' = Record(r, Fresh)
  PROVE  /\ fwd' \in [DOMAIN fwd' -> DOMAIN heap']
         /\ DOMAIN fwd' \subseteq DOMAIN heap'
<1>1. DOMAIN heap \subseteq 1..Fresh /\ Fresh \in 1..Fresh
  BY HeapTyped DEF Fresh
<1>2. \A a \in DOMAIN fwd : fwd[a] \in 1..Fresh /\ a \in 1..Fresh
  BY <1>1 DEF TypeOK
<1>3. /\ DOMAIN fwd' = DOMAIN fwd \union {r}
      /\ fwd'[r] = Fresh
      /\ \A a \in DOMAIN fwd : a # r => fwd'[a] = fwd[a]
  BY DEF Record
<1>5. \A a \in DOMAIN fwd' : fwd'[a] \in 1..Fresh /\ a \in 1..Fresh
  BY <1>1, <1>2, <1>3
<1>4. fwd' = [a \in DOMAIN fwd' |-> fwd'[a]]
  BY DEF Record
<1> QED
  BY <1>4, <1>5

LEMMA TypeStep == TypeOK /\ [Next]_vars => TypeOK'
<1> SUFFICES ASSUME TypeOK, [Next]_vars PROVE TypeOK'
  OBVIOUS
<1> USE DEF Slots, Args, Old
<1>1. CASE VisitKnownRoot
  <2>1. roots[cursor] \in 0..Len(heap) /\ Known(roots[cursor])
    BY <1>1 DEF VisitKnownRoot, TypeOK
  <2>2. Fwd(roots[cursor]) \in 0..Len(heap)
    BY <2>1, FwdTyped
  <2>3. roots' \in [Slots -> 0..Len(heap)]
    BY <1>1, <2>2 DEF VisitKnownRoot, TypeOK
  <2>4. \A i \in Slots : Kind[i] = "string" => roots'[i] # Null
    <3>1. roots[cursor] # Null => Fwd(roots[cursor]) # Null
      BY <2>1, HeapTyped DEF TypeOK, Known, Fwd, Null
    <3> QED
      BY <1>1, <3>1 DEF VisitKnownRoot, TypeOK
  <2> QED
    BY <1>1, <2>3, <2>4 DEF VisitKnownRoot, bootVars, TypeOK
<1>2. CASE VisitNewRoot
  <2>1. roots[cursor] \in DOMAIN heap
    BY <1>2, HeapTyped DEF VisitNewRoot, TypeOK, Known, Null
  <2>2. heap[roots[cursor]] \in Object /\ heap \in Seq(Object)
    BY <2>1, HeapTyped
  <2>3. /\ heap' \in Seq(Object)
        /\ Len(heap') = Fresh
        /\ \A a \in 1..Len(heap) : heap'[a] = heap[a]
        /\ heap'[Fresh] = heap[roots[cursor]]
    BY <1>2, <2>2, AppendFacts DEF VisitNewRoot, Fresh
  <2>4. HeapOK(heap')
    <3>1. \A a \in 1..Len(heap) : \A j \in DOMAIN heap[a].refs :
            heap[a].refs[j] <= Len(heap) + 1
      BY Bounds, HeapTyped, ObjectParts
    <3> QED
      BY <1>2, <2>1, <2>2, <3>1, HeapTyped, AppendOK DEF VisitNewRoot, TypeOK
  <2>5. DOMAIN heap' = 1..Fresh /\ Fresh \in DOMAIN heap' /\ Fresh \in 0..Len(heap')
    BY <2>3, HeapTyped DEF Fresh
  <2>6. fwd' \in [DOMAIN fwd' -> DOMAIN heap'] /\ DOMAIN fwd' \subseteq DOMAIN heap'
    BY <1>2, <2>1, <2>5, RecordTyped DEF VisitNewRoot
  <2>7. roots' \in [Slots -> 0..Len(heap')]
    BY <1>2, <2>3, <2>4, <2>5, HeapTyped, TypeFromHeap DEF VisitNewRoot
  <2>12. \A i \in Slots : Kind[i] = "string" => roots'[i] # Null
    BY <1>2, HeapTyped DEF VisitNewRoot, TypeOK, Null, Fresh
  <2>8. /\ stack' \in Seq([obj : Nat, next : Nat \ {0}])
        /\ DOMAIN stack' = {1}
        /\ stack'[1].obj = Fresh
        /\ stack'[1].next = 1
    BY <1>2, HeapTyped DEF VisitNewRoot
  <2>9. Len(heap'[Fresh].refs) \in Nat
    BY <2>2, <2>3 DEF Object
  <2>10. \A k \in DOMAIN stack' :
           /\ stack'[k].obj \in DOMAIN heap'
           /\ stack'[k].next <= Len(heap'[stack'[k].obj].refs) + 1
    BY <2>5, <2>8, <2>9
  <2>11. Len(heap) <= Len(heap')
    BY <2>3, HeapTyped
  <2> QED
    BY <1>2, <2>3, <2>4, <2>6, <2>7, <2>8, <2>10, <2>11, <2>12, HeapTyped,
       TypeFromHeap
    DEF VisitNewRoot, bootVars, TypeOK
<1>3. CASE VisitKnownField
  <2>1. /\ Top.next \in DOMAIN heap[Top.obj].refs
        /\ Field \in 0..Len(heap)
        /\ Top.obj \in DOMAIN heap
    BY <1>3, FieldTyped, TopTyped DEF VisitKnownField
  <2>2. Fwd(Field) \in 0..Len(heap)
    BY <1>3, <2>1, FwdTyped DEF VisitKnownField
  <2>3. HeapOK(heap')
    BY <1>3, <2>1, <2>2, StoreOK DEF VisitKnownField
  <2>4. /\ Len(heap') = Len(heap)
        /\ \A a \in 1..Len(heap) : Len(heap'[a].refs) = Len(heap[a].refs)
    <3>1. heap' = Store(Top.obj, Top.next, Fwd(Field))
      BY <1>3 DEF VisitKnownField
    <3>2. Fwd(Field) \in Nat /\ heap \in Seq(Object)
      BY <2>2, HeapTyped
    <3> QED
      BY <2>1, <3>1, <3>2, StoreFacts
  <2>5. DOMAIN heap' = DOMAIN heap
    BY <2>3, <2>4, HeapTyped DEF HeapOK
  <2>6. /\ stack' \in Seq([obj : Nat, next : Nat \ {0}])
        /\ DOMAIN stack' = DOMAIN stack
        /\ \A k \in DOMAIN stack :
             /\ stack'[k].obj = stack[k].obj
             /\ stack'[k].next =
                  IF k = Len(stack) THEN Top.next + 1 ELSE stack[k].next
        /\ Top = stack[Len(stack)]
        /\ Top.next + 1 <= Len(heap[Top.obj].refs) + 1
    BY <1>3, AdvancedFacts DEF VisitKnownField
  <2>7. \A k \in DOMAIN stack' :
          /\ stack'[k].obj \in DOMAIN heap'
          /\ stack'[k].next <= Len(heap'[stack'[k].obj].refs) + 1
    BY <2>4, <2>5, <2>6, HeapTyped, StackTyped
  <2> QED
    <3>1. /\ Len(heap) <= Len(heap')
          /\ \A a \in DOMAIN heap : Len(heap'[a].refs) = Len(heap[a].refs)
      BY <2>4, HeapTyped
    <3> QED
      BY <1>3, <2>3, <2>6, <2>7, <3>1, TypeFromHeap
      DEF VisitKnownField, MoreFields, bootVars, TypeOK
<1>4. CASE VisitNewField
  <2>1. /\ Top.next \in DOMAIN heap[Top.obj].refs
        /\ Field \in DOMAIN heap
        /\ Top.obj \in DOMAIN heap
    BY <1>4, FieldTyped, TopTyped, HeapTyped DEF VisitNewField, Known, Null
  <2>2. heap[Field] \in Object /\ heap \in Seq(Object) /\ Fresh \in Nat
    BY <2>1, HeapTyped
  <2> DEFINE h == Store(Top.obj, Top.next, Fresh)
  <2>3. /\ h \in Seq(Object)
        /\ Len(h) = Len(heap)
        /\ \A a \in 1..Len(heap) : Len(h[a].refs) = Len(heap[a].refs)
    BY <2>1, <2>2, StoreFacts
  <2>4. /\ heap' \in Seq(Object)
        /\ Len(heap') = Fresh
        /\ \A a \in 1..Len(heap) : Len(heap'[a].refs) = Len(heap[a].refs)
        /\ heap'[Fresh] = heap[Field]
    <3> HIDE DEF h
    <3>1. heap' = Append(h, heap[Field])
      BY <1>4 DEF VisitNewField, h
    <3> QED
      BY <2>2, <2>3, <3>1, AppendFacts DEF Fresh
  <2>5. HeapOK(heap')
    BY <1>4, <2>1, <2>2, StoreAppendOK DEF VisitNewField, TypeOK
  <2>6. DOMAIN heap' = 1..Fresh /\ Fresh \in DOMAIN heap' /\ Fresh \in 0..Len(heap')
        /\ DOMAIN heap \subseteq DOMAIN heap'
    BY <2>4, HeapTyped DEF Fresh
  <2>7. fwd' \in [DOMAIN fwd' -> DOMAIN heap'] /\ DOMAIN fwd' \subseteq DOMAIN heap'
    BY <1>4, <2>1, <2>6, RecordTyped DEF VisitNewField
  <2>8. /\ Advanced \in Seq([obj : Nat, next : Nat \ {0}])
        /\ Len(Advanced) = Len(stack)
        /\ DOMAIN Advanced = DOMAIN stack
        /\ \A k \in DOMAIN stack :
             /\ Advanced[k].obj = stack[k].obj
             /\ Advanced[k].next =
                  IF k = Len(stack) THEN Top.next + 1 ELSE stack[k].next
        /\ Top = stack[Len(stack)]
        /\ Top.next + 1 <= Len(heap[Top.obj].refs) + 1
    BY <1>4, AdvancedFacts DEF VisitNewField
  <2>9. stack' = Append(Advanced, [obj |-> Fresh, next |-> 1])
    BY <1>4 DEF VisitNewField
  <2>10. stack' \in Seq([obj : Nat, next : Nat \ {0}])
    BY <2>2, <2>8, <2>9
  <2>11. \A k \in DOMAIN stack' :
           \/ k \in DOMAIN stack /\ stack'[k] = Advanced[k]
           \/ stack'[k] = [obj |-> Fresh, next |-> 1]
    BY <2>8, <2>9
  <2>12. Len(heap'[Fresh].refs) \in Nat
    BY <2>2, <2>4 DEF Object
  <2>13. \A k \in DOMAIN stack' :
           /\ stack'[k].obj \in DOMAIN heap'
           /\ stack'[k].next <= Len(heap'[stack'[k].obj].refs) + 1
    <3> SUFFICES ASSUME NEW k \in DOMAIN stack'
                 PROVE  /\ stack'[k].obj \in DOMAIN heap'
                        /\ stack'[k].next <= Len(heap'[stack'[k].obj].refs) + 1
      OBVIOUS
    <3>1. CASE k \in DOMAIN stack /\ stack'[k] = Advanced[k]
      <4>1. /\ stack[k].obj \in DOMAIN heap
            /\ stack[k].next <= Len(heap[stack[k].obj].refs) + 1
            /\ Len(heap'[stack[k].obj].refs) = Len(heap[stack[k].obj].refs)
            /\ stack[k].obj \in DOMAIN heap'
        BY <2>4, <2>6, <3>1, HeapTyped, StackTyped
      <4> QED
        BY <2>8, <3>1, <4>1
    <3>2. CASE stack'[k] = [obj |-> Fresh, next |-> 1]
      BY <2>6, <2>12, <3>2
    <3> QED
      BY <2>11, <3>1, <3>2
  <2>14. Len(heap) <= Len(heap')
    BY <2>4, HeapTyped
  <2> QED
    BY <1>4, <2>4, <2>5, <2>7, <2>10, <2>13, <2>14, HeapTyped, TypeFromHeap
    DEF VisitNewField, MoreFields, bootVars, TypeOK
<1>5. CASE Return
  <2>1. /\ stack' \in Seq([obj : Nat, next : Nat \ {0}])
        /\ DOMAIN stack' \subseteq DOMAIN stack
        /\ \A k \in DOMAIN stack' : stack'[k] = stack[k]
    <3>1. /\ stack \in Seq([obj : Nat, next : Nat \ {0}])
          /\ stack # <<>>
          /\ stack' = SubSeq(stack, 1, Len(stack) - 1)
      BY <1>5, StackTyped DEF Return
    <3>2. /\ stack' \in Seq([obj : Nat, next : Nat \ {0}])
          /\ DOMAIN stack' = 1..(Len(stack) - 1)
          /\ \A i \in 1..(Len(stack) - 1) : stack'[i] = stack[i]
      BY <3>1, FrontFacts
    <3>3. DOMAIN stack = 1..Len(stack) /\ Len(stack) \in Nat
      BY <3>1, SeqElement
    <3> QED
      BY <3>2, <3>3
  <2> QED
    BY <1>5, <2>1 DEF Return, bootVars, TypeOK
<1>6. CASE NextRoot /\ Rehashed
  <2>1. cursor \in Slots /\ roots[cursor] \in 0..Len(heap)
    BY <1>6 DEF NextRoot, TypeOK
  <2>2. /\ roots[cursor] \in DOMAIN heap
        /\ heap[roots[cursor]].zero
    BY <1>6, <2>1, HeapTyped DEF Rehashed, TypeOK, Null
  <2>3. HashField \in DOMAIN heap[roots[cursor]].refs
    BY <2>2, HeapTyped, ObjectParts, Bounds DEF HashField
  <2> DEFINE h == Store(roots[cursor], HashField, Fresh)
             x == [zero |-> FALSE, refs |-> <<>>]
  <2>4. x \in Object /\ ~x.zero /\ DOMAIN x.refs = {}
    BY DEF Object
  <2>5. heap' = Append(h, x) /\ pool' = pool \union {Fresh}
    BY <1>6 DEF NextRoot
  <2>6. /\ h \in Seq(Object)
        /\ Len(h) = Len(heap)
        /\ \A a \in 1..Len(heap) : Len(h[a].refs) = Len(heap[a].refs)
    <3>1. heap \in Seq(Object) /\ Fresh \in Nat
      BY HeapTyped
    <3> QED
      BY <2>2, <2>3, <3>1, StoreFacts
  <2>7. HeapOK(heap')
    <3> HIDE DEF x
    <3> QED
      BY <2>2, <2>3, <2>4, <2>5, StoreAppendOK
  <2>8. /\ Len(heap') = Len(heap) + 1
        /\ \A a \in 1..Len(heap) : Len(heap'[a].refs) = Len(heap[a].refs)
    <3> HIDE DEF h, x
    <3> QED
      BY <2>4, <2>5, <2>6, AppendFacts
  <2>9. /\ Len(heap) <= Len(heap')
        /\ \A a \in DOMAIN heap : Len(heap'[a].refs) = Len(heap[a].refs)
        /\ Fresh \in DOMAIN heap'
    BY <2>7, <2>8, HeapTyped, SeqElement DEF HeapOK, Fresh
  <2>10. pool' \subseteq DOMAIN heap'
    BY <2>5, <2>7, <2>9, TypeFromHeap
  <2> HIDE DEF h, x
  <2>11. cursor' \in Nat \ {0} /\ at' # "descend" /\ at' = "visit"
    BY <1>6 DEF NextRoot, TypeOK
  <2>12. roots' \in [Slots -> 0..Len(heap')] /\ temp' \in [Args -> 0..Len(heap')]
    BY <1>6, <2>7, <2>9, TypeFromHeap DEF NextRoot, bootVars
  <2>13. /\ fwd' \in [DOMAIN fwd' -> DOMAIN heap']
         /\ DOMAIN fwd' \subseteq DOMAIN heap'
    BY <1>6, <2>7, <2>9, TypeFromHeap DEF NextRoot
  <2>14. /\ stack' \in Seq([obj : Nat, next : Nat \ {0}])
         /\ \A k \in DOMAIN stack' :
              /\ stack'[k].obj \in DOMAIN heap'
              /\ stack'[k].next <= Len(heap'[stack'[k].obj].refs) + 1
    BY <1>6, <2>7, <2>9, TypeFromHeap, StackTyped DEF NextRoot
  <2>15. /\ heap' \in Seq([zero : BOOLEAN, refs : Seq(Nat)])
         /\ NObjects <= Len(heap')
         /\ \A a \in DOMAIN heap' : \A j \in DOMAIN heap'[a].refs :
              heap'[a].refs[j] <= Len(heap')
         /\ \A a \in DOMAIN heap' : heap'[a].zero => HashField <= Len(heap'[a].refs)
    BY <2>7 DEF HeapOK, Object
  <2> QED
    BY <1>6, <2>10, <2>11, <2>12, <2>13, <2>14, <2>15
    DEF NextRoot, bootVars, TypeOK
<1>7. CASE NextRoot /\ ~Rehashed
  <2> QED
    BY <1>7, CollectorAssumption DEF NextRoot, bootVars, TypeOK
<1>8. CASE Finish
  <2>1. pool' \subseteq DOMAIN heap
    BY <1>8 DEF Finish, TypeOK
  <2> QED
    BY <1>8, <2>1 DEF Finish, bootVars, TypeOK
<1>9. CASE \E i \in Args : BootRead(i)
  BY <1>9 DEF BootRead, gcVars, TypeOK
<1>10. CASE \E i \in Args : BootPush(i)
  <2> PICK i \in Args : BootPush(i)
    BY <1>10
  <2>1. i + 1 \in Slots
    BY CollectorAssumption
  <2>2. temp[i] \in 0..Len(heap) /\ rootsBefore[i] \in 0..NObjects
    BY DEF TypeOK
  <2>3. Kind[i + 1] # "string"
    BY CollectorAssumption
  <2> QED
    BY <2>1, <2>2, <2>3 DEF BootPush, gcVars, TypeOK
<1>11. CASE UNCHANGED vars
  BY <1>11 DEF vars, gcVars, bootVars, TypeOK
<1> QED
  BY <1>1, <1>2, <1>3, <1>4, <1>5, <1>6, <1>7, <1>8, <1>9, <1>10, <1>11
  DEF Next, GcStep, BootStep

(* Every reachable state satisfies the type invariant, also when a thread  *)
(* races with the collector: no reference leaves the heap.                 *)
THEOREM TypeCorrect == Spec => []TypeOK
<1>1. Init => TypeOK
  BY TypeInit
<1>2. TypeOK /\ [Next]_vars => TypeOK'
  BY TypeStep
<1> QED
  BY <1>1, <1>2, PTL DEF Spec

-----------------------------------------------------------------------------
(* The objects before the collection.                                      *)
LEMMA BeforeTyped ==
  ASSUME TypeOK, NEW a \in Old
  PROVE  /\ Len(heapBefore[a].refs) \in Nat
         /\ DOMAIN heapBefore[a].refs = 1..Len(heapBefore[a].refs)
         /\ \A j \in DOMAIN heapBefore[a].refs :
              heapBefore[a].refs[j] \in 0..NObjects
<1>1. heapBefore[a].refs \in Seq(0..NObjects)
  BY DEF TypeOK
<1> QED
  BY <1>1, SeqElement

LEMMA FwdAddress ==
  ASSUME TypeOK, NEW a \in DOMAIN fwd
  PROVE  fwd[a] \in 1..Len(heap) /\ fwd[a] # Null
  BY HeapTyped, SMTT(30) DEF TypeOK, Null

(* A root slot is behind the collector or ahead of it.                     *)
LEMMA VisitedOrAhead ==
  ASSUME TypeOK, NEW i \in Slots
  PROVE  Visited(i) <=> ~Ahead(i)
<1>1. cursor \in Nat /\ i \in Nat /\ Slots = 1..Len(Kind) /\ Len(Kind) \in Nat
  BY CollectorAssumption DEF TypeOK, Slots
<1>2. at = "done" => i < cursor
  BY <1>1 DEF TypeOK
<1> QED
  BY <1>1, <1>2 DEF Visited, Ahead, TypeOK

LEMMA MarkingInit == Init => Marking
<1> SUFFICES ASSUME Init PROVE Marking
  OBVIOUS
<1>1. /\ DOMAIN fwd = {}
      /\ DOMAIN stack = {}
      /\ stack = <<>>
      /\ at = "visit"
      /\ cursor = 1
      /\ heap = heapBefore
      /\ roots = rootsBefore
  BY DEF Init
<1>2. \A i \in Slots : ~Visited(i)
  BY <1>1, CollectorAssumption DEF Visited, Slots
<1>3. RootsForwarded
  BY <1>1, <1>2 DEF RootsForwarded
<1>4. StartsAgree
  BY <1>1 DEF StartsAgree, Init
<1> QED
  BY <1>1, <1>3, <1>4 DEF Marking, OldUntouched, FwdInjective, CopiesForwarded,
     StackOfCopies, OnlyReachable, PoolSwapped

-----------------------------------------------------------------------------
(* The copy the marker is in, and the original of its current field.       *)
LEMMA TopOriginal ==
  ASSUME TypeOK, Marking, MoreFields
  PROVE  \E b \in DOMAIN fwd :
           /\ fwd[b] = Top.obj
           /\ b \in Old
           /\ Top.next \in DOMAIN heapBefore[b].refs
           /\ Field = heapBefore[b].refs[Top.next]
           /\ Field \in 0..NObjects
           /\ Top.obj > NObjects
<1>1. /\ Len(stack) \in DOMAIN stack
      /\ Top = stack[Len(stack)]
      /\ Top.next \in DOMAIN heap[Top.obj].refs
      /\ Top.obj \in DOMAIN heap
      /\ Top.next \in Nat
  BY FieldTyped, TopTyped DEF Top
<1>2. PICK b \in DOMAIN fwd : fwd[b] = Top.obj
  BY <1>1 DEF Marking, StackOfCopies
<1>3. b \in Old /\ Top.obj > NObjects
  BY <1>2 DEF Marking, FwdInjective
<1>4. Len(heap[Top.obj].refs) = Len(heapBefore[b].refs)
  BY <1>2 DEF Marking, CopiesForwarded
<1>5. Top.next \in DOMAIN heapBefore[b].refs
  BY <1>1, <1>3, <1>4, BeforeTyped, HeapTyped, ObjectParts
<1>6. Pending(Top.obj, Top.next)
  BY <1>1 DEF Pending
<1>7. Field = heapBefore[b].refs[Top.next]
  BY <1>2, <1>5, <1>6 DEF Marking, CopiesForwarded, Field
<1> QED
  BY <1>2, <1>3, <1>5, <1>7, BeforeTyped

(* Moving to the next field settles the current one and no other.          *)
LEMMA PendingAdvanced ==
  ASSUME TypeOK, Marking, MoreFields,
         \/ stack' = Advanced
         \/ stack' = Append(Advanced, [obj |-> Fresh, next |-> 1]),
         NEW c \in 1..Len(heap), NEW j \in Nat
  PROVE  Pending(c, j)' <=> Pending(c, j) /\ ~(c = Top.obj /\ j = Top.next)
<1>1. /\ Advanced \in Seq([obj : Nat, next : Nat \ {0}])
      /\ Len(Advanced) = Len(stack)
      /\ DOMAIN Advanced = DOMAIN stack
      /\ \A k \in DOMAIN stack :
           /\ Advanced[k].obj = stack[k].obj
           /\ Advanced[k].next =
                IF k = Len(stack) THEN Top.next + 1 ELSE stack[k].next
      /\ Top = stack[Len(stack)]
  BY AdvancedFacts
<1>2. /\ DOMAIN stack = 1..Len(stack)
      /\ Len(stack) \in DOMAIN stack
      /\ Top.next \in Nat
      /\ \A k \in DOMAIN stack : stack[k].next \in Nat
  <2>1. stack \in Seq([obj : Nat, next : Nat \ {0}])
    BY StackTyped
  <2>2. /\ DOMAIN stack = 1..Len(stack)
        /\ \A k \in 1..Len(stack) : stack[k] \in [obj : Nat, next : Nat \ {0}]
    BY <2>1, SeqElement
  <2>3. \A k \in DOMAIN stack : stack[k].next \in Nat
    BY <2>2
  <2>4. Len(stack) \in DOMAIN stack /\ Top.next \in Nat
    BY TopTyped, FieldTyped
  <2> QED
    BY <2>2, <2>3, <2>4
<1>3. /\ DOMAIN stack \subseteq DOMAIN stack'
      /\ \A k \in DOMAIN stack : stack'[k] = Advanced[k]
      /\ \A k \in DOMAIN stack' : k \in DOMAIN stack \/ stack'[k].obj = Fresh
  BY <1>1, <1>2, SMTT(30)
<1>4. c # Fresh
  BY HeapTyped
<1>5. \A k, l \in DOMAIN stack : stack[k].obj = stack[l].obj => k = l
  BY DEF Marking, StackOfCopies
<1>6. ASSUME Pending(c, j)'
      PROVE  Pending(c, j) /\ ~(c = Top.obj /\ j = Top.next)
  <2>1. PICK k \in DOMAIN stack' : stack'[k].obj = c /\ stack'[k].next <= j
    BY <1>6 DEF Pending
  <2>2. k \in DOMAIN stack /\ stack[k].obj = c /\ stack'[k] = Advanced[k]
    BY <1>1, <1>3, <1>4, <2>1
  <2>3. stack[k].next <= j
    <3>1. stack'[k].next = IF k = Len(stack) THEN Top.next + 1 ELSE stack[k].next
      BY <1>1, <2>2
    <3>2. stack[k].next \in Nat /\ (k = Len(stack) => stack[k].next = Top.next)
      BY <1>1, <1>2, <2>2
    <3> QED
      BY <2>1, <3>1, <3>2
  <2>4. c = Top.obj => k = Len(stack)
    BY <1>1, <1>2, <1>5, <2>2
  <2> QED
    BY <1>1, <1>2, <2>1, <2>2, <2>3, <2>4, SMTT(30) DEF Pending
<1>7. ASSUME Pending(c, j), ~(c = Top.obj /\ j = Top.next)
      PROVE  Pending(c, j)'
  <2>1. PICK k \in DOMAIN stack : stack[k].obj = c /\ stack[k].next <= j
    BY <1>7 DEF Pending
  <2>2. stack'[k].obj = c /\ k \in DOMAIN stack'
    BY <1>1, <1>3, <2>1
  <2>3. stack'[k].next <= j
    <3>1. stack'[k].next = IF k = Len(stack) THEN Top.next + 1 ELSE stack[k].next
      BY <1>1, <1>3, <2>1
    <3>2. k = Len(stack) => stack[k].next = Top.next /\ c = Top.obj
      BY <1>1, <2>1
    <3>3. stack[k].next \in Nat /\ Top.next \in Nat
      BY <1>2, <2>1
    <3> QED
      BY <1>7, <2>1, <3>1, <3>2, <3>3
  <2> QED
    BY <2>2, <2>3 DEF Pending
<1> QED
  BY <1>6, <1>7

-----------------------------------------------------------------------------
(* Each step of the collector keeps Marking.                               *)
LEMMA MarkingVisitKnownRoot ==
  ASSUME TypeOK, Marking, VisitKnownRoot
  PROVE  Marking'
<1>1. /\ at = "visit" /\ at' = "descend" /\ cursor \in Slots
      /\ Known(roots[cursor])
      /\ roots' = [roots EXCEPT ![cursor] = Fwd(roots[cursor])]
      /\ UNCHANGED <<heap, pool, fwd, cursor, stack, bootVars, heapBefore>>
  BY DEF VisitKnownRoot
<1>2. cursor \in Nat /\ Slots \subseteq Nat
  BY CollectorAssumption DEF TypeOK, Slots
<1>3. \A i \in Slots : Visited(i)' <=> Visited(i) \/ i = cursor
  BY <1>1, <1>2 DEF Visited
<1>4. ~Visited(cursor)
  BY <1>1, <1>2 DEF Visited
<1>5. RootsForwarded'
  BY <1>1, <1>3, <1>4 DEF Marking, RootsForwarded, TypeOK, Known, Fwd, bootVars
<1>6. StartsAgree'
  <2>1. \A i \in Args : i \in Slots /\ i + 1 \in Slots
    BY CollectorAssumption DEF Args, Slots
  <2>2. \A i \in Slots : roots[i] = Null => roots'[i] = Null
    BY <1>1 DEF TypeOK, Fwd
  <2> QED
    BY <1>1, <1>3, <2>1, <2>2 DEF Marking, StartsAgree, Known, Fwd, bootVars
<1> QED
  BY <1>1, <1>5, <1>6 DEF Marking, OldUntouched, FwdInjective, CopiesForwarded,
     StackOfCopies, OnlyReachable, PoolSwapped, Pending, Known, Fwd, IsZeroHash,
     Closed, bootVars

LEMMA MarkingVisitNewRoot ==
  ASSUME TypeOK, Marking, VisitNewRoot
  PROVE  Marking'
<1> DEFINE r == roots[cursor]
<1>1. /\ at = "visit" /\ at' = "descend" /\ cursor \in Slots
      /\ r # Null /\ r \notin DOMAIN fwd
      /\ heap' = Append(heap, heap[r])
      /\ fwd' = Record(r, Fresh)
      /\ roots' = [roots EXCEPT ![cursor] = Fresh]
      /\ stack' = <<[obj |-> Fresh, next |-> 1]>>
      /\ UNCHANGED <<pool, cursor, bootVars, heapBefore>>
  BY DEF VisitNewRoot, Known
<1>2. cursor \in Nat /\ Slots \subseteq Nat
  BY CollectorAssumption DEF TypeOK, Slots
<1>3. \A i \in Slots : Visited(i)' <=> Visited(i) \/ i = cursor
  BY <1>1, <1>2 DEF Visited
<1>4. ~Visited(cursor) /\ r = rootsBefore[cursor]
  BY <1>1, <1>2 DEF Visited, Marking, RootsForwarded
<1>5. r \in Old /\ Old \subseteq 1..Len(heap)
  <2>1. r \in 0..NObjects
    BY <1>1, <1>4 DEF TypeOK
  <2> QED
    BY <1>1, <2>1, HeapTyped, Bounds DEF Old, Null
<1> HIDE DEF r
<1>6. /\ \A a \in 1..Len(heap) : heap'[a] = heap[a]
      /\ heap'[Fresh] = heap[r]
  BY <1>1, <1>5, HeapTyped, AppendFacts DEF Fresh
<1>7. /\ DOMAIN fwd' = DOMAIN fwd \union {r}
      /\ fwd'[r] = Fresh
      /\ \A a \in DOMAIN fwd : fwd'[a] = fwd[a]
  BY <1>1 DEF Record
<1>8. /\ DOMAIN stack' = {1}
      /\ stack'[1] = [obj |-> Fresh, next |-> 1]
      /\ DOMAIN stack = {}
  BY <1>1 DEF Marking, StackOfCopies
<1>9. \A a \in DOMAIN fwd : fwd[a] \in 1..Len(heap) /\ fwd[a] # Fresh /\ a \in Old
  BY FwdAddress, HeapTyped DEF Marking, FwdInjective
<1>10. OldUntouched'
  BY <1>1, <1>5, <1>6 DEF Marking, OldUntouched
<1>11. FwdInjective'
  BY <1>5, <1>7, <1>9, HeapTyped, Bounds DEF Marking, FwdInjective
<1>12. \A v : Known(v) => Known(v)' /\ Fwd(v)' = Fwd(v)
  BY <1>7 DEF Known, Fwd
<1>13. RootsForwarded'
  <2>1. Known(rootsBefore[cursor])' /\ roots'[cursor] = Fwd(rootsBefore[cursor])'
    BY <1>1, <1>4, <1>7 DEF Known, Fwd, TypeOK, bootVars, r
  <2> QED
    BY <1>1, <1>3, <1>12, <2>1 DEF Marking, RootsForwarded, TypeOK, bootVars
<1>14. CopiesForwarded'
  <2>1. \A k \in DOMAIN stack' : k = 1 /\ stack'[k].obj = Fresh /\ stack'[k].next = 1
    BY <1>8
  <2>2. \A c, j : ~Pending(c, j)
    BY <1>8 DEF Pending
  <2> SUFFICES ASSUME NEW a \in DOMAIN fwd'
               PROVE  /\ heap'[fwd'[a]].zero = heapBefore[a].zero
                      /\ Len(heap'[fwd'[a]].refs) = Len(heapBefore[a].refs)
                      /\ \A j \in DOMAIN heapBefore[a].refs :
                           IF Pending(fwd[a], j)'
                           THEN heap'[fwd'[a]].refs[j] = heapBefore[a].refs[j]
                           ELSE /\ Known(heapBefore[a].refs[j])'
                                /\ \/ heap'[fwd'[a]].refs[j] = Fwd(heapBefore[a].refs[j])'
                                   \/ IsZeroHash(a, j)
    BY <1>1 DEF CopiesForwarded, IsZeroHash
  <2>3. CASE a = r
    <3>1. heap'[fwd'[a]] = heapBefore[a] /\ fwd'[a] = Fresh
      BY <1>5, <1>6, <1>7, <2>3 DEF Marking, OldUntouched
    <3>2. \A j \in DOMAIN heapBefore[a].refs : 1 <= j
      BY <1>5, <2>3, BeforeTyped
    <3>3. \A j \in DOMAIN heapBefore[a].refs : Pending(fwd[a], j)'
      BY <1>8, <3>1, <3>2 DEF Pending
    <3> QED
      BY <3>1, <3>3
  <2>4. CASE a \in DOMAIN fwd
    <3>1. fwd'[a] = fwd[a] /\ heap'[fwd'[a]] = heap[fwd[a]] /\ fwd[a] # Fresh
      BY <1>6, <1>7, <1>9, <2>4
    <3>2. \A j : ~Pending(fwd[a], j)'
      BY <2>1, <3>1 DEF Pending
    <3>3. /\ heap[fwd[a]].zero = heapBefore[a].zero
          /\ Len(heap[fwd[a]].refs) = Len(heapBefore[a].refs)
          /\ \A j \in DOMAIN heapBefore[a].refs :
               /\ Known(heapBefore[a].refs[j])
               /\ \/ heap[fwd[a]].refs[j] = Fwd(heapBefore[a].refs[j])
                  \/ IsZeroHash(a, j)
      BY <2>2, <2>4 DEF Marking, CopiesForwarded
    <3>4. \A j \in DOMAIN heapBefore[a].refs :
            Known(heapBefore[a].refs[j])
              => /\ Known(heapBefore[a].refs[j])'
                 /\ Fwd(heapBefore[a].refs[j])' = Fwd(heapBefore[a].refs[j])
      BY <1>1, <1>7 DEF Known, Fwd
    <3> QED
      BY <3>1, <3>2, <3>3, <3>4
  <2> QED
    BY <1>7, <2>3, <2>4
<1>15. StackOfCopies'
  BY <1>1, <1>7, <1>8 DEF StackOfCopies
<1>16. OnlyReachable'
  <2>1. \A S \in SUBSET Old : Closed(S)' <=> Closed(S)
    BY <1>1 DEF Closed, bootVars
  <2>2. \A S \in SUBSET Old : Closed(S) => r \in S
    BY <1>1, <1>4 DEF Closed, r
  <2> QED
    BY <1>7, <2>1, <2>2 DEF Marking, OnlyReachable
<1>17. StartsAgree'
  <2>1. \A i \in Args : i \in Slots /\ i + 1 \in Slots
    BY CollectorAssumption DEF Args, Slots
  <2>2. \A i \in Slots : roots[i] = Null => roots'[i] = Null
    BY <1>1 DEF TypeOK, r
  <2> QED
    BY <1>1, <1>3, <1>12, <2>1, <2>2 DEF Marking, StartsAgree, bootVars
<1>18. PoolSwapped'
  BY <1>1 DEF PoolSwapped
<1> QED
  BY <1>10, <1>11, <1>13, <1>14, <1>15, <1>16, <1>17, <1>18 DEF Marking

LEMMA MarkingVisitKnownField ==
  ASSUME TypeOK, Marking, VisitKnownField
  PROVE  Marking'
<1>1. /\ MoreFields /\ Known(Field)
      /\ heap' = Store(Top.obj, Top.next, Fwd(Field))
      /\ stack' = Advanced
      /\ UNCHANGED <<roots, pool, fwd, at, cursor, bootVars, heapBefore>>
  BY DEF VisitKnownField
<1>2. PICK b \in DOMAIN fwd :
        /\ fwd[b] = Top.obj
        /\ b \in Old
        /\ Top.next \in DOMAIN heapBefore[b].refs
        /\ Field = heapBefore[b].refs[Top.next]
        /\ Field \in 0..NObjects
        /\ Top.obj > NObjects
  BY <1>1, TopOriginal
<1>3. /\ Top.next \in DOMAIN heap[Top.obj].refs
      /\ Top.obj \in DOMAIN heap
      /\ Fwd(Field) \in Nat
      /\ heap \in Seq(Object)
  BY <1>1, FieldTyped, TopTyped, HeapTyped, FwdTyped
<1>4. /\ \A a \in 1..Len(heap) : a # Top.obj => heap'[a] = heap[a]
      /\ \A a \in 1..Len(heap) :
           /\ heap'[a].zero = heap[a].zero
           /\ Len(heap'[a].refs) = Len(heap[a].refs)
           /\ \A k \in DOMAIN heap[a].refs :
                heap'[a].refs[k] = IF a = Top.obj /\ k = Top.next
                                   THEN Fwd(Field) ELSE heap[a].refs[k]
  BY <1>1, <1>3, StoreFacts, SMTT(30)
<1>5. OldUntouched'
  <2>1. \A a \in Old : a \in 1..Len(heap) /\ a # Top.obj
    BY <1>2, HeapTyped, Bounds DEF Old
  <2> QED
    BY <1>1, <1>4, <2>1 DEF Marking, OldUntouched
<1>6. CopiesForwarded'
  <2> SUFFICES ASSUME NEW a \in DOMAIN fwd
               PROVE  /\ heap'[fwd[a]].zero = heapBefore[a].zero
                      /\ Len(heap'[fwd[a]].refs) = Len(heapBefore[a].refs)
                      /\ \A j \in DOMAIN heapBefore[a].refs :
                           IF Pending(fwd[a], j)'
                           THEN heap'[fwd[a]].refs[j] = heapBefore[a].refs[j]
                           ELSE /\ Known(heapBefore[a].refs[j])
                                /\ \/ heap'[fwd[a]].refs[j] = Fwd(heapBefore[a].refs[j])
                                   \/ IsZeroHash(a, j)
    BY <1>1 DEF CopiesForwarded, IsZeroHash, Known, Fwd
  <2>1. /\ heap[fwd[a]].zero = heapBefore[a].zero
        /\ Len(heap[fwd[a]].refs) = Len(heapBefore[a].refs)
        /\ \A j \in DOMAIN heapBefore[a].refs :
             IF Pending(fwd[a], j)
             THEN heap[fwd[a]].refs[j] = heapBefore[a].refs[j]
             ELSE /\ Known(heapBefore[a].refs[j])
                  /\ \/ heap[fwd[a]].refs[j] = Fwd(heapBefore[a].refs[j])
                     \/ IsZeroHash(a, j)
    BY DEF Marking, CopiesForwarded
  <2>2. fwd[a] \in 1..Len(heap) /\ a \in Old
    BY FwdAddress DEF Marking, FwdInjective
  <2>3. ASSUME NEW j \in DOMAIN heapBefore[a].refs
        PROVE  IF Pending(fwd[a], j)'
               THEN heap'[fwd[a]].refs[j] = heapBefore[a].refs[j]
               ELSE /\ Known(heapBefore[a].refs[j])
                    /\ \/ heap'[fwd[a]].refs[j] = Fwd(heapBefore[a].refs[j])
                       \/ IsZeroHash(a, j)
    <3>1. j \in Nat /\ j \in DOMAIN heap[fwd[a]].refs
      BY <2>1, <2>2, BeforeTyped, HeapTyped, ObjectParts
    <3>2. \A c \in 1..Len(heap) : c = fwd[a] =>
            (Pending(c, j)' <=> Pending(c, j) /\ ~(c = Top.obj /\ j = Top.next))
      BY <1>1, <3>1, PendingAdvanced
    <3>3. Pending(fwd[a], j)'
            <=> Pending(fwd[a], j) /\ ~(fwd[a] = Top.obj /\ j = Top.next)
      BY <1>1, <2>2, <3>2 DEF Pending
    <3>4. CASE fwd[a] = Top.obj /\ j = Top.next
      <4>1. a = b
        BY <1>2, <3>4 DEF Marking, FwdInjective
      <4>2. heap'[fwd[a]].refs[j] = Fwd(Field) /\ Field = heapBefore[a].refs[j]
        BY <1>2, <1>4, <2>2, <3>1, <3>4, <4>1
      <4> QED
        BY <1>1, <3>3, <3>4, <4>2
    <3>5. CASE ~(fwd[a] = Top.obj /\ j = Top.next)
      BY <1>4, <2>1, <2>2, <3>1, <3>3, <3>5
    <3> QED
      BY <3>4, <3>5
  <2> QED
    BY <1>4, <2>1, <2>2, <2>3
<1>7. StackOfCopies'
  <2>1. /\ DOMAIN stack' = DOMAIN stack
        /\ \A k \in DOMAIN stack : stack'[k].obj = stack[k].obj
    BY <1>1, AdvancedFacts
  <2>2. at' = "descend"
    BY <1>1 DEF MoreFields
  <2> QED
    BY <1>1, <2>1, <2>2 DEF Marking, StackOfCopies
<1> QED
  BY <1>1, <1>5, <1>6, <1>7 DEF Marking, FwdInjective, RootsForwarded,
     OnlyReachable, StartsAgree, PoolSwapped, Known, Fwd, Closed, Visited, bootVars

LEMMA MarkingVisitNewField ==
  ASSUME TypeOK, Marking, VisitNewField
  PROVE  Marking'
<1> DEFINE r == Field
<1>1. /\ MoreFields
      /\ r # Null /\ r \notin DOMAIN fwd
      /\ heap' = Append(Store(Top.obj, Top.next, Fresh), heap[r])
      /\ fwd' = Record(r, Fresh)
      /\ stack' = Append(Advanced, [obj |-> Fresh, next |-> 1])
      /\ UNCHANGED <<roots, pool, at, cursor, bootVars, heapBefore>>
  BY DEF VisitNewField, Known
<1>2. PICK b \in DOMAIN fwd :
        /\ fwd[b] = Top.obj
        /\ b \in Old
        /\ Top.next \in DOMAIN heapBefore[b].refs
        /\ r = heapBefore[b].refs[Top.next]
        /\ r \in 0..NObjects
        /\ Top.obj > NObjects
  BY <1>1, TopOriginal
<1> HIDE DEF r
<1>3. r \in Old /\ Old \subseteq 1..Len(heap)
  BY <1>1, <1>2, HeapTyped, Bounds DEF Old, Null
<1>4. /\ Top.next \in DOMAIN heap[Top.obj].refs
      /\ Top.obj \in DOMAIN heap
      /\ Fresh \in Nat
      /\ heap \in Seq(Object)
      /\ heap[r] \in Object
      /\ DOMAIN heap = 1..Len(heap)
  BY <1>1, <1>3, FieldTyped, TopTyped, HeapTyped
<1>5. /\ \A a \in 1..Len(heap) : a # Top.obj => heap'[a] = heap[a]
      /\ heap'[Fresh] = heap[r]
      /\ \A a \in 1..Len(heap) :
           /\ heap'[a].zero = heap[a].zero
           /\ Len(heap'[a].refs) = Len(heap[a].refs)
           /\ \A k \in DOMAIN heap[a].refs :
                heap'[a].refs[k] = IF a = Top.obj /\ k = Top.next
                                   THEN Fresh ELSE heap[a].refs[k]
  <2> DEFINE h == Store(Top.obj, Top.next, Fresh)
  <2>1. /\ h \in Seq(Object)
        /\ Len(h) = Len(heap)
        /\ \A a \in 1..Len(heap) : a # Top.obj => h[a] = heap[a]
        /\ \A a \in 1..Len(heap) :
             /\ h[a].zero = heap[a].zero
             /\ Len(h[a].refs) = Len(heap[a].refs)
             /\ \A k \in DOMAIN heap[a].refs :
                  h[a].refs[k] = IF a = Top.obj /\ k = Top.next
                                 THEN Fresh ELSE heap[a].refs[k]
    BY <1>4, StoreFacts, SMTT(30)
  <2>2. heap' = Append(h, heap[r])
    BY <1>1
  <2> HIDE DEF h
  <2>3. /\ \A a \in 1..Len(heap) : heap'[a] = h[a]
        /\ heap'[Fresh] = heap[r]
    BY <1>4, <2>1, <2>2, AppendFacts DEF Fresh
  <2> QED
    BY <2>1, <2>3
<1>6. /\ DOMAIN fwd' = DOMAIN fwd \union {r}
      /\ fwd'[r] = Fresh
      /\ \A a \in DOMAIN fwd : fwd'[a] = fwd[a]
  BY <1>1 DEF Record
<1>7. \A a \in DOMAIN fwd : fwd[a] \in 1..Len(heap) /\ fwd[a] # Fresh /\ a \in Old
  BY FwdAddress, HeapTyped DEF Marking, FwdInjective
<1>8. \A v : Known(v) => Known(v)' /\ Fwd(v)' = Fwd(v)
  BY <1>6 DEF Known, Fwd
<1>9. /\ DOMAIN stack' = 1..Len(stack) + 1
      /\ DOMAIN stack = 1..Len(stack)
      /\ Len(stack) \in Nat
      /\ \A k \in DOMAIN stack : stack'[k].obj = stack[k].obj
      /\ stack'[Len(stack) + 1] = [obj |-> Fresh, next |-> 1]
  <2>1. /\ Advanced \in Seq([obj : Nat, next : Nat \ {0}])
        /\ Len(Advanced) = Len(stack)
        /\ \A k \in DOMAIN stack : Advanced[k].obj = stack[k].obj
    BY <1>1, AdvancedFacts
  <2>2. DOMAIN stack = 1..Len(stack) /\ Len(stack) \in Nat
    BY StackTyped, SeqElement
  <2> QED
    BY <1>1, <2>1, <2>2
<1>10. OldUntouched'
  <2>1. \A a \in Old : a \in 1..Len(heap) /\ a # Top.obj
    BY <1>2, <1>3, HeapTyped DEF Old
  <2> QED
    BY <1>1, <1>5, <2>1 DEF Marking, OldUntouched
<1>11. FwdInjective'
  BY <1>3, <1>6, <1>7, HeapTyped, Bounds DEF Marking, FwdInjective
<1>12. RootsForwarded'
  BY <1>1, <1>8 DEF Marking, RootsForwarded, Visited, bootVars
<1>13. CopiesForwarded'
  <2> SUFFICES ASSUME NEW a \in DOMAIN fwd'
               PROVE  /\ heap'[fwd'[a]].zero = heapBefore[a].zero
                      /\ Len(heap'[fwd'[a]].refs) = Len(heapBefore[a].refs)
                      /\ \A j \in DOMAIN heapBefore[a].refs :
                           IF Pending(fwd[a], j)'
                           THEN heap'[fwd'[a]].refs[j] = heapBefore[a].refs[j]
                           ELSE /\ Known(heapBefore[a].refs[j])'
                                /\ \/ heap'[fwd'[a]].refs[j] = Fwd(heapBefore[a].refs[j])'
                                   \/ IsZeroHash(a, j)
    BY <1>1 DEF CopiesForwarded, IsZeroHash
  <2>1. CASE a = r
    <3>1. heap'[fwd'[a]] = heapBefore[a] /\ fwd'[a] = Fresh
      BY <1>3, <1>5, <1>6, <2>1 DEF Marking, OldUntouched
    <3>2. \A j \in DOMAIN heapBefore[a].refs : 1 <= j
      BY <1>3, <2>1, BeforeTyped
    <3>3. \A j \in DOMAIN heapBefore[a].refs : Pending(fwd[a], j)'
      BY <1>9, <3>1, <3>2 DEF Pending
    <3> QED
      BY <3>1, <3>3
  <2>2. CASE a \in DOMAIN fwd
    <3>1. fwd'[a] = fwd[a] /\ fwd[a] \in 1..Len(heap) /\ a \in Old
      BY <1>6, <1>7, <2>2
    <3>2. /\ heap[fwd[a]].zero = heapBefore[a].zero
          /\ Len(heap[fwd[a]].refs) = Len(heapBefore[a].refs)
          /\ \A j \in DOMAIN heapBefore[a].refs :
               IF Pending(fwd[a], j)
               THEN heap[fwd[a]].refs[j] = heapBefore[a].refs[j]
               ELSE /\ Known(heapBefore[a].refs[j])
                    /\ \/ heap[fwd[a]].refs[j] = Fwd(heapBefore[a].refs[j])
                       \/ IsZeroHash(a, j)
      BY <2>2 DEF Marking, CopiesForwarded
    <3>3. ASSUME NEW j \in DOMAIN heapBefore[a].refs
          PROVE  IF Pending(fwd[a], j)'
                 THEN heap'[fwd'[a]].refs[j] = heapBefore[a].refs[j]
                 ELSE /\ Known(heapBefore[a].refs[j])'
                      /\ \/ heap'[fwd'[a]].refs[j] = Fwd(heapBefore[a].refs[j])'
                         \/ IsZeroHash(a, j)
      <4>1. j \in Nat /\ j \in DOMAIN heap[fwd[a]].refs
        BY <3>1, <3>2, BeforeTyped, HeapTyped, ObjectParts, SMTT(30)
      <4>2. \A c \in 1..Len(heap) : c = fwd[a] =>
              (Pending(c, j)' <=> Pending(c, j) /\ ~(c = Top.obj /\ j = Top.next))
        BY <1>1, <4>1, PendingAdvanced
      <4>3. Pending(fwd[a], j)'
              <=> Pending(fwd[a], j) /\ ~(fwd[a] = Top.obj /\ j = Top.next)
        BY <3>1, <4>2 DEF Pending
      <4>4. Known(heapBefore[a].refs[j])
              => /\ Known(heapBefore[a].refs[j])'
                 /\ Fwd(heapBefore[a].refs[j])' = Fwd(heapBefore[a].refs[j])
        BY <1>1, <1>6 DEF Known, Fwd
      <4>5. CASE fwd[a] = Top.obj /\ j = Top.next
        <5>1. a = b
          BY <1>2, <2>2, <4>5 DEF Marking, FwdInjective
        <5>2. heap'[fwd'[a]].refs[j] = Fresh /\ r = heapBefore[a].refs[j]
          BY <1>2, <1>5, <3>1, <4>1, <4>5, <5>1
        <5>3. /\ Known(heapBefore[a].refs[j])'
              /\ Fwd(heapBefore[a].refs[j])' = Fresh
          BY <1>1, <1>6, <5>2 DEF Known, Fwd
        <5> QED
          BY <4>3, <4>5, <5>2, <5>3
      <4>6. CASE ~(fwd[a] = Top.obj /\ j = Top.next)
        BY <1>5, <3>1, <3>2, <4>1, <4>3, <4>4, <4>6
      <4> QED
        BY <4>5, <4>6
    <3> QED
      BY <1>5, <3>1, <3>2, <3>3
  <2> QED
    BY <1>6, <2>1, <2>2
<1>14. StackOfCopies'
  <2>1. \A k \in DOMAIN stack : stack[k].obj # Fresh
    BY <1>7 DEF Marking, StackOfCopies
  <2>2. \A k \in DOMAIN stack' : k \in DOMAIN stack \/ k = Len(stack) + 1
    BY <1>9
  <2>3. \A k \in DOMAIN stack' : \E a \in DOMAIN fwd' : fwd'[a] = stack'[k].obj
    BY <1>6, <1>9, <2>2 DEF Marking, StackOfCopies
  <2>4. \A k, l \in DOMAIN stack' : stack'[k].obj = stack'[l].obj => k = l
    BY <1>9, <2>1, <2>2 DEF Marking, StackOfCopies
  <2> QED
    BY <1>1, <2>3, <2>4 DEF StackOfCopies, MoreFields
<1>15. OnlyReachable'
  <2>1. \A S \in SUBSET Old : Closed(S)' <=> Closed(S)
    BY <1>1 DEF Closed, bootVars
  <2>2. \A S \in SUBSET Old : Closed(S) => r \in S
    BY <1>1, <1>2 DEF Closed, Marking, OnlyReachable
  <2> QED
    BY <1>6, <2>1, <2>2 DEF Marking, OnlyReachable
<1>16. StartsAgree'
  BY <1>1, <1>8 DEF Marking, StartsAgree, Visited, bootVars
<1>17. PoolSwapped'
  BY <1>1 DEF PoolSwapped, MoreFields
<1> QED
  BY <1>10, <1>11, <1>12, <1>13, <1>14, <1>15, <1>16, <1>17 DEF Marking

LEMMA MarkingReturn ==
  ASSUME TypeOK, Marking, Return
  PROVE  Marking'
<1>1. /\ at = "descend" /\ stack # <<>>
      /\ Top.next > Len(heap[Top.obj].refs)
      /\ stack' = SubSeq(stack, 1, Len(stack) - 1)
      /\ UNCHANGED <<heap, roots, pool, fwd, at, cursor, bootVars, heapBefore>>
  BY DEF Return
<1>2. /\ DOMAIN stack' = 1..(Len(stack) - 1)
      /\ \A k \in 1..(Len(stack) - 1) : stack'[k] = stack[k]
      /\ DOMAIN stack = 1..Len(stack)
      /\ Len(stack) \in Nat
  BY <1>1, FrontFacts, StackTyped, SeqElement
<1>3. /\ DOMAIN stack' \subseteq DOMAIN stack
      /\ \A k \in DOMAIN stack' : stack'[k] = stack[k]
      /\ \A k \in DOMAIN stack : k \in DOMAIN stack' \/ stack[k] = Top
  BY <1>2 DEF Top
<1>4. \A c \in 1..Len(heap) : \A j \in 1..Len(heap[c].refs) :
        Pending(c, j)' <=> Pending(c, j)
  <2> SUFFICES ASSUME NEW c \in 1..Len(heap), NEW j \in 1..Len(heap[c].refs)
               PROVE  Pending(c, j)' <=> Pending(c, j)
    OBVIOUS
  <2>1. ~(Top.obj = c /\ Top.next <= j)
    BY <1>1, TopTyped, HeapTyped, ObjectParts
  <2> QED
    BY <1>3, <2>1 DEF Pending
<1>5. CopiesForwarded'
  <2> SUFFICES ASSUME NEW a \in DOMAIN fwd, NEW j \in DOMAIN heapBefore[a].refs
               PROVE  Pending(fwd[a], j)' <=> Pending(fwd[a], j)
    BY <1>1 DEF Marking, CopiesForwarded, IsZeroHash, Known, Fwd
  <2>1. fwd[a] \in 1..Len(heap) /\ a \in Old
    BY FwdAddress DEF Marking, FwdInjective
  <2>2. j \in 1..Len(heap[fwd[a]].refs)
    BY <2>1, BeforeTyped DEF Marking, CopiesForwarded
  <2>3. \A c \in 1..Len(heap) : c = fwd[a] => (Pending(c, j)' <=> Pending(c, j))
    BY <1>4, <2>2
  <2> QED
    BY <1>1, <2>1, <2>3 DEF Pending
<1>6. StackOfCopies'
  BY <1>1, <1>3 DEF Marking, StackOfCopies
<1> QED
  BY <1>1, <1>5, <1>6 DEF Marking, OldUntouched, FwdInjective, RootsForwarded,
     OnlyReachable, StartsAgree, PoolSwapped, Known, Fwd, Closed, Visited, bootVars

LEMMA MarkingNextRoot ==
  ASSUME TypeOK, Marking, NextRoot
  PROVE  Marking'
<1>1. /\ at = "descend" /\ at' = "visit" /\ stack = <<>>
      /\ cursor' = cursor + 1
      /\ UNCHANGED <<roots, fwd, stack, bootVars, heapBefore>>
  BY DEF NextRoot
<1>2. cursor \in Nat /\ Slots \subseteq Nat /\ cursor \in Slots
  BY <1>1, CollectorAssumption DEF TypeOK, Slots
<1>3. \A i \in Slots : Visited(i)' <=> Visited(i)
  BY <1>1, <1>2 DEF Visited
<1>4. \A c, j : ~Pending(c, j) /\ ~Pending(c, j)'
  BY <1>1 DEF Pending
<1>5. OldUntouched' /\ CopiesForwarded'
  <2>1. CASE ~Rehashed
    <3>1. heap' = heap
      BY <2>1 DEF NextRoot
    <3> QED
      BY <1>1, <3>1 DEF Marking, OldUntouched, CopiesForwarded, Pending, Known,
         Fwd, IsZeroHash
  <2>2. CASE Rehashed
    <3> DEFINE o == roots[cursor]
               x == [zero |-> FALSE, refs |-> <<>>]
    <3>1. o = Fwd(rootsBefore[cursor]) /\ Known(rootsBefore[cursor])
      BY <1>1, <1>2 DEF Marking, RootsForwarded, Visited
    <3>2. o # Null /\ heap[o].zero /\ o \in 0..Len(heap)
      BY <1>2, <2>2 DEF Rehashed, TypeOK
    <3>3. PICK b \in DOMAIN fwd : fwd[b] = o
      BY <3>1, <3>2 DEF Known, Fwd
    <3>4. heapBefore[b].zero /\ o > NObjects
      BY <3>2, <3>3 DEF Marking, CopiesForwarded, FwdInjective
    <3>5. /\ o \in DOMAIN heap
          /\ HashField \in DOMAIN heap[o].refs
          /\ Fresh \in Nat
          /\ heap \in Seq(Object)
      BY <3>2, HeapTyped, ObjectParts, Bounds DEF HashField, Null
    <3>6. heap' = Append(Store(o, HashField, Fresh), x) /\ x \in Object
      BY <2>2 DEF NextRoot, Object
    <3>7. /\ \A a \in 1..Len(heap) : a # o => heap'[a] = heap[a]
          /\ \A a \in 1..Len(heap) :
               /\ heap'[a].zero = heap[a].zero
               /\ Len(heap'[a].refs) = Len(heap[a].refs)
               /\ \A k \in DOMAIN heap[a].refs :
                    k # HashField => heap'[a].refs[k] = heap[a].refs[k]
      <4> DEFINE h == Store(o, HashField, Fresh)
      <4>1. /\ h \in Seq(Object)
            /\ Len(h) = Len(heap)
            /\ \A a \in 1..Len(heap) : a # o => h[a] = heap[a]
            /\ \A a \in 1..Len(heap) :
                 /\ h[a].zero = heap[a].zero
                 /\ Len(h[a].refs) = Len(heap[a].refs)
                 /\ \A k \in DOMAIN heap[a].refs :
                      h[a].refs[k] = IF a = o /\ k = HashField
                                     THEN Fresh ELSE heap[a].refs[k]
        BY <3>5, StoreFacts
      <4> HIDE DEF h, x
      <4>2. \A a \in 1..Len(heap) : heap'[a] = h[a]
        BY <3>6, <4>1, AppendFacts DEF h
      <4> QED
        BY <4>1, <4>2
    <3> HIDE DEF o, x
    <3>8. OldUntouched'
      <4>1. \A a \in Old : a \in 1..Len(heap) /\ a # o
        BY <3>4, HeapTyped, Bounds DEF Old
      <4> QED
        BY <1>1, <3>7, <4>1 DEF Marking, OldUntouched
    <3>9. CopiesForwarded'
      <4> SUFFICES ASSUME NEW a \in DOMAIN fwd
                   PROVE  /\ heap'[fwd[a]].zero = heapBefore[a].zero
                          /\ Len(heap'[fwd[a]].refs) = Len(heapBefore[a].refs)
                          /\ \A j \in DOMAIN heapBefore[a].refs :
                               /\ Known(heapBefore[a].refs[j])
                               /\ \/ heap'[fwd[a]].refs[j] = Fwd(heapBefore[a].refs[j])
                                  \/ IsZeroHash(a, j)
        BY <1>1 DEF CopiesForwarded, IsZeroHash, Known, Fwd, Pending
      <4>1. /\ heap[fwd[a]].zero = heapBefore[a].zero
            /\ Len(heap[fwd[a]].refs) = Len(heapBefore[a].refs)
            /\ \A j \in DOMAIN heapBefore[a].refs :
                 /\ Known(heapBefore[a].refs[j])
                 /\ \/ heap[fwd[a]].refs[j] = Fwd(heapBefore[a].refs[j])
                    \/ IsZeroHash(a, j)
        BY <1>4 DEF Marking, CopiesForwarded
      <4>2. fwd[a] \in 1..Len(heap) /\ a \in Old
        BY FwdAddress DEF Marking, FwdInjective
      <4>3. \A j \in DOMAIN heapBefore[a].refs : j \in DOMAIN heap[fwd[a]].refs
        BY <4>1, <4>2, BeforeTyped, HeapTyped, ObjectParts
      <4>4. fwd[a] = o => a = b
        BY <3>3 DEF Marking, FwdInjective
      <4> QED
        BY <3>4, <3>7, <4>1, <4>2, <4>3, <4>4 DEF IsZeroHash
    <3> QED
      BY <3>8, <3>9
  <2> QED
    BY <2>1, <2>2
<1>6. RootsForwarded'
  BY <1>1, <1>3 DEF Marking, RootsForwarded, Known, Fwd, bootVars
<1>7. StartsAgree'
  <2>1. \A i \in Args : i \in Slots
    BY DEF Args
  <2> QED
    BY <1>1, <1>3, <2>1 DEF Marking, StartsAgree, Known, Fwd, bootVars
<1> QED
  BY <1>1, <1>5, <1>6, <1>7 DEF Marking, FwdInjective, StackOfCopies,
     OnlyReachable, PoolSwapped, Closed, bootVars

LEMMA MarkingFinish ==
  ASSUME TypeOK, Marking, Finish
  PROVE  Marking'
<1>1. /\ at = "visit" /\ at' = "done" /\ cursor \notin Slots
      /\ pool' = {fwd[a] : a \in DOMAIN fwd}
      /\ UNCHANGED <<heap, roots, fwd, cursor, stack, bootVars, heapBefore>>
  BY DEF Finish
<1>2. \A i \in Slots : Visited(i) /\ Visited(i)'
  <2>1. \A i \in Slots : i < cursor
    <3>1. /\ cursor \in Nat \ {0}
          /\ Slots = 1..Len(Kind)
          /\ Len(Kind) \in Nat
      BY CollectorAssumption DEF TypeOK, Slots
    <3> QED
      BY <1>1, <3>1
  <2> QED
    BY <1>1, <2>1 DEF Visited
<1>3. StartsAgree'
  <2>1. \A i \in Args : i \in Slots
    BY DEF Args
  <2> QED
    BY <1>1, <1>2, <2>1 DEF Marking, StartsAgree, Known, Fwd, bootVars
<1> QED
  BY <1>1, <1>2, <1>3 DEF Marking, OldUntouched, FwdInjective, RootsForwarded,
     CopiesForwarded, StackOfCopies, OnlyReachable, PoolSwapped, Pending, Known,
     Fwd, IsZeroHash, Closed, bootVars

LEMMA MarkingBootRead ==
  ASSUME TypeOK, Marking, NEW i \in Args, BootRead(i)
  PROVE  Marking'
<1>1. /\ boot' = [boot EXCEPT ![i] = "reading"]
      /\ temp' = [temp EXCEPT ![i] = roots[i]]
      /\ boot[i] = "fresh"
      /\ UNCHANGED <<heap, roots, gcVars, rootsBefore, raced, heapBefore>>
  BY DEF BootRead
<1>2. i \in Slots /\ boot[i] # "started"
  BY <1>1 DEF Args
<1>3. \/ roots[i] = rootsBefore[i]
      \/ Visited(i) /\ Known(rootsBefore[i]) /\ roots[i] = Fwd(rootsBefore[i])
  BY <1>2 DEF Marking, RootsForwarded
<1>4. StartsAgree'
  BY <1>1, <1>2, <1>3 DEF Marking, StartsAgree, Known, Fwd, Visited, TypeOK, gcVars
<1> QED
  BY <1>1, <1>4 DEF Marking, OldUntouched, FwdInjective, RootsForwarded,
     CopiesForwarded, StackOfCopies, OnlyReachable, PoolSwapped, Pending, Known,
     Fwd, IsZeroHash, Closed, Visited, gcVars

(* A frame pushed on the side of the collector on which its argument was   *)
(* read.                                                                   *)
LEMMA MarkingPushed ==
  ASSUME TypeOK, Marking, NEW i \in Args, BootPush(i),
         IF Visited(i + 1)
         THEN Known(rootsBefore[i]) /\ temp[i] = Fwd(rootsBefore[i])
         ELSE temp[i] = rootsBefore[i]
  PROVE  Marking'
<1>1. /\ boot' = [boot EXCEPT ![i] = "started"]
      /\ boot[i] = "reading"
      /\ roots' = [roots EXCEPT ![i + 1] = temp[i]]
      /\ rootsBefore' = [rootsBefore EXCEPT ![i + 1] = rootsBefore[i]]
      /\ UNCHANGED <<heap, gcVars, temp, heapBefore>>
  BY DEF BootPush
<1>2. /\ i \in Slots /\ i + 1 \in Slots
      /\ \A k \in Args : k \in Slots /\ k # i + 1
      /\ \A k \in Args : k # i => k + 1 # i + 1
      /\ \A k \in Args : k + 1 \in Slots
  BY CollectorAssumption DEF Args, Slots
<1>3. /\ rootsBefore'[i + 1] = rootsBefore[i]
      /\ roots'[i + 1] = temp[i]
      /\ \A k \in Slots : k # i + 1 =>
           rootsBefore'[k] = rootsBefore[k] /\ roots'[k] = roots[k]
  BY <1>1, <1>2 DEF TypeOK
<1>4. RootsForwarded'
  <2>1. \A k \in Slots : Visited(k)' <=> Visited(k)
    BY <1>1 DEF Visited, gcVars
  <2> QED
    BY <1>1, <1>3, <2>1 DEF Marking, RootsForwarded, Known, Fwd, gcVars
<1>5. StartsAgree'
  <2>1. \A k \in Args : boot'[k] = IF k = i THEN "started" ELSE boot[k]
    BY <1>1 DEF TypeOK
  <2>2. \A k \in Args : /\ rootsBefore'[k] = rootsBefore[k]
                        /\ k # i => /\ rootsBefore'[k + 1] = rootsBefore[k + 1]
                                    /\ roots'[k + 1] = roots[k + 1]
    BY <1>2, <1>3
  <2> QED
    BY <1>1, <2>1, <2>2 DEF Marking, StartsAgree, Known, Fwd, Visited, gcVars
<1>6. OnlyReachable'
  <2>1. rootsBefore[i + 1] = Null
    BY <1>1 DEF Marking, StartsAgree
  <2>2. \A S \in SUBSET Old : Closed(S)' => Closed(S)
    <3> SUFFICES ASSUME NEW S \in SUBSET Old, Closed(S)'
                 PROVE  Closed(S)
      OBVIOUS
    <3>1. \A k \in Slots : rootsBefore'[k] # Null => rootsBefore'[k] \in S
      BY DEF Closed
    <3>2. \A k \in Slots : rootsBefore[k] # Null => rootsBefore[k] \in S
      BY <1>3, <2>1, <3>1
    <3> QED
      BY <1>1, <3>2 DEF Closed
  <2> QED
    BY <1>1, <2>2 DEF Marking, OnlyReachable, gcVars
<1> QED
  BY <1>1, <1>4, <1>5, <1>6 DEF Marking, OldUntouched, FwdInjective,
     CopiesForwarded, StackOfCopies, PoolSwapped, Pending, Known, Fwd,
     IsZeroHash, gcVars

LEMMA MarkingBootPush ==
  ASSUME TypeOK, Marking, NEW i \in Args, BootPush(i), ~raced'
  PROVE  Marking'
<1>1. /\ boot' = [boot EXCEPT ![i] = "started"]
      /\ boot[i] = "reading"
      /\ roots' = [roots EXCEPT ![i + 1] = temp[i]]
      /\ rootsBefore' = [rootsBefore EXCEPT ![i + 1] = rootsBefore[i]]
      /\ UNCHANGED <<heap, gcVars, temp, heapBefore>>
      /\ temp[i] \in Old <=> Ahead(i + 1)
  BY DEF BootPush
<1>2. /\ i \in Slots /\ i + 1 \in Slots /\ Kind[i + 1] = "frame"
      /\ \A k \in Args : k \in Slots /\ k # i + 1
      /\ \A k \in Args : k # i => k + 1 # i + 1
      /\ i + 1 # i
  BY CollectorAssumption DEF Args, Slots
<1>3. rootsBefore[i + 1] = Null
  BY <1>1 DEF Marking, StartsAgree
<1>4. \/ temp[i] = rootsBefore[i]
      \/ Visited(i) /\ Known(rootsBefore[i]) /\ temp[i] = Fwd(rootsBefore[i])
  BY <1>1 DEF Marking, StartsAgree
<1>5. rootsBefore[i] \in Old \/ rootsBefore[i] = Null
  BY <1>2, CollectorAssumption DEF TypeOK, Old, Null
<1>6. Null \notin Old /\ \A a \in DOMAIN fwd : fwd[a] \notin Old
  <2>1. \A a \in DOMAIN fwd : fwd[a] > NObjects /\ fwd[a] \in Nat
    BY FwdAddress, HeapTyped DEF Marking, FwdInjective
  <2> QED
    BY <2>1, CollectorAssumption DEF Null, Old
<1>7. CASE temp[i] \in Old
  <2>1. ~Visited(i + 1) /\ temp[i] = rootsBefore[i]
    BY <1>1, <1>2, <1>4, <1>6, <1>7, VisitedOrAhead DEF Known, Fwd
  <2> QED
    BY <1>1, <1>2, <2>1, <1>3, MarkingPushed
<1>8. CASE temp[i] \notin Old
  <2>1. /\ Visited(i + 1)
        /\ Known(rootsBefore[i]) /\ temp[i] = Fwd(rootsBefore[i])
    BY <1>1, <1>2, <1>4, <1>5, <1>8, VisitedOrAhead DEF Known, Fwd
  <2> QED
    BY <1>1, <1>2, <2>1, <1>3, MarkingPushed
<1> QED
  BY <1>7, <1>8

-----------------------------------------------------------------------------
LEMMA CInvStep == TypeOK /\ CInv /\ [Next]_vars => CInv'
<1> SUFFICES ASSUME TypeOK, CInv, [Next]_vars, ~raced'
             PROVE  Marking'
  BY DEF CInv
<1>1. ~raced
  BY Zenon DEF Next, GcStep, BootStep, VisitKnownRoot, VisitNewRoot, VisitKnownField,
     VisitNewField, Return, NextRoot, Finish, BootRead, BootPush, vars, bootVars
<1>2. Marking
  BY <1>1 DEF CInv
<1>3. CASE GcStep
  BY <1>2, <1>3, MarkingVisitKnownRoot, MarkingVisitNewRoot,
     MarkingVisitKnownField, MarkingVisitNewField, MarkingReturn,
     MarkingNextRoot, MarkingFinish DEF GcStep
<1>4. CASE BootStep
  BY <1>2, <1>4, MarkingBootRead, MarkingBootPush DEF BootStep
<1>5. CASE UNCHANGED vars
  BY <1>2, <1>5 DEF Marking, OldUntouched, FwdInjective, RootsForwarded,
     CopiesForwarded, StackOfCopies, OnlyReachable, StartsAgree, PoolSwapped,
     Pending, Known, Fwd, IsZeroHash, Closed, Visited, vars, gcVars, bootVars
<1> QED
  BY <1>3, <1>4, <1>5 DEF Next

(* The inductive invariant: what the marker has done and has still to do.  *)
THEOREM MarkingCorrect == Spec => []CInv
<1>1. Init => CInv
  BY MarkingInit DEF CInv
<1>2. Spec => []TypeOK
  BY TypeCorrect
<1>3. TypeOK /\ CInv /\ [Next]_vars => CInv'
  BY CInvStep
<1> QED
  BY <1>1, <1>2, <1>3, PTL DEF Spec

(* When the marker is through, the copies are complete.                    *)
LEMMA DoneComplete ==
  ASSUME TypeOK, Marking, at = "done"
  PROVE  /\ \A i \in Slots : Known(rootsBefore[i]) /\ roots[i] = Fwd(rootsBefore[i])
         /\ \A a \in DOMAIN fwd :
              /\ a \in Old
              /\ Len(heap[fwd[a]].refs) = Len(heapBefore[a].refs)
              /\ \A j \in DOMAIN heapBefore[a].refs :
                   /\ Known(heapBefore[a].refs[j])
                   /\ \/ heap[fwd[a]].refs[j] = Fwd(heapBefore[a].refs[j])
                      \/ IsZeroHash(a, j)
         /\ pool = {fwd[a] : a \in DOMAIN fwd}
<1>1. \A c, j : ~Pending(c, j)
  BY DEF Marking, StackOfCopies, Pending
<1> QED
  BY <1>1 DEF Marking, FwdInjective, RootsForwarded, CopiesForwarded,
     PoolSwapped, Visited

(* No reference to a deleted object is left (gc.cpp:292-302).              *)
THEOREM NoDanglingReference == Spec => []NothingDangles
<1>1. TypeOK /\ CInv => NothingDangles
  <2> SUFFICES ASSUME TypeOK, Marking, at = "done"
               PROVE  /\ \A i \in Slots : roots[i] \in pool \union {Null}
                      /\ \A a \in DOMAIN fwd : \A j \in DOMAIN heap[fwd[a]].refs :
                           \/ heap[fwd[a]].refs[j] \in pool \union {Null}
                           \/ IsZeroHash(a, j)
    BY DEF CInv, NothingDangles
  <2>1. \A a \in DOMAIN fwd : DOMAIN heap[fwd[a]].refs = DOMAIN heapBefore[a].refs
    BY DoneComplete, FwdAddress, BeforeTyped, HeapTyped, ObjectParts
  <2>2. \A r : Known(r) => Fwd(r) \in pool \union {Null}
    BY DoneComplete DEF Known, Fwd
  <2> QED
    BY <2>1, <2>2, DoneComplete
<1>2. Spec => []TypeOK
  BY TypeCorrect
<1>3. Spec => []CInv
  BY MarkingCorrect
<1> QED
  BY <1>1, <1>2, <1>3, PTL

(* The program sees the same objects, at other addresses.                  *)
THEOREM SameGraph == Spec => []GraphPreserved
<1>1. TypeOK /\ CInv => GraphPreserved
  BY DoneComplete DEF CInv, Marking, FwdInjective, GraphPreserved
<1>2. Spec => []TypeOK
  BY TypeCorrect
<1>3. Spec => []CInv
  BY MarkingCorrect
<1> QED
  BY <1>1, <1>2, <1>3, PTL

(* Exactly what the roots reach survives.                                  *)
THEOREM KeepsTheReachable == Spec => []GarbageDropped
<1>1. TypeOK /\ CInv => GarbageDropped
  <2> SUFFICES ASSUME TypeOK, Marking, at = "done"
               PROVE  /\ pool = {fwd[a] : a \in DOMAIN fwd}
                      /\ Closed(DOMAIN fwd)
                      /\ \A S \in SUBSET Old : Closed(S) => DOMAIN fwd \subseteq S
    BY DEF CInv, GarbageDropped
  <2>1. Closed(DOMAIN fwd)
    BY DoneComplete DEF Closed, Known
  <2> QED
    BY <2>1, DoneComplete DEF Marking, OnlyReachable
<1>2. Spec => []TypeOK
  BY TypeCorrect
<1>3. Spec => []CInv
  BY MarkingCorrect
<1> QED
  BY <1>1, <1>2, <1>3, PTL
=============================================================================
