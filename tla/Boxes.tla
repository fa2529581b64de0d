------------------------------- MODULE Boxes -------------------------------
(***************************************************************************)
(* The variables, operands, fields and elements of the bytecode engine are *)
(* pointers, and a primitive value is in a box of its own: an IntOop or a  *)
(* DoubleOop on the heap.  Java's values are copied wherever they go; here *)
(* some instructions copy the box, others the pointer, and two change the  *)
(* value inside a box: iinc, and Unsafe's compareAndSwap.                  *)
(*                                                                         *)
(* One object or array stands for all of them; its cells are the fields,   *)
(* static ones too, or the elements.  Programs are verified java code: an  *)
(* instruction is executed on operands of its types, and never on null     *)
(* where that is an assertion failure.  Boxes nobody points to are free.   *)
(***************************************************************************)
EXTENDS Integers, FiniteSets, Sequences

CONSTANTS MaxLocals,   \* local variables of a frame
          ShortForms,  \* the variables of xload_n and xstore_n: 0 to 3
          MaxCells,    \* cells of the object or array
          Elements,    \* those that are elements, and not fields
          Kinds,       \* the primitive kinds besides "int"
          Numbers,     \* those of these kinds that constants name: small ones
          MaxBoxes,    \* bound: places that hold a box
          MaxPointers, \* bound: places that hold a pointer
          MaxKept,     \* bound: pointers a frame keeps during a call
          MaxStack,    \* bound: operands of all frames, and calls in progress
          MaxFrames,   \* bound: frames
          AllPrograms  \* whether programs may do what the boxes do not support

Local == 1 .. MaxLocals     \* the source counts them from 0
Cells == 1 .. MaxCells

ASSUME BoxesAssumption ==
  /\ MaxLocals \in Nat \ {0} /\ MaxCells \in Nat /\ MaxBoxes \in Nat
  /\ MaxPointers \in Nat /\ MaxKept \in Nat /\ MaxStack \in Nat
  /\ MaxFrames \in Nat
  /\ ShortForms \subseteq Local
  /\ Elements \subseteq Cells
  /\ Kinds \subseteq {"float", "long", "double"} /\ Numbers \subseteq Nat
  /\ AllPrograms \in BOOLEAN

VARIABLES frames, \* vm_stack, the current frame first: its op_stack, its
                  \* localVariableTable and (ghost) the variables it stored
          cell,   \* the Oop* in each cell
          box,    \* the values in the boxes, which are numbered from 1
          literal \* (ghost) the constant that the last instruction names

vars == <<frames, cell, box, literal>>

Null == -1           \* nullptr
Ref == 0             \* the pointer to the object

IntOop(n) == [kind |-> "int", value |-> n % 2]

(* The constants of programs.  Precise stands for the doubles no float is: *)
(* the constructor of DoubleOop takes a float, and rounds them.            *)
Precise == [kind |-> "double", value |-> -1]

Literals ==
  {IntOop(0), IntOop(1)} \union [kind : Kinds, value : Numbers]
    \union (IF "double" \in Kinds THEN {Precise} ELSE {})

NoLiteral == [kind |-> "none", value |-> 0]

DoubleOop(v) == IF v = Precise THEN [v EXCEPT !.value = -2] ELSE v

Garbage == -3        \* a number that no program names
Wides == {"long", "double"}  \* of two words

Fields == Cells \ Elements

op_stack == frames[1].op_stack
table == frames[1].table

IsBox(oop) == oop > Ref
Is(oop, kind) == IsBox(oop) /\ box[oop].kind = kind
IsWide(oop) == IsBox(oop) /\ box[oop].kind \in Wides

WideUpTo(k, oops) == {n \in 1 .. k : IsWide(oops[n])}

(* How many of a list of oops are pointers.                                *)
Pointers(oops) == Cardinality({n \in DOMAIN oops : oops[n] # Null})

-----------------------------------------------------------------------------
(* Allocation.  New boxes get the next numbers; boxes nobody points to are *)
(* forgotten, and the others numbered anew in the order they are met, for  *)
(* an address means nothing (and the collection changes it).               *)
Fresh(k) == Len(box) + k

Held(fs, cs) ==
  {cs[c] : c \in Cells}
    \union (UNION {{fs[k].op_stack[n] : n \in DOMAIN fs[k].op_stack} : k \in DOMAIN fs})
    \union (UNION {{fs[k].table[i] : i \in Local} : k \in DOMAIN fs})

Met(fs, cs) ==
  LET upto[k \in 0 .. Len(fs)] ==
        IF k = 0 THEN cs ELSE fs[k].op_stack \o fs[k].table \o upto[k - 1]
  IN  upto[Len(fs)]

Operands(fs) ==
  LET upto[k \in 0 .. Len(fs)] ==
        IF k = 0 THEN 0 ELSE Len(fs[k].op_stack) + upto[k - 1]
  IN  upto[Len(fs)]

InBounds(fs, met) ==
  /\ Operands(fs) + Len(fs) =< MaxStack + 1
  /\ Pointers(met) =< MaxPointers
  /\ Cardinality({n \in DOMAIN met : IsBox(met[n])}) =< MaxBoxes

(* The boxes, each of them once, in the order they are met.                *)
Orders(boxes, met) ==
  LET Before(a, b) ==
        \E n \in 1 .. Len(met) : met[n] = a /\ \A m \in 1 .. n : met[m] # b
  IN  {order \in UNION {[1 .. n -> boxes] : n \in 0 .. MaxBoxes} :
         /\ \A b \in boxes : \E n \in DOMAIN order : order[n] = b
         /\ \A m, n \in DOMAIN order : m < n => Before(order[m], order[n])}

(* The number of a box is its place in the order.                          *)
New(order, oop) ==
  IF IsBox(oop) THEN CHOOSE n \in DOMAIN order : order[n] = oop ELSE oop

(* The next frames, cells and values in the boxes, new ones at the end.    *)
Placed(fs, cs, bs) ==
  \E met \in {Met(fs, cs)} :
    /\ InBounds(fs, met)
    /\ \E order \in Orders({oop \in Held(fs, cs) : IsBox(oop)}, met) :
         /\ frames' = [k \in DOMAIN fs |->
                        [fs[k] EXCEPT
                          !.op_stack = [n \in DOMAIN @ |-> New(order, @[n])],
                          !.table = [i \in Local |-> New(order, @[i])]]]
         /\ cell' = [c \in Cells |-> New(order, cs[c])]
         /\ box' = [n \in DOMAIN order |-> bs[order[n]]]

(* The same, of an instruction that names no constant.                     *)
Become(fs, cs, bs) == Placed(fs, cs, bs) /\ literal' = NoLiteral

WithStack(s) == [frames EXCEPT ![1].op_stack = s]

Below(n) == SubSeq(op_stack, n + 1, Len(op_stack))

(* n operands are popped, a new box with the value v is pushed.            *)
PopPushNew(n, v) ==
  /\ Len(op_stack) >= n
  /\ Become(WithStack(<<Fresh(1)>> \o Below(n)), cell, Append(box, v))

PopPush(n, oop) == Become(WithStack(<<oop>> \o Below(n)), cell, box)

-----------------------------------------------------------------------------
(* Constants.  dconst_0 and dconst_1 push 1 and 2.                         *)
Constant(named, v) ==
  /\ Placed(WithStack(<<Fresh(1)>> \o op_stack), cell, Append(box, v))
  /\ literal' = named

xconst ==
  \E named \in Literals \ {Precise} :
    LET dconst == named.kind = "double"
    IN  /\ dconst => AllPrograms /\ named.value \in 0 .. 1
        /\ Constant(named, IF dconst THEN [named EXCEPT !.value = @ + 1] ELSE named)

aconst_null == PopPush(0, Null)

ldc ==
  \E named \in Literals :
    (AllPrograms \/ named # Precise) /\ Constant(named, DoubleOop(named))

(* A string, or the mirror of a class.                                     *)
ldc_object == PopPush(0, Ref)

(* Variables.  Primitive ones are loaded and stored in new boxes; the long *)
(* and the short forms of the instructions are implemented one by one.     *)
LoadCopy(i) == IsBox(table[i]) /\ PopPushNew(0, box[table[i]])

LoadPointer(i) == ~IsBox(table[i]) /\ PopPush(0, table[i])

xload == \E i \in Local \ ShortForms : LoadCopy(i)
xload_n == \E i \in ShortForms : LoadCopy(i)
aload == \E i \in Local \ ShortForms : LoadPointer(i)
aload_n == \E i \in ShortForms : LoadPointer(i)

(* stored need not tell of variables that hold no box.                     *)
Stored(i, oop) ==
  [frames EXCEPT ![1] =
    [op_stack |-> Below(1), table |-> [table EXCEPT ![i] = oop],
     stored |-> IF IsBox(oop) THEN @.stored \union {i} ELSE @.stored \ {i}]]

(* A mutant: the operand's own box becomes the variable's.                 *)
StoreCopy_KeepsBox(i) ==
  /\ op_stack # <<>> /\ IsBox(Head(op_stack))
  /\ Become(Stored(i, Head(op_stack)), cell, box)

StoreCopy(i) ==
  /\ op_stack # <<>> /\ IsBox(Head(op_stack))
  /\ Become(Stored(i, Fresh(1)), cell, Append(box, box[Head(op_stack)]))

StorePointer(i) ==
  /\ op_stack # <<>> /\ ~IsBox(Head(op_stack))
  /\ Become(Stored(i, Head(op_stack)), cell, box)

xstore == \E i \in Local \ ShortForms : StoreCopy(i)
xstore_n == \E i \in ShortForms : StoreCopy(i)
astore == \E i \in Local \ ShortForms : StorePointer(i)
astore_n == \E i \in ShortForms : StorePointer(i)

(* iinc changes the value in the variable's box, whoever else points to    *)
(* that box; a variable the method has stored has one to itself.           *)
iinc ==
  \E i \in Local, n \in {-1, 1} :
    /\ Is(table[i], "int")
    /\ AllPrograms \/ i \in frames[1].stored
    /\ Become(frames, cell,
              [box EXCEPT ![table[i]] = IntOop(box[table[i]].value + n)])

-----------------------------------------------------------------------------
(* Elements: primitive ones are copied out and in, references are not.     *)
(* There are no faload, daload, fastore and dastore.                       *)
OnArray(n) == Len(op_stack) >= n /\ op_stack[n] = Ref /\ Is(op_stack[n - 1], "int")

IsElement(oop) == Is(oop, "int") \/ Is(oop, "long")

xaload ==
  /\ OnArray(2)
  /\ \E c \in Elements : IsElement(cell[c]) /\ PopPushNew(2, box[cell[c]])

aaload ==
  /\ OnArray(2)
  /\ \E c \in Elements : ~IsBox(cell[c]) /\ PopPush(2, cell[c])

xastore ==
  /\ OnArray(3) /\ IsElement(Head(op_stack))
  /\ \E c \in Elements :
       Become(WithStack(Below(3)), [cell EXCEPT ![c] = Fresh(1)],
              Append(box, box[Head(op_stack)]))

aastore ==
  /\ OnArray(3) /\ ~IsBox(Head(op_stack))
  /\ \E c \in Elements :
       Become(WithStack(Below(3)), [cell EXCEPT ![c] = Head(op_stack)], box)

(* Fields: the box itself is pushed, and the operand's box put.            *)
getField ==
  /\ op_stack # <<>> /\ Head(op_stack) = Ref
  /\ \E c \in Fields : PopPush(1, cell[c])

putField ==
  /\ Len(op_stack) >= 2 /\ op_stack[2] = Ref
  /\ \E c \in Fields :
       Become(WithStack(Below(2)), [cell EXCEPT ![c] = Head(op_stack)], box)

getStatic == \E c \in Fields : PopPush(0, cell[c])

putStatic ==
  /\ op_stack # <<>>
  /\ \E c \in Fields :
       Become(WithStack(Below(1)), [cell EXCEPT ![c] = Head(op_stack)], box)

-----------------------------------------------------------------------------
(* copy_BasicOop_value reads a FLOAT and a LONG as if they were doubles.   *)
(* What follows a FLOAT in memory is anything; the bits of a small long    *)
(* are those of a double that is almost 0.                                 *)
copy_BasicOop_value(b, beyond) ==
  [box[b] EXCEPT !.value =
    CASE box[b].kind = "float" -> beyond
      [] box[b].kind = "long" -> 0
      [] OTHER -> @]

Misread(oop) == Is(oop, "float") \/ Is(oop, "long")

(* The operands xs, the primitive ones in copies.                          *)
Copies(xs) ==
  [k \in DOMAIN xs |-> IF IsBox(xs[k]) THEN Fresh(k) ELSE xs[k]]

Copied(xs, beyond) ==
  [k \in DOMAIN xs |->
    IF IsBox(xs[k]) THEN copy_BasicOop_value(xs[k], beyond) ELSE IntOop(0)]

(* The top k operands and l more are popped, the operands s pushed, among  *)
(* them copies of the k.  Verified code has one word in the operands       *)
(* "narrow".                                                               *)
Narrow(ns) == \A n \in ns : ~IsWide(op_stack[n])

Top(k) == SubSeq(op_stack, 1, k)

DupAs(k, l, narrow, s) ==
  /\ Len(op_stack) >= k + l /\ Narrow(narrow)
  /\ AllPrograms \/ \A n \in 1 .. k : ~Misread(op_stack[n])
  /\ \E beyond \in {0, Garbage} :
       Become(WithStack(s \o Below(k + l)), cell, box \o Copied(Top(k), beyond))

(* The k are pushed in copies, then the l and the k again.                 *)
DupUnder(k, l, narrow) == DupAs(k, l, narrow, Top(k + l) \o Copies(Top(k)))

(* The operand n is there, and looked at: a null pointer would be followed. *)
Seen(n) == Len(op_stack) >= n /\ op_stack[n] # Null

(* How many operands two words, from the operand n on, are.                *)
Pair(n) == IF IsWide(op_stack[n]) THEN 1 ELSE 2

pop == op_stack # <<>> /\ Become(WithStack(Below(1)), cell, box)

pop2 ==
  /\ Seen(1) /\ Len(op_stack) >= Pair(1) /\ Narrow(2 .. Pair(1))
  /\ Become(WithStack(Below(Pair(1))), cell, box)

dup == DupAs(1, 0, {1}, Copies(Top(1)) \o Top(1))

dup_x1 == DupUnder(1, 1, 1 .. 2)

dup_x2 == Seen(2) /\ DupUnder(1, Pair(2), {1} \union 3 .. 1 + Pair(2))

dup2 == Seen(1) /\ DupUnder(Pair(1), 0, 2 .. Pair(1))

dup2_x1 == Seen(1) /\ DupUnder(Pair(1), 1, 2 .. Pair(1) + 1)

dup2_x2 ==
  Seen(1) /\ \E k \in {Pair(1)} :
    /\ Seen(k + 1)
    /\ DupUnder(k, Pair(k + 1), 2 .. k \union k + 2 .. k + Pair(k + 1))

iadd ==
  /\ Len(op_stack) >= 2 /\ Is(op_stack[1], "int") /\ Is(op_stack[2], "int")
  /\ PopPushNew(2, IntOop(box[op_stack[1]].value + box[op_stack[2]].value))

-----------------------------------------------------------------------------
(* The constructor of StackFrame puts the arguments, popped into a list    *)
(* in their order, into the first variables: the pointers, and after a     *)
(* long or a double a null.                                                *)
Slot_OneEach(args, k) == k

Slot(args, k) == k + Cardinality(WideUpTo(k - 1, args))

StackFrame(args) ==
  [i \in Local |->
    IF \E k \in DOMAIN args : Slot(args, k) = i
      THEN args[CHOOSE k \in DOMAIN args : Slot(args, k) = i]
      ELSE Null]

invoke ==
  \E n \in 0 .. Len(op_stack) :
    LET args == [k \in 1 .. n |-> op_stack[n + 1 - k]]
    IN  /\ Len(frames) < MaxFrames
        /\ Pointers(Below(n)) + Pointers(table) =< MaxKept
        /\ Slot(args, n + 1) =< MaxLocals + 1
        /\ Become(<<[op_stack |-> <<>>, table |-> StackFrame(args),
                     stored |-> {}]>> \o WithStack(Below(n)), cell, box)

Returned(result) == [Tail(frames) EXCEPT ![1].op_stack = result \o @]

xreturn ==
  /\ Len(frames) > 1 /\ op_stack # <<>> /\ IsBox(Head(op_stack))
  /\ Become(Returned(<<Fresh(1)>>), cell, Append(box, box[Head(op_stack)]))

areturn ==
  /\ Len(frames) > 1 /\ op_stack # <<>> /\ ~IsBox(Head(op_stack))
  /\ Become(Returned(<<Head(op_stack)>>), cell, box)

return ==
  /\ Len(frames) > 1
  /\ Become(Returned(<<>>), cell, box)

-----------------------------------------------------------------------------
(* Unsafe.  compareAndSwapInt changes the value in the box the field       *)
(* points to, whoever else does.                                           *)
Alone(c) ==
  /\ \A d \in Cells \ {c} : cell[d] # cell[c]
  /\ \A k \in DOMAIN frames :
       /\ \A n \in DOMAIN frames[k].op_stack : frames[k].op_stack[n] # cell[c]
       /\ \A i \in Local : frames[k].table[i] # cell[c]

JVM_CompareAndSwapInt ==
  /\ Len(op_stack) >= 3 /\ op_stack[3] = Ref
  /\ Is(op_stack[1], "int") /\ Is(op_stack[2], "int")
  /\ \E c \in Fields :
       LET equal == box[cell[c]] = box[op_stack[2]]
           news == Append(box, IntOop(IF equal THEN 1 ELSE 0))
       IN  /\ Is(cell[c], "int")
           /\ AllPrograms \/ Alone(c)
           /\ Become(WithStack(<<Fresh(1)>> \o Below(3)), cell,
                     IF equal THEN [news EXCEPT ![cell[c]] = box[op_stack[1]]]
                     ELSE news)

JVM_GetIntVolatile ==
  /\ op_stack # <<>> /\ Head(op_stack) = Ref
  /\ \E c \in Fields : Is(cell[c], "int") /\ PopPushNew(1, box[cell[c]])

(* References are fetched, put and compared by pointer, in arrays too.     *)
JVM_GetObjectVolatile ==
  /\ op_stack # <<>> /\ Head(op_stack) = Ref
  /\ \E c \in Cells : ~IsBox(cell[c]) /\ PopPush(1, cell[c])

JVM_PutObject ==
  /\ Len(op_stack) >= 2 /\ op_stack[2] = Ref /\ ~IsBox(Head(op_stack))
  /\ \E c \in Cells :
       /\ ~IsBox(cell[c])
       /\ Become(WithStack(Below(2)), [cell EXCEPT ![c] = Head(op_stack)], box)

JVM_CompareAndSwapObject ==
  /\ Len(op_stack) >= 3 /\ op_stack[3] = Ref
  /\ ~IsBox(op_stack[1]) /\ ~IsBox(op_stack[2])
  /\ \E c \in Cells :
       LET equal == cell[c] = op_stack[2]
       IN  /\ ~IsBox(cell[c])
           /\ Become(WithStack(<<Fresh(1)>> \o Below(3)),
                     IF equal THEN [cell EXCEPT ![c] = op_stack[1]] ELSE cell,
                     Append(box, IntOop(IF equal THEN 1 ELSE 0)))

(* new and newarray: fields and elements start in boxes of their own.      *)
Zeros == [c \in Cells |-> IntOop(0)]

new ==
  \E n \in 0 .. 1 :
    /\ Len(op_stack) >= n
    /\ Ref \notin Held(frames, cell)
    /\ Become(WithStack(<<Ref>> \o Below(n)),
              [c \in Cells |-> Fresh(c)],
              box \o Zeros)

Init ==
  /\ frames = <<[op_stack |-> <<>>, table |-> [i \in Local |-> Null],
                 stored |-> {}]>>
  /\ cell = [c \in Cells |-> c]
  /\ box = Zeros
  /\ literal = NoLiteral

Next ==
  \/ xconst \/ aconst_null \/ ldc \/ ldc_object
  \/ xload \/ xload_n \/ aload \/ aload_n
  \/ xstore \/ xstore_n \/ astore \/ astore_n
  \/ iinc
  \/ xaload \/ aaload \/ xastore \/ aastore
  \/ getField \/ putField \/ getStatic \/ putStatic
  \/ pop \/ pop2 \/ dup \/ dup_x1 \/ dup_x2 \/ dup2 \/ dup2_x1 \/ dup2_x2
  \/ iadd
  \/ invoke \/ xreturn \/ areturn \/ return
  \/ JVM_CompareAndSwapInt \/ JVM_GetIntVolatile
  \/ JVM_GetObjectVolatile \/ JVM_PutObject \/ JVM_CompareAndSwapObject
  \/ new

Spec == Init /\ [][Next]_vars

-----------------------------------------------------------------------------
(* A variable that an instruction of the method has stored holds a box     *)
(* that nothing else points to: the iinc of it, in place, is seen nowhere  *)
(* else.  (A parameter can share its box with a field of the caller's.)    *)
StoredLocalsAreOwned ==
  \A k \in DOMAIN frames : \A i \in frames[k].stored :
    LET oop == frames[k].table[i]
    IN  IsBox(oop) =>
          /\ \A c \in Cells : cell[c] # oop
          /\ \A j \in DOMAIN frames :
               /\ \A n \in DOMAIN frames[j].op_stack : frames[j].op_stack[n] # oop
               /\ \A l \in Local : frames[j].table[l] = oop => j = k /\ l = i

(* The values as java means them: what the boxes hold.                     *)
Meaning(oop) ==
  CASE oop = Null -> [kind |-> "null", value |-> 0]
    [] oop = Ref -> [kind |-> "ref", value |-> 0]
    [] OTHER -> box[oop]

MeantFrames ==
  [k \in DOMAIN frames |->
    [stack |-> [n \in DOMAIN frames[k].op_stack |-> Meaning(frames[k].op_stack[n])],
     local |-> [i \in Local |-> Meaning(frames[k].table[i])]]]

MeantCells == [c \in Cells |-> Meaning(cell[c])]

Java == INSTANCE JavaMachine WITH frames <- MeantFrames, cell <- MeantCells

(* Every instruction does to values what java says, a constant is the one  *)
(* its instruction names, although the engine passes pointers to boxes     *)
(* around and changes two kinds of them in place: the machine of boxes     *)
(* implements the machine of values.                                       *)
ImplementsJava == Java!Spec
=============================================================================
