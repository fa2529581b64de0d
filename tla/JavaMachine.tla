---------------------------- MODULE JavaMachine ----------------------------
(***************************************************************************)
(* What the bytecodes of variables, operands, fields, elements and calls   *)
(* promise: a value is a value, wherever it is held.  Boxes, in which the  *)
(* virtual machine holds a pointer to a box instead, implements it.        *)
(***************************************************************************)
EXTENDS Integers, FiniteSets, Sequences

CONSTANTS MaxLocals, \* local variables of a frame
          Cells,     \* the fields of the object, the elements of the array
          Literals   \* the values that constants of a program name

VARIABLES frames, \* the frames of the thread, the current one first
          cell,   \* what each of the cells holds
          literal \* the constant that the last instruction names

vars == <<frames, cell, literal>>

IntValue == [kind : {"int"}, value : 0 .. 1]
Null == [kind |-> "null", value |-> 0]
Ref == [kind |-> "ref", value |-> 0]
NoLiteral == [kind |-> "none", value |-> 0]

I(n) == [kind |-> "int", value |-> n % 2]

WideUpTo(k, values) == {n \in 1 .. k : values[n].kind \in {"long", "double"}}

Local == 1 .. MaxLocals

stack == frames[1].stack
local == frames[1].local

(* The current frame with the stack s, or with another variable.           *)
WithStack(s) == [frames EXCEPT ![1].stack = s]

WithLocal(i, v, s) ==
  [frames EXCEPT ![1] = [stack |-> s, local |-> [local EXCEPT ![i] = v]]]

Below(n) == SubSeq(stack, n + 1, Len(stack))

-----------------------------------------------------------------------------
Constant ==
  /\ \E v \in Literals :
       /\ literal' = v
       /\ frames' = WithStack(<<v>> \o stack)
  /\ UNCHANGED cell

(* The other instructions name no constant: null, strings and classes, and *)
(* the values of static fields, are pushed.                                *)
Push ==
  /\ \E v \in {Null, Ref} \union {cell[c] : c \in Cells} :
       frames' = WithStack(<<v>> \o stack)
  /\ UNCHANGED cell

Load ==
  /\ \E i \in Local : frames' = WithStack(<<local[i]>> \o stack)
  /\ UNCHANGED cell

Store ==
  /\ stack # <<>>
  /\ \E i \in Local : frames' = WithLocal(i, Head(stack), Below(1))
  /\ UNCHANGED cell

Increment ==
  /\ \E i \in Local, n \in {-1, 1} :
       /\ local[i] \in IntValue
       /\ frames' = WithLocal(i, I(local[i].value + n), stack)
  /\ UNCHANGED cell

(* A field is fetched through a reference, an element with its index.      *)
Fetch ==
  /\ \E n \in 1 .. 2, c \in Cells :
       /\ Len(stack) >= n /\ stack[n] = Ref
       /\ frames' = WithStack(<<cell[c]>> \o Below(n))
  /\ UNCHANGED cell

(* One to three operands are used up: value, index and reference.          *)
Assign ==
  \E n \in 1 .. 3, c \in Cells :
    /\ Len(stack) >= n
    /\ n > 1 => stack[n] = Ref
    /\ frames' = WithStack(Below(n))
    /\ cell' = [cell EXCEPT ![c] = Head(stack)]

Add ==
  /\ Len(stack) >= 2
  /\ stack[1] \in IntValue /\ stack[2] \in IntValue
  /\ frames' = WithStack(<<I(stack[1].value + stack[2].value)>> \o Below(2))
  /\ UNCHANGED cell

(* How many of the top operands make so many words.                        *)
TakenBy(words, s) ==
  {k \in 0 .. Len(s) : k + Cardinality(WideUpTo(k, s)) = words}

Pop ==
  /\ \E words \in 1 .. 2 : \E n \in TakenBy(words, stack) :
       frames' = WithStack(Below(n))
  /\ UNCHANGED cell

(* The dup instructions: the top n words are put a second time, m words    *)
(* below.                                                                  *)
Dup ==
  /\ \E n \in 1 .. 2, m \in 0 .. 2 :
       \E k \in TakenBy(n, stack) :
         \E l \in TakenBy(m, Below(k)) :
           frames' = WithStack(SubSeq(stack, 1, k + l) \o SubSeq(stack, 1, k)
                                 \o Below(k + l))
  /\ UNCHANGED cell

(* The arguments, the last one on top, become the first variables of the   *)
(* callee; one of two words takes two.                                     *)
Slot(args, k) == k + Cardinality(WideUpTo(k - 1, args))

Variables(args) ==
  [i \in Local |->
    IF \E k \in DOMAIN args : Slot(args, k) = i
      THEN args[CHOOSE k \in DOMAIN args : Slot(args, k) = i]
      ELSE Null]

Call ==
  /\ \E n \in 0 .. Len(stack) :
       LET args == [k \in 1 .. n |-> stack[n + 1 - k]]
       IN  /\ Slot(args, n + 1) =< MaxLocals + 1
           /\ frames' = <<[stack |-> <<>>, local |-> Variables(args)]>>
                          \o WithStack(Below(n))
  /\ UNCHANGED cell

Return ==
  /\ Len(frames) > 1
  /\ \E result \in {<<>>} \union (IF stack = <<>> THEN {} ELSE {<<Head(stack)>>}) :
       frames' = [Tail(frames) EXCEPT ![1].stack = result \o @]
  /\ UNCHANGED cell

(* Unsafe.compareAndSwapInt(reference, expected, x), also of references.    *)
CompareAndSwap ==
  /\ Len(stack) >= 3
  /\ stack[3] = Ref
  /\ \E c \in Cells :
       LET equal == cell[c] = stack[2]
       IN  /\ frames' = WithStack(<<I(IF equal THEN 1 ELSE 0)>> \o Below(3))
           /\ cell' = IF equal THEN [cell EXCEPT ![c] = stack[1]] ELSE cell

(* Nobody holds the object, or the array: another is made, with zeros.     *)
Held == \E k \in DOMAIN frames :
          \/ \E n \in DOMAIN frames[k].stack : frames[k].stack[n] = Ref
          \/ \E i \in Local : frames[k].local[i] = Ref

New ==
  /\ ~Held
  /\ \E n \in 0 .. 1 :
       /\ Len(stack) >= n
       /\ frames' = WithStack(<<Ref>> \o Below(n))
  /\ cell' = [c \in Cells |-> I(0)]

Init ==
  /\ frames = <<[stack |-> <<>>, local |-> [i \in Local |-> Null]]>>
  /\ cell = [c \in Cells |-> I(0)]
  /\ literal = NoLiteral

Unnamed ==
  \/ Push
  \/ Load
  \/ Store
  \/ Increment
  \/ Pop
  \/ Fetch
  \/ Assign
  \/ Add
  \/ Dup
  \/ Call
  \/ Return
  \/ CompareAndSwap
  \/ New

Next == Constant \/ (Unnamed /\ literal' = NoLiteral)

Spec == Init /\ [][Next]_vars
=============================================================================
