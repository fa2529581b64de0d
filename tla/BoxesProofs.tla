----------------------------- MODULE BoxesProofs -----------------------------
(* The engine's boxes, for every number of variables, cells, frames and    *)
(* operands: a stored variable's box is its own, in every program, and     *)
(* the programs whose changes in place hit a box only one place holds do   *)
(* to the values what the machine of values does.                          *)
EXTENDS Boxes, SequenceTheorems, FiniteSetTheorems, TLAPS

-----------------------------------------------------------------------------
(* What a box may hold.                                                    *)
Value == [kind : {"int"}, value : 0 .. 1] \union [kind : Kinds, value : Int]

Oops(n) == Null .. n

Frame(n) == [op_stack : Seq(Oops(n)), table : [Local -> Oops(n)],
             stored : SUBSET Local]

WellFormed(fs, cs, bs) ==
  /\ bs \in Seq(Value)
  /\ fs \in Seq(Frame(Len(bs))) /\ fs # <<>>
  /\ cs \in [Cells -> Oops(Len(bs))]

Owned(fs, cs) ==
  \A k \in DOMAIN fs : \A i \in fs[k].stored :
    IsBox(fs[k].table[i]) =>
      /\ \A c \in Cells : cs[c] # fs[k].table[i]
      /\ \A j \in DOMAIN fs :
           /\ \A n \in DOMAIN fs[j].op_stack : fs[j].op_stack[n] # fs[k].table[i]
           /\ \A l \in Local : fs[j].table[l] = fs[k].table[i] => j = k /\ l = i

TypeOK == WellFormed(frames, cell, box)

IInv == TypeOK /\ Owned(frames, cell)

(* What oops mean when the boxes hold bs.                                  *)
Mean(oop, bs) ==
  IF oop = Null THEN [kind |-> "null", value |-> 0]
  ELSE IF oop = Ref THEN [kind |-> "ref", value |-> 0]
  ELSE bs[oop]

MeanAll(oops, bs) == [n \in DOMAIN oops |-> Mean(oops[n], bs)]

MeanFrame(f, bs) == [stack |-> MeanAll(f.op_stack, bs),
                     local |-> [i \in Local |-> Mean(f.table[i], bs)]]

MeanFrames(fs, bs) == [k \in DOMAIN fs |-> MeanFrame(fs[k], bs)]

MeanCells(cs, bs) == [c \in Cells |-> Mean(cs[c], bs)]

-----------------------------------------------------------------------------
(* The boxes that are held, numbered anew.                                 *)
Renamed(order, fs) ==
  [k \in DOMAIN fs |->
    [fs[k] EXCEPT !.op_stack = [n \in DOMAIN @ |-> New(order, @[n])],
                  !.table = [i \in Local |-> New(order, @[i])]]]

HeldBoxes(fs, cs) == {oop \in Held(fs, cs) : IsBox(oop)}

(* All that matters of the order.                                          *)
Numbering(order, boxes) ==
  /\ order \in Seq(boxes)
  /\ \A b \in boxes : \E n \in DOMAIN order : order[n] = b
  /\ \A m, n \in DOMAIN order : m # n => order[m] # order[n]

LEMMA HeldIs ==
  ASSUME NEW fs, NEW cs
  PROVE  /\ \A c \in Cells : cs[c] \in Held(fs, cs)
         /\ \A k \in DOMAIN fs : \A n \in DOMAIN fs[k].op_stack :
              fs[k].op_stack[n] \in Held(fs, cs)
         /\ \A k \in DOMAIN fs : \A i \in Local : fs[k].table[i] \in Held(fs, cs)
         /\ \A oop \in Held(fs, cs) :
              \/ \E c \in Cells : oop = cs[c]
              \/ \E k \in DOMAIN fs : \E n \in DOMAIN fs[k].op_stack : oop = fs[k].op_stack[n]
              \/ \E k \in DOMAIN fs, i \in Local : oop = fs[k].table[i]
  <1> DEFINE S(k) == {fs[k].op_stack[n] : n \in DOMAIN fs[k].op_stack}
             T(k) == {fs[k].table[i] : i \in Local}
             A == {cs[c] : c \in Cells}
             B == UNION {S(k) : k \in DOMAIN fs}
             C == UNION {T(k) : k \in DOMAIN fs}
  <1>1. Held(fs, cs) = A \union B \union C
    BY DEF Held
  <1>2. \A x : x \in B <=> \E k \in DOMAIN fs : x \in S(k)
    OBVIOUS
  <1>3. \A x : x \in C <=> \E k \in DOMAIN fs : x \in T(k)
    OBVIOUS
  <1>4. \A x : x \in A <=> \E c \in Cells : x = cs[c]
    OBVIOUS
  <1>5. \A k, x : x \in S(k) <=> \E n \in DOMAIN fs[k].op_stack : x = fs[k].op_stack[n]
    OBVIOUS
  <1>6. \A k, x : x \in T(k) <=> \E i \in Local : x = fs[k].table[i]
    OBVIOUS
  <1> HIDE DEF A, B, C, S, T
  <1>7. \A x : x \in Held(fs, cs) <=> x \in A \/ x \in B \/ x \in C
    BY <1>1
  <1> QED
    BY <1>2, <1>3, <1>4, <1>5, <1>6, <1>7

LEMMA HeldTyped ==
  ASSUME NEW fs, NEW cs, NEW bs, WellFormed(fs, cs, bs)
  PROVE  Held(fs, cs) \subseteq Oops(Len(bs))
  <1>1. \A k \in DOMAIN fs : fs[k] \in Frame(Len(bs))
    BY DEF WellFormed
  <1>2. \A k \in DOMAIN fs : \A n \in DOMAIN fs[k].op_stack :
          fs[k].op_stack[n] \in Oops(Len(bs))
    BY <1>1 DEF Frame
  <1>3. \A k \in DOMAIN fs : \A i \in Local : fs[k].table[i] \in Oops(Len(bs))
    BY <1>1 DEF Frame
  <1>4. \A c \in Cells : cs[c] \in Oops(Len(bs))
    BY DEF WellFormed
  <1> QED
    BY <1>2, <1>3, <1>4, HeldIs

LEMMA OrdersNumber ==
  ASSUME NEW boxes, NEW met, NEW order \in Orders(boxes, met), MaxBoxes \in Nat,
         boxes \subseteq Nat
  PROVE  Numbering(order, boxes)
  <1>1. PICK n \in 0 .. MaxBoxes : order \in [1 .. n -> boxes]
    BY DEF Orders
  <1>2. order \in Seq(boxes) /\ DOMAIN order = 1 .. n
    BY <1>1
  <1>3. \A b \in boxes : \E m \in DOMAIN order : order[m] = b
    BY DEF Orders
  <1> DEFINE Before(a, b) ==
               \E m \in 1 .. Len(met) : met[m] = a /\ \A l \in 1 .. m : met[l] # b
  <1>4. \A l, m \in DOMAIN order : l < m => Before(order[l], order[m])
    BY DEF Orders
  <1>5. \A a : ~Before(a, a)
    OBVIOUS
  <1> HIDE DEF Before
  <1>6. \A l, m \in 1 .. n : l # m => order[l] # order[m]
    BY <1>2, <1>4, <1>5
  <1> QED
    BY <1>2, <1>3, <1>6 DEF Numbering

LEMMA NewNumber ==
  ASSUME NEW boxes, NEW order, Numbering(order, boxes), boxes \subseteq Nat \ {0},
         NEW oop \in boxes
  PROVE  /\ New(order, oop) \in 1 .. Len(order)
         /\ order[New(order, oop)] = oop
  <1>1. IsBox(oop)
    BY DEF IsBox, Ref
  <1>2. \E n \in DOMAIN order : order[n] = oop
    BY DEF Numbering
  <1>3. /\ New(order, oop) \in DOMAIN order
        /\ order[New(order, oop)] = oop
    BY <1>1, <1>2 DEF New
  <1> QED
    BY <1>3 DEF Numbering

(* A new number is that of one box, and a box its new number.              *)
LEMMA NewOop ==
  ASSUME NEW boxes, NEW order, Numbering(order, boxes), boxes \subseteq Nat \ {0},
         NEW oop \in {Null, Ref} \union boxes
  PROVE  /\ New(order, oop) \in Oops(Len(order))
         /\ IsBox(New(order, oop)) <=> IsBox(oop)
         /\ IsBox(oop) => order[New(order, oop)] = oop
         /\ ~IsBox(oop) => New(order, oop) = oop
  <1>1. Len(order) \in Nat
    BY DEF Numbering
  <1>2. CASE oop \in boxes
    <2>1. New(order, oop) \in 1 .. Len(order) /\ order[New(order, oop)] = oop
      BY <1>2, NewNumber
    <2> QED
      BY <1>1, <1>2, <2>1 DEF Oops, IsBox, Ref, Null
  <1>3. CASE oop \in {Null, Ref}
    BY <1>1, <1>3 DEF New, Oops, IsBox, Ref, Null
  <1> QED
    BY <1>2, <1>3

RenamedCells(order, cs) == [c \in Cells |-> New(order, cs[c])]

Reordered(order, bs) == [n \in DOMAIN order |-> bs[order[n]]]

LEMMA PlacedIs ==
  ASSUME NEW fs, NEW cs, NEW bs, WellFormed(fs, cs, bs), Placed(fs, cs, bs)
  PROVE  \E order :
           /\ Numbering(order, HeldBoxes(fs, cs))
           /\ frames' = Renamed(order, fs)
           /\ cell' = RenamedCells(order, cs)
           /\ box' = Reordered(order, bs)
  <1>1. HeldBoxes(fs, cs) \subseteq Nat
    BY HeldTyped DEF HeldBoxes, Oops, IsBox, Ref, Null, WellFormed
  <1>2. PICK met : \E order \in Orders(HeldBoxes(fs, cs), met) :
           /\ frames' = Renamed(order, fs)
           /\ cell' = RenamedCells(order, cs)
           /\ box' = Reordered(order, bs)
    BY DEF Placed, HeldBoxes, Renamed, RenamedCells, Reordered
  <1>3. PICK order \in Orders(HeldBoxes(fs, cs), met) :
           /\ frames' = Renamed(order, fs)
           /\ cell' = RenamedCells(order, cs)
           /\ box' = Reordered(order, bs)
    BY <1>2
  <1>4. Numbering(order, HeldBoxes(fs, cs))
    BY <1>1, OrdersNumber, BoxesAssumption
  <1> QED
    BY <1>3, <1>4

(* What is numbered, and what its number is.                               *)
LEMMA NewOfHeld ==
  ASSUME NEW fs, NEW cs, NEW bs, WellFormed(fs, cs, bs),
         NEW order, Numbering(order, HeldBoxes(fs, cs)),
         NEW oop \in Held(fs, cs)
  PROVE  /\ oop \in Oops(Len(bs))
         /\ New(order, oop) \in Oops(Len(order))
         /\ IsBox(New(order, oop)) <=> IsBox(oop)
         /\ IsBox(oop) => order[New(order, oop)] = oop
         /\ ~IsBox(oop) => New(order, oop) = oop
  <1>1. oop \in Oops(Len(bs)) /\ Len(bs) \in Nat
    BY HeldTyped DEF WellFormed
  <1>2. HeldBoxes(fs, cs) \subseteq Nat \ {0}
    BY HeldTyped DEF HeldBoxes, Oops, IsBox, Ref, Null, WellFormed
  <1>3. oop \in {Null, Ref} \union HeldBoxes(fs, cs)
    BY <1>1 DEF HeldBoxes, Oops, IsBox, Ref, Null
  <1> QED
    BY <1>1, <1>2, <1>3, NewOop

LEMMA RenamedFrame ==
  ASSUME NEW fs, NEW order, NEW k \in DOMAIN fs, NEW n, fs[k] \in Frame(n)
  PROVE  /\ Renamed(order, fs)[k].op_stack
              = [m \in DOMAIN fs[k].op_stack |-> New(order, fs[k].op_stack[m])]
         /\ Renamed(order, fs)[k].table = [i \in Local |-> New(order, fs[k].table[i])]
         /\ Renamed(order, fs)[k].stored = fs[k].stored
  BY DEF Renamed, Frame

LEMMA RenamedFrameIs ==
  ASSUME NEW fs, NEW order, NEW k \in DOMAIN fs, NEW n, fs[k] \in Frame(n)
  PROVE  Renamed(order, fs)[k]
              = [op_stack |-> [m \in DOMAIN fs[k].op_stack |->
                                New(order, fs[k].op_stack[m])],
                 table |-> [i \in Local |-> New(order, fs[k].table[i])],
                 stored |-> fs[k].stored]
  BY DEF Renamed, Frame

LEMMA RenamedTyped ==
  ASSUME NEW fs, NEW cs, NEW bs, WellFormed(fs, cs, bs),
         NEW order, Numbering(order, HeldBoxes(fs, cs))
  PROVE  WellFormed(Renamed(order, fs), RenamedCells(order, cs), Reordered(order, bs))
  <1> DEFINE len == Len(order)
  <1>1. len \in Nat /\ DOMAIN order = 1 .. len /\ order \in [1 .. len -> HeldBoxes(fs, cs)]
    BY DEF Numbering
  <1>2. \A n \in 1 .. len : bs[order[n]] \in Value
    <2> SUFFICES ASSUME NEW n \in 1 .. len
                 PROVE  bs[order[n]] \in Value
      OBVIOUS
    <2>1. order[n] \in Held(fs, cs) /\ IsBox(order[n])
      BY <1>1 DEF HeldBoxes
    <2>2. order[n] \in 1 .. Len(bs)
      BY <2>1, HeldTyped DEF Oops, IsBox, Ref, Null, WellFormed
    <2> QED
      BY <2>2 DEF WellFormed
  <1>3. Reordered(order, bs) \in Seq(Value) /\ Len(Reordered(order, bs)) = len
    <2> HIDE DEF len
    <2>1. Reordered(order, bs) = [n \in 1 .. len |-> bs[order[n]]]
      BY <1>1 DEF Reordered
    <2> QED
      BY <1>1, <1>2, <2>1
  <1>4. RenamedCells(order, cs) \in [Cells -> Oops(len)]
    BY NewOfHeld, HeldIs DEF RenamedCells
  <1>5. \A k \in DOMAIN fs : Renamed(order, fs)[k] \in Frame(len)
    <2> SUFFICES ASSUME NEW k \in DOMAIN fs
                 PROVE  Renamed(order, fs)[k] \in Frame(len)
      OBVIOUS
    <2>1. fs[k] \in Frame(Len(bs))
      BY DEF WellFormed
    <2>2. \A m \in DOMAIN fs[k].op_stack : New(order, fs[k].op_stack[m]) \in Oops(len)
      BY NewOfHeld, HeldIs
    <2>3. \A i \in Local : New(order, fs[k].table[i]) \in Oops(len)
      BY NewOfHeld, HeldIs
    <2>4. fs[k].op_stack \in Seq(Oops(Len(bs))) /\ fs[k].stored \subseteq Local
      BY <2>1 DEF Frame
    <2>5. PICK d \in Nat : DOMAIN fs[k].op_stack = 1 .. d
      BY <2>4
    <2> HIDE DEF len
    <2>6. [m \in DOMAIN fs[k].op_stack |-> New(order, fs[k].op_stack[m])]
            \in Seq(Oops(len))
      BY <2>2, <2>5
    <2>7. [i \in Local |-> New(order, fs[k].table[i])] \in [Local -> Oops(len)]
      BY <2>3
    <2>8. Renamed(order, fs)[k]
            = [op_stack |-> [m \in DOMAIN fs[k].op_stack |->
                              New(order, fs[k].op_stack[m])],
               table |-> [i \in Local |-> New(order, fs[k].table[i])],
               stored |-> fs[k].stored]
      BY <2>1, RenamedFrameIs
    <2> QED
      BY <2>4, <2>6, <2>7, <2>8 DEF Frame
  <1>6. Renamed(order, fs) \in Seq(Frame(len)) /\ Renamed(order, fs) # <<>>
    <2>1. PICK d \in Nat : DOMAIN fs = 1 .. d /\ d # 0
      BY DEF WellFormed
    <2>2. DOMAIN Renamed(order, fs) = 1 .. d
      BY <2>1 DEF Renamed
    <2>3. Renamed(order, fs) = [k \in 1 .. d |-> Renamed(order, fs)[k]]
      BY <2>1 DEF Renamed
    <2> HIDE DEF len
    <2>4. Renamed(order, fs) \in [1 .. d -> Frame(len)]
      BY <1>5, <2>1, <2>3
    <2> QED
      BY <2>1, <2>2, <2>4
  <1> QED
    BY <1>3, <1>4, <1>6 DEF WellFormed

(* Boxes keep apart, and keep what they hold.                              *)
LEMMA RenamedOwned ==
  ASSUME NEW fs, NEW cs, NEW bs, WellFormed(fs, cs, bs), Owned(fs, cs),
         NEW order, Numbering(order, HeldBoxes(fs, cs))
  PROVE  Owned(Renamed(order, fs), RenamedCells(order, cs))
  <1> DEFINE gs == Renamed(order, fs)
             ds == RenamedCells(order, cs)
  <1>1. \A a, b \in Held(fs, cs) :
          New(order, a) = New(order, b) /\ IsBox(New(order, a)) => a = b
    <2> SUFFICES ASSUME NEW a \in Held(fs, cs), NEW b \in Held(fs, cs),
                        New(order, a) = New(order, b), IsBox(New(order, a))
                 PROVE  a = b
      OBVIOUS
    <2>1. IsBox(a) /\ order[New(order, a)] = a
      BY NewOfHeld
    <2>2. IsBox(b) /\ order[New(order, b)] = b
      BY NewOfHeld
    <2> QED
      BY <2>1, <2>2
  <1>2. DOMAIN gs = DOMAIN fs
    BY DEF Renamed
  <1>3. \A k \in DOMAIN fs :
          /\ gs[k].stored = fs[k].stored
          /\ DOMAIN gs[k].op_stack = DOMAIN fs[k].op_stack
          /\ \A n \in DOMAIN fs[k].op_stack : gs[k].op_stack[n] = New(order, fs[k].op_stack[n])
          /\ \A i \in Local : gs[k].table[i] = New(order, fs[k].table[i])
    <2> SUFFICES ASSUME NEW k \in DOMAIN fs
                 PROVE  /\ gs[k].stored = fs[k].stored
                        /\ DOMAIN gs[k].op_stack = DOMAIN fs[k].op_stack
                        /\ \A n \in DOMAIN fs[k].op_stack :
                             gs[k].op_stack[n] = New(order, fs[k].op_stack[n])
                        /\ \A i \in Local : gs[k].table[i] = New(order, fs[k].table[i])
      OBVIOUS
    <2>1. fs[k] \in Frame(Len(bs))
      BY DEF WellFormed
    <2>2. /\ gs[k].op_stack = [m \in DOMAIN fs[k].op_stack |-> New(order, fs[k].op_stack[m])]
          /\ gs[k].table = [i \in Local |-> New(order, fs[k].table[i])]
          /\ gs[k].stored = fs[k].stored
      BY <2>1, RenamedFrame
    <2> HIDE DEF gs
    <2> QED
      BY <2>2
  <1>4. \A c \in Cells : ds[c] = New(order, cs[c])
    BY DEF RenamedCells
  <1>5. ASSUME NEW k \in DOMAIN fs
        PROVE  fs[k].stored \subseteq Local
    <2>1. fs[k] \in Frame(Len(bs))
      BY DEF WellFormed
    <2> QED
      BY <2>1 DEF Frame
  <1> HIDE DEF gs, ds
  <1> SUFFICES ASSUME NEW k \in DOMAIN fs, NEW i \in fs[k].stored,
                      IsBox(gs[k].table[i])
               PROVE  /\ \A c \in Cells : ds[c] # gs[k].table[i]
                      /\ \A j \in DOMAIN fs :
                           /\ \A n \in DOMAIN fs[j].op_stack :
                                gs[j].op_stack[n] # gs[k].table[i]
                           /\ \A l \in Local : gs[j].table[l] = gs[k].table[i]
                                => j = k /\ l = i
    BY <1>2, <1>3 DEF Owned, gs, ds
  <1>6. PICK oop : oop = fs[k].table[i]
    OBVIOUS
  <1>7. /\ oop \in Held(fs, cs) /\ gs[k].table[i] = New(order, oop)
        /\ IsBox(New(order, oop)) /\ IsBox(oop)
    <2>1. i \in Local
      BY <1>5
    <2>2. oop \in Held(fs, cs) /\ gs[k].table[i] = New(order, oop)
      BY <1>3, <1>6, <2>1, HeldIs
    <2> QED
      BY <2>2, NewOfHeld
  <1>8. /\ \A c \in Cells : cs[c] # oop
        /\ \A j \in DOMAIN fs :
             /\ \A n \in DOMAIN fs[j].op_stack : fs[j].op_stack[n] # oop
             /\ \A l \in Local : fs[j].table[l] = oop => j = k /\ l = i
    BY <1>6, <1>7 DEF Owned
  <1>9. \A x \in Held(fs, cs) : New(order, x) = New(order, oop) => x = oop
    BY <1>1, <1>7
  <1>10. \A c \in Cells : ds[c] # gs[k].table[i]
    BY <1>4, <1>7, <1>8, <1>9, HeldIs
  <1>11. ASSUME NEW j \in DOMAIN fs, NEW n \in DOMAIN fs[j].op_stack
         PROVE  gs[j].op_stack[n] # gs[k].table[i]
    <2>1. fs[j].op_stack[n] \in Held(fs, cs) /\ fs[j].op_stack[n] # oop
      BY <1>8, HeldIs
    <2>2. gs[j].op_stack[n] = New(order, fs[j].op_stack[n])
      BY <1>3
    <2> QED
      BY <1>7, <1>9, <2>1, <2>2
  <1>12. ASSUME NEW j \in DOMAIN fs, NEW l \in Local, gs[j].table[l] = gs[k].table[i]
         PROVE  j = k /\ l = i
    <2>1. fs[j].table[l] \in Held(fs, cs)
      BY HeldIs
    <2>2. gs[j].table[l] = New(order, fs[j].table[l])
      BY <1>3
    <2>3. fs[j].table[l] = oop
      BY <1>7, <1>9, <1>12, <2>1, <2>2
    <2> QED
      BY <1>8, <2>3
  <1> QED
    BY <1>10, <1>11, <1>12

LEMMA RenamedMean ==
  ASSUME NEW fs, NEW cs, NEW bs, WellFormed(fs, cs, bs),
         NEW order, Numbering(order, HeldBoxes(fs, cs)),
         NEW oop \in Held(fs, cs)
  PROVE  Mean(New(order, oop), Reordered(order, bs)) = Mean(oop, bs)
  <1>1. /\ New(order, oop) \in Oops(Len(order))
        /\ IsBox(New(order, oop)) <=> IsBox(oop)
        /\ IsBox(oop) => order[New(order, oop)] = oop
        /\ ~IsBox(oop) => New(order, oop) = oop
        /\ oop \in Oops(Len(bs))
    BY NewOfHeld
  <1>2. DOMAIN order = 1 .. Len(order) /\ Len(order) \in Nat
    BY DEF Numbering
  <1>3. CASE IsBox(oop)
    <2>1. New(order, oop) \in DOMAIN order
      BY <1>1, <1>2, <1>3 DEF Oops, IsBox, Ref, Null
    <2>2. Reordered(order, bs)[New(order, oop)] = bs[oop]
      BY <1>1, <1>3, <2>1 DEF Reordered
    <2>3. oop # Null /\ oop # Ref /\ New(order, oop) # Null /\ New(order, oop) # Ref
      BY <1>1, <1>3 DEF IsBox, Oops, Ref, Null
    <2> QED
      BY <2>2, <2>3 DEF Mean
  <1>4. CASE ~IsBox(oop)
    <2>1. oop \in {Null, Ref}
      BY <1>1, <1>4 DEF IsBox, Oops, Ref, Null, WellFormed
    <2> QED
      BY <1>1, <1>4, <2>1 DEF Mean
  <1> QED
    BY <1>3, <1>4

LEMMA RenamedMeansTheSame ==
  ASSUME NEW fs, NEW cs, NEW bs, WellFormed(fs, cs, bs),
         NEW order, Numbering(order, HeldBoxes(fs, cs))
  PROVE  /\ MeanFrames(Renamed(order, fs), Reordered(order, bs)) = MeanFrames(fs, bs)
         /\ MeanCells(RenamedCells(order, cs), Reordered(order, bs)) = MeanCells(cs, bs)
  <1> DEFINE gs == Renamed(order, fs)
             ns == Reordered(order, bs)
  <1>1. \A oop \in Held(fs, cs) : Mean(New(order, oop), ns) = Mean(oop, bs)
    BY RenamedMean
  <1>2. ASSUME NEW k \in DOMAIN fs
        PROVE  MeanFrame(gs[k], ns) = MeanFrame(fs[k], bs)
    <2>1. fs[k] \in Frame(Len(bs))
      BY DEF WellFormed
    <2>2. /\ gs[k].op_stack = [m \in DOMAIN fs[k].op_stack |-> New(order, fs[k].op_stack[m])]
          /\ gs[k].table = [i \in Local |-> New(order, fs[k].table[i])]
      BY <2>1, RenamedFrame
    <2>3. \A n \in DOMAIN fs[k].op_stack :
            Mean(New(order, fs[k].op_stack[n]), ns) = Mean(fs[k].op_stack[n], bs)
      BY <1>1, HeldIs
    <2>4. \A i \in Local : Mean(New(order, fs[k].table[i]), ns) = Mean(fs[k].table[i], bs)
      BY <1>1, HeldIs
    <2> HIDE DEF gs, ns
    <2>5. MeanAll(gs[k].op_stack, ns) = MeanAll(fs[k].op_stack, bs)
      BY <2>2, <2>3 DEF MeanAll
    <2>6. [i \in Local |-> Mean(gs[k].table[i], ns)] = [i \in Local |-> Mean(fs[k].table[i], bs)]
      BY <2>2, <2>4
    <2> QED
      BY <2>5, <2>6 DEF MeanFrame
  <1>3. DOMAIN gs = DOMAIN fs
    BY DEF Renamed
  <1>4. \A c \in Cells : Mean(New(order, cs[c]), ns) = Mean(cs[c], bs)
    BY <1>1, HeldIs
  <1>5. MeanCells(RenamedCells(order, cs), ns) = MeanCells(cs, bs)
    BY <1>4 DEF MeanCells, RenamedCells
  <1> HIDE DEF gs, ns
  <1>6. MeanFrames(gs, ns) = MeanFrames(fs, bs)
    BY <1>2, <1>3 DEF MeanFrames
  <1> QED
    BY <1>5, <1>6 DEF gs, ns

-----------------------------------------------------------------------------
(* What Placed does, whoever uses it.                                      *)
LEMMA PlacedKeeps ==
  ASSUME NEW fs, NEW cs, NEW bs, WellFormed(fs, cs, bs), Owned(fs, cs),
         Placed(fs, cs, bs)
  PROVE  IInv'
  <1>1. PICK order :
          /\ Numbering(order, HeldBoxes(fs, cs))
          /\ frames' = Renamed(order, fs)
          /\ cell' = RenamedCells(order, cs)
          /\ box' = Reordered(order, bs)
    BY PlacedIs
  <1>2. WellFormed(frames', cell', box')
    BY <1>1, RenamedTyped
  <1>3. Owned(frames', cell')
    BY <1>1, RenamedOwned
  <1> QED
    BY <1>2, <1>3 DEF IInv, TypeOK

LEMMA BecomeKeeps ==
  ASSUME NEW fs, NEW cs, NEW bs, WellFormed(fs, cs, bs), Owned(fs, cs),
         Become(fs, cs, bs)
  PROVE  IInv'
  BY PlacedKeeps DEF Become

LEMMA MeantIsMean ==
  /\ MeantFrames = MeanFrames(frames, box)
  /\ MeantCells = MeanCells(cell, box)
  <1>1. \A oop : Meaning(oop) = Mean(oop, box)
    BY DEF Meaning, Mean, Null, Ref
  <1>2. MeantCells = MeanCells(cell, box)
    BY <1>1 DEF MeantCells, MeanCells
  <1>3. MeantFrames = MeanFrames(frames, box)
    BY <1>1 DEF MeantFrames, MeanFrames, MeanFrame, MeanAll
  <1> QED
    BY <1>2, <1>3

LEMMA PlacedMeans ==
  ASSUME NEW fs, NEW cs, NEW bs, WellFormed(fs, cs, bs), Placed(fs, cs, bs)
  PROVE  /\ MeantFrames' = MeanFrames(fs, bs)
         /\ MeantCells' = MeanCells(cs, bs)
  <1>1. PICK order :
          /\ Numbering(order, HeldBoxes(fs, cs))
          /\ frames' = Renamed(order, fs)
          /\ cell' = RenamedCells(order, cs)
          /\ box' = Reordered(order, bs)
    BY PlacedIs
  <1>2. /\ MeanFrames(frames', box') = MeanFrames(fs, bs)
        /\ MeanCells(cell', box') = MeanCells(cs, bs)
    BY <1>1, RenamedMeansTheSame
  <1>3. (MeantFrames = MeanFrames(frames, box) /\ MeantCells = MeanCells(cell, box))'
    BY MeantIsMean, PTL
  <1> QED
    BY <1>2, <1>3

LEMMA BecomeMeans ==
  ASSUME NEW fs, NEW cs, NEW bs, WellFormed(fs, cs, bs), Become(fs, cs, bs)
  PROVE  /\ MeantFrames' = MeanFrames(fs, bs)
         /\ MeantCells' = MeanCells(cs, bs)
  BY PlacedMeans DEF Become

-----------------------------------------------------------------------------
(* Oops that are in no stored variable's box: all operands and cells.      *)
Loose(n) ==
  {oop \in Oops(n) : \A k \in DOMAIN frames : \A i \in frames[k].stored :
                       IsBox(oop) => frames[k].table[i] # oop}

LEMMA LooseMonotonic ==
  ASSUME NEW m \in Nat, NEW n \in Nat, m =< n
  PROVE  /\ Loose(m) \subseteq Loose(n)
         /\ Seq(Loose(m)) \subseteq Seq(Loose(n))
         /\ [Cells -> Loose(m)] \subseteq [Cells -> Loose(n)]
  <1>1. Loose(m) \subseteq Loose(n)
    BY DEF Loose, Oops, Null
  <1> QED
    BY <1>1, SeqMonotonic

LEMMA FirstFrame ==
  ASSUME IInv
  PROVE  /\ Len(box) \in Nat /\ Len(frames) \in Nat \ {0} /\ DOMAIN frames = 1 .. Len(frames)
         /\ \A k \in DOMAIN frames :
              /\ frames[k] \in Frame(Len(box))
              /\ frames[k].op_stack \in Seq(Oops(Len(box)))
              /\ frames[k].table \in [Local -> Oops(Len(box))]
              /\ frames[k].stored \subseteq Local
         /\ op_stack \in Seq(Loose(Len(box)))
         /\ table \in [Local -> Oops(Len(box))]
         /\ cell \in [Cells -> Loose(Len(box))]
         /\ box \in Seq(Value)
  <1> DEFINE N == Len(box)
  <1>1. /\ N \in Nat /\ box \in Seq(Value)
        /\ Len(frames) \in Nat \ {0} /\ DOMAIN frames = 1 .. Len(frames)
        /\ \A k \in DOMAIN frames : frames[k] \in Frame(N)
        /\ cell \in [Cells -> Oops(N)]
    BY DEF IInv, TypeOK, WellFormed
  <1> HIDE DEF N
  <1>2. \A k \in DOMAIN frames :
          /\ frames[k].op_stack \in Seq(Oops(N))
          /\ frames[k].table \in [Local -> Oops(N)]
          /\ frames[k].stored \subseteq Local
    BY <1>1 DEF Frame
  <1>3. 1 \in DOMAIN frames
    BY <1>1
  <1>4. \A c \in Cells : cell[c] \in Loose(N)
    BY <1>1 DEF IInv, Owned, Loose
  <1>5. \A n \in DOMAIN op_stack : op_stack[n] \in Loose(N)
    <2>1. \A n \in DOMAIN op_stack : op_stack[n] \in Oops(N)
      BY <1>2, <1>3 DEF op_stack
    <2> QED
      BY <1>3, <2>1 DEF IInv, Owned, Loose, op_stack
  <1>6. PICK d \in Nat : DOMAIN op_stack = 1 .. d /\ op_stack \in [1 .. d -> Oops(N)]
    BY <1>2, <1>3 DEF op_stack
  <1>7. op_stack \in Seq(Loose(N))
    <2>1. op_stack \in [1 .. d -> Loose(N)]
      BY <1>5, <1>6
    <2> QED
      BY <2>1
  <1>8. table \in [Local -> Oops(N)]
    BY <1>2, <1>3 DEF table
  <1>9. cell \in [Cells -> Loose(N)]
    BY <1>1, <1>4
  <1> QED
    BY <1>1, <1>2, <1>7, <1>8, <1>9 DEF N

LEMMA FreshIsLoose ==
  ASSUME IInv, NEW k \in Nat \ {0}, NEW n \in Nat, Len(box) + k =< n
  PROVE  Fresh(k) \in Loose(n)
  <1>1. Fresh(k) \in Oops(n) /\ Fresh(k) > Len(box)
    BY FirstFrame DEF Fresh, Oops, Null
  <1>2. ASSUME NEW j \in DOMAIN frames, NEW i \in frames[j].stored
        PROVE  frames[j].table[i] # Fresh(k)
    <2>1. frames[j].table[i] \in Oops(Len(box))
      BY FirstFrame
    <2> QED
      BY <1>1, <2>1, FirstFrame DEF Oops, Null
  <1> QED
    BY <1>1, <1>2 DEF Loose

LEMMA BoxlessIsLoose ==
  ASSUME NEW n \in Nat, NEW oop \in Oops(n), ~IsBox(oop)
  PROVE  oop \in Loose(n)
  BY DEF Loose

(* The current frame with other operands.                                  *)
LEMMA WithStackIs ==
  ASSUME IInv, NEW s
  PROVE  /\ DOMAIN WithStack(s) = DOMAIN frames
         /\ WithStack(s)[1] = [op_stack |-> s, table |-> table, stored |-> frames[1].stored]
         /\ WithStack(s)[1].op_stack = s
         /\ \A k \in DOMAIN frames \ {1} : WithStack(s)[k] = frames[k]
         /\ \A k \in DOMAIN frames : /\ WithStack(s)[k].table = frames[k].table
                                     /\ WithStack(s)[k].stored = frames[k].stored
  <1>1. 1 \in DOMAIN frames
    BY FirstFrame
  <1>2. frames[1] \in Frame(Len(box))
    BY <1>1, FirstFrame
  <1>3. WithStack(s)[1] = [op_stack |-> s, table |-> table, stored |-> frames[1].stored]
    BY <1>1, <1>2 DEF WithStack, Frame, table
  <1>4. \A k \in DOMAIN frames \ {1} : WithStack(s)[k] = frames[k]
    BY DEF WithStack
  <1>5. DOMAIN WithStack(s) = DOMAIN frames
    BY DEF WithStack
  <1>6. /\ WithStack(s)[1].table = frames[1].table
        /\ WithStack(s)[1].stored = frames[1].stored
        /\ WithStack(s)[1].op_stack = s
    BY <1>3 DEF table
  <1> QED
    BY <1>3, <1>4, <1>5, <1>6

LEMMA StackStep ==
  ASSUME IInv, NEW s, NEW cs, NEW bs \in Seq(Value), Len(box) =< Len(bs),
         s \in Seq(Loose(Len(bs))), cs \in [Cells -> Loose(Len(bs))]
  PROVE  WellFormed(WithStack(s), cs, bs) /\ Owned(WithStack(s), cs)
  <1> DEFINE N == Len(bs)
             fs == WithStack(s)
  <1>1. N \in Nat /\ Len(box) \in Nat /\ Len(box) =< N
    BY FirstFrame
  <1>2. Oops(Len(box)) \subseteq Oops(N)
    BY <1>1 DEF Oops, Null
  <1>3. Loose(N) \subseteq Oops(N)
    BY DEF Loose
  <1> HIDE DEF N
  <1>4. Seq(Loose(N)) \subseteq Seq(Oops(N)) /\ Seq(Oops(Len(box))) \subseteq Seq(Oops(N))
    BY <1>2, <1>3, SeqMonotonic
  <1>5. \A k \in DOMAIN frames : fs[k] \in Frame(N)
    <2>1. 1 \in DOMAIN frames
      BY FirstFrame
    <2>2. fs[1] \in Frame(N)
      <3>1. fs[1] = [op_stack |-> s, table |-> table, stored |-> frames[1].stored]
        BY WithStackIs
      <3>2. s \in Seq(Oops(N))
        BY <1>4 DEF N
      <3>3. table \in [Local -> Oops(N)]
        BY <1>2, FirstFrame
      <3>4. frames[1].stored \subseteq Local
        BY <2>1, FirstFrame
      <3> HIDE DEF fs
      <3> QED
        BY <3>1, <3>2, <3>3, <3>4 DEF Frame
    <2>3. ASSUME NEW k \in DOMAIN frames \ {1}
          PROVE  fs[k] \in Frame(N)
      <3>1. fs[k] = frames[k]
        BY WithStackIs, ZenonT(30)
      <3>2. frames[k] \in Frame(Len(box))
        BY FirstFrame
      <3> HIDE DEF fs
      <3> QED
        BY <1>2, <1>4, <3>1, <3>2 DEF Frame
    <2> QED
      BY <2>2, <2>3
  <1>6. fs \in Seq(Frame(N)) /\ fs # <<>>
    <2>1. PICK d \in Nat \ {0} : DOMAIN frames = 1 .. d
      BY FirstFrame
    <2>2. fs \in [1 .. d -> Frame(N)]
      <3>1. fs = [k \in DOMAIN frames |-> fs[k]]
        BY DEF WithStack
      <3> HIDE DEF fs
      <3> QED
        BY <1>5, <2>1, <3>1
    <2> HIDE DEF fs
    <2> QED
      BY <2>1, <2>2
  <1>7. cs \in [Cells -> Oops(N)]
    BY <1>3 DEF N
  <1>8. WellFormed(fs, cs, bs)
    BY <1>6, <1>7 DEF WellFormed, N
  <1>9. Owned(fs, cs)
    <2>1. DOMAIN fs = DOMAIN frames
      BY WithStackIs
    <2>2. \A k \in DOMAIN frames : /\ fs[k].table = frames[k].table
                                   /\ fs[k].stored = frames[k].stored
      BY WithStackIs
    <2>3. fs[1].op_stack = s
      BY WithStackIs
    <2>4. \A k \in DOMAIN frames \ {1} : fs[k].op_stack = frames[k].op_stack
      <3> TAKE k \in DOMAIN frames \ {1}
      <3>1. fs[k] = frames[k]
        BY WithStackIs, ZenonT(30)
      <3> QED
        BY ONLY <3>1
    <2>5. \A n \in DOMAIN s : s[n] \in Loose(N)
      BY DEF N
    <2>6. \A c \in Cells : cs[c] \in Loose(N)
      BY DEF N
    <2> HIDE DEF fs
    <2> SUFFICES ASSUME NEW k \in DOMAIN frames, NEW i \in frames[k].stored,
                        IsBox(frames[k].table[i])
                 PROVE  /\ \A c \in Cells : cs[c] # frames[k].table[i]
                        /\ \A j \in DOMAIN frames :
                             /\ \A n \in DOMAIN fs[j].op_stack :
                                  fs[j].op_stack[n] # frames[k].table[i]
                             /\ \A l \in Local : frames[j].table[l] = frames[k].table[i]
                                  => j = k /\ l = i
      BY <2>1, <2>2 DEF Owned
    <2>7. \A oop \in Loose(N) : oop # frames[k].table[i]
      BY DEF Loose
    <2>8. \A c \in Cells : cs[c] # frames[k].table[i]
      BY <2>6, <2>7
    <2>9. ASSUME NEW j \in DOMAIN frames
          PROVE  /\ \A n \in DOMAIN fs[j].op_stack :
                      fs[j].op_stack[n] # frames[k].table[i]
                 /\ \A l \in Local : frames[j].table[l] = frames[k].table[i]
                      => j = k /\ l = i
      <3>1. \A l \in Local : frames[j].table[l] = frames[k].table[i] => j = k /\ l = i
        BY DEF IInv, Owned
      <3>2. \A n \in DOMAIN frames[j].op_stack : frames[j].op_stack[n] # frames[k].table[i]
        BY DEF IInv, Owned
      <3>3. CASE j = 1
        BY <2>3, <2>5, <2>7, <3>1, <3>3
      <3>4. CASE j # 1
        BY <2>4, <3>1, <3>2, <3>4
      <3> QED
        BY <3>3, <3>4
    <2> QED
      BY <2>8, <2>9
  <1> QED
    BY <1>8, <1>9

-----------------------------------------------------------------------------
(* What lists of oops mean.                                                *)
LEMMA MeanAllIs ==
  ASSUME NEW S, NEW s \in Seq(S), NEW bs
  PROVE  /\ MeanAll(s, bs) \in Seq({Mean(oop, bs) : oop \in S})
         /\ Len(MeanAll(s, bs)) = Len(s)
         /\ DOMAIN MeanAll(s, bs) = DOMAIN s
         /\ \A n \in 1 .. Len(s) : MeanAll(s, bs)[n] = Mean(s[n], bs)
  <1>1. PICK d \in Nat : DOMAIN s = 1 .. d /\ d = Len(s) /\ s \in [1 .. d -> S]
    OBVIOUS
  <1>2. MeanAll(s, bs) = [n \in 1 .. d |-> Mean(s[n], bs)]
    BY <1>1 DEF MeanAll
  <1> QED
    BY <1>1, <1>2

LEMMA MeanAllConcat ==
  ASSUME NEW S, NEW s \in Seq(S), NEW t \in Seq(S), NEW bs
  PROVE  MeanAll(s \o t, bs) = MeanAll(s, bs) \o MeanAll(t, bs)
  <1> DEFINE T == {Mean(oop, bs) : oop \in S}
             u == MeanAll(s \o t, bs)
             v == MeanAll(s, bs)
             w == MeanAll(t, bs)
  <1>1. /\ s \o t \in Seq(S) /\ Len(s \o t) = Len(s) + Len(t)
        /\ \A i \in 1 .. Len(s) + Len(t) :
             (s \o t)[i] = IF i =< Len(s) THEN s[i] ELSE t[i - Len(s)]
    BY ConcatProperties
  <1>2. /\ u \in Seq(T) /\ Len(u) = Len(s) + Len(t)
        /\ \A i \in 1 .. Len(s) + Len(t) : u[i] = Mean((s \o t)[i], bs)
    <2>1. PICK p \in Seq(S) : p = s \o t
      BY <1>1
    <2>2. /\ MeanAll(p, bs) \in Seq(T) /\ Len(MeanAll(p, bs)) = Len(p)
          /\ \A i \in 1 .. Len(p) : MeanAll(p, bs)[i] = Mean(p[i], bs)
      BY MeanAllIs
    <2> QED
      BY <1>1, <2>1, <2>2
  <1>3. v \in Seq(T) /\ Len(v) = Len(s) /\ \A i \in 1 .. Len(s) : v[i] = Mean(s[i], bs)
    BY MeanAllIs
  <1>4. w \in Seq(T) /\ Len(w) = Len(t) /\ \A i \in 1 .. Len(t) : w[i] = Mean(t[i], bs)
    BY MeanAllIs
  <1> HIDE DEF T, u, v, w
  <1>5. /\ v \o w \in Seq(T) /\ Len(v \o w) = Len(v) + Len(w)
        /\ \A i \in 1 .. Len(v) + Len(w) :
             (v \o w)[i] = IF i =< Len(v) THEN v[i] ELSE w[i - Len(v)]
    <2>1. v \in Seq(T)
      BY <1>3
    <2>2. w \in Seq(T)
      BY <1>4
    <2> QED
      BY ONLY <2>1, <2>2, ConcatProperties
  <1>6. ASSUME NEW i \in 1 .. Len(s) + Len(t)
        PROVE  u[i] = (v \o w)[i]
    <2>1. Len(s) \in Nat /\ Len(t) \in Nat /\ i \in Nat \ {0} /\ i =< Len(s) + Len(t)
      OBVIOUS
    <2>2. u[i] = Mean((s \o t)[i], bs)
      BY <1>2
    <2>3. (v \o w)[i] = IF i =< Len(s) THEN v[i] ELSE w[i - Len(s)]
      BY <1>3, <1>4, <1>5
    <2>4. (s \o t)[i] = IF i =< Len(s) THEN s[i] ELSE t[i - Len(s)]
      BY <1>1
    <2>5. CASE i =< Len(s)
      <3>1. v[i] = Mean(s[i], bs)
        BY <1>3, <2>1, <2>5
      <3> QED
        BY <2>2, <2>3, <2>4, <2>5, <3>1
    <2>6. CASE ~(i =< Len(s))
      <3>1. i - Len(s) \in 1 .. Len(t)
        BY <2>1, <2>6
      <3>2. w[i - Len(s)] = Mean(t[i - Len(s)], bs)
        BY <1>4, <3>1
      <3> QED
        BY <2>2, <2>3, <2>4, <2>6, <3>2
    <2> QED
      BY <2>5, <2>6
  <1>7. u = v \o w
    BY <1>2, <1>3, <1>4, <1>5, <1>6, SeqEqual
  <1> QED
    BY <1>7 DEF u, v, w

LEMMA MeanAllSubSeq ==
  ASSUME NEW S, NEW s \in Seq(S), NEW m \in Nat \ {0}, NEW n \in 0 .. Len(s), NEW bs
  PROVE  /\ SubSeq(s, m, n) \in Seq(S)
         /\ Len(SubSeq(s, m, n)) = IF m =< n THEN n - m + 1 ELSE 0
         /\ MeanAll(SubSeq(s, m, n), bs) = SubSeq(MeanAll(s, bs), m, n)
  <1> DEFINE T == {Mean(oop, bs) : oop \in S}
             r == SubSeq(s, m, n)
             u == MeanAll(r, bs)
             v == MeanAll(s, bs)
             len == IF m =< n THEN n - m + 1 ELSE 0
  <1>1. /\ r \in Seq(S) /\ Len(r) = len
        /\ \A i \in 1 .. len : r[i] = s[m + i - 1]
    BY SubSeqProperties
  <1> HIDE DEF r, len
  <1>2. /\ u \in Seq(T) /\ Len(u) = len
        /\ \A i \in 1 .. len : u[i] = Mean(r[i], bs)
    BY <1>1, MeanAllIs, ZenonT(30)
  <1>3. v \in Seq(T) /\ Len(v) = Len(s) /\ \A i \in 1 .. Len(s) : v[i] = Mean(s[i], bs)
    BY MeanAllIs
  <1> HIDE DEF T, r, u, v
  <1>4. \A i \in m .. n : v[i] \in T
    BY <1>3
  <1>5. /\ SubSeq(v, m, n) \in Seq(T) /\ Len(SubSeq(v, m, n)) = len
        /\ \A i \in 1 .. len : SubSeq(v, m, n)[i] = v[m + i - 1]
    BY <1>4, SubSeqProperties DEF len
  <1>6. \A i \in 1 .. len : m + i - 1 \in 1 .. Len(s)
    BY DEF len
  <1>7. \A i \in 1 .. len : u[i] = SubSeq(v, m, n)[i]
    BY <1>1, <1>2, <1>3, <1>5, <1>6
  <1>8. u = SubSeq(v, m, n)
    BY <1>2, <1>5, <1>7, SeqEqual
  <1> QED
    BY <1>1, <1>8 DEF r, u, v, len

LEMMA MeanAllPush ==
  ASSUME NEW S, NEW s \in Seq(S), NEW oop \in S, NEW bs
  PROVE  /\ <<oop>> \o s \in Seq(S)
         /\ MeanAll(<<oop>> \o s, bs) = <<Mean(oop, bs)>> \o MeanAll(s, bs)
  <1>1. PICK one : one = <<oop>>
    OBVIOUS
  <1>2. one \in Seq(S)
    BY <1>1
  <1>3. DOMAIN one = 1 .. 1 /\ one[1] = oop
    BY <1>1
  <1>4. MeanAll(one, bs) = <<Mean(oop, bs)>>
    BY <1>3 DEF MeanAll
  <1>5. MeanAll(one \o s, bs) = MeanAll(one, bs) \o MeanAll(s, bs)
    BY <1>2, MeanAllConcat
  <1>6. one \o s \in Seq(S)
    BY <1>2, ConcatProperties
  <1> QED
    BY <1>1, <1>4, <1>5, <1>6

-----------------------------------------------------------------------------
(* The machine of values, as the state of the boxes means it.              *)
LEMMA JavaIs ==
  ASSUME IInv
  PROVE  /\ DOMAIN MeantFrames = DOMAIN frames
         /\ \A k \in DOMAIN frames : MeantFrames[k] = MeanFrame(frames[k], box)
         /\ Java!stack = MeanAll(op_stack, box)
         /\ Java!local = [i \in Local |-> Mean(table[i], box)]
         /\ DOMAIN MeantCells = Cells
         /\ \A c \in Cells : MeantCells[c] = Mean(cell[c], box)
         /\ Len(Java!stack) = Len(op_stack)
         /\ \A n \in 1 .. Len(op_stack) : Java!stack[n] = Mean(op_stack[n], box)
  <1>1. 1 \in DOMAIN frames /\ op_stack \in Seq(Loose(Len(box)))
    BY FirstFrame
  <1>2. /\ DOMAIN MeantFrames = DOMAIN frames
        /\ \A k \in DOMAIN frames : MeantFrames[k] = MeanFrame(frames[k], box)
    BY MeantIsMean DEF MeanFrames
  <1>3. MeantFrames[1].stack = MeanAll(frames[1].op_stack, box)
    BY <1>1, <1>2 DEF MeanFrame
  <1>4. MeantFrames[1].local = [i \in Local |-> Mean(frames[1].table[i], box)]
    BY <1>1, <1>2 DEF MeanFrame
  <1>5. Java!stack = MeanAll(op_stack, box)
    BY <1>3 DEF Java!stack, op_stack
  <1>6. Java!local = [i \in Local |-> Mean(table[i], box)]
    BY <1>4 DEF Java!local, table
  <1>7. /\ DOMAIN MeantCells = Cells
        /\ \A c \in Cells : MeantCells[c] = Mean(cell[c], box)
    BY MeantIsMean DEF MeanCells
  <1>8. /\ Len(MeanAll(op_stack, box)) = Len(op_stack)
        /\ \A n \in 1 .. Len(op_stack) : MeanAll(op_stack, box)[n] = Mean(op_stack[n], box)
    BY <1>1, MeanAllIs
  <1> QED
    BY <1>2, <1>5, <1>6, <1>7, <1>8

LEMMA JavaBelow ==
  ASSUME IInv, NEW n \in 0 .. Len(op_stack)
  PROVE  /\ Below(n) \in Seq(Loose(Len(box)))
         /\ Len(Below(n)) = Len(op_stack) - n
         /\ Java!Below(n) = MeanAll(Below(n), box)
  <1>1. op_stack \in Seq(Loose(Len(box))) /\ Len(op_stack) \in Nat
    BY FirstFrame
  <1>2. Java!stack = MeanAll(op_stack, box) /\ Len(Java!stack) = Len(op_stack)
    BY JavaIs
  <1>3. /\ n + 1 \in Nat \ {0} /\ Len(op_stack) \in 0 .. Len(op_stack)
        /\ (IF n + 1 =< Len(op_stack) THEN Len(op_stack) - (n + 1) + 1 ELSE 0)
             = Len(op_stack) - n
    BY <1>1
  <1>4. /\ SubSeq(op_stack, n + 1, Len(op_stack)) \in Seq(Loose(Len(box)))
        /\ Len(SubSeq(op_stack, n + 1, Len(op_stack))) = Len(op_stack) - n
        /\ MeanAll(SubSeq(op_stack, n + 1, Len(op_stack)), box)
             = SubSeq(MeanAll(op_stack, box), n + 1, Len(op_stack))
    BY <1>1, <1>3, MeanAllSubSeq
  <1> QED
    BY <1>2, <1>4 DEF Below, Java!Below

(* The boxes as they are, and more.                                        *)
Extends(bs) ==
  /\ bs \in Seq(Value)
  /\ Len(box) =< Len(bs)
  /\ \A n \in 1 .. Len(box) : bs[n] = box[n]

LEMMA BoxExtends ==
  ASSUME IInv
  PROVE  Extends(box)
  BY FirstFrame DEF Extends

LEMMA ConcatExtends ==
  ASSUME IInv, NEW vs \in Seq(Value)
  PROVE  /\ Extends(box \o vs)
         /\ Len(box \o vs) = Len(box) + Len(vs)
         /\ \A n \in 1 .. Len(vs) : (box \o vs)[Len(box) + n] = vs[n]
  <1>1. box \in Seq(Value) /\ Len(box) \in Nat /\ Len(vs) \in Nat
    BY FirstFrame
  <1>2. /\ box \o vs \in Seq(Value) /\ Len(box \o vs) = Len(box) + Len(vs)
        /\ \A i \in 1 .. Len(box) + Len(vs) :
             (box \o vs)[i] = IF i =< Len(box) THEN box[i] ELSE vs[i - Len(box)]
    BY <1>1, ConcatProperties
  <1>3. \A n \in 1 .. Len(vs) : (box \o vs)[Len(box) + n] = vs[n]
    <2> SUFFICES ASSUME NEW n \in 1 .. Len(vs)
                 PROVE  (box \o vs)[Len(box) + n] = vs[n]
      OBVIOUS
    <2>1. /\ Len(box) + n \in 1 .. Len(box) + Len(vs)
          /\ ~(Len(box) + n =< Len(box)) /\ (Len(box) + n) - Len(box) = n
      BY <1>1
    <2> QED
      BY <1>2, <2>1
  <1>4. \A n \in 1 .. Len(box) : (box \o vs)[n] = box[n]
    BY <1>1, <1>2
  <1> QED
    BY <1>1, <1>2, <1>3, <1>4 DEF Extends

LEMMA AppendExtends ==
  ASSUME IInv, NEW v \in Value
  PROVE  /\ Extends(Append(box, v))
         /\ Len(Append(box, v)) = Len(box) + 1
         /\ Append(box, v)[Len(box) + 1] = v
         /\ Mean(Fresh(1), Append(box, v)) = v
  <1>1. box \in Seq(Value) /\ Len(box) \in Nat
    BY FirstFrame
  <1>2. /\ Append(box, v) \in Seq(Value)
        /\ Len(Append(box, v)) = Len(box) + 1
        /\ \A n \in 1 .. Len(box) : Append(box, v)[n] = box[n]
        /\ Append(box, v)[Len(box) + 1] = v
    BY <1>1, AppendProperties
  <1>3. Extends(Append(box, v))
    BY <1>1, <1>2 DEF Extends
  <1>4. Mean(Fresh(1), Append(box, v)) = v
    BY <1>1, <1>2 DEF Mean, Fresh, Null, Ref
  <1> QED
    BY <1>2, <1>3, <1>4

LEMMA ExtendedMeans ==
  ASSUME IInv, NEW bs, Extends(bs)
  PROVE  /\ \A oop \in Oops(Len(box)) : Mean(oop, bs) = Mean(oop, box)
         /\ MeanCells(cell, bs) = MeantCells
         /\ \A k \in DOMAIN frames : MeanFrame(frames[k], bs) = MeanFrame(frames[k], box)
  <1>1. ASSUME NEW oop \in Oops(Len(box))
        PROVE  Mean(oop, bs) = Mean(oop, box)
    <2>1. oop = Null \/ oop = Ref \/ oop \in 1 .. Len(box)
      BY FirstFrame DEF Oops, Null, Ref
    <2> QED
      BY <2>1 DEF Mean, Extends
  <1>2. MeanCells(cell, bs) = MeantCells
    <2>1. \A c \in Cells : cell[c] \in Oops(Len(box))
      BY FirstFrame DEF Loose
    <2> QED
      BY <1>1, <2>1, MeantIsMean DEF MeanCells
  <1>3. ASSUME NEW k \in DOMAIN frames
        PROVE  MeanFrame(frames[k], bs) = MeanFrame(frames[k], box)
    <2>1. \A n \in DOMAIN frames[k].op_stack : frames[k].op_stack[n] \in Oops(Len(box))
      BY FirstFrame
    <2>2. \A i \in Local : frames[k].table[i] \in Oops(Len(box))
      BY FirstFrame
    <2>3. MeanAll(frames[k].op_stack, bs) = MeanAll(frames[k].op_stack, box)
      BY <1>1, <2>1 DEF MeanAll
    <2> QED
      BY <1>1, <2>2, <2>3 DEF MeanFrame
  <1> QED
    BY <1>1, <1>2, <1>3

LEMMA ExtendedMeansAll ==
  ASSUME IInv, NEW bs, Extends(bs), NEW s \in Seq(Loose(Len(box)))
  PROVE  MeanAll(s, bs) = MeanAll(s, box)
  <1>1. \A n \in DOMAIN s : s[n] \in Oops(Len(box))
    BY DEF Loose
  <1> QED
    BY <1>1, ExtendedMeans DEF MeanAll

LEMMA StackMeans ==
  ASSUME IInv, NEW bs, NEW s,
         \A i \in Local : Mean(table[i], bs) = Mean(table[i], box),
         \A k \in DOMAIN frames \ {1} : MeanFrame(frames[k], bs) = MeanFrame(frames[k], box)
  PROVE  MeanFrames(WithStack(s), bs) = Java!WithStack(MeanAll(s, bs))
  <1> DEFINE fs == WithStack(s)
             js == Java!WithStack(MeanAll(s, bs))
  <1>1. 1 \in DOMAIN frames /\ DOMAIN fs = DOMAIN frames
    BY FirstFrame DEF WithStack
  <1>2. DOMAIN js = DOMAIN frames
    BY JavaIs DEF Java!WithStack
  <1>3. \A k \in DOMAIN frames \ {1} : js[k] = MeanFrame(frames[k], box)
    BY JavaIs DEF Java!WithStack
  <1>4. js[1] = [stack |-> MeanAll(s, bs), local |-> [i \in Local |-> Mean(table[i], box)]]
    <2>1. MeantFrames[1] = [stack |-> MeanAll(op_stack, box),
                            local |-> [i \in Local |-> Mean(table[i], box)]]
      BY <1>1, JavaIs DEF MeanFrame, op_stack, table
    <2>2. js[1] = [MeantFrames[1] EXCEPT !.stack = MeanAll(s, bs)]
      BY <1>1, JavaIs DEF Java!WithStack
    <2> QED
      BY <2>1, <2>2
  <1>5. MeanFrame(fs[1], bs) = js[1]
    <2>1. fs[1] = [op_stack |-> s, table |-> table, stored |-> frames[1].stored]
      BY WithStackIs
    <2>2. fs[1].op_stack = s /\ fs[1].table = table
      BY <2>1
    <2>3. [i \in Local |-> Mean(table[i], bs)] = [i \in Local |-> Mean(table[i], box)]
      OBVIOUS
    <2> QED
      BY <1>4, <2>2, <2>3 DEF MeanFrame
  <1>6. \A k \in DOMAIN frames \ {1} : MeanFrame(fs[k], bs) = js[k]
    <2>1. \A k \in DOMAIN frames \ {1} : fs[k] = frames[k]
      BY DEF WithStack
    <2> QED
      BY <1>3, <2>1
  <1>7. js = [k \in DOMAIN frames |-> js[k]]
    BY <1>2 DEF Java!WithStack
  <1> HIDE DEF fs, js
  <1>8. MeanFrames(fs, bs) = [k \in DOMAIN frames |-> js[k]]
    BY <1>1, <1>5, <1>6 DEF MeanFrames
  <1> QED
    BY <1>7, <1>8 DEF fs, js

(* A step that changes operands, cells and values of new boxes.            *)
LEMMA StackPlaced ==
  ASSUME IInv, NEW s, NEW cs, NEW bs, Extends(bs),
         s \in Seq(Loose(Len(bs))), cs \in [Cells -> Loose(Len(bs))],
         Placed(WithStack(s), cs, bs)
  PROVE  /\ IInv'
         /\ MeantFrames' = Java!WithStack(MeanAll(s, bs))
         /\ MeantCells' = MeanCells(cs, bs)
  <1>1. bs \in Seq(Value) /\ Len(box) =< Len(bs)
    BY DEF Extends
  <1>2. WellFormed(WithStack(s), cs, bs) /\ Owned(WithStack(s), cs)
    BY <1>1, StackStep
  <1>4. IInv'
    BY <1>2, PlacedKeeps
  <1>5. MeantFrames' = MeanFrames(WithStack(s), bs) /\ MeantCells' = MeanCells(cs, bs)
    BY <1>2, PlacedMeans
  <1>6. MeanFrames(WithStack(s), bs) = Java!WithStack(MeanAll(s, bs))
    <2>1. \A i \in Local : table[i] \in Oops(Len(box))
      BY FirstFrame
    <2>2. \A i \in Local : Mean(table[i], bs) = Mean(table[i], box)
      BY <2>1, ExtendedMeans
    <2>3. \A k \in DOMAIN frames \ {1} :
            MeanFrame(frames[k], bs) = MeanFrame(frames[k], box)
      BY ExtendedMeans
    <2> QED
      BY <2>2, <2>3, StackMeans
  <1> QED
    BY <1>4, <1>5, <1>6

LEMMA StackBecomes ==
  ASSUME IInv, NEW s, NEW cs, NEW bs, Extends(bs),
         s \in Seq(Loose(Len(bs))), cs \in [Cells -> Loose(Len(bs))],
         Become(WithStack(s), cs, bs)
  PROVE  /\ IInv'
         /\ MeantFrames' = Java!WithStack(MeanAll(s, bs))
         /\ MeantCells' = MeanCells(cs, bs)
  BY StackPlaced DEF Become

(* The instructions that pop operands and push one.                        *)
LEMMA PushNewPlaced ==
  ASSUME IInv, NEW n \in 0 .. Len(op_stack), NEW v \in Value,
         NEW cs \in [Cells -> Loose(Len(box))],
         Placed(WithStack(<<Fresh(1)>> \o Below(n)), cs, Append(box, v))
  PROVE  /\ IInv'
         /\ MeantFrames' = Java!WithStack(<<v>> \o Java!Below(n))
         /\ MeantCells' = MeanCells(cs, box)
  <1> DEFINE bs == Append(box, v)
             s == <<Fresh(1)>> \o Below(n)
  <1>1. Placed(WithStack(s), cs, bs)
    OBVIOUS
  <1>2. Extends(bs) /\ Len(bs) = Len(box) + 1 /\ Mean(Fresh(1), bs) = v
    BY AppendExtends
  <1>3. Below(n) \in Seq(Loose(Len(box))) /\ Java!Below(n) = MeanAll(Below(n), box)
    BY JavaBelow
  <1> HIDE DEF bs
  <1>4. Len(box) \in Nat /\ Len(bs) \in Nat /\ Len(box) =< Len(bs)
    BY <1>2, FirstFrame
  <1>5. Below(n) \in Seq(Loose(Len(bs))) /\ cs \in [Cells -> Loose(Len(bs))]
    BY <1>3, <1>4, LooseMonotonic
  <1>6. Fresh(1) \in Loose(Len(bs))
    BY <1>2, <1>4, FreshIsLoose
  <1>7. /\ s \in Seq(Loose(Len(bs)))
        /\ MeanAll(s, bs) = <<Mean(Fresh(1), bs)>> \o MeanAll(Below(n), bs)
    <2>1. Below(n) \in Seq(Loose(Len(bs)))
      BY <1>5
    <2> QED
      BY ONLY <1>6, <2>1, MeanAllPush, SMTT(30)
  <1>8. MeanAll(Below(n), bs) = MeanAll(Below(n), box)
    BY <1>2, <1>3, ExtendedMeansAll
  <1>9. MeanCells(cs, bs) = MeanCells(cs, box)
    <2>1. \A c \in Cells : cs[c] \in Oops(Len(box))
      BY DEF Loose
    <2> QED
      BY <1>2, <2>1, ExtendedMeans DEF MeanCells
  <1> HIDE DEF s
  <1>10. /\ IInv'
         /\ MeantFrames' = Java!WithStack(MeanAll(s, bs))
         /\ MeantCells' = MeanCells(cs, bs)
    BY <1>1, <1>2, <1>5, <1>7, StackPlaced
  <1> QED
    BY <1>2, <1>3, <1>7, <1>8, <1>9, <1>10

LEMMA PushNewBecomes ==
  ASSUME IInv, NEW n \in 0 .. Len(op_stack), NEW v \in Value,
         NEW cs \in [Cells -> Loose(Len(box))],
         Become(WithStack(<<Fresh(1)>> \o Below(n)), cs, Append(box, v))
  PROVE  /\ IInv'
         /\ MeantFrames' = Java!WithStack(<<v>> \o Java!Below(n))
         /\ MeantCells' = MeanCells(cs, box)
  BY PushNewPlaced DEF Become

LEMMA PopPushNewBecomes ==
  ASSUME IInv, NEW n \in Nat, NEW v \in Value, PopPushNew(n, v)
  PROVE  /\ IInv' /\ n =< Len(op_stack)
         /\ MeantFrames' = Java!WithStack(<<v>> \o Java!Below(n))
         /\ MeantCells' = MeantCells
  <1>1. /\ n =< Len(op_stack)
        /\ Become(WithStack(<<Fresh(1)>> \o Below(n)), cell, Append(box, v))
    BY DEF PopPushNew
  <1>2. n \in 0 .. Len(op_stack) /\ cell \in [Cells -> Loose(Len(box))]
    BY <1>1, FirstFrame
  <1>3. /\ IInv'
        /\ MeantFrames' = Java!WithStack(<<v>> \o Java!Below(n))
        /\ MeantCells' = MeanCells(cell, box)
    BY <1>1, <1>2, PushNewBecomes
  <1> QED
    BY <1>1, <1>3, MeantIsMean

LEMMA PopPushBecomes ==
  ASSUME IInv, NEW n \in 0 .. Len(op_stack), NEW oop \in Loose(Len(box)),
         PopPush(n, oop)
  PROVE  /\ IInv'
         /\ MeantFrames' = Java!WithStack(<<Mean(oop, box)>> \o Java!Below(n))
         /\ MeantCells' = MeantCells
  <1> DEFINE s == <<oop>> \o Below(n)
  <1>1. Become(WithStack(s), cell, box)
    BY DEF PopPush
  <1>2. Below(n) \in Seq(Loose(Len(box))) /\ Java!Below(n) = MeanAll(Below(n), box)
    BY JavaBelow
  <1>3. /\ s \in Seq(Loose(Len(box)))
        /\ MeanAll(s, box) = <<Mean(oop, box)>> \o MeanAll(Below(n), box)
    BY <1>2, MeanAllPush, SMTT(30)
  <1> HIDE DEF s
  <1>4. cell \in [Cells -> Loose(Len(box))]
    BY FirstFrame
  <1>5. /\ IInv'
        /\ MeantFrames' = Java!WithStack(MeanAll(s, box))
        /\ MeantCells' = MeanCells(cell, box)
    BY <1>1, <1>3, <1>4, BoxExtends, StackBecomes
  <1> QED
    BY <1>2, <1>3, <1>5, MeantIsMean

(* The instructions that pop operands and put something into a cell.       *)
LEMMA PutBecomes ==
  ASSUME IInv, NEW n \in 0 .. Len(op_stack), NEW bs, Extends(bs),
         NEW c \in Cells, NEW oop \in Loose(Len(bs)),
         Become(WithStack(Below(n)), [cell EXCEPT ![c] = oop], bs)
  PROVE  /\ IInv'
         /\ MeantFrames' = Java!WithStack(Java!Below(n))
         /\ MeantCells' = [MeantCells EXCEPT ![c] = Mean(oop, bs)]
  <1> DEFINE cs == [cell EXCEPT ![c] = oop]
  <1>1. Below(n) \in Seq(Loose(Len(box))) /\ Java!Below(n) = MeanAll(Below(n), box)
    BY JavaBelow
  <1>2. Len(box) \in Nat /\ Len(bs) \in Nat /\ Len(box) =< Len(bs)
    BY FirstFrame DEF Extends
  <1>3. Below(n) \in Seq(Loose(Len(bs))) /\ cell \in [Cells -> Loose(Len(bs))]
    BY <1>1, <1>2, LooseMonotonic, FirstFrame
  <1>4. cs \in [Cells -> Loose(Len(bs))]
    BY <1>3
  <1>5. MeanAll(Below(n), bs) = MeanAll(Below(n), box)
    BY <1>1, ExtendedMeansAll
  <1>6. MeanCells(cs, bs) = [MeantCells EXCEPT ![c] = Mean(oop, bs)]
    <2>1. MeanCells(cell, bs) = MeantCells
      BY ExtendedMeans
    <2>2. \A d \in Cells : cs[d] = IF d = c THEN oop ELSE cell[d]
      BY <1>3
    <2> HIDE DEF cs
    <2> QED
      BY <2>1, <2>2 DEF MeanCells
  <1> HIDE DEF cs
  <1>7. /\ IInv'
        /\ MeantFrames' = Java!WithStack(MeanAll(Below(n), bs))
        /\ MeantCells' = MeanCells(cs, bs)
    BY <1>3, <1>4, StackBecomes DEF cs
  <1> QED
    BY <1>1, <1>5, <1>6, <1>7

LEMMA PopBecomes ==
  ASSUME IInv, NEW n \in 0 .. Len(op_stack), Become(WithStack(Below(n)), cell, box)
  PROVE  /\ IInv'
         /\ MeantFrames' = Java!WithStack(Java!Below(n))
         /\ MeantCells' = MeantCells
  <1>1. Below(n) \in Seq(Loose(Len(box))) /\ Java!Below(n) = MeanAll(Below(n), box)
    BY JavaBelow
  <1>2. cell \in [Cells -> Loose(Len(box))]
    BY FirstFrame
  <1>3. /\ IInv'
        /\ MeantFrames' = Java!WithStack(MeanAll(Below(n), box))
        /\ MeantCells' = MeanCells(cell, box)
    BY <1>1, <1>2, BoxExtends, StackBecomes
  <1> QED
    BY <1>1, <1>3, MeantIsMean

-----------------------------------------------------------------------------
(* Values and operands.                                                    *)
LEMMA BoxValue ==
  ASSUME IInv, NEW oop \in Oops(Len(box)), IsBox(oop)
  PROVE  /\ oop \in 1 .. Len(box)
         /\ box[oop] \in Value
         /\ Mean(oop, box) = box[oop]
  BY FirstFrame DEF Oops, IsBox, Null, Ref, Mean

LEMMA BoxlessMean ==
  ASSUME NEW n \in Nat, NEW oop \in Oops(n), ~IsBox(oop), NEW bs
  PROVE  /\ oop \in {Null, Ref}
         /\ Mean(oop, bs) = IF oop = Null THEN Java!Null ELSE Java!Ref
  BY DEF Oops, IsBox, Null, Ref, Mean, Java!Null, Java!Ref

LEMMA IntIs ==
  ASSUME NEW n \in Int
  PROVE  IntOop(n) \in Value /\ IntOop(n) = Java!I(n) /\ IntOop(n) \in Java!IntValue
  <1>1. n % 2 \in 0 .. 1
    OBVIOUS
  <1> QED
    BY <1>1 DEF IntOop, Value, Java!I, Java!IntValue

LEMMA IsInt ==
  ASSUME IInv, NEW oop \in Oops(Len(box)), Is(oop, "int")
  PROVE  /\ IsBox(oop) /\ box[oop] \in Java!IntValue /\ box[oop].value \in Int
         /\ Mean(oop, box) = box[oop]
  <1>1. IsBox(oop) /\ box[oop].kind = "int"
    BY DEF Is
  <1>2. box[oop] \in Value /\ Mean(oop, box) = box[oop]
    BY <1>1, BoxValue
  <1>3. "int" \notin Kinds
    BY BoxesAssumption
  <1>4. box[oop] \in [kind : {"int"}, value : 0 .. 1]
    BY <1>1, <1>2, <1>3 DEF Value
  <1> QED
    BY <1>1, <1>2, <1>4 DEF Java!IntValue

(* A value of two words.                                                   *)
Wide(v) == v.kind \in {"long", "double"}

LEMMA WideIs ==
  ASSUME IInv, NEW oop \in Oops(Len(box))
  PROVE  IsWide(oop) <=> Wide(Mean(oop, box))
  <1>1. CASE IsBox(oop)
    BY <1>1, BoxValue DEF IsWide, Wides, Wide
  <1>2. CASE ~IsBox(oop)
    <2>1. Mean(oop, box) \in {Java!Null, Java!Ref}
      BY <1>2, BoxlessMean, FirstFrame
    <2> QED
      BY <1>2, <2>1 DEF IsWide, Wide, Java!Null, Java!Ref
  <1> QED
    BY <1>1, <1>2

LEMMA OperandIs ==
  ASSUME IInv, NEW n \in 1 .. Len(op_stack)
  PROVE  /\ op_stack[n] \in Loose(Len(box)) /\ op_stack[n] \in Oops(Len(box))
         /\ Java!stack[n] = Mean(op_stack[n], box)
         /\ op_stack[n] = Ref => Java!stack[n] = Java!Ref
  <1>1. op_stack[n] \in Loose(Len(box))
    BY FirstFrame
  <1>2. op_stack[n] \in Oops(Len(box))
    BY <1>1 DEF Loose
  <1>3. Java!stack[n] = Mean(op_stack[n], box)
    BY JavaIs
  <1>4. op_stack[n] = Ref => Mean(op_stack[n], box) = Java!Ref
    BY DEF Mean, Java!Ref, Ref, Null
  <1> QED
    BY <1>1, <1>2, <1>3, <1>4

LEMMA TopIs ==
  ASSUME IInv
  PROVE  /\ Len(op_stack) \in Nat
         /\ Len(Java!stack) = Len(op_stack)
         /\ op_stack # <<>> <=> Len(op_stack) >= 1
         /\ op_stack # <<>> <=> Java!stack # <<>>
         /\ op_stack # <<>> => /\ Head(op_stack) = op_stack[1]
                               /\ Head(Java!stack) = Java!stack[1]
                               /\ 1 \in 1 .. Len(op_stack)
  <1>1. op_stack \in Seq(Loose(Len(box)))
    BY FirstFrame
  <1>2. /\ MeanAll(op_stack, box) \in Seq({Mean(oop, box) : oop \in Loose(Len(box))})
        /\ Len(MeanAll(op_stack, box)) = Len(op_stack)
    BY <1>1, MeanAllIs
  <1>3. Java!stack = MeanAll(op_stack, box)
    BY JavaIs
  <1>4. PICK js : js = Java!stack
    OBVIOUS
  <1>5. PICK S : js \in Seq(S) /\ Len(js) = Len(op_stack)
    BY <1>2, <1>3, <1>4
  <1>6. /\ Len(op_stack) \in Nat
        /\ op_stack # <<>> <=> Len(op_stack) >= 1
        /\ op_stack # <<>> => Head(op_stack) = op_stack[1]
    BY <1>1
  <1>7. js # <<>> <=> Len(js) >= 1
    BY <1>5
  <1>8. js # <<>> => Head(js) = js[1]
    BY <1>5
  <1> QED
    BY <1>4, <1>5, <1>6, <1>7, <1>8

LEMMA CellIs ==
  ASSUME IInv, NEW c \in Cells
  PROVE  /\ cell[c] \in Loose(Len(box)) /\ cell[c] \in Oops(Len(box))
         /\ MeantCells[c] = Mean(cell[c], box)
  <1>1. cell[c] \in Loose(Len(box))
    BY FirstFrame
  <1> QED
    BY <1>1, JavaIs DEF Loose

LEMMA VariableIs ==
  ASSUME IInv, NEW i \in Local
  PROVE  /\ table[i] \in Oops(Len(box))
         /\ Java!local[i] = Mean(table[i], box)
         /\ ~IsBox(table[i]) => table[i] \in Loose(Len(box))
  <1>1. table[i] \in Oops(Len(box)) /\ Len(box) \in Nat
    BY FirstFrame
  <1>2. Java!local[i] = Mean(table[i], box)
    BY JavaIs
  <1> QED
    BY <1>1, <1>2, BoxlessIsLoose

LEMMA BelowNone ==
  ASSUME IInv
  PROVE  /\ Java!Below(0) = Java!stack
         /\ 0 \in 0 .. Len(op_stack)
  <1>1. op_stack \in Seq(Loose(Len(box)))
    BY FirstFrame
  <1>2. /\ MeanAll(op_stack, box) \in Seq({Mean(oop, box) : oop \in Loose(Len(box))})
        /\ Java!stack = MeanAll(op_stack, box)
    BY <1>1, MeanAllIs, JavaIs
  <1>3. PICK js : js = Java!stack
    OBVIOUS
  <1>4. PICK S : js \in Seq(S)
    BY <1>2, <1>3
  <1>5. SubSeq(js, 1, Len(js)) = js
    BY <1>4, SubSeqFull
  <1> QED
    BY <1>1, <1>3, <1>5 DEF Java!Below

(* A step keeps the invariant, and is one of the machine of values that    *)
(* names no constant.                                                      *)
Done == IInv' /\ (~AllPrograms => Java!Unnamed)

-----------------------------------------------------------------------------
(* Constants and variables.                                                *)
LEMMA PushDone ==
  ASSUME IInv, IInv', NEW v, MeantFrames' = Java!WithStack(<<v>> \o Java!Below(0)),
         MeantCells' = MeantCells,
         \/ v \in {Java!Null, Java!Ref}
         \/ \E c \in Cells : v = MeantCells[c]
         \/ \E i \in Local : v = Java!local[i]
  PROVE  Done
  <1>1. MeantFrames' = Java!WithStack(<<v>> \o Java!stack)
    BY BelowNone
  <1>2. CASE \/ v \in {Java!Null, Java!Ref}
             \/ \E c \in Cells : v = MeantCells[c]
    <2>1. Java!Push
      BY <1>1, <1>2 DEF Java!Push
    <2> QED
      BY <2>1 DEF Done, Java!Unnamed
  <1>3. CASE \E i \in Local : v = Java!local[i]
    <2>1. Java!Load
      BY <1>1, <1>3 DEF Java!Load, Java!Local, Local
    <2> QED
      BY <2>1 DEF Done, Java!Unnamed
  <1> QED
    BY <1>2, <1>3

LEMMA LiteralIs ==
  ASSUME NEW named \in Literals
  PROVE  /\ named \in Value /\ DoubleOop(named) \in Value
         /\ named.kind = "double" => [named EXCEPT !.value = @ + 1] \in Value
  <1>1. CASE named \in {IntOop(0), IntOop(1)}
    <2>1. named \in Value /\ named.kind = "int"
      BY <1>1, IntIs DEF IntOop
    <2> QED
      BY <2>1 DEF DoubleOop, Precise
  <1>2. CASE /\ named \in [kind : Kinds, value : Int]
    <2>1. /\ [named EXCEPT !.value = -2] \in [kind : Kinds, value : Int]
          /\ [named EXCEPT !.value = @ + 1] \in [kind : Kinds, value : Int]
      BY <1>2
    <2> QED
      BY <1>2, <2>1 DEF DoubleOop, Value
  <1>3. Precise \in [kind : {"double"}, value : Int]
    BY DEF Precise
  <1> QED
    BY <1>1, <1>2, <1>3, BoxesAssumption DEF Literals

LEMMA ConstantDone ==
  ASSUME IInv, NEW named \in Literals, NEW v \in Value, Constant(named, v),
         AllPrograms \/ v = named
  PROVE  IInv' /\ (~AllPrograms => Java!Constant)
  <1>1. /\ Placed(WithStack(<<Fresh(1)>> \o op_stack), cell, Append(box, v))
        /\ literal' = named
    BY DEF Constant
  <1>2. Below(0) = op_stack
    <2>1. op_stack \in Seq(Loose(Len(box)))
      BY FirstFrame
    <2> QED
      BY <2>1, SubSeqFull DEF Below
  <1>3. cell \in [Cells -> Loose(Len(box))] /\ 0 \in 0 .. Len(op_stack)
    BY FirstFrame, BelowNone
  <1>4. /\ IInv'
        /\ MeantFrames' = Java!WithStack(<<v>> \o Java!Below(0))
        /\ MeantCells' = MeanCells(cell, box)
    BY <1>1, <1>2, <1>3, PushNewPlaced
  <1>5. ASSUME ~AllPrograms
        PROVE  Java!Constant
    <2>1. MeantFrames' = Java!WithStack(<<named>> \o Java!stack)
      BY <1>1, <1>4, <1>5, BelowNone
    <2>2. MeantCells' = MeantCells
      BY <1>4, MeantIsMean
    <2> QED
      BY <1>1, <2>1, <2>2 DEF Java!Constant
  <1> QED
    BY <1>4, <1>5

LEMMA ConstantsDone ==
  ASSUME IInv, xconst \/ ldc
  PROVE  IInv' /\ (~AllPrograms => Java!Constant)
  <1>1. CASE xconst
    <2>1. PICK named \in Literals :
            \/ /\ AllPrograms /\ named.kind = "double"
               /\ Constant(named, [named EXCEPT !.value = @ + 1])
            \/ Constant(named, named)
      BY <1>1 DEF xconst
    <2> QED
      BY <2>1, LiteralIs, ConstantDone
  <1>2. CASE ldc
    <2>1. PICK named \in Literals :
            (AllPrograms \/ named # Precise) /\ Constant(named, DoubleOop(named))
      BY <1>2 DEF ldc
    <2>2. AllPrograms \/ DoubleOop(named) = named
      BY <2>1 DEF DoubleOop
    <2> QED
      BY <2>1, <2>2, LiteralIs, ConstantDone
  <1> QED
    BY <1>1, <1>2

LEMMA aconst_nullDone ==
  ASSUME IInv, aconst_null
  PROVE  Done
  <1>1. Null \in Loose(Len(box)) /\ Mean(Null, box) = Java!Null
    BY FirstFrame DEF Loose, Oops, Null, IsBox, Ref, Mean, Java!Null
  <1>2. PopPush(0, Null)
    BY DEF aconst_null
  <1>3. /\ IInv'
        /\ MeantFrames' = Java!WithStack(<<Mean(Null, box)>> \o Java!Below(0))
        /\ MeantCells' = MeantCells
    BY <1>1, <1>2, BelowNone, PopPushBecomes
  <1> QED
    BY <1>1, <1>3, PushDone

LEMMA ldc_objectDone ==
  ASSUME IInv, ldc_object
  PROVE  Done
  <1>1. Ref \in Loose(Len(box)) /\ Mean(Ref, box) = Java!Ref
    BY FirstFrame, BoxlessIsLoose DEF Oops, Null, Ref, IsBox, Mean, Java!Ref
  <1>2. PopPush(0, Ref)
    BY DEF ldc_object
  <1>3. /\ IInv'
        /\ MeantFrames' = Java!WithStack(<<Mean(Ref, box)>> \o Java!Below(0))
        /\ MeantCells' = MeantCells
    BY <1>1, <1>2, BelowNone, PopPushBecomes
  <1> QED
    BY <1>1, <1>3, PushDone

LEMMA LoadCopyDone ==
  ASSUME IInv, NEW i \in Local, LoadCopy(i)
  PROVE  Done
  <1>1. IsBox(table[i]) /\ PopPushNew(0, box[table[i]])
    BY DEF LoadCopy
  <1>2. table[i] \in Oops(Len(box)) /\ Java!local[i] = Mean(table[i], box)
    BY VariableIs
  <1>3. box[table[i]] \in Value /\ Mean(table[i], box) = box[table[i]]
    BY <1>1, <1>2, BoxValue
  <1>4. /\ IInv'
        /\ MeantFrames' = Java!WithStack(<<box[table[i]]>> \o Java!Below(0))
        /\ MeantCells' = MeantCells
    BY <1>1, <1>3, PopPushNewBecomes
  <1> QED
    BY <1>2, <1>3, <1>4, PushDone

LEMMA LoadPointerDone ==
  ASSUME IInv, NEW i \in Local, LoadPointer(i)
  PROVE  Done
  <1>1. ~IsBox(table[i]) /\ PopPush(0, table[i])
    BY DEF LoadPointer
  <1>2. table[i] \in Loose(Len(box)) /\ Java!local[i] = Mean(table[i], box)
    BY <1>1, VariableIs
  <1>3. /\ IInv'
        /\ MeantFrames' = Java!WithStack(<<Mean(table[i], box)>> \o Java!Below(0))
        /\ MeantCells' = MeantCells
    BY <1>1, <1>2, BelowNone, PopPushBecomes
  <1> QED
    BY <1>2, <1>3, PushDone

LEMMA LoadsDone ==
  ASSUME IInv, xload \/ xload_n \/ aload \/ aload_n
  PROVE  Done
  BY LoadCopyDone, LoadPointerDone, BoxesAssumption
  DEF xload, xload_n, aload, aload_n

LEMMA getStaticDone ==
  ASSUME IInv, getStatic
  PROVE  Done
  <1>1. PICK c \in Fields : PopPush(0, cell[c])
    BY DEF getStatic
  <1>2. c \in Cells
    BY DEF Fields
  <1>3. cell[c] \in Loose(Len(box)) /\ MeantCells[c] = Mean(cell[c], box)
    BY <1>2, CellIs
  <1>4. /\ IInv'
        /\ MeantFrames' = Java!WithStack(<<Mean(cell[c], box)>> \o Java!Below(0))
        /\ MeantCells' = MeantCells
    BY <1>1, <1>3, BelowNone, PopPushBecomes
  <1> QED
    BY <1>2, <1>3, <1>4, PushDone

-----------------------------------------------------------------------------
(* Fields and elements are fetched.                                        *)
LEMMA FetchDone ==
  ASSUME IInv, IInv', NEW n \in 1 .. 2, NEW c \in Cells, NEW v,
         n =< Len(op_stack), op_stack[n] = Ref, v = MeantCells[c],
         MeantFrames' = Java!WithStack(<<v>> \o Java!Below(n)),
         MeantCells' = MeantCells
  PROVE  Done
  <1>1. Len(op_stack) \in Nat /\ Len(Java!stack) = Len(op_stack)
    BY TopIs
  <1>2. n \in 1 .. Len(op_stack)
    BY <1>1
  <1>3. Java!stack[n] = Java!Ref /\ Len(Java!stack) >= n
    BY <1>1, <1>2, OperandIs
  <1>4. Java!Fetch
    BY <1>3 DEF Java!Fetch
  <1> QED
    BY <1>4 DEF Done, Java!Unnamed

LEMMA FetchNewDone ==
  ASSUME IInv, NEW n \in 1 .. 2, NEW c \in Cells, IsBox(cell[c]),
         n =< Len(op_stack), op_stack[n] = Ref, PopPushNew(n, box[cell[c]])
  PROVE  Done
  <1>1. cell[c] \in Oops(Len(box)) /\ MeantCells[c] = Mean(cell[c], box)
    BY CellIs
  <1>2. box[cell[c]] \in Value /\ Mean(cell[c], box) = box[cell[c]]
    BY <1>1, BoxValue
  <1>3. /\ IInv'
        /\ MeantFrames' = Java!WithStack(<<box[cell[c]]>> \o Java!Below(n))
        /\ MeantCells' = MeantCells
    BY <1>2, PopPushNewBecomes
  <1> QED
    BY <1>1, <1>2, <1>3, FetchDone

LEMMA FetchPointerDone ==
  ASSUME IInv, NEW n \in 1 .. 2, NEW c \in Cells,
         n =< Len(op_stack), op_stack[n] = Ref, PopPush(n, cell[c])
  PROVE  Done
  <1>1. cell[c] \in Loose(Len(box)) /\ MeantCells[c] = Mean(cell[c], box)
    BY CellIs
  <1>2. n \in 0 .. Len(op_stack)
    BY TopIs
  <1>3. /\ IInv'
        /\ MeantFrames' = Java!WithStack(<<Mean(cell[c], box)>> \o Java!Below(n))
        /\ MeantCells' = MeantCells
    BY <1>1, <1>2, PopPushBecomes
  <1> QED
    BY <1>1, <1>3, FetchDone

LEMMA FetchesDone ==
  ASSUME IInv, xaload \/ aaload \/ getField \/ JVM_GetIntVolatile \/ JVM_GetObjectVolatile
  PROVE  Done
  <1>1. Elements \subseteq Cells /\ Fields \subseteq Cells
    BY BoxesAssumption DEF Fields
  <1>2. op_stack # <<>> /\ Head(op_stack) = Ref => 1 =< Len(op_stack) /\ op_stack[1] = Ref
    BY TopIs
  <1>3. Len(op_stack) \in Nat
    BY TopIs
  <1>4. CASE xaload
    BY <1>1, <1>3, <1>4, FetchNewDone DEF xaload, OnArray, IsElement, Is
  <1>5. CASE aaload
    BY <1>1, <1>3, <1>5, FetchPointerDone DEF aaload, OnArray
  <1>6. CASE getField
    BY <1>1, <1>2, <1>6, FetchPointerDone DEF getField
  <1>7. CASE JVM_GetIntVolatile
    BY <1>1, <1>2, <1>7, FetchNewDone DEF JVM_GetIntVolatile, Is
  <1>8. CASE JVM_GetObjectVolatile
    BY <1>2, <1>8, FetchPointerDone DEF JVM_GetObjectVolatile
  <1> QED
    BY <1>4, <1>5, <1>6, <1>7, <1>8

-----------------------------------------------------------------------------
(* Fields and elements are put.                                            *)
LEMMA AssignDone ==
  ASSUME IInv, IInv', NEW n \in 1 .. 3, NEW c \in Cells, n =< Len(op_stack),
         n > 1 => op_stack[n] = Ref,
         MeantFrames' = Java!WithStack(Java!Below(n)),
         MeantCells' = [MeantCells EXCEPT ![c] = Head(Java!stack)]
  PROVE  Done
  <1>1. Len(op_stack) \in Nat /\ Len(Java!stack) = Len(op_stack)
    BY TopIs
  <1>2. n \in 1 .. Len(op_stack)
    BY <1>1
  <1>3. /\ n > 1 => Java!stack[n] = Java!Ref
        /\ Len(Java!stack) >= n
    BY <1>1, <1>2, OperandIs
  <1>4. Java!Assign
    BY <1>3 DEF Java!Assign
  <1> QED
    BY <1>4 DEF Done, Java!Unnamed

LEMMA PutPointerDone ==
  ASSUME IInv, NEW n \in 1 .. 3, NEW c \in Cells, n =< Len(op_stack),
         n > 1 => op_stack[n] = Ref,
         Become(WithStack(Below(n)), [cell EXCEPT ![c] = Head(op_stack)], box)
  PROVE  Done
  <1>1. n \in 0 .. Len(op_stack) /\ op_stack # <<>>
    BY TopIs
  <1>2. /\ Head(op_stack) = op_stack[1] /\ Head(Java!stack) = Java!stack[1]
        /\ 1 \in 1 .. Len(op_stack)
    BY <1>1, TopIs
  <1>3. /\ Head(op_stack) \in Loose(Len(box))
        /\ Head(Java!stack) = Mean(Head(op_stack), box)
    BY <1>2, OperandIs
  <1>4. /\ IInv'
        /\ MeantFrames' = Java!WithStack(Java!Below(n))
        /\ MeantCells' = [MeantCells EXCEPT ![c] = Mean(Head(op_stack), box)]
    BY <1>1, <1>3, BoxExtends, PutBecomes
  <1> QED
    BY <1>3, <1>4, AssignDone

LEMMA PutCopyDone ==
  ASSUME IInv, NEW n \in 1 .. 3, NEW c \in Cells, n =< Len(op_stack),
         n > 1 => op_stack[n] = Ref, IsBox(Head(op_stack)),
         Become(WithStack(Below(n)), [cell EXCEPT ![c] = Fresh(1)],
                Append(box, box[Head(op_stack)]))
  PROVE  Done
  <1>1. n \in 0 .. Len(op_stack) /\ op_stack # <<>>
    BY TopIs
  <1>2. /\ Head(op_stack) = op_stack[1] /\ Head(Java!stack) = Java!stack[1]
        /\ 1 \in 1 .. Len(op_stack)
    BY <1>1, TopIs
  <1>3. /\ Head(op_stack) \in Oops(Len(box))
        /\ Head(Java!stack) = Mean(Head(op_stack), box)
    BY <1>2, OperandIs
  <1>4. box[Head(op_stack)] \in Value /\ Head(Java!stack) = box[Head(op_stack)]
    BY <1>3, BoxValue
  <1>5. PICK v \in Value : v = box[Head(op_stack)]
    BY <1>4
  <1>6. PICK bs : bs = Append(box, v)
    OBVIOUS
  <1>7. Extends(bs) /\ Len(bs) = Len(box) + 1 /\ Mean(Fresh(1), bs) = v
    BY <1>6, AppendExtends
  <1>8. PICK oop : oop = Fresh(1)
    OBVIOUS
  <1>9. oop \in Loose(Len(bs))
    BY <1>7, <1>8, FirstFrame, FreshIsLoose
  <1>10. Become(WithStack(Below(n)), [cell EXCEPT ![c] = oop], bs)
    BY <1>5, <1>6, <1>8
  <1>11. /\ IInv'
         /\ MeantFrames' = Java!WithStack(Java!Below(n))
         /\ MeantCells' = [MeantCells EXCEPT ![c] = Mean(oop, bs)]
    BY <1>1, <1>7, <1>9, <1>10, PutBecomes
  <1>12. Mean(oop, bs) = Head(Java!stack)
    BY <1>4, <1>5, <1>7, <1>8
  <1> QED
    BY <1>11, <1>12, AssignDone

LEMMA PutsDone ==
  ASSUME IInv, xastore \/ aastore \/ putField \/ putStatic \/ JVM_PutObject
  PROVE  Done
  <1>1. Elements \subseteq Cells /\ Fields \subseteq Cells
    BY BoxesAssumption DEF Fields
  <1>2. Len(op_stack) \in Nat /\ (op_stack # <<>> => 1 =< Len(op_stack))
    BY TopIs
  <1>3. CASE xastore
    <2>1. Len(op_stack) >= 3 /\ op_stack[3] = Ref /\ IsBox(Head(op_stack))
      BY <1>3 DEF xastore, OnArray, IsElement, Is
    <2>2. PICK c \in Elements :
            Become(WithStack(Below(3)), [cell EXCEPT ![c] = Fresh(1)],
                   Append(box, box[Head(op_stack)]))
      BY <1>3 DEF xastore
    <2>3. c \in Cells
      BY <1>1
    <2> QED
      BY <1>2, <2>1, <2>2, <2>3, PutCopyDone
  <1>4. CASE aastore
    BY <1>1, <1>2, <1>4, PutPointerDone DEF aastore, OnArray
  <1>5. CASE putField
    <2>1. Len(op_stack) >= 2 /\ op_stack[2] = Ref
      BY <1>2, <1>5 DEF putField
    <2>2. PICK c \in Fields :
            Become(WithStack(Below(2)), [cell EXCEPT ![c] = Head(op_stack)], box)
      BY <1>5 DEF putField
    <2>3. c \in Cells
      BY <1>1
    <2> QED
      BY <1>2, <2>1, <2>2, <2>3, PutPointerDone, SMTT(30)
  <1>6. CASE putStatic
    <2>1. Len(op_stack) >= 1
      BY <1>2, <1>6 DEF putStatic
    <2>2. PICK c \in Fields :
            Become(WithStack(Below(1)), [cell EXCEPT ![c] = Head(op_stack)], box)
      BY <1>6 DEF putStatic
    <2>3. c \in Cells
      BY <1>1
    <2> QED
      BY <1>2, <2>1, <2>2, <2>3, PutPointerDone, SMTT(30)
  <1>7. CASE JVM_PutObject
    BY <1>2, <1>7, PutPointerDone DEF JVM_PutObject
  <1> QED
    BY <1>3, <1>4, <1>5, <1>6, <1>7

-----------------------------------------------------------------------------
(* Variables are stored: what is not a box, or a box nothing points to.    *)
LEMMA StoredIs ==
  ASSUME IInv, NEW i \in Local, NEW oop
  PROVE  /\ DOMAIN Stored(i, oop) = DOMAIN frames
         /\ Stored(i, oop)[1].op_stack = Below(1)
         /\ Stored(i, oop)[1].table = [table EXCEPT ![i] = oop]
         /\ Stored(i, oop)[1].stored = IF IsBox(oop) THEN frames[1].stored \union {i}
                                       ELSE frames[1].stored \ {i}
         /\ Stored(i, oop)[1]
              = [op_stack |-> Below(1), table |-> [table EXCEPT ![i] = oop],
                 stored |-> IF IsBox(oop) THEN frames[1].stored \union {i}
                            ELSE frames[1].stored \ {i}]
         /\ \A k \in DOMAIN frames \ {1} : Stored(i, oop)[k] = frames[k]
         /\ Stored(i, oop) = [k \in DOMAIN frames |-> Stored(i, oop)[k]]
  <1>1. 1 \in DOMAIN frames
    BY FirstFrame
  <1> DEFINE r == [op_stack |-> Below(1), table |-> [table EXCEPT ![i] = oop],
                   stored |-> IF IsBox(oop) THEN frames[1].stored \union {i}
                              ELSE frames[1].stored \ {i}]
  <1>2. Stored(i, oop)[1] = r
    BY <1>1 DEF Stored
  <1>3. /\ r.op_stack = Below(1) /\ r.table = [table EXCEPT ![i] = oop]
        /\ r.stored = IF IsBox(oop) THEN frames[1].stored \union {i}
                      ELSE frames[1].stored \ {i}
    OBVIOUS
  <1>4. DOMAIN Stored(i, oop) = DOMAIN frames
    BY DEF Stored
  <1>5. \A k \in DOMAIN frames \ {1} : Stored(i, oop)[k] = frames[k]
    BY DEF Stored
  <1>6. Stored(i, oop) = [k \in DOMAIN frames |-> Stored(i, oop)[k]]
    BY DEF Stored
  <1> HIDE DEF r
  <1> QED
    BY <1>2, <1>3, <1>4, <1>5, <1>6 DEF r

LEMMA StoredTyped ==
  ASSUME IInv, NEW i \in Local, NEW bs, Extends(bs), NEW oop \in Oops(Len(bs)),
         op_stack # <<>>
  PROVE  WellFormed(Stored(i, oop), cell, bs)
  <1> DEFINE N == Len(bs)
             fs == Stored(i, oop)
  <1>1. /\ N \in Nat /\ Len(box) \in Nat /\ Len(box) =< N /\ bs \in Seq(Value)
    BY FirstFrame DEF Extends
  <1>2. Oops(Len(box)) \subseteq Oops(N)
    BY <1>1 DEF Oops, Null
  <1>3. Seq(Oops(Len(box))) \subseteq Seq(Oops(N))
    BY <1>2, SeqMonotonic
  <1>4. Below(1) \in Seq(Oops(N))
    <2>1. 1 \in 0 .. Len(op_stack)
      BY TopIs
    <2>2. Below(1) \in Seq(Loose(Len(box)))
      BY <2>1, JavaBelow
    <2>3. Loose(Len(box)) \subseteq Oops(N)
      BY <1>2 DEF Loose
    <2> QED
      BY <2>2, <2>3, SeqMonotonic
  <1> HIDE DEF N
  <1>5. fs[1] \in Frame(N)
    <2>1. fs[1] = [op_stack |-> Below(1), table |-> [table EXCEPT ![i] = oop],
                   stored |-> IF IsBox(oop) THEN frames[1].stored \union {i}
                              ELSE frames[1].stored \ {i}]
      BY StoredIs
    <2>2. [table EXCEPT ![i] = oop] \in [Local -> Oops(N)]
      BY <1>2, FirstFrame DEF N
    <2>3. frames[1].stored \subseteq Local
      BY FirstFrame
    <2>4. (IF IsBox(oop) THEN frames[1].stored \union {i} ELSE frames[1].stored \ {i})
            \in SUBSET Local
      BY <2>3
    <2> HIDE DEF fs
    <2> QED
      BY <1>4, <2>1, <2>2, <2>4 DEF Frame
  <1>6. ASSUME NEW k \in DOMAIN frames \ {1}
        PROVE  fs[k] \in Frame(N)
    <2>1. fs[k] = frames[k]
      BY DEF Stored
    <2>2. frames[k] \in Frame(Len(box))
      BY FirstFrame
    <2> HIDE DEF fs
    <2> QED
      BY <1>2, <1>3, <2>1, <2>2 DEF Frame
  <1>7. fs = [k \in DOMAIN frames |-> fs[k]]
    BY StoredIs
  <1> HIDE DEF fs
  <1>8. PICK d \in Nat \ {0} : DOMAIN frames = 1 .. d
    BY FirstFrame
  <1>9. fs \in [1 .. d -> Frame(N)]
    BY <1>5, <1>6, <1>7, <1>8
  <1>10. fs \in Seq(Frame(N)) /\ fs # <<>>
    BY <1>8, <1>9
  <1>11. cell \in [Cells -> Oops(N)]
    <2>1. cell \in [Cells -> Loose(Len(box))]
      BY FirstFrame
    <2> QED
      BY <1>2, <2>1 DEF Loose
  <1> QED
    BY <1>1, <1>10, <1>11 DEF WellFormed, N, fs

LEMMA StoredOwned ==
  ASSUME IInv, NEW i \in Local, NEW oop \in Int, IsBox(oop) => oop > Len(box),
         op_stack # <<>>
  PROVE  Owned(Stored(i, oop), cell)
  <1> DEFINE fs == Stored(i, oop)
  <1>1. /\ DOMAIN fs = DOMAIN frames
        /\ \A k \in DOMAIN frames \ {1} : fs[k] = frames[k]
    BY DEF Stored
  <1>2. /\ fs[1].op_stack = Below(1)
        /\ fs[1].table = [table EXCEPT ![i] = oop]
        /\ fs[1].stored = IF IsBox(oop) THEN frames[1].stored \union {i}
                          ELSE frames[1].stored \ {i}
    BY StoredIs
  <1>3. \A n \in DOMAIN Below(1) : Below(1)[n] \in Loose(Len(box))
    <2>1. 1 \in 0 .. Len(op_stack)
      BY TopIs
    <2> QED
      BY <2>1, JavaBelow
  <1>4. Len(box) \in Nat /\ 1 \in DOMAIN frames
    BY FirstFrame
  <1> HIDE DEF fs
  <1>5. table \in [Local -> Oops(Len(box))] /\ table = frames[1].table
    BY FirstFrame DEF table
  <1>6. /\ fs[1].table[i] = oop
        /\ \A l \in Local \ {i} : fs[1].table[l] = frames[1].table[l]
    BY <1>2, <1>5
  <1>7. \A k \in DOMAIN frames : \A l \in Local : frames[k].table[l] \in Oops(Len(box))
    BY FirstFrame
  <1>8. \A k \in DOMAIN frames : \A n \in DOMAIN fs[k].op_stack :
          \/ fs[k].op_stack[n] \in Loose(Len(box))
          \/ k # 1 /\ n \in DOMAIN frames[k].op_stack
             /\ fs[k].op_stack[n] = frames[k].op_stack[n]
    BY <1>1, <1>2, <1>3
  <1>9. \A x \in Oops(Len(box)) : x \in Int /\ x =< Len(box)
    BY <1>4 DEF Oops, Null
  <1>10. \A k \in DOMAIN frames : \A n \in DOMAIN fs[k].op_stack :
           fs[k].op_stack[n] \in Oops(Len(box))
    BY <1>8, FirstFrame DEF Loose
  <1>11. \A c \in Cells : cell[c] \in Oops(Len(box))
    BY CellIs
  <1>12. ASSUME NEW k \in DOMAIN frames, NEW l \in fs[k].stored, IsBox(fs[k].table[l])
         PROVE  /\ \A c \in Cells : cell[c] # fs[k].table[l]
                /\ \A j \in DOMAIN frames :
                     /\ \A n \in DOMAIN fs[j].op_stack : fs[j].op_stack[n] # fs[k].table[l]
                     /\ \A m \in Local : fs[j].table[m] = fs[k].table[l] => j = k /\ m = l
    <2>1. CASE k = 1 /\ l = i
      <3>1. fs[k].table[l] = oop /\ oop > Len(box)
        BY <1>6, <1>12, <2>1
      <3>2. \A c \in Cells : cell[c] # oop
        BY <1>9, <1>11, <3>1
      <3>3. \A j \in DOMAIN frames : \A n \in DOMAIN fs[j].op_stack : fs[j].op_stack[n] # oop
        BY <1>9, <1>10, <3>1
      <3>4. ASSUME NEW j \in DOMAIN frames, NEW m \in Local, fs[j].table[m] = oop
            PROVE  j = k /\ m = l
        <4>1. frames[j].table[m] # oop
          BY <1>7, <1>9, <3>1
        <4> QED
          BY <1>1, <1>6, <2>1, <3>4, <4>1
      <3> QED
        BY <3>1, <3>2, <3>3, <3>4
    <2>2. CASE ~(k = 1 /\ l = i)
      <3>1. l \in frames[k].stored /\ l \in Local
        BY <1>1, <1>2, <2>2, FirstFrame
      <3>2. fs[k].table[l] = frames[k].table[l]
        BY <1>1, <1>6, <2>2, <3>1
      <3>3. PICK x : x = frames[k].table[l]
        OBVIOUS
      <3>4. IsBox(x) /\ x \in Oops(Len(box)) /\ x # oop
        <4>1. IsBox(x) /\ x \in Oops(Len(box))
          BY <1>7, <1>12, <3>1, <3>2, <3>3
        <4> QED
          BY <1>9, <4>1
      <3>5. /\ \A c \in Cells : cell[c] # x
            /\ \A j \in DOMAIN frames :
                 /\ \A n \in DOMAIN frames[j].op_stack : frames[j].op_stack[n] # x
                 /\ \A m \in Local : frames[j].table[m] = x => j = k /\ m = l
        BY <3>1, <3>3, <3>4 DEF IInv, Owned
      <3>6. x \notin Loose(Len(box))
        BY <3>1, <3>3, <3>4 DEF Loose
      <3>7. \A j \in DOMAIN frames : \A n \in DOMAIN fs[j].op_stack : fs[j].op_stack[n] # x
        BY <1>8, <3>5, <3>6
      <3>8. ASSUME NEW j \in DOMAIN frames, NEW m \in Local, fs[j].table[m] = x
            PROVE  j = k /\ m = l
        <4>1. fs[j].table[m] = frames[j].table[m]
          BY <1>1, <1>6, <3>4, <3>8
        <4> QED
          BY <3>5, <3>8, <4>1
      <3> QED
        BY <3>2, <3>3, <3>5, <3>7, <3>8
    <2> QED
      BY <2>1, <2>2
  <1>13. Owned(fs, cell)
    BY <1>1, <1>12 DEF Owned
  <1> QED
    BY <1>13 DEF fs

LEMMA StoredMeans ==
  ASSUME IInv, NEW i \in Local, NEW bs, Extends(bs), NEW oop, op_stack # <<>>
  PROVE  MeanFrames(Stored(i, oop), bs)
           = Java!WithLocal(i, Mean(oop, bs), Java!Below(1))
  <1> DEFINE fs == Stored(i, oop)
             js == Java!WithLocal(i, Mean(oop, bs), Java!Below(1))
  <1>1. 1 \in DOMAIN frames /\ 1 \in 0 .. Len(op_stack)
    BY FirstFrame, TopIs
  <1>2. /\ DOMAIN fs = DOMAIN frames
        /\ \A k \in DOMAIN frames \ {1} : fs[k] = frames[k]
    BY DEF Stored
  <1>3. fs[1].op_stack = Below(1) /\ fs[1].table = [table EXCEPT ![i] = oop]
    BY StoredIs
  <1>4. /\ js = [k \in DOMAIN frames |-> js[k]]
        /\ \A k \in DOMAIN frames \ {1} : js[k] = MeanFrame(frames[k], box)
    BY JavaIs DEF Java!WithLocal
  <1>5. js[1] = [stack |-> Java!Below(1),
                 local |-> [Java!local EXCEPT ![i] = Mean(oop, bs)]]
    BY <1>1, JavaIs DEF Java!WithLocal
  <1>6. Java!Below(1) = MeanAll(Below(1), bs)
    BY <1>1, JavaBelow, ExtendedMeansAll
  <1>7. [Java!local EXCEPT ![i] = Mean(oop, bs)]
          = [l \in Local |-> Mean([table EXCEPT ![i] = oop][l], bs)]
    <2>1. Java!local = [l \in Local |-> Mean(table[l], box)]
      BY JavaIs
    <2>2. \A l \in Local : Mean(table[l], box) = Mean(table[l], bs)
      BY VariableIs, ExtendedMeans
    <2>3. DOMAIN table = Local
      BY FirstFrame
    <2> QED
      BY <2>1, <2>2, <2>3
  <1> HIDE DEF fs, js
  <1>8. MeanFrame(fs[1], bs) = js[1]
    BY <1>3, <1>5, <1>6, <1>7 DEF MeanFrame
  <1>9. \A k \in DOMAIN frames \ {1} : MeanFrame(fs[k], bs) = js[k]
    BY <1>2, <1>4, ExtendedMeans
  <1>10. MeanFrames(fs, bs) = [k \in DOMAIN frames |-> js[k]]
    BY <1>2, <1>8, <1>9 DEF MeanFrames
  <1> QED
    BY <1>4, <1>10 DEF fs, js

LEMMA StoreDone ==
  ASSUME IInv, NEW i \in Local, op_stack # <<>>, NEW bs, Extends(bs),
         NEW oop \in Oops(Len(bs)), IsBox(oop) => oop > Len(box),
         Mean(oop, bs) = Head(Java!stack),
         Become(Stored(i, oop), cell, bs)
  PROVE  Done
  <1>1. oop \in Int
    BY DEF Oops
  <1>2. WellFormed(Stored(i, oop), cell, bs) /\ Owned(Stored(i, oop), cell)
    BY <1>1, StoredTyped, StoredOwned
  <1>3. IInv'
    BY <1>2, BecomeKeeps
  <1>4. /\ MeantFrames' = MeanFrames(Stored(i, oop), bs)
        /\ MeantCells' = MeanCells(cell, bs)
    BY <1>2, BecomeMeans
  <1>5. MeantFrames' = Java!WithLocal(i, Head(Java!stack), Java!Below(1))
    BY <1>4, StoredMeans
  <1>6. MeantCells' = MeantCells
    BY <1>4, ExtendedMeans
  <1>7. Java!Store
    BY <1>5, <1>6, TopIs DEF Java!Store, Java!Local, Local
  <1> QED
    BY <1>3, <1>7 DEF Done, Java!Unnamed

LEMMA StoreCopyDone ==
  ASSUME IInv, NEW i \in Local, StoreCopy(i)
  PROVE  Done
  <1>1. op_stack # <<>> /\ IsBox(Head(op_stack))
    BY DEF StoreCopy
  <1>2. /\ Head(op_stack) = op_stack[1] /\ Head(Java!stack) = Java!stack[1]
        /\ 1 \in 1 .. Len(op_stack)
    BY <1>1, TopIs
  <1>3. /\ Head(op_stack) \in Oops(Len(box))
        /\ Head(Java!stack) = Mean(Head(op_stack), box)
    BY <1>2, OperandIs
  <1>4. PICK v \in Value : v = box[Head(op_stack)] /\ v = Head(Java!stack)
    BY <1>1, <1>3, BoxValue
  <1>5. PICK bs : bs = Append(box, v)
    OBVIOUS
  <1>6. Extends(bs) /\ Len(bs) = Len(box) + 1 /\ Mean(Fresh(1), bs) = v
    BY <1>5, AppendExtends
  <1>7. PICK oop : oop = Fresh(1)
    OBVIOUS
  <1>8. oop \in Oops(Len(bs)) /\ oop > Len(box)
    BY <1>6, <1>7, FirstFrame DEF Fresh, Oops, Null
  <1>9. Become(Stored(i, oop), cell, bs)
    BY <1>4, <1>5, <1>7 DEF StoreCopy
  <1>10. Mean(oop, bs) = Head(Java!stack)
    BY <1>4, <1>6, <1>7
  <1> QED
    BY <1>1, <1>6, <1>8, <1>9, <1>10, StoreDone

LEMMA StorePointerDone ==
  ASSUME IInv, NEW i \in Local, StorePointer(i)
  PROVE  Done
  <1>1. /\ op_stack # <<>> /\ ~IsBox(Head(op_stack))
        /\ Become(Stored(i, Head(op_stack)), cell, box)
    BY DEF StorePointer
  <1>2. /\ Head(op_stack) = op_stack[1] /\ Head(Java!stack) = Java!stack[1]
        /\ 1 \in 1 .. Len(op_stack)
    BY <1>1, TopIs
  <1>3. /\ Head(op_stack) \in Oops(Len(box))
        /\ Head(Java!stack) = Mean(Head(op_stack), box)
    BY <1>2, OperandIs
  <1> QED
    BY <1>1, <1>3, BoxExtends, StoreDone

LEMMA StoresDone ==
  ASSUME IInv, xstore \/ xstore_n \/ astore \/ astore_n
  PROVE  Done
  BY StoreCopyDone, StorePointerDone, BoxesAssumption
  DEF xstore, xstore_n, astore, astore_n

-----------------------------------------------------------------------------
(* Operands are added, popped and duplicated.                              *)
LEMMA iaddDone ==
  ASSUME IInv, iadd
  PROVE  Done
  <1>1. /\ Len(op_stack) >= 2 /\ Is(op_stack[1], "int") /\ Is(op_stack[2], "int")
        /\ PopPushNew(2, IntOop(box[op_stack[1]].value + box[op_stack[2]].value))
    BY DEF iadd
  <1>2. 1 \in 1 .. Len(op_stack) /\ 2 \in 1 .. Len(op_stack) /\ Len(Java!stack) >= 2
    BY <1>1, TopIs
  <1>3. \A n \in 1 .. 2 : /\ op_stack[n] \in Oops(Len(box))
                          /\ Java!stack[n] = Mean(op_stack[n], box)
    BY <1>2, OperandIs
  <1>4. \A n \in 1 .. 2 : /\ box[op_stack[n]] \in Java!IntValue
                          /\ box[op_stack[n]].value \in Int
                          /\ Java!stack[n] = box[op_stack[n]]
    BY <1>1, <1>3, IsInt
  <1>5. PICK m \in Int : m = box[op_stack[1]].value + box[op_stack[2]].value
    BY <1>4
  <1>6. IntOop(m) \in Value /\ IntOop(m) = Java!I(m)
    BY IntIs
  <1>7. /\ IInv'
        /\ MeantFrames' = Java!WithStack(<<IntOop(m)>> \o Java!Below(2))
        /\ MeantCells' = MeantCells
    BY <1>1, <1>5, <1>6, PopPushNewBecomes
  <1>8. m = Java!stack[1].value + Java!stack[2].value
    BY <1>4, <1>5
  <1>9. Java!Add
    BY <1>2, <1>4, <1>6, <1>7, <1>8 DEF Java!Add
  <1> QED
    BY <1>7, <1>9 DEF Done, Java!Unnamed

(* java's counting is this module's.                                       *)
LEMMA JavaCounts ==
  ASSUME NEW S
  PROVE  Java!Cardinality(S) = Cardinality(S)
  BY DEF Java!Cardinality, Java!IsFiniteSet, Cardinality, IsFiniteSet

(* How many words are the top operands of a stack?                         *)
LEMMA Taken ==
  ASSUME NEW s, Len(s) \in Nat
  PROVE  /\ 0 \in Java!TakenBy(0, s)
         /\ Len(s) >= 1 /\ ~Wide(s[1]) => 1 \in Java!TakenBy(1, s)
         /\ Len(s) >= 1 /\ Wide(s[1]) => 1 \in Java!TakenBy(2, s)
         /\ Len(s) >= 2 /\ ~Wide(s[1]) /\ ~Wide(s[2]) => 2 \in Java!TakenBy(2, s)
  <1> DEFINE W(k) == Java!WideUpTo(k, s)
  <1>1. Cardinality({}) = 0 /\ Cardinality({1}) = 1
    BY FS_EmptySet, FS_Singleton
  <1>2. \A w : \A k \in 0 .. Len(s) :
          k + Cardinality(W(k)) = w => k \in Java!TakenBy(w, s)
    BY JavaCounts DEF Java!TakenBy
  <1>3. W(0) = {}
    BY DEF Java!WideUpTo
  <1>4. ~Wide(s[1]) => W(1) = {}
    BY DEF Wide, Java!WideUpTo
  <1>5. Wide(s[1]) => W(1) = {1}
    BY DEF Wide, Java!WideUpTo
  <1>6. ~Wide(s[1]) /\ ~Wide(s[2]) => W(2) = {}
    BY DEF Wide, Java!WideUpTo
  <1> HIDE DEF W
  <1>7. 0 \in Java!TakenBy(0, s)
    <2>1. Cardinality(W(0)) = 0
      BY <1>1, <1>3
    <2> QED
      BY <1>2, <2>1
  <1>8. Len(s) >= 1 /\ ~Wide(s[1]) => 1 \in Java!TakenBy(1, s)
    <2> SUFFICES ASSUME Len(s) >= 1, ~Wide(s[1])
                 PROVE  1 \in Java!TakenBy(1, s)
      OBVIOUS
    <2>1. Cardinality(W(1)) = 0
      BY <1>1, <1>4
    <2> QED
      BY <1>2, <2>1
  <1>9. Len(s) >= 1 /\ Wide(s[1]) => 1 \in Java!TakenBy(2, s)
    <2> SUFFICES ASSUME Len(s) >= 1, Wide(s[1])
                 PROVE  1 \in Java!TakenBy(2, s)
      OBVIOUS
    <2>1. Cardinality(W(1)) = 1
      BY <1>1, <1>5
    <2> QED
      BY <1>2, <2>1
  <1>10. Len(s) >= 2 /\ ~Wide(s[1]) /\ ~Wide(s[2]) => 2 \in Java!TakenBy(2, s)
    <2> SUFFICES ASSUME Len(s) >= 2, ~Wide(s[1]), ~Wide(s[2])
                 PROVE  2 \in Java!TakenBy(2, s)
      OBVIOUS
    <2>1. Cardinality(W(2)) = 0
      BY <1>1, <1>6
    <2> QED
      BY <1>2, <2>1
  <1> QED
    BY <1>7, <1>8, <1>9, <1>10

(* What the engine looks at, and the operands it takes them for.           *)
LEMMA WideOperand ==
  ASSUME IInv, ~AllPrograms, NEW n \in 1 .. Len(op_stack)
  PROVE  IsWide(op_stack[n]) <=> Wide(Java!stack[n])
  BY OperandIs, WideIs

LEMMA PairIs ==
  ASSUME NEW n
  PROVE  /\ Pair(n) \in 1 .. 2
         /\ Pair(n) = 1 <=> IsWide(op_stack[n])
  BY DEF Pair

LEMMA PopsDone ==
  ASSUME IInv, NEW n \in 1 .. 2, n =< Len(op_stack),
         Become(WithStack(Below(n)), cell, box),
         n = 2 => ~IsWide(op_stack[1]) /\ ~IsWide(op_stack[2])
  PROVE  Done
  <1>1. n \in 0 .. Len(op_stack) /\ Len(op_stack) \in Nat /\ Len(Java!stack) = Len(op_stack)
    BY TopIs
  <1>2. /\ IInv'
        /\ MeantFrames' = Java!WithStack(Java!Below(n))
        /\ MeantCells' = MeantCells
    BY <1>1, PopBecomes
  <1>3. ASSUME ~AllPrograms
        PROVE  \E words \in 1 .. 2 : n \in Java!TakenBy(words, Java!stack)
    <2>1. \A m \in 1 .. Len(op_stack) : IsWide(op_stack[m]) <=> Wide(Java!stack[m])
      BY <1>3, WideOperand
    <2>2. PICK js : js = Java!stack
      OBVIOUS
    <2>3. Len(js) \in Nat /\ Len(js) >= 1
      BY <1>1, <2>2
    <2>4. CASE n = 1
      <3>1. 1 \in Java!TakenBy(1, js) \/ 1 \in Java!TakenBy(2, js)
        BY <2>3, Taken
      <3> QED
        BY <2>2, <2>4, <3>1
    <2>5. CASE n = 2
      <3>1. ~Wide(js[1]) /\ ~Wide(js[2])
        BY <1>1, <2>1, <2>2, <2>5
      <3>2. 2 \in Java!TakenBy(2, js)
        BY <1>1, <2>2, <2>3, <2>5, <3>1, Taken
      <3> QED
        BY <2>2, <2>5, <3>2
    <2> QED
      BY <2>4, <2>5
  <1>4. ~AllPrograms => Java!Pop
    BY <1>2, <1>3 DEF Java!Pop
  <1> QED
    BY <1>2, <1>4 DEF Done, Java!Unnamed

LEMMA popDone ==
  ASSUME IInv, pop \/ pop2
  PROVE  Done
  <1>1. Len(op_stack) \in Nat /\ (op_stack # <<>> => 1 =< Len(op_stack))
    BY TopIs
  <1>2. CASE pop
    BY <1>1, <1>2, PopsDone DEF pop
  <1>3. CASE pop2
    <2>1. PICK n \in 1 .. 2 : n = Pair(1) /\ (n = 1 <=> IsWide(op_stack[1]))
      BY PairIs
    <2>2. n =< Len(op_stack) /\ Narrow(2 .. n) /\ Become(WithStack(Below(n)), cell, box)
      BY <1>3, <2>1 DEF pop2
    <2>3. n = 2 => ~IsWide(op_stack[1]) /\ ~IsWide(op_stack[2])
      BY <2>1, <2>2 DEF Narrow
    <2> QED
      BY <2>2, <2>3, PopsDone
  <1> QED
    BY <1>2, <1>3

LEMMA CopiedValue ==
  ASSUME IInv, NEW oop \in Oops(Len(box)), IsBox(oop), NEW beyond \in Int,
         AllPrograms \/ ~Misread(oop)
  PROVE  /\ copy_BasicOop_value(oop, beyond) \in Value
         /\ ~AllPrograms => copy_BasicOop_value(oop, beyond) = Mean(oop, box)
  <1>1. box[oop] \in Value /\ Mean(oop, box) = box[oop]
    BY BoxValue
  <1>2. CASE ~Misread(oop)
    <2>1. box[oop].kind # "float" /\ box[oop].kind # "long"
      BY <1>2 DEF Misread, Is
    <2>2. copy_BasicOop_value(oop, beyond) = [box[oop] EXCEPT !.value = @]
      BY <2>1 DEF copy_BasicOop_value
    <2>3. [box[oop] EXCEPT !.value = @] = box[oop]
      BY <1>1 DEF Value
    <2> QED
      BY <1>1, <2>2, <2>3
  <1>3. CASE Misread(oop)
    <2>1. AllPrograms
      BY <1>3
    <2>2. box[oop].kind = "float" \/ box[oop].kind = "long"
      BY <1>3 DEF Misread, Is
    <2>3. box[oop] \in [kind : Kinds, value : Int]
      BY <1>1, <2>2 DEF Value
    <2>4. copy_BasicOop_value(oop, beyond) \in [kind : Kinds, value : Int]
      BY <2>2, <2>3 DEF copy_BasicOop_value
    <2> QED
      BY <2>1, <2>4 DEF Value
  <1> QED
    BY <1>2, <1>3

LEMMA CopiesAre ==
  ASSUME IInv, NEW k \in Nat, NEW top \in Seq(Oops(Len(box))), Len(top) = k,
         NEW beyond \in Int, \A n \in 1 .. k : AllPrograms \/ ~Misread(top[n])
  PROVE  /\ Extends(box \o Copied(top, beyond))
         /\ Len(box \o Copied(top, beyond)) = Len(box) + k
         /\ Copies(top) \in Seq(Loose(Len(box) + k))
         /\ ~AllPrograms =>
              MeanAll(Copies(top), box \o Copied(top, beyond)) = MeanAll(top, box)
  <1> DEFINE bs == box \o Copied(top, beyond)
  <1>1. DOMAIN top = 1 .. k /\ \A n \in 1 .. k : top[n] \in Oops(Len(box))
    OBVIOUS
  <1>2. Len(box) \in Nat
    BY FirstFrame
  <1>3. IntOop(0) \in Value
    BY IntIs
  <1>4. \A n \in 1 .. k : IsBox(top[n]) => copy_BasicOop_value(top[n], beyond) \in Value
    BY <1>1, CopiedValue
  <1>5. Copied(top, beyond)
          = [n \in 1 .. k |-> IF IsBox(top[n]) THEN copy_BasicOop_value(top[n], beyond)
                               ELSE IntOop(0)]
    BY <1>1 DEF Copied
  <1>6. \A n \in 1 .. k : Copied(top, beyond)[n] \in Value
    BY <1>3, <1>4, <1>5
  <1>7. PICK vs : vs = Copied(top, beyond)
    OBVIOUS
  <1>8. vs \in Seq(Value) /\ Len(vs) = k
    BY <1>5, <1>6, <1>7
  <1>9. /\ Extends(bs) /\ Len(bs) = Len(box) + k
        /\ \A n \in 1 .. k : bs[Len(box) + n] = Copied(top, beyond)[n]
    BY <1>7, <1>8, ConcatExtends
  <1>10. Copies(top) = [n \in 1 .. k |-> IF IsBox(top[n]) THEN Fresh(n) ELSE top[n]]
    BY <1>1 DEF Copies
  <1>11. \A n \in 1 .. k : Copies(top)[n] \in Loose(Len(box) + k)
    <2> TAKE n \in 1 .. k
    <2>1. Fresh(n) \in Loose(Len(box) + k)
      BY <1>2, FreshIsLoose
    <2>2. ~IsBox(top[n]) => top[n] \in Loose(Len(box))
      BY <1>1, <1>2, BoxlessIsLoose
    <2>3. Loose(Len(box)) \subseteq Loose(Len(box) + k)
      BY <1>2, LooseMonotonic
    <2> QED
      BY <1>10, <2>1, <2>2, <2>3
  <1>12. PICK cs : cs = Copies(top)
    OBVIOUS
  <1>13. cs \in Seq(Loose(Len(box) + k)) /\ DOMAIN cs = 1 .. k
    BY <1>10, <1>11, <1>12
  <1>14. ASSUME ~AllPrograms, NEW n \in 1 .. k
         PROVE  Mean(Copies(top)[n], bs) = Mean(top[n], box)
    <2>1. CASE IsBox(top[n])
      <3>1. Copies(top)[n] = Fresh(n) /\ Copied(top, beyond)[n] = copy_BasicOop_value(top[n], beyond)
        BY <1>5, <1>10, <2>1
      <3>2. \A b : Mean(Fresh(n), b) = b[Len(box) + n]
        BY <1>2 DEF Fresh, Mean, Null, Ref
      <3>3. copy_BasicOop_value(top[n], beyond) = Mean(top[n], box)
        BY <1>1, <1>14, <2>1, CopiedValue
      <3> QED
        BY <1>9, <3>1, <3>2, <3>3
    <2>2. CASE ~IsBox(top[n])
      <3>1. Copies(top)[n] = top[n]
        BY <1>10, <2>2
      <3> QED
        BY <1>1, <1>2, <2>2, <3>1, BoxlessMean
    <2> QED
      BY <2>1, <2>2
  <1>15. ~AllPrograms => MeanAll(Copies(top), bs) = MeanAll(top, box)
    <2> HIDE DEF bs
    <2>1. DOMAIN Copies(top) = 1 .. k
      BY <1>12, <1>13
    <2> QED
      BY <1>1, <1>14, <2>1 DEF MeanAll
  <1> QED
    BY <1>9, <1>12, <1>13, <1>15

(* The copies are below the operands, or, when there are no more operands, *)
(* above them.                                                             *)
LEMMA DupAsBecomes ==
  ASSUME IInv, NEW k \in 1 .. 2, NEW l \in 0 .. 2, NEW narrow, NEW upper, NEW lower,
         DupAs(k, l, narrow, upper \o lower),
         \/ upper = Top(k + l) /\ lower = Copies(Top(k))
         \/ l = 0 /\ upper = Copies(Top(k)) /\ lower = Top(k)
  PROVE  /\ IInv' /\ MeantCells' = MeantCells /\ k + l =< Len(op_stack)
         /\ ~AllPrograms =>
              MeantFrames' = Java!WithStack(SubSeq(Java!stack, 1, k + l)
                                              \o SubSeq(Java!stack, 1, k)
                                              \o Java!Below(k + l))
  <1>1. PICK b \in Nat : b = Len(box)
    BY FirstFrame
  <1>2. op_stack \in Seq(Loose(b)) /\ Len(op_stack) \in Nat
    BY <1>1, FirstFrame
  <1>3. k + l =< Len(op_stack) /\ k \in 0 .. Len(op_stack) /\ k + l \in 0 .. Len(op_stack)
    BY <1>2 DEF DupAs
  <1>4. PICK top : top = Top(k)
    OBVIOUS
  <1>5. /\ top \in Seq(Loose(b)) /\ Len(top) = k
        /\ MeanAll(top, box) = SubSeq(MeanAll(op_stack, box), 1, k)
    BY <1>2, <1>3, <1>4, MeanAllSubSeq DEF Top
  <1>6. PICK more : more = Top(k + l)
    OBVIOUS
  <1>7. /\ more \in Seq(Loose(b))
        /\ MeanAll(more, box) = SubSeq(MeanAll(op_stack, box), 1, k + l)
    BY <1>2, <1>3, <1>6, MeanAllSubSeq DEF Top
  <1>8. \A n \in 1 .. k : top[n] = op_stack[n] /\ top[n] \in Oops(b)
    BY <1>1, <1>2, <1>3, <1>4, OperandIs DEF Top
  <1>9. top \in Seq(Oops(b))
    BY <1>5, <1>8
  <1>10. \A n \in 1 .. k : AllPrograms \/ ~Misread(top[n])
    BY <1>8 DEF DupAs
  <1>11. PICK beyond \in {0, Garbage} :
           Become(WithStack(upper \o lower \o Below(k + l)), cell, box \o Copied(top, beyond))
    BY <1>4 DEF DupAs
  <1>12. PICK bs : bs = box \o Copied(top, beyond)
    OBVIOUS
  <1>13. beyond \in Int
    BY <1>11 DEF Garbage
  <1>14. /\ Extends(bs) /\ Len(bs) = b + k /\ Copies(top) \in Seq(Loose(b + k))
         /\ ~AllPrograms => MeanAll(Copies(top), bs) = MeanAll(top, box)
    <2>1. k \in Nat /\ top \in Seq(Oops(Len(box))) /\ Len(top) = k
      BY <1>1, <1>5, <1>9
    <2>2. /\ Extends(box \o Copied(top, beyond))
          /\ Len(box \o Copied(top, beyond)) = Len(box) + k
          /\ Copies(top) \in Seq(Loose(Len(box) + k))
          /\ ~AllPrograms =>
               MeanAll(Copies(top), box \o Copied(top, beyond)) = MeanAll(top, box)
      BY <1>10, <1>13, <2>1, CopiesAre
    <2> QED
      BY <1>1, <1>12, <2>2
  <1>15. PICK below : below = Below(k + l)
    OBVIOUS
  <1>16. below \in Seq(Loose(b)) /\ Java!Below(k + l) = MeanAll(below, box)
    BY <1>1, <1>3, <1>15, JavaBelow
  <1>17. Seq(Loose(b)) \subseteq Seq(Loose(b + k)) /\ Loose(b) \subseteq Loose(b + k)
         /\ [Cells -> Loose(b)] \subseteq [Cells -> Loose(b + k)]
    BY LooseMonotonic
  <1>18. PICK copies : copies = Copies(top)
    OBVIOUS
  <1>19. copies \in Seq(Loose(b + k)) /\ more \in Seq(Loose(b + k)) /\ below \in Seq(Loose(b + k))
    BY <1>7, <1>14, <1>16, <1>17, <1>18
  <1>20. /\ upper \in Seq(Loose(b + k)) /\ lower \in Seq(Loose(b + k))
         /\ \/ upper = more /\ lower = copies
            \/ l = 0 /\ upper = copies /\ lower = top
    <2>1. top \in Seq(Loose(b + k))
      BY <1>5, <1>17
    <2> QED
      BY <1>4, <1>6, <1>18, <1>19, <2>1
  <1>21. PICK s : s = upper \o lower \o below
    OBVIOUS
  <1>22. s \in Seq(Loose(b + k)) /\ upper \o lower \in Seq(Loose(b + k))
    BY <1>19, <1>21, <1>20
  <1>23. Become(WithStack(s), cell, bs)
    BY <1>11, <1>15, <1>21, <1>12
  <1>24. cell \in [Cells -> Loose(b + k)]
    BY <1>1, <1>17, FirstFrame
  <1>25. /\ IInv'
         /\ MeantFrames' = Java!WithStack(MeanAll(s, bs))
         /\ MeantCells' = MeanCells(cell, bs)
    BY <1>14, <1>22, <1>23, <1>24, StackBecomes
  <1>26. MeantCells' = MeantCells
    BY <1>14, <1>25, ExtendedMeans
  <1>27. MeanAll(s, bs) = MeanAll(upper, bs) \o MeanAll(lower, bs) \o MeanAll(below, bs)
    <2>1. PICK both : both = upper \o lower
      OBVIOUS
    <2>2. MeanAll(both \o below, bs) = MeanAll(both, bs) \o MeanAll(below, bs)
      <3>1. both \in Seq(Loose(b + k))
        BY <1>22, <2>1
      <3> QED
        BY ONLY <1>19, <3>1, MeanAllConcat, SMTT(30)
    <2>3. MeanAll(both, bs) = MeanAll(upper, bs) \o MeanAll(lower, bs)
      BY <1>20, <2>1, MeanAllConcat, SMTT(30)
    <2> QED
      BY <1>21, <2>1, <2>2, <2>3
  <1>28. /\ MeanAll(more, bs) = MeanAll(more, box)
         /\ MeanAll(top, bs) = MeanAll(top, box)
         /\ MeanAll(below, bs) = MeanAll(below, box)
    BY <1>1, <1>5, <1>7, <1>14, <1>16, ExtendedMeansAll
  <1>29. Java!stack = MeanAll(op_stack, box)
    BY JavaIs
  <1>30. /\ MeanAll(more, box) = SubSeq(Java!stack, 1, k + l)
         /\ MeanAll(top, box) = SubSeq(Java!stack, 1, k)
    BY <1>5, <1>7, <1>29
  <1>31. ASSUME ~AllPrograms
         PROVE  /\ MeanAll(upper, bs) = SubSeq(Java!stack, 1, k + l)
                /\ MeanAll(lower, bs) = SubSeq(Java!stack, 1, k)
    <2>1. MeanAll(copies, bs) = SubSeq(Java!stack, 1, k)
      BY <1>14, <1>18, <1>30, <1>31
    <2>2. CASE upper = more /\ lower = copies
      BY <1>28, <1>30, <2>1, <2>2
    <2>3. CASE l = 0 /\ upper = copies /\ lower = top
      <3>1. k + l = k
        BY <2>3
      <3> QED
        BY <1>28, <1>30, <2>1, <2>3, <3>1
    <2> QED
      BY <1>20, <2>2, <2>3
  <1>32. ~AllPrograms => MeanAll(s, bs) = SubSeq(Java!stack, 1, k + l)
                           \o SubSeq(Java!stack, 1, k) \o Java!Below(k + l)
    BY <1>16, <1>27, <1>28, <1>31
  <1> QED
    BY <1>3, <1>25, <1>26, <1>32

(* No word, one word and two words, below m operands.                      *)
LEMMA WordsBelow ==
  ASSUME IInv, ~AllPrograms, NEW m \in 0 .. Len(op_stack)
  PROVE  /\ 0 \in Java!TakenBy(0, Java!Below(m))
         /\ m + 1 =< Len(op_stack) /\ ~IsWide(op_stack[m + 1]) =>
              1 \in Java!TakenBy(1, Java!Below(m))
         /\ m + Pair(m + 1) =< Len(op_stack) /\ Narrow(m + 2 .. m + Pair(m + 1)) =>
              Pair(m + 1) \in Java!TakenBy(2, Java!Below(m))
  <1>1. PICK below : below = Below(m)
    OBVIOUS
  <1>2. /\ below \in Seq(Loose(Len(box))) /\ Len(below) = Len(op_stack) - m
        /\ Java!Below(m) = MeanAll(below, box)
    BY <1>1, JavaBelow
  <1>3. PICK js : js = Java!Below(m)
    OBVIOUS
  <1>4. Len(js) = Len(op_stack) - m /\ \A n \in 1 .. Len(below) : js[n] = Mean(below[n], box)
    <2>1. js = MeanAll(below, box)
      BY <1>2, <1>3
    <2> QED
      BY ONLY <1>2, <2>1, MeanAllIs
  <1>5. op_stack \in Seq(Loose(Len(box))) /\ Len(op_stack) \in Nat
    BY FirstFrame
  <1>6. \A n \in 1 .. Len(op_stack) - m : below[n] = op_stack[m + n]
    BY <1>1, <1>5 DEF Below
  <1>7. \A n \in 1 .. Len(op_stack) - m : IsWide(op_stack[m + n]) <=> Wide(js[n])
    <2> TAKE n \in 1 .. Len(op_stack) - m
    <2>1. m + n \in 1 .. Len(op_stack) /\ n \in 1 .. Len(below)
      BY <1>2, <1>5
    <2>2. op_stack[m + n] \in Oops(Len(box)) /\ js[n] = Mean(op_stack[m + n], box)
      BY <1>4, <1>6, <2>1, OperandIs
    <2> QED
      BY <2>2, WideIs
  <1>8. Len(js) \in Nat
    BY <1>4, <1>5
  <1>9. 0 \in Java!TakenBy(0, js)
    BY <1>8, Taken
  <1>10. ASSUME m + 1 =< Len(op_stack), ~IsWide(op_stack[m + 1])
         PROVE  1 \in Java!TakenBy(1, js)
    <2>1. Len(js) >= 1 /\ 1 \in 1 .. Len(op_stack) - m
      BY <1>4, <1>5, <1>10
    <2>2. ~Wide(js[1])
      BY <1>7, <1>10, <2>1
    <2> QED
      BY <1>8, <2>1, <2>2, Taken
  <1>11. ASSUME m + Pair(m + 1) =< Len(op_stack), Narrow(m + 2 .. m + Pair(m + 1))
         PROVE  Pair(m + 1) \in Java!TakenBy(2, js)
    <2>1. CASE IsWide(op_stack[m + 1])
      <3>1. Pair(m + 1) = 1
        BY <2>1, PairIs
      <3>2. Len(js) >= 1 /\ 1 \in 1 .. Len(op_stack) - m
        BY <1>4, <1>5, <1>11, <3>1
      <3>3. Wide(js[1])
        BY <1>7, <2>1, <3>2
      <3> QED
        BY <1>8, <3>1, <3>2, <3>3, Taken
    <2>2. CASE ~IsWide(op_stack[m + 1])
      <3>1. Pair(m + 1) = 2
        BY <2>2, PairIs
      <3>2. Len(js) >= 2 /\ 1 \in 1 .. Len(op_stack) - m /\ 2 \in 1 .. Len(op_stack) - m
        BY <1>4, <1>5, <1>11, <3>1
      <3>3. m + 2 \in m + 2 .. m + Pair(m + 1)
        BY <3>1
      <3>4. ~IsWide(op_stack[m + 2])
        BY <1>11, <3>3 DEF Narrow
      <3>5. ~Wide(js[1]) /\ ~Wide(js[2])
        BY <1>7, <2>2, <3>2, <3>4
      <3> QED
        BY <1>8, <3>1, <3>2, <3>5, Taken
    <2> QED
      BY <2>1, <2>2
  <1> QED
    BY <1>3, <1>9, <1>10, <1>11

LEMMA DupAsDone ==
  ASSUME IInv, NEW k \in 1 .. 2, NEW l \in 0 .. 2, NEW narrow, NEW upper, NEW lower,
         DupAs(k, l, narrow, upper \o lower),
         \/ upper = Top(k + l) /\ lower = Copies(Top(k))
         \/ l = 0 /\ upper = Copies(Top(k)) /\ lower = Top(k),
         NEW n \in 1 .. 2, NEW m \in 0 .. 2,
         ~AllPrograms => /\ k \in Java!TakenBy(n, Java!stack)
                         /\ l \in Java!TakenBy(m, Java!Below(k))
  PROVE  Done
  <1>1. /\ IInv' /\ MeantCells' = MeantCells
        /\ ~AllPrograms =>
             MeantFrames' = Java!WithStack(SubSeq(Java!stack, 1, k + l)
                                             \o SubSeq(Java!stack, 1, k)
                                             \o Java!Below(k + l))
    BY DupAsBecomes
  <1>2. ~AllPrograms => Java!Dup
    BY <1>1 DEF Java!Dup
  <1> QED
    BY <1>1, <1>2 DEF Done, Java!Unnamed

LEMMA DupUnderDone ==
  ASSUME IInv, NEW k \in 1 .. 2, NEW l \in 0 .. 2, NEW narrow, DupUnder(k, l, narrow),
         NEW n \in 1 .. 2, NEW m \in 0 .. 2,
         ~AllPrograms => /\ k \in Java!TakenBy(n, Java!stack)
                         /\ l \in Java!TakenBy(m, Java!Below(k))
  PROVE  Done
  BY DupAsDone DEF DupUnder

LEMMA DupNarrow ==
  ASSUME NEW k, NEW l, NEW narrow,
         DupUnder(k, l, narrow) \/ \E s : DupAs(k, l, narrow, s)
  PROVE  /\ \A n \in narrow : ~IsWide(op_stack[n])
         /\ \A ns \in SUBSET narrow : Narrow(ns)
         /\ k + l =< Len(op_stack)
  BY DEF DupUnder, DupAs, Narrow

LEMMA dupDone ==
  ASSUME IInv, dup \/ dup_x1 \/ dup_x2
  PROVE  Done
  <1>1. Len(op_stack) \in Nat /\ Java!Below(0) = Java!stack /\ 0 \in 0 .. Len(op_stack)
    BY TopIs, BelowNone
  <1>2. ASSUME ~AllPrograms, 1 =< Len(op_stack), ~IsWide(op_stack[1])
        PROVE  1 \in Java!TakenBy(1, Java!stack) /\ 1 \in 0 .. Len(op_stack)
    <2>1. 0 + 1 =< Len(op_stack) /\ ~IsWide(op_stack[0 + 1])
      BY <1>2
    <2>2. 1 \in Java!TakenBy(1, Java!Below(0))
      BY <1>1, <1>2, <2>1, WordsBelow
    <2> QED
      BY <1>1, <1>2, <2>2
  <1>3. CASE dup
    <2>1. DupAs(1, 0, {1}, Copies(Top(1)) \o Top(1))
      BY <1>3 DEF dup
    <2>2. ~IsWide(op_stack[1]) /\ 1 + 0 =< Len(op_stack)
      BY <2>1, DupNarrow
    <2>3. 1 =< Len(op_stack)
      BY <1>1, <2>2
    <2>4. ASSUME ~AllPrograms
          PROVE  1 \in Java!TakenBy(1, Java!stack) /\ 0 \in Java!TakenBy(0, Java!Below(1))
      BY <1>2, <2>2, <2>3, <2>4, WordsBelow
    <2> QED
      BY <2>1, <2>4, DupAsDone
  <1>4. CASE dup_x1
    <2>1. DupUnder(1, 1, 1 .. 2)
      BY <1>4 DEF dup_x1
    <2>2. ~IsWide(op_stack[1]) /\ ~IsWide(op_stack[1 + 1]) /\ 1 + 1 =< Len(op_stack)
      BY <2>1, DupNarrow
    <2>3. 1 =< Len(op_stack)
      BY <1>1, <2>2
    <2>4. ASSUME ~AllPrograms
          PROVE  1 \in Java!TakenBy(1, Java!stack) /\ 1 \in Java!TakenBy(1, Java!Below(1))
      BY <1>2, <2>2, <2>3, <2>4, WordsBelow
    <2> QED
      BY <2>1, <2>4, DupUnderDone
  <1>5. CASE dup_x2
    <2>1. PICK p \in 1 .. 2 : p = Pair(1 + 1)
      BY PairIs
    <2>2. DupUnder(1, p, {1} \union 3 .. 1 + p)
      BY <1>5, <2>1 DEF dup_x2
    <2>3. ~IsWide(op_stack[1]) /\ 1 + p =< Len(op_stack) /\ Narrow(3 .. 1 + p)
      BY <2>2, DupNarrow
    <2>4. 1 =< Len(op_stack) /\ Narrow(1 + 2 .. 1 + p)
      BY <1>1, <2>3
    <2>5. ASSUME ~AllPrograms
          PROVE  1 \in Java!TakenBy(1, Java!stack) /\ p \in Java!TakenBy(2, Java!Below(1))
      BY <1>2, <2>1, <2>3, <2>4, <2>5, WordsBelow
    <2> QED
      BY <2>2, <2>5, DupUnderDone
  <1> QED
    BY <1>3, <1>4, <1>5

LEMMA dup2Done ==
  ASSUME IInv, dup2 \/ dup2_x1 \/ dup2_x2
  PROVE  Done
  <1>1. Len(op_stack) \in Nat /\ Java!Below(0) = Java!stack /\ 0 \in 0 .. Len(op_stack)
    BY TopIs, BelowNone
  <1>2. PICK k \in 1 .. 2 : k = Pair(1)
    BY PairIs
  <1>3. ASSUME ~AllPrograms, k =< Len(op_stack), Narrow(2 .. k)
        PROVE  k \in Java!TakenBy(2, Java!stack) /\ k \in 0 .. Len(op_stack)
    <2>1. 0 + Pair(0 + 1) =< Len(op_stack) /\ Narrow(0 + 2 .. 0 + Pair(0 + 1))
      BY <1>2, <1>3
    <2>2. Pair(0 + 1) \in Java!TakenBy(2, Java!Below(0))
      BY <1>1, <1>3, <2>1, WordsBelow
    <2> QED
      BY <1>1, <1>2, <1>3, <2>2
  <1>4. CASE dup2
    <2>1. DupUnder(k, 0, 2 .. k)
      BY <1>2, <1>4 DEF dup2
    <2>2. Narrow(2 .. k) /\ k + 0 =< Len(op_stack)
      BY <2>1, DupNarrow
    <2>3. k =< Len(op_stack)
      BY <2>2
    <2>4. ASSUME ~AllPrograms
          PROVE  k \in Java!TakenBy(2, Java!stack) /\ 0 \in Java!TakenBy(0, Java!Below(k))
      BY <1>3, <2>2, <2>3, <2>4, WordsBelow
    <2> QED
      BY <2>1, <2>4, DupUnderDone
  <1>5. CASE dup2_x1
    <2>1. DupUnder(k, 1, 2 .. k + 1)
      BY <1>2, <1>5 DEF dup2_x1
    <2>2. k + 1 \in 2 .. k + 1 /\ 2 .. k \in SUBSET (2 .. k + 1)
      OBVIOUS
    <2>3. Narrow(2 .. k) /\ ~IsWide(op_stack[k + 1]) /\ k + 1 =< Len(op_stack)
      BY <2>1, <2>2, DupNarrow
    <2>4. k =< Len(op_stack)
      BY <1>1, <2>3
    <2>5. ASSUME ~AllPrograms
          PROVE  k \in Java!TakenBy(2, Java!stack) /\ 1 \in Java!TakenBy(1, Java!Below(k))
      BY <1>3, <2>3, <2>4, <2>5, WordsBelow
    <2> QED
      BY <2>1, <2>5, DupUnderDone
  <1>6. CASE dup2_x2
    <2>1. PICK p \in 1 .. 2 : p = Pair(k + 1)
      BY PairIs
    <2>2. DupUnder(k, p, 2 .. k \union k + 2 .. k + p)
      BY <1>2, <1>6, <2>1 DEF dup2_x2
    <2>3. Narrow(2 .. k) /\ Narrow(k + 2 .. k + p) /\ k + p =< Len(op_stack)
      BY <2>2, DupNarrow
    <2>4. k =< Len(op_stack)
      BY <1>1, <2>3
    <2>5. ASSUME ~AllPrograms
          PROVE  k \in Java!TakenBy(2, Java!stack) /\ p \in Java!TakenBy(2, Java!Below(k))
      BY <1>3, <2>1, <2>3, <2>4, <2>5, WordsBelow
    <2> QED
      BY <2>2, <2>5, DupUnderDone
  <1> QED
    BY <1>4, <1>5, <1>6

-----------------------------------------------------------------------------
(* A value is changed in its box: all that does not point to the box means *)
(* what it meant.                                                          *)
Changes(b, bs) ==
  \A oop \in Oops(Len(box)) \ {b} : Mean(oop, bs) = Mean(oop, box)

LEMMA ChangedStack ==
  ASSUME IInv, NEW b, NEW bs, Changes(b, bs), NEW s \in Seq(Oops(Len(box))),
         \A n \in 1 .. Len(s) : s[n] # b
  PROVE  MeanAll(s, bs) = MeanAll(s, box)
  <1>1. \A n \in DOMAIN s : s[n] \in Oops(Len(box)) \ {b}
    OBVIOUS
  <1> QED
    BY <1>1 DEF MeanAll, Changes

LEMMA ChangedFrame ==
  ASSUME IInv, NEW b, NEW bs, Changes(b, bs), NEW k \in DOMAIN frames,
         \A n \in DOMAIN frames[k].op_stack : frames[k].op_stack[n] # b,
         \A i \in Local : frames[k].table[i] # b
  PROVE  MeanFrame(frames[k], bs) = MeanFrame(frames[k], box)
  <1>1. /\ frames[k].op_stack \in Seq(Oops(Len(box)))
        /\ frames[k].table \in [Local -> Oops(Len(box))]
    BY FirstFrame
  <1>2. PICK s : s = frames[k].op_stack
    OBVIOUS
  <1>3. s \in Seq(Oops(Len(box))) /\ \A n \in 1 .. Len(s) : s[n] # b
    BY <1>1, <1>2
  <1>4. MeanAll(frames[k].op_stack, bs) = MeanAll(frames[k].op_stack, box)
    BY <1>2, <1>3, ChangedStack
  <1>5. \A i \in Local : Mean(frames[k].table[i], bs) = Mean(frames[k].table[i], box)
    BY <1>1 DEF Changes
  <1> QED
    BY <1>4, <1>5 DEF MeanFrame

LEMMA ChangeIs ==
  ASSUME IInv, NEW b \in 1 .. Len(box), NEW v \in Value
  PROVE  /\ [box EXCEPT ![b] = v] \in Seq(Value)
         /\ Len([box EXCEPT ![b] = v]) = Len(box)
         /\ Mean(b, [box EXCEPT ![b] = v]) = v
         /\ Changes(b, [box EXCEPT ![b] = v])
  <1>1. box \in Seq(Value) /\ Len(box) \in Nat /\ DOMAIN box = 1 .. Len(box)
    BY FirstFrame
  <1>2. PICK bs : bs = [box EXCEPT ![b] = v]
    OBVIOUS
  <1>3. /\ bs \in Seq(Value) /\ Len(bs) = Len(box) /\ bs[b] = v
        /\ \A n \in 1 .. Len(box) : n # b => bs[n] = box[n]
    BY <1>1, <1>2
  <1>4. Mean(b, bs) = v
    BY <1>3 DEF Mean, Null, Ref
  <1>5. Changes(b, bs)
    BY <1>1, <1>3 DEF Changes, Mean, Oops, Null, Ref
  <1> QED
    BY <1>2, <1>3, <1>4, <1>5

(* A stored variable is incremented: it alone holds its box.               *)
LEMMA IncrementMeans ==
  ASSUME IInv, NEW i \in frames[1].stored, IsBox(table[i]),
         NEW bs, Changes(table[i], bs)
  PROVE  /\ MeanCells(cell, bs) = MeantCells
         /\ MeanFrames(frames, bs)
              = Java!WithLocal(i, Mean(table[i], bs), Java!stack)
  <1>1. /\ Len(frames) \in Nat \ {0} /\ DOMAIN frames = 1 .. Len(frames)
        /\ 1 \in DOMAIN frames /\ frames[1].stored \subseteq Local
        /\ cell \in [Cells -> Loose(Len(box))] /\ op_stack \in Seq(Loose(Len(box)))
        /\ table \in [Local -> Oops(Len(box))]
    BY FirstFrame, SMTT(30)
  <1>2. PICK b : b = table[i]
    OBVIOUS
  <1>3. /\ \A c \in Cells : cell[c] # b
        /\ \A j \in DOMAIN frames :
             /\ \A n \in DOMAIN frames[j].op_stack : frames[j].op_stack[n] # b
             /\ \A l \in Local : frames[j].table[l] = b => j = 1 /\ l = i
    BY <1>1, <1>2 DEF IInv, Owned, table
  <1>4. Changes(b, bs)
    BY <1>2
  <1>5. \A c \in Cells : Mean(cell[c], bs) = MeantCells[c]
    BY <1>3, <1>4, CellIs DEF Changes
  <1>6. MeanCells(cell, bs) = MeantCells
    BY <1>5, JavaIs DEF MeanCells, MeantCells
  <1>7. \A k \in DOMAIN frames \ {1} : MeanFrame(frames[k], bs) = MeanFrame(frames[k], box)
    BY <1>3, <1>4, ChangedFrame
  <1>8. MeanAll(op_stack, bs) = Java!stack
    <2>1. PICK s : s = frames[1].op_stack
      OBVIOUS
    <2>2. s \in Seq(Oops(Len(box))) /\ \A n \in 1 .. Len(s) : s[n] # b
      <3>1. s \in Seq(Oops(Len(box)))
        BY <1>1, <2>1, FirstFrame
      <3> QED
        BY <1>1, <1>3, <2>1, <3>1
    <2>3. MeanAll(s, bs) = MeanAll(s, box)
      BY <1>4, <2>2, ChangedStack
    <2> QED
      BY <2>1, <2>3, JavaIs DEF op_stack
  <1>9. \A l \in Local \ {i} : Mean(table[l], bs) = Mean(table[l], box)
    BY <1>1, <1>3, <1>4 DEF Changes, table
  <1>10. Java!local = [l \in Local |-> Mean(table[l], box)]
    BY JavaIs
  <1>11. [l \in Local |-> Mean(table[l], bs)] = [Java!local EXCEPT ![i] = Mean(table[i], bs)]
    BY <1>1, <1>9, <1>10
  <1>12. MeanFrame(frames[1], bs)
           = [stack |-> Java!stack, local |-> [Java!local EXCEPT ![i] = Mean(table[i], bs)]]
    BY <1>8, <1>11 DEF MeanFrame, op_stack, table
  <1>13. PICK js : js = Java!WithLocal(i, Mean(table[i], bs), Java!stack)
    OBVIOUS
  <1>14. /\ DOMAIN MeantFrames = DOMAIN frames
         /\ \A k \in DOMAIN frames : MeantFrames[k] = MeanFrame(frames[k], box)
    BY JavaIs
  <1>15. js = [k \in DOMAIN frames |-> js[k]] /\ js[1] = MeanFrame(frames[1], bs)
         /\ \A k \in DOMAIN frames \ {1} : js[k] = MeanFrame(frames[k], box)
    BY <1>1, <1>12, <1>13, <1>14 DEF Java!WithLocal
  <1>16. \A k \in DOMAIN frames : js[k] = MeanFrame(frames[k], bs)
    BY <1>7, <1>15
  <1>17. MeanFrames(frames, bs) = js
    BY <1>15, <1>16 DEF MeanFrames
  <1> QED
    BY <1>6, <1>13, <1>17

LEMMA iincDone ==
  ASSUME IInv, iinc
  PROVE  Done
  <1>1. PICK i \in Local, n \in {-1, 1} :
          /\ Is(table[i], "int")
          /\ AllPrograms \/ i \in frames[1].stored
          /\ Become(frames, cell,
                    [box EXCEPT ![table[i]] = IntOop(box[table[i]].value + n)])
    BY DEF iinc
  <1>2. PICK b : b = table[i]
    OBVIOUS
  <1>3. b \in Oops(Len(box)) /\ Java!local[i] = Mean(b, box) /\ Is(b, "int")
    BY <1>1, <1>2, VariableIs
  <1>4. /\ IsBox(b) /\ box[b] \in Java!IntValue /\ box[b].value \in Int
        /\ Mean(b, box) = box[b] /\ b \in 1 .. Len(box)
    BY <1>3, IsInt, BoxValue
  <1>5. PICK m \in Int : m = box[b].value + n
    BY <1>4
  <1>6. PICK v : v = IntOop(m)
    OBVIOUS
  <1>7. v \in Value /\ v = Java!I(m)
    BY <1>6, IntIs
  <1>8. PICK bs : bs = [box EXCEPT ![b] = v]
    OBVIOUS
  <1>9. bs \in Seq(Value) /\ Len(bs) = Len(box) /\ Mean(b, bs) = v /\ Changes(b, bs)
    BY <1>4, <1>7, <1>8, ChangeIs
  <1>10. Become(frames, cell, bs)
    BY <1>1, <1>2, <1>5, <1>6, <1>8
  <1>11. WellFormed(frames, cell, bs) /\ Owned(frames, cell)
    BY <1>9 DEF IInv, TypeOK, WellFormed
  <1>12. IInv'
    BY <1>10, <1>11, BecomeKeeps
  <1>13. MeantFrames' = MeanFrames(frames, bs) /\ MeantCells' = MeanCells(cell, bs)
    BY <1>10, <1>11, BecomeMeans
  <1>14. ASSUME ~AllPrograms
         PROVE  Java!Increment
    <2>1. i \in frames[1].stored
      BY <1>1, <1>14
    <2>2. /\ MeanCells(cell, bs) = MeantCells
          /\ MeanFrames(frames, bs) = Java!WithLocal(i, Mean(table[i], bs), Java!stack)
      BY <1>2, <1>4, <1>9, <2>1, IncrementMeans
    <2>3. MeantFrames' = Java!WithLocal(i, Java!I(Java!local[i].value + n), Java!stack)
      BY <1>2, <1>3, <1>4, <1>5, <1>7, <1>9, <1>13, <2>2
    <2>4. Java!local[i] \in Java!IntValue
      BY <1>3, <1>4
    <2> QED
      BY <1>13, <2>2, <2>3, <2>4 DEF Java!Increment, Java!Local, Local
  <1> QED
    BY <1>12, <1>14 DEF Done, Java!Unnamed

-----------------------------------------------------------------------------
(* Unsafe's compareAndSwap.                                                *)
LEMMA SwapDone ==
  ASSUME IInv, IInv', NEW c \in Cells, 3 =< Len(op_stack), op_stack[3] = Ref,
         NEW equal \in BOOLEAN, equal <=> MeantCells[c] = Java!stack[2],
         MeantFrames' = Java!WithStack(<<Java!I(IF equal THEN 1 ELSE 0)>> \o Java!Below(3)),
         MeantCells' = IF equal THEN [MeantCells EXCEPT ![c] = Java!stack[1]]
                       ELSE MeantCells
  PROVE  Done
  <1>1. Len(Java!stack) >= 3 /\ Java!stack[3] = Java!Ref
    BY TopIs, OperandIs
  <1>2. equal = (MeantCells[c] = Java!stack[2])
    OBVIOUS
  <1>3. Java!CompareAndSwap
    BY <1>1, <1>2 DEF Java!CompareAndSwap
  <1> QED
    BY <1>3 DEF Done, Java!Unnamed

(* Of integers, when only the field points to its box.                     *)
LEMMA SwapMeans ==
  ASSUME IInv, NEW c \in Cells, Alone(c), IsBox(cell[c]),
         NEW bs, Changes(cell[c], bs)
  PROVE  /\ MeanCells(cell, bs) = [MeantCells EXCEPT ![c] = Mean(cell[c], bs)]
         /\ \A s : MeanFrames(WithStack(s), bs) = Java!WithStack(MeanAll(s, bs))
         /\ \A n \in 0 .. Len(op_stack) : MeanAll(Below(n), bs) = Java!Below(n)
  <1>1. /\ Len(frames) \in Nat \ {0} /\ DOMAIN frames = 1 .. Len(frames)
        /\ 1 \in DOMAIN frames /\ op_stack \in Seq(Loose(Len(box)))
        /\ table \in [Local -> Oops(Len(box))] /\ Len(op_stack) \in Nat
    BY FirstFrame
  <1>2. PICK b : b = cell[c]
    OBVIOUS
  <1>3. /\ \A d \in Cells \ {c} : cell[d] # b
        /\ \A k \in DOMAIN frames :
             /\ \A n \in DOMAIN frames[k].op_stack : frames[k].op_stack[n] # b
             /\ \A i \in Local : frames[k].table[i] # b
    BY <1>2 DEF Alone
  <1>4. Changes(b, bs)
    BY <1>2
  <1>5. \A d \in Cells \ {c} : Mean(cell[d], bs) = MeantCells[d]
    BY <1>3, <1>4, CellIs DEF Changes
  <1>6. MeanCells(cell, bs) = [MeantCells EXCEPT ![c] = Mean(cell[c], bs)]
    BY <1>5 DEF MeanCells, MeantCells
  <1>7. \A k \in DOMAIN frames \ {1} : MeanFrame(frames[k], bs) = MeanFrame(frames[k], box)
    BY <1>3, <1>4, ChangedFrame
  <1>8. \A i \in Local : Mean(table[i], bs) = Mean(table[i], box)
    BY <1>1, <1>3, <1>4 DEF Changes, table
  <1>9. \A s : MeanFrames(WithStack(s), bs) = Java!WithStack(MeanAll(s, bs))
    BY <1>7, <1>8, StackMeans
  <1>10. ASSUME NEW n \in 0 .. Len(op_stack)
         PROVE  MeanAll(Below(n), bs) = Java!Below(n)
    <2>1. PICK s : s = Below(n)
      OBVIOUS
    <2>2. Len(s) = Len(op_stack) - n /\ Java!Below(n) = MeanAll(s, box)
      BY <2>1, JavaBelow
    <2>3. s \in Seq(Loose(Len(box))) /\ \A m \in 1 .. Len(s) : s[m] = op_stack[n + m]
      BY <1>1, <2>1, <2>2, JavaBelow DEF Below
    <2>4. \A m \in 1 .. Len(s) : n + m \in 1 .. Len(op_stack)
      BY <1>1, <2>2
    <2>5. \A m \in 1 .. Len(s) : s[m] \in Oops(Len(box)) /\ s[m] # b
      <3>1. \A m \in 1 .. Len(op_stack) : op_stack[m] \in Oops(Len(box)) /\ op_stack[m] # b
        BY <1>1, <1>3, OperandIs DEF op_stack
      <3> QED
        BY <2>3, <2>4, <3>1
    <2>6. s \in Seq(Oops(Len(box)))
      BY <2>3, <2>5
    <2> QED
      BY <1>4, <2>2, <2>5, <2>6, <2>1, ChangedStack
  <1> QED
    BY <1>6, <1>9, <1>10

LEMMA JVM_CompareAndSwapIntDone ==
  ASSUME IInv, JVM_CompareAndSwapInt
  PROVE  Done
  <1>1. PICK c \in Fields :
          LET equal == box[cell[c]] = box[op_stack[2]]
              news == Append(box, IntOop(IF equal THEN 1 ELSE 0))
          IN  /\ Is(cell[c], "int")
              /\ AllPrograms \/ Alone(c)
              /\ Become(WithStack(<<Fresh(1)>> \o Below(3)), cell,
                        IF equal THEN [news EXCEPT ![cell[c]] = box[op_stack[1]]]
                        ELSE news)
    BY DEF JVM_CompareAndSwapInt
  <1>2. /\ 3 =< Len(op_stack) /\ op_stack[3] = Ref
        /\ Is(op_stack[1], "int") /\ Is(op_stack[2], "int")
    BY DEF JVM_CompareAndSwapInt
  <1>3. c \in Cells
    BY DEF Fields
  <1>4. PICK b : b = cell[c]
    OBVIOUS
  <1>5. /\ Is(b, "int") /\ IsBox(b) /\ b \in 1 .. Len(box)
        /\ MeantCells[c] = box[b] /\ box[b] \in Java!IntValue
    <2>1. b \in Oops(Len(box)) /\ MeantCells[c] = Mean(b, box) /\ Is(b, "int")
      BY <1>1, <1>3, <1>4, CellIs
    <2> QED
      BY <2>1, IsInt, BoxValue
  <1>6. \A n \in 1 .. 2 : Java!stack[n] = box[op_stack[n]] /\ box[op_stack[n]] \in Value
    <2> TAKE n \in 1 .. 2
    <2>1. n \in 1 .. Len(op_stack) /\ Is(op_stack[n], "int")
      BY <1>2, TopIs
    <2>2. op_stack[n] \in Oops(Len(box)) /\ Java!stack[n] = Mean(op_stack[n], box)
      BY <2>1, OperandIs
    <2> QED
      BY <2>1, <2>2, IsInt, BoxValue
  <1>7. PICK equal \in BOOLEAN : equal <=> box[b] = box[op_stack[2]]
    OBVIOUS
  <1>8. PICK one \in Int : one = IF equal THEN 1 ELSE 0
    OBVIOUS
  <1>9. PICK v \in Value : v = IntOop(one) /\ v = Java!I(one)
    BY IntIs
  <1>10. PICK x \in Value : x = box[op_stack[1]] /\ x = Java!stack[1]
    BY <1>6
  <1>11. PICK news : news = Append(box, v)
    OBVIOUS
  <1>12. /\ Extends(news) /\ Len(news) = Len(box) + 1 /\ news[Len(box) + 1] = v
         /\ Mean(Fresh(1), news) = v
    BY <1>11, AppendExtends
  <1>13. PICK bs : bs = IF equal THEN [news EXCEPT ![b] = x] ELSE news
    OBVIOUS
  <1>14. PICK s : s = <<Fresh(1)>> \o Below(3)
    OBVIOUS
  <1>15. Become(WithStack(s), cell, bs)
    <2>1. equal = (box[cell[c]] = box[op_stack[2]])
      BY <1>4, <1>7
    <2>2. IntOop(IF equal THEN 1 ELSE 0) = v
      BY <1>8, <1>9
    <2> QED
      BY <1>1, <1>4, <1>10, <1>11, <1>13, <1>14, <2>1, <2>2
  <1>16. Len(box) \in Nat /\ box \in Seq(Value) /\ cell \in [Cells -> Loose(Len(box))]
         /\ Len(op_stack) \in Nat
    BY FirstFrame
  <1>17. news \in Seq(Value) /\ \A n \in 1 .. Len(box) : news[n] = box[n]
    BY <1>11, <1>16
  <1>18. /\ bs \in Seq(Value) /\ Len(bs) = Len(box) + 1
         /\ \A n \in 1 .. Len(box) + 1 :
              bs[n] = IF equal /\ n = b THEN x ELSE news[n]
    <2>1. b \in 1 .. Len(box) + 1 /\ DOMAIN news = 1 .. Len(box) + 1
      BY <1>5, <1>12, <1>16, <1>17
    <2>2. CASE equal
      BY <1>12, <1>13, <1>16, <1>17, <2>1, <2>2
    <2>3. CASE ~equal
      BY <1>12, <1>13, <1>16, <1>17, <2>3
    <2> QED
      BY <2>2, <2>3
  <1>19. /\ Mean(Fresh(1), bs) = v
         /\ Mean(b, bs) = IF equal THEN x ELSE box[b]
         /\ Changes(b, bs)
    <2>1. b # Len(box) + 1 /\ b \in 1 .. Len(box) + 1 /\ Len(box) + 1 \in 1 .. Len(box) + 1
      BY <1>5, <1>16
    <2>2. Mean(Fresh(1), bs) = v
      BY <1>12, <1>16, <1>18, <2>1 DEF Mean, Fresh, Null, Ref
    <2>3. Mean(b, bs) = IF equal THEN x ELSE box[b]
      BY <1>5, <1>17, <1>18, <2>1 DEF Mean, Null, Ref
    <2>4. Changes(b, bs)
      BY <1>16, <1>17, <1>18 DEF Changes, Mean, Oops, Null, Ref
    <2> QED
      BY <2>2, <2>3, <2>4
  <1>20. s \in Seq(Loose(Len(bs))) /\ cell \in [Cells -> Loose(Len(bs))]
         /\ Fresh(1) \in Loose(Len(bs)) /\ Below(3) \in Seq(Loose(Len(bs)))
    <2>1. 3 \in 0 .. Len(op_stack)
      BY <1>2, <1>16
    <2>2. Below(3) \in Seq(Loose(Len(box)))
      BY <2>1, JavaBelow
    <2>3. /\ Seq(Loose(Len(box))) \subseteq Seq(Loose(Len(bs)))
          /\ [Cells -> Loose(Len(box))] \subseteq [Cells -> Loose(Len(bs))]
      BY <1>16, <1>18, LooseMonotonic
    <2>4. Fresh(1) \in Loose(Len(bs))
      BY <1>16, <1>18, FreshIsLoose
    <2>5. PICK p : p = Below(3)
      OBVIOUS
    <2>6. <<Fresh(1)>> \o p \in Seq(Loose(Len(bs)))
      BY <2>2, <2>3, <2>4, <2>5
    <2> QED
      BY <1>14, <1>16, <2>2, <2>3, <2>4, <2>5, <2>6
  <1>21. WellFormed(WithStack(s), cell, bs) /\ Owned(WithStack(s), cell)
    BY <1>16, <1>18, <1>20, StackStep, SMTT(30)
  <1>22. IInv'
    BY <1>15, <1>21, BecomeKeeps
  <1>23. MeantFrames' = MeanFrames(WithStack(s), bs) /\ MeantCells' = MeanCells(cell, bs)
    BY <1>15, <1>21, BecomeMeans
  <1>24. ASSUME ~AllPrograms
         PROVE  Java!Unnamed
    <2>1. Alone(c)
      BY <1>1, <1>24
    <2>2. 3 \in 0 .. Len(op_stack)
      BY <1>2, <1>16
    <2>3. /\ MeanCells(cell, bs) = [MeantCells EXCEPT ![c] = Mean(cell[c], bs)]
          /\ MeanFrames(WithStack(s), bs) = Java!WithStack(MeanAll(s, bs))
          /\ MeanAll(Below(3), bs) = Java!Below(3)
      BY <1>3, <1>4, <1>5, <1>19, <2>1, <2>2, SwapMeans
    <2>4. MeanAll(s, bs) = <<v>> \o Java!Below(3)
      <3>1. MeanAll(s, bs) = <<Mean(Fresh(1), bs)>> \o MeanAll(Below(3), bs)
        BY ONLY <1>14, <1>20, MeanAllPush, SMTT(30)
      <3> QED
        BY <1>19, <2>3, <3>1
    <2>5. MeantFrames' = Java!WithStack(<<Java!I(IF equal THEN 1 ELSE 0)>> \o Java!Below(3))
      BY <1>8, <1>9, <1>23, <2>3, <2>4
    <2>6. MeantCells' = IF equal THEN [MeantCells EXCEPT ![c] = Java!stack[1]]
                        ELSE MeantCells
      <3>1. MeantCells' = [MeantCells EXCEPT ![c] = IF equal THEN x ELSE box[b]]
        BY <1>4, <1>19, <1>23, <2>3
      <3>2. [MeantCells EXCEPT ![c] = MeantCells[c]] = MeantCells
        BY DEF MeantCells
      <3> QED
        BY <1>5, <1>10, <3>1, <3>2
    <2>7. equal <=> MeantCells[c] = Java!stack[2]
      BY <1>5, <1>6, <1>7
    <2>8. Done
      BY <1>2, <1>3, <1>22, <2>5, <2>6, <2>7, SwapDone
    <2> QED
      BY <1>24, <2>8 DEF Done
  <1> QED
    BY <1>22, <1>24 DEF Done

(* Of references, which are compared as pointers.                          *)
LEMMA JVM_CompareAndSwapObjectDone ==
  ASSUME IInv, JVM_CompareAndSwapObject
  PROVE  Done
  <1>1. PICK c \in Cells :
          LET equal == cell[c] = op_stack[2]
          IN  /\ ~IsBox(cell[c])
              /\ Become(WithStack(<<Fresh(1)>> \o Below(3)),
                        IF equal THEN [cell EXCEPT ![c] = op_stack[1]] ELSE cell,
                        Append(box, IntOop(IF equal THEN 1 ELSE 0)))
    BY DEF JVM_CompareAndSwapObject
  <1>2. /\ 3 =< Len(op_stack) /\ op_stack[3] = Ref
        /\ ~IsBox(op_stack[1]) /\ ~IsBox(op_stack[2])
    BY DEF JVM_CompareAndSwapObject
  <1>3. Len(op_stack) \in Nat /\ cell \in [Cells -> Loose(Len(box))] /\ Len(box) \in Nat
    BY FirstFrame
  <1>4. 1 \in 1 .. Len(op_stack) /\ 2 \in 1 .. Len(op_stack) /\ 3 \in 0 .. Len(op_stack)
    BY <1>2, <1>3
  <1>5. /\ op_stack[1] \in Loose(Len(box)) /\ Java!stack[1] = Mean(op_stack[1], box)
        /\ op_stack[2] \in Oops(Len(box)) /\ Java!stack[2] = Mean(op_stack[2], box)
    BY <1>4, OperandIs
  <1>6. cell[c] \in Oops(Len(box)) /\ MeantCells[c] = Mean(cell[c], box)
    BY CellIs
  <1>7. PICK equal \in BOOLEAN : equal <=> cell[c] = op_stack[2]
    OBVIOUS
  <1>8. equal <=> MeantCells[c] = Java!stack[2]
    <2>1. cell[c] \in {Null, Ref} /\ op_stack[2] \in {Null, Ref}
      BY <1>1, <1>2, <1>3, <1>5, <1>6, BoxlessMean
    <2>2. Mean(Null, box) # Mean(Ref, box)
      BY DEF Mean, Null, Ref
    <2> QED
      BY <1>5, <1>6, <1>7, <2>1, <2>2
  <1>9. PICK one \in Int : one = IF equal THEN 1 ELSE 0
    OBVIOUS
  <1>10. PICK v \in Value : v = IntOop(one) /\ v = Java!I(one)
    BY IntIs
  <1>11. PICK cs : cs = IF equal THEN [cell EXCEPT ![c] = op_stack[1]] ELSE cell
    OBVIOUS
  <1>12. cs \in [Cells -> Loose(Len(box))]
    BY <1>3, <1>5, <1>11
  <1>13. Become(WithStack(<<Fresh(1)>> \o Below(3)), cs, Append(box, v))
    <2>1. equal = (cell[c] = op_stack[2])
      BY <1>7
    <2> QED
      BY <1>1, <1>9, <1>10, <1>11, <2>1
  <1>14. /\ IInv'
         /\ MeantFrames' = Java!WithStack(<<v>> \o Java!Below(3))
         /\ MeantCells' = MeanCells(cs, box)
    BY <1>4, <1>12, <1>13, PushNewBecomes
  <1>15. MeantCells' = IF equal THEN [MeantCells EXCEPT ![c] = Java!stack[1]]
                       ELSE MeantCells
    <2>1. CASE equal
      <3>1. cs = [cell EXCEPT ![c] = op_stack[1]]
        BY <1>11, <2>1
      <3>2. MeantCells = [d \in Cells |-> Mean(cell[d], box)]
        BY MeantIsMean DEF MeanCells
      <3>3. MeanCells(cs, box) = [MeantCells EXCEPT ![c] = Mean(op_stack[1], box)]
        BY <1>3, <3>1, <3>2 DEF MeanCells
      <3> QED
        BY <1>5, <1>14, <2>1, <3>3
    <2>2. CASE ~equal
      BY <1>11, <1>14, <2>2, MeantIsMean
    <2> QED
      BY <2>1, <2>2
  <1>16. MeantFrames' = Java!WithStack(<<Java!I(IF equal THEN 1 ELSE 0)>> \o Java!Below(3))
    BY <1>9, <1>10, <1>14
  <1> QED
    BY <1>2, <1>8, <1>14, <1>15, <1>16, SwapDone

-----------------------------------------------------------------------------
(* Only the pointer to the object means the reference.                     *)
LEMMA MeansRef ==
  ASSUME IInv, NEW oop \in Oops(Len(box)), Mean(oop, box) = Java!Ref
  PROVE  oop = Ref
  <1>1. CASE IsBox(oop)
    <2>1. box[oop] \in Value /\ Mean(oop, box) = box[oop]
      BY <1>1, BoxValue
    <2>2. \A v \in Value : v.kind \in {"int", "float", "long", "double"}
      BY BoxesAssumption DEF Value
    <2>3. box[oop].kind = "ref"
      BY <2>1 DEF Java!Ref
    <2> QED
      BY <2>1, <2>2, <2>3
  <1>2. CASE ~IsBox(oop)
    <2>1. oop \in {Null, Ref}
      BY <1>2, FirstFrame, BoxlessMean
    <2>2. oop = Null => Mean(oop, box) # Java!Ref
      BY DEF Mean, Java!Ref
    <2> QED
      BY <2>1, <2>2
  <1> QED
    BY <1>1, <1>2

LEMMA NotHeld ==
  ASSUME IInv, Ref \notin Held(frames, cell)
  PROVE  ~Java!Held
  <1> SUFFICES ASSUME Java!Held
               PROVE  FALSE
    OBVIOUS
  <1>1. PICK k \in DOMAIN MeantFrames :
          \/ \E n \in DOMAIN MeantFrames[k].stack : MeantFrames[k].stack[n] = Java!Ref
          \/ \E i \in Local : MeantFrames[k].local[i] = Java!Ref
    BY DEF Java!Held, Java!Local, Local
  <1>2. k \in DOMAIN frames /\ MeantFrames[k] = MeanFrame(frames[k], box)
    BY JavaIs
  <1>3. /\ frames[k].op_stack \in Seq(Oops(Len(box)))
        /\ frames[k].table \in [Local -> Oops(Len(box))]
    BY <1>2, FirstFrame
  <1>4. CASE \E n \in DOMAIN MeantFrames[k].stack : MeantFrames[k].stack[n] = Java!Ref
    <2>1. PICK n \in DOMAIN MeantFrames[k].stack : MeantFrames[k].stack[n] = Java!Ref
      BY <1>4
    <2>2. n \in DOMAIN frames[k].op_stack /\ Mean(frames[k].op_stack[n], box) = Java!Ref
      BY <1>2, <2>1 DEF MeanFrame, MeanAll
    <2>3. frames[k].op_stack[n] \in Oops(Len(box))
      BY <1>3, <2>2
    <2>4. frames[k].op_stack[n] = Ref
      BY <2>2, <2>3, MeansRef
    <2> QED
      BY <1>2, <2>2, <2>4, HeldIs
  <1>5. CASE \E i \in Local : MeantFrames[k].local[i] = Java!Ref
    <2>1. PICK i \in Local : Mean(frames[k].table[i], box) = Java!Ref
      BY <1>2, <1>5 DEF MeanFrame
    <2>2. frames[k].table[i] \in Oops(Len(box))
      BY <1>3
    <2>3. frames[k].table[i] = Ref
      BY <2>1, <2>2, MeansRef
    <2> QED
      BY <1>2, <2>3, HeldIs
  <1> QED
    BY <1>1, <1>4, <1>5

LEMMA newDone ==
  ASSUME IInv, new
  PROVE  Done
  <1>1. PICK n \in 0 .. 1 :
          /\ Len(op_stack) >= n
          /\ Ref \notin Held(frames, cell)
          /\ Become(WithStack(<<Ref>> \o Below(n)), [c \in Cells |-> Fresh(c)],
                    box \o Zeros)
    BY DEF new
  <1>2. Len(op_stack) \in Nat /\ Len(box) \in Nat
    BY FirstFrame
  <1>3. n \in 0 .. Len(op_stack)
    BY <1>1, <1>2
  <1>4. PICK zeros : zeros = Zeros
    OBVIOUS
  <1>5. IntOop(0) \in Value /\ IntOop(0) = Java!I(0)
    BY IntIs
  <1>6. /\ zeros \in Seq(Value) /\ Len(zeros) = MaxCells /\ MaxCells \in Nat
        /\ \A c \in 1 .. MaxCells : zeros[c] = Java!I(0)
    BY <1>4, <1>5, BoxesAssumption DEF Zeros, Cells
  <1>7. PICK bs : bs = box \o zeros
    OBVIOUS
  <1>8. /\ Extends(bs) /\ Len(bs) = Len(box) + MaxCells
        /\ \A c \in 1 .. MaxCells : bs[Len(box) + c] = Java!I(0)
    BY <1>6, <1>7, ConcatExtends
  <1>9. PICK cs : cs = [c \in Cells |-> Fresh(c)]
    OBVIOUS
  <1>10. cs \in [Cells -> Loose(Len(bs))]
    <2>1. \A c \in Cells : Fresh(c) \in Loose(Len(bs))
      BY <1>2, <1>6, <1>8, FreshIsLoose DEF Cells
    <2> QED
      BY <1>9, <2>1
  <1>11. PICK below : below = Below(n)
    OBVIOUS
  <1>12. below \in Seq(Loose(Len(bs))) /\ MeanAll(below, bs) = Java!Below(n)
    <2>1. below \in Seq(Loose(Len(box))) /\ Java!Below(n) = MeanAll(below, box)
      BY <1>3, <1>11, JavaBelow
    <2>2. Seq(Loose(Len(box))) \subseteq Seq(Loose(Len(bs)))
      BY <1>2, <1>6, <1>8, LooseMonotonic
    <2> QED
      BY <1>8, <2>1, <2>2, ExtendedMeansAll
  <1>13. Ref \in Loose(Len(bs))
    <2>1. Ref \in Oops(Len(bs)) /\ ~IsBox(Ref) /\ Len(bs) \in Nat
      BY <1>2, <1>6, <1>8 DEF Oops, Null, Ref, IsBox
    <2> QED
      BY <2>1, BoxlessIsLoose
  <1>14. PICK s : s = <<Ref>> \o below
    OBVIOUS
  <1>15. s \in Seq(Loose(Len(bs))) /\ MeanAll(s, bs) = <<Mean(Ref, bs)>> \o MeanAll(below, bs)
    BY ONLY <1>12, <1>13, <1>14, MeanAllPush, SMTT(30)
  <1>16. Become(WithStack(s), cs, bs)
    BY <1>1, <1>4, <1>7, <1>9, <1>11, <1>14
  <1>17. /\ IInv'
         /\ MeantFrames' = Java!WithStack(MeanAll(s, bs))
         /\ MeantCells' = MeanCells(cs, bs)
    BY <1>8, <1>10, <1>15, <1>16, StackBecomes
  <1>18. Mean(Ref, bs) = Java!Ref
    BY DEF Mean, Ref, Null, Java!Ref
  <1>19. MeantFrames' = Java!WithStack(<<Java!Ref>> \o Java!Below(n))
    BY <1>12, <1>15, <1>17, <1>18
  <1>20. MeantCells' = [c \in Cells |-> Java!I(0)]
    <2>1. \A c \in Cells : Mean(cs[c], bs) = bs[Len(box) + c]
      BY <1>2, <1>9 DEF Mean, Fresh, Null, Ref, Cells
    <2>2. \A c \in Cells : Mean(cs[c], bs) = Java!I(0)
      BY <1>8, <2>1 DEF Cells
    <2> QED
      BY <1>17, <2>2 DEF MeanCells
  <1>21. Len(Java!stack) >= n /\ ~Java!Held
    BY <1>1, TopIs, NotHeld
  <1>22. Java!New
    BY <1>19, <1>20, <1>21 DEF Java!New
  <1> QED
    BY <1>17, <1>22 DEF Done, Java!Unnamed

-----------------------------------------------------------------------------
(* A call: the arguments become variables of a new frame, which has stored *)
(* none yet.                                                               *)
Arguments(n) == [k \in 1 .. n |-> op_stack[n + 1 - k]]

JavaArguments(n) == [k \in 1 .. n |-> Java!stack[n + 1 - k]]

Called(n, tab) ==
  <<[op_stack |-> <<>>, table |-> tab, stored |-> {}]>> \o WithStack(Below(n))

LEMMA ArgumentsAre ==
  ASSUME IInv, NEW n \in 0 .. Len(op_stack)
  PROVE  /\ DOMAIN Arguments(n) = 1 .. n /\ DOMAIN JavaArguments(n) = 1 .. n
         /\ \A k \in 1 .. n : /\ Arguments(n)[k] \in Loose(Len(box))
                              /\ Arguments(n)[k] \in Oops(Len(box))
                              /\ JavaArguments(n)[k] = Mean(Arguments(n)[k], box)
  <1>1. Len(op_stack) \in Nat
    BY TopIs
  <1>2. \A k \in 1 .. n : n + 1 - k \in 1 .. Len(op_stack)
    BY <1>1
  <1> QED
    BY <1>2, OperandIs DEF Arguments, JavaArguments

LEMMA SlotsAgree ==
  ASSUME IInv, ~AllPrograms, NEW n \in 0 .. Len(op_stack), NEW k \in 1 .. n + 1
  PROVE  Java!Slot(JavaArguments(n), k) = Slot(Arguments(n), k)
  <1>1. PICK args : args = Arguments(n)
    OBVIOUS
  <1>2. PICK jargs : jargs = JavaArguments(n)
    OBVIOUS
  <1>3. n \in Nat /\ \A m \in 1 .. k - 1 : m \in 1 .. n
    BY TopIs
  <1>4. \A m \in 1 .. k - 1 : IsWide(args[m]) <=> Wide(jargs[m])
    <2> TAKE m \in 1 .. k - 1
    <2>1. args[m] \in Oops(Len(box)) /\ jargs[m] = Mean(args[m], box)
      BY <1>1, <1>2, <1>3, ArgumentsAre
    <2> QED
      BY <2>1, WideIs
  <1>5. Java!WideUpTo(k - 1, jargs) = WideUpTo(k - 1, args)
    BY <1>4 DEF Java!WideUpTo, WideUpTo, Wide
  <1> QED
    BY <1>1, <1>2, <1>5, JavaCounts DEF Slot, Java!Slot

LEMMA StackFrameTyped ==
  ASSUME IInv, NEW n \in 0 .. Len(op_stack)
  PROVE  StackFrame(Arguments(n)) \in [Local -> Loose(Len(box))]
  <1>1. PICK args : args = Arguments(n)
    OBVIOUS
  <1>2. \A k \in DOMAIN args : args[k] \in Loose(Len(box))
    BY <1>1, ArgumentsAre
  <1>3. Null \in Loose(Len(box))
    BY FirstFrame, BoxlessIsLoose DEF Oops, Null, Ref, IsBox
  <1>4. ASSUME NEW i \in Local
        PROVE  StackFrame(args)[i] \in Loose(Len(box))
    <2>1. CASE \E k \in DOMAIN args : Slot(args, k) = i
      <3>1. (CHOOSE k \in DOMAIN args : Slot(args, k) = i) \in DOMAIN args
        BY <2>1
      <3>2. StackFrame(args)[i] = args[CHOOSE k \in DOMAIN args : Slot(args, k) = i]
        BY <2>1 DEF StackFrame
      <3> QED
        BY <1>2, <3>1, <3>2
    <2>2. CASE ~\E k \in DOMAIN args : Slot(args, k) = i
      BY <1>3, <2>2 DEF StackFrame
    <2> QED
      BY <2>1, <2>2
  <1>5. StackFrame(args) = [i \in Local |-> StackFrame(args)[i]]
    BY DEF StackFrame
  <1> QED
    BY <1>1, <1>4, <1>5

LEMMA StackFrameMeans ==
  ASSUME IInv, ~AllPrograms, NEW n \in 0 .. Len(op_stack)
  PROVE  [i \in Local |-> Mean(StackFrame(Arguments(n))[i], box)]
           = Java!Variables(JavaArguments(n))
  <1>1. PICK args : args = Arguments(n)
    OBVIOUS
  <1>2. PICK jargs : jargs = JavaArguments(n)
    OBVIOUS
  <1>3. DOMAIN args = 1 .. n /\ DOMAIN jargs = 1 .. n
    BY <1>1, <1>2, ArgumentsAre
  <1>4. \A k \in 1 .. n : jargs[k] = Mean(args[k], box)
    BY <1>1, <1>2, ArgumentsAre
  <1>5. \A k \in 1 .. n : k \in 1 .. n + 1
    BY TopIs
  <1>6. \A k \in 1 .. n : Java!Slot(jargs, k) = Slot(args, k)
    BY <1>1, <1>2, <1>5, SlotsAgree
  <1>7. ASSUME NEW i \in Local
        PROVE  Mean(StackFrame(args)[i], box) = Java!Variables(jargs)[i]
    <2>1. CASE \E k \in DOMAIN args : Slot(args, k) = i
      <3>1. PICK a : a = CHOOSE k \in DOMAIN args : Slot(args, k) = i
        OBVIOUS
      <3>2. PICK b : b = CHOOSE k \in DOMAIN jargs : Java!Slot(jargs, k) = i
        OBVIOUS
      <3>3. a = b
        <4>1. \A k : k \in DOMAIN args /\ Slot(args, k) = i
                       <=> k \in DOMAIN jargs /\ Java!Slot(jargs, k) = i
          BY <1>3, <1>6
        <4>2. (CHOOSE k \in DOMAIN args : Slot(args, k) = i)
                = (CHOOSE k \in DOMAIN jargs : Java!Slot(jargs, k) = i)
          BY ONLY <4>1, Zenon
        <4> QED
          BY <3>1, <3>2, <4>2
      <3>4. a \in DOMAIN args
        BY <2>1, <3>1
      <3>5. StackFrame(args)[i] = args[a]
        BY <2>1, <3>1 DEF StackFrame
      <3>6. \E k \in DOMAIN jargs : Java!Slot(jargs, k) = i
        BY <1>3, <1>6, <2>1
      <3>7. Java!Variables(jargs)[i] = jargs[b]
        BY <3>2, <3>6 DEF Java!Variables, Java!Local, Local
      <3> QED
        BY <1>3, <1>4, <3>3, <3>4, <3>5, <3>7
    <2>2. CASE ~\E k \in DOMAIN args : Slot(args, k) = i
      <3>1. StackFrame(args)[i] = Null
        BY <2>2 DEF StackFrame
      <3>2. ~\E k \in DOMAIN jargs : Java!Slot(jargs, k) = i
        BY <1>3, <1>6, <2>2
      <3>3. Java!Variables(jargs)[i] = Java!Null
        BY <3>2 DEF Java!Variables, Java!Local, Local
      <3> QED
        BY <3>1, <3>3 DEF Mean, Null, Java!Null
    <2> QED
      BY <2>1, <2>2
  <1>8. Java!Variables(jargs) = [i \in Local |-> Java!Variables(jargs)[i]]
    BY DEF Java!Variables, Java!Local, Local
  <1> QED
    BY <1>1, <1>2, <1>7, <1>8

LEMMA CalledIs ==
  ASSUME IInv, NEW n \in 0 .. Len(op_stack), NEW tab
  PROVE  /\ DOMAIN Called(n, tab) = 1 .. Len(frames) + 1
         /\ Called(n, tab) = [k \in 1 .. Len(frames) + 1 |-> Called(n, tab)[k]]
         /\ Called(n, tab)[1] = [op_stack |-> <<>>, table |-> tab, stored |-> {}]
         /\ \A k \in 1 .. Len(frames) : Called(n, tab)[k + 1] = WithStack(Below(n))[k]
  <1>1. /\ Len(frames) \in Nat \ {0} /\ DOMAIN frames = 1 .. Len(frames)
        /\ frames \in Seq(Frame(Len(box)))
    BY FirstFrame DEF IInv, TypeOK, WellFormed
  <1>2. PICK ws : ws = WithStack(Below(n))
    OBVIOUS
  <1>3. DOMAIN ws = 1 .. Len(frames)
    BY <1>1, <1>2, WithStackIs
  <1>4. ws = [k \in 1 .. Len(frames) |-> ws[k]]
    BY <1>1, <1>2 DEF WithStack
  <1>5. ws \in Seq({ws[k] : k \in 1 .. Len(frames)}) /\ Len(ws) = Len(frames)
    BY <1>1, <1>3, <1>4
  <1>6. PICK f : f = [op_stack |-> <<>>, table |-> tab, stored |-> {}]
    OBVIOUS
  <1>7. PICK fs : fs = <<f>> \o ws
    OBVIOUS
  <1>8. /\ DOMAIN fs = 1 .. Len(frames) + 1 /\ fs[1] = f
        /\ \A k \in 1 .. Len(frames) : fs[k + 1] = ws[k]
    BY <1>1, <1>5, <1>7, SMTT(30)
  <1>9. fs = [k \in 1 .. Len(frames) + 1 |-> fs[k]]
    BY <1>1, <1>5, <1>7, SMTT(30)
  <1>10. fs = Called(n, tab)
    BY <1>2, <1>6, <1>7 DEF Called
  <1> QED
    BY <1>2, <1>6, <1>8, <1>9, <1>10

LEMMA CalledTyped ==
  ASSUME IInv, NEW n \in 0 .. Len(op_stack), NEW tab \in [Local -> Loose(Len(box))]
  PROVE  WellFormed(Called(n, tab), cell, box) /\ Owned(Called(n, tab), cell)
  <1>1. /\ Len(frames) \in Nat \ {0} /\ DOMAIN frames = 1 .. Len(frames)
        /\ box \in Seq(Value) /\ cell \in [Cells -> Loose(Len(box))] /\ Len(box) \in Nat
    BY FirstFrame
  <1>2. PICK ws : ws = WithStack(Below(n))
    OBVIOUS
  <1>3. PICK below : below = Below(n)
    OBVIOUS
  <1>4. below \in Seq(Loose(Len(box)))
    BY <1>3, JavaBelow
  <1>5. WellFormed(WithStack(below), cell, box) /\ Owned(WithStack(below), cell)
    BY <1>1, <1>4, StackStep, SMTT(30)
  <1>6. WellFormed(ws, cell, box) /\ Owned(ws, cell) /\ DOMAIN ws = 1 .. Len(frames)
    BY <1>1, <1>2, <1>3, <1>5, WithStackIs
  <1>7. PICK fs : fs = Called(n, tab)
    OBVIOUS
  <1>8. /\ DOMAIN fs = 1 .. Len(frames) + 1
        /\ fs = [k \in 1 .. Len(frames) + 1 |-> fs[k]]
        /\ fs[1] = [op_stack |-> <<>>, table |-> tab, stored |-> {}]
        /\ \A k \in 1 .. Len(frames) : fs[k + 1] = ws[k]
    BY <1>2, <1>7, CalledIs
  <1>9. ASSUME NEW k \in 1 .. Len(frames) + 1, k # 1
        PROVE  k - 1 \in 1 .. Len(frames) /\ fs[k] = ws[k - 1]
    <2>1. PICK p \in 1 .. Len(frames) : p = k - 1
      BY <1>1, <1>9
    <2>2. p + 1 = k
      BY <1>1, <2>1
    <2>3. fs[p + 1] = ws[p]
      BY ONLY <1>8, <2>1
    <2> QED
      BY <2>1, <2>2, <2>3
  <1>10. tab \in [Local -> Oops(Len(box))]
    BY DEF Loose
  <1>11. \A k \in 1 .. Len(frames) + 1 : fs[k] \in Frame(Len(box))
    <2> TAKE k \in 1 .. Len(frames) + 1
    <2>1. CASE k = 1
      <3>1. <<>> \in Seq(Oops(Len(box))) /\ {} \in SUBSET Local
        OBVIOUS
      <3>2. [op_stack |-> <<>>, table |-> tab, stored |-> {}] \in Frame(Len(box))
        BY <1>10, <3>1 DEF Frame
      <3> QED
        BY <1>8, <2>1, <3>2
    <2>2. CASE k # 1
      <3>1. ws[k - 1] \in Frame(Len(box))
        BY <1>6, <1>9, <2>2 DEF WellFormed
      <3> QED
        BY <1>9, <2>2, <3>1
    <2> QED
      BY <2>1, <2>2
  <1>12. fs \in Seq(Frame(Len(box))) /\ fs # <<>>
    <2>1. Len(fs) = Len(frames) + 1
      BY <1>1, <1>8
    <2>2. PICK F : F = Frame(Len(box))
      OBVIOUS
    <2>3. fs = [k \in 1 .. Len(frames) + 1 |-> fs[k]] /\ \A k \in 1 .. Len(frames) + 1 : fs[k] \in F
      BY <1>8, <1>11, <2>2
    <2>4. Len(frames) + 1 \in Nat
      BY <1>1
    <2>5. fs \in Seq(F)
      BY ONLY <2>3, <2>4
    <2> QED
      BY <1>1, <2>1, <2>2, <2>5
  <1>13. WellFormed(fs, cell, box)
    BY <1>6, <1>12 DEF WellFormed
  <1>14. Owned(fs, cell)
    <2> SUFFICES ASSUME NEW k \in DOMAIN fs, NEW i \in fs[k].stored, IsBox(fs[k].table[i])
                 PROVE  /\ \A c \in Cells : cell[c] # fs[k].table[i]
                        /\ \A j \in DOMAIN fs :
                             /\ \A m \in DOMAIN fs[j].op_stack :
                                  fs[j].op_stack[m] # fs[k].table[i]
                             /\ \A l \in Local :
                                  fs[j].table[l] = fs[k].table[i] => j = k /\ l = i
      BY DEF Owned
    <2>1. k # 1
      BY <1>8
    <2>2. PICK p \in 1 .. Len(frames) : p = k - 1 /\ fs[k] = ws[p]
      BY <1>8, <1>9, <2>1
    <2>3. PICK b : b = ws[p].table[i]
      OBVIOUS
    <2>4. /\ \A c \in Cells : cell[c] # b
          /\ \A j \in DOMAIN ws :
               /\ \A m \in DOMAIN ws[j].op_stack : ws[j].op_stack[m] # b
               /\ \A l \in Local : ws[j].table[l] = b => j = p /\ l = i
      BY <1>6, <2>2, <2>3 DEF Owned
    <2>5. \A l \in Local : tab[l] # b
      <3>1. i \in frames[p].stored /\ b = frames[p].table[i] /\ IsBox(b)
        <4>1. ws[p].table = frames[p].table /\ ws[p].stored = frames[p].stored
          <5>1. p \in DOMAIN frames /\ ws = WithStack(below)
            BY <1>1, <1>2, <1>3
          <5>2. /\ WithStack(below)[p].table = frames[p].table
                /\ WithStack(below)[p].stored = frames[p].stored
            BY <5>1, WithStackIs
          <5> QED
            BY <5>1, <5>2
        <4> QED
          BY <2>2, <2>3, <4>1
      <3>2. \A l \in Local : tab[l] \in Loose(Len(box))
        OBVIOUS
      <3> QED
        BY <1>1, <3>1, <3>2 DEF Loose
    <2>6. ASSUME NEW j \in DOMAIN fs
          PROVE  /\ \A m \in DOMAIN fs[j].op_stack : fs[j].op_stack[m] # b
                 /\ \A l \in Local : fs[j].table[l] = b => j = k /\ l = i
      <3>1. CASE j = 1
        <4>1. DOMAIN fs[j].op_stack = {} /\ fs[j].table = tab
          BY <1>8, <3>1
        <4> QED
          BY <2>5, <4>1
      <3>2. CASE j # 1
        <4>1. j - 1 \in DOMAIN ws /\ fs[j] = ws[j - 1]
          BY <1>6, <1>8, <1>9, <3>2
        <4>2. j - 1 = p => j = k
          BY <1>1, <1>8, <2>2
        <4> QED
          BY <2>4, <4>1, <4>2
      <3> QED
        BY <3>1, <3>2
    <2> QED
      BY <2>2, <2>3, <2>4, <2>6
  <1> QED
    BY <1>7, <1>13, <1>14

LEMMA CalledMeans ==
  ASSUME IInv, NEW n \in 0 .. Len(op_stack), NEW tab
  PROVE  MeanFrames(Called(n, tab), box)
           = <<[stack |-> <<>>, local |-> [i \in Local |-> Mean(tab[i], box)]]>>
               \o Java!WithStack(Java!Below(n))
  <1>1. Len(frames) \in Nat \ {0} /\ DOMAIN frames = 1 .. Len(frames)
    BY FirstFrame
  <1>2. PICK ws : ws = WithStack(Below(n))
    OBVIOUS
  <1>3. DOMAIN ws = 1 .. Len(frames)
    BY <1>1, <1>2, WithStackIs
  <1>4. PICK js : js = Java!WithStack(Java!Below(n))
    OBVIOUS
  <1>5. js = MeanFrames(ws, box)
    <2>1. MeanFrames(WithStack(Below(n)), box) = Java!WithStack(MeanAll(Below(n), box))
      BY StackMeans
    <2>2. MeanAll(Below(n), box) = Java!Below(n)
      BY JavaBelow
    <2> QED
      BY <1>2, <1>4, <2>1, <2>2
  <1>6. js = [k \in 1 .. Len(frames) |-> MeanFrame(ws[k], box)]
    BY <1>3, <1>5 DEF MeanFrames
  <1>7. PICK fs : fs = Called(n, tab)
    OBVIOUS
  <1>8. /\ DOMAIN fs = 1 .. Len(frames) + 1
        /\ fs[1] = [op_stack |-> <<>>, table |-> tab, stored |-> {}]
        /\ \A k \in 1 .. Len(frames) : fs[k + 1] = ws[k]
    BY <1>2, <1>7, CalledIs
  <1>9. PICK f : f = [stack |-> <<>>, local |-> [i \in Local |-> Mean(tab[i], box)]]
    OBVIOUS
  <1>10. MeanFrame(fs[1], box) = f
    <2>1. MeanAll(<<>>, box) = <<>>
      BY DEF MeanAll
    <2> QED
      BY <1>8, <1>9, <2>1 DEF MeanFrame
  <1>11. PICK g : g = [k \in 1 .. Len(frames) |-> MeanFrame(ws[k], box)]
    OBVIOUS
  <1>12. PICK h : h = [k \in 1 .. Len(frames) + 1 |-> MeanFrame(fs[k], box)]
    OBVIOUS
  <1>13. \A k \in 1 .. Len(frames) : k + 1 \in 1 .. Len(frames) + 1 /\ h[k + 1] = g[k]
    BY <1>1, <1>8, <1>11, <1>12
  <1>14. h[1] = f /\ DOMAIN h = 1 .. Len(frames) + 1 /\ h = [k \in 1 .. Len(frames) + 1 |-> h[k]]
    BY <1>1, <1>10, <1>12
  <1>15. g = [k \in 1 .. Len(frames) |-> g[k]] /\ DOMAIN g = 1 .. Len(frames)
    BY <1>11
  <1>16. PICK N \in Nat : N = Len(frames)
    BY <1>1
  <1>17. h = <<f>> \o g
    <2>1. PICK c : c = <<f>> \o g
      OBVIOUS
    <2>2. /\ c = [k \in 1 .. N + 1 |-> c[k]] /\ c[1] = f
          /\ \A k \in 1 .. N : c[k + 1] = g[k]
      BY <1>15, <1>16, <2>1
    <2>3. ASSUME NEW k \in 1 .. N + 1
          PROVE  h[k] = c[k]
      <3>1. CASE k = 1
        BY <1>14, <2>2, <3>1
      <3>2. CASE k # 1
        <4>1. PICK m \in 1 .. N : k = m + 1
          <5>1. k - 1 \in 1 .. N /\ k = (k - 1) + 1
            BY <3>2
          <5> QED
            BY <5>1
        <4> QED
          BY <1>13, <1>16, <2>2, <4>1
      <3> QED
        BY <3>1, <3>2
    <2>4. h = [k \in 1 .. N + 1 |-> h[k]]
      BY <1>14, <1>16
    <2> QED
      BY <2>1, <2>2, <2>3, <2>4
  <1>18. MeanFrames(fs, box) = h
    BY <1>8, <1>12 DEF MeanFrames
  <1> QED
    BY <1>4, <1>6, <1>7, <1>9, <1>11, <1>17, <1>18

LEMMA invokeDone ==
  ASSUME IInv, invoke
  PROVE  Done
  <1>1. PICK n \in 0 .. Len(op_stack) :
          LET args == [k \in 1 .. n |-> op_stack[n + 1 - k]]
          IN  /\ Slot(args, n + 1) =< MaxLocals + 1
              /\ Become(<<[op_stack |-> <<>>, table |-> StackFrame(args),
                           stored |-> {}]>> \o WithStack(Below(n)), cell, box)
    BY DEF invoke
  <1>2. PICK tab : tab = StackFrame(Arguments(n))
    OBVIOUS
  <1>3. tab \in [Local -> Loose(Len(box))]
    BY <1>2, StackFrameTyped
  <1>4. /\ Slot(Arguments(n), n + 1) =< MaxLocals + 1
        /\ Become(Called(n, tab), cell, box)
    BY <1>1, <1>2 DEF Arguments, Called
  <1>5. WellFormed(Called(n, tab), cell, box) /\ Owned(Called(n, tab), cell)
    BY <1>3, CalledTyped
  <1>6. IInv'
    BY <1>4, <1>5, BecomeKeeps
  <1>7. MeantFrames' = MeanFrames(Called(n, tab), box) /\ MeantCells' = MeanCells(cell, box)
    BY <1>4, <1>5, BecomeMeans
  <1>8. MeantCells' = MeantCells
    BY <1>7, MeantIsMean
  <1>9. ASSUME ~AllPrograms
        PROVE  Java!Call
    <2>1. n + 1 \in 1 .. n + 1 /\ n \in 0 .. Len(Java!stack)
      BY TopIs
    <2>2. Java!Slot(JavaArguments(n), n + 1) =< MaxLocals + 1
      BY <1>4, <1>9, <2>1, SlotsAgree
    <2>3. MeantFrames' = <<[stack |-> <<>>, local |-> [i \in Local |-> Mean(tab[i], box)]]>>
                           \o Java!WithStack(Java!Below(n))
      BY <1>7, CalledMeans
    <2>4. [i \in Local |-> Mean(tab[i], box)] = Java!Variables(JavaArguments(n))
      BY <1>2, <1>9, StackFrameMeans
    <2>5. MeantFrames' = <<[stack |-> <<>>, local |-> Java!Variables(JavaArguments(n))]>>
                           \o Java!WithStack(Java!Below(n))
      BY <2>3, <2>4
    <2> QED
      BY <1>8, <2>1, <2>2, <2>5 DEF Java!Call, JavaArguments
  <1> QED
    BY <1>6, <1>9 DEF Done, Java!Unnamed

-----------------------------------------------------------------------------
(* A return: the result is pushed onto the caller's operands.              *)
LEMMA OperandsAreLoose ==
  ASSUME IInv, NEW k \in DOMAIN frames
  PROVE  frames[k].op_stack \in Seq(Loose(Len(box)))
  <1>1. PICK s : s = frames[k].op_stack
    OBVIOUS
  <1>2. s \in Seq(Oops(Len(box)))
    BY <1>1, FirstFrame
  <1>3. \A n \in DOMAIN s : \A j \in DOMAIN frames : \A i \in frames[j].stored :
          IsBox(frames[j].table[i]) => s[n] # frames[j].table[i]
    BY <1>1 DEF IInv, Owned
  <1>4. \A n \in 1 .. Len(s) : s[n] \in Loose(Len(box))
    BY <1>2, <1>3 DEF Loose
  <1>5. s \in Seq(Loose(Len(box)))
    BY <1>2, <1>4
  <1> QED
    BY <1>1, <1>5

LEMMA TailIs ==
  ASSUME NEW S, NEW s \in Seq(S), Len(s) > 1
  PROVE  /\ Tail(s) = [k \in 1 .. Len(s) - 1 |-> s[k + 1]]
         /\ DOMAIN Tail(s) = 1 .. Len(s) - 1
  <1>1. s # <<>> /\ Len(s) \in Nat
    OBVIOUS
  <1>2. PICK t : t = Tail(s)
    OBVIOUS
  <1>3. /\ t \in Seq(S) /\ Len(t) = Len(s) - 1
        /\ \A k \in 1 .. Len(t) : t[k] = s[k + 1]
    BY <1>1, <1>2, HeadTailProperties
  <1>4. t = [k \in 1 .. Len(s) - 1 |-> t[k]]
    BY <1>3
  <1>5. t = [k \in 1 .. Len(s) - 1 |-> s[k + 1]]
    BY <1>3, <1>4
  <1> QED
    BY <1>2, <1>5

LEMMA ReturnedIs ==
  ASSUME IInv, Len(frames) > 1, NEW r
  PROVE  /\ DOMAIN Returned(r) = 1 .. Len(frames) - 1
         /\ Returned(r) = [k \in 1 .. Len(frames) - 1 |-> Returned(r)[k]]
         /\ Returned(r)[1] = [op_stack |-> r \o frames[2].op_stack,
                              table |-> frames[2].table, stored |-> frames[2].stored]
         /\ \A k \in 2 .. Len(frames) - 1 : Returned(r)[k] = frames[k + 1]
  <1>1. /\ Len(frames) \in Nat \ {0} /\ DOMAIN frames = 1 .. Len(frames)
        /\ frames \in Seq(Frame(Len(box)))
    BY FirstFrame DEF IInv, TypeOK, WellFormed
  <1>2. PICK t : t = Tail(frames)
    OBVIOUS
  <1>3. /\ t = [k \in 1 .. Len(frames) - 1 |-> frames[k + 1]]
        /\ DOMAIN t = 1 .. Len(frames) - 1
    BY <1>1, <1>2, TailIs
  <1>4. 1 \in 1 .. Len(frames) - 1 /\ 2 \in DOMAIN frames /\ t[1] = frames[2]
    BY <1>1, <1>3
  <1>5. frames[2] \in Frame(Len(box))
    BY <1>1, <1>4
  <1>6. PICK f : f = [t[1] EXCEPT !.op_stack = r \o frames[2].op_stack]
    OBVIOUS
  <1>7. f = [op_stack |-> r \o frames[2].op_stack,
             table |-> frames[2].table, stored |-> frames[2].stored]
    BY <1>4, <1>5, <1>6 DEF Frame
  <1>8. PICK fs : fs = [t EXCEPT ![1] = f]
    OBVIOUS
  <1>9. fs = Returned(r)
    BY <1>2, <1>4, <1>6, <1>8 DEF Returned
  <1>10. /\ DOMAIN fs = 1 .. Len(frames) - 1 /\ fs[1] = f
         /\ fs = [k \in 1 .. Len(frames) - 1 |-> fs[k]]
    BY <1>3, <1>4, <1>8
  <1>11. \A k \in 2 .. Len(frames) - 1 : fs[k] = frames[k + 1]
    BY <1>1, <1>3, <1>8
  <1> QED
    BY <1>7, <1>9, <1>10, <1>11

LEMMA ReturnedFrames ==
  ASSUME IInv, Len(frames) > 1, NEW r, NEW k \in 1 .. Len(frames) - 1
  PROVE  /\ k + 1 \in DOMAIN frames
         /\ Returned(r)[k].table = frames[k + 1].table
         /\ Returned(r)[k].stored = frames[k + 1].stored
         /\ Returned(r)[k].op_stack = IF k = 1 THEN r \o frames[2].op_stack
                                      ELSE frames[k + 1].op_stack
  <1>1. k + 1 \in DOMAIN frames
    BY FirstFrame
  <1>2. PICK fs : fs = Returned(r)
    OBVIOUS
  <1>3. CASE k = 1
    <2>1. fs[1] = [op_stack |-> r \o frames[2].op_stack,
                   table |-> frames[2].table, stored |-> frames[2].stored]
      BY <1>2, ReturnedIs
    <2>2. /\ fs[1].op_stack = r \o frames[2].op_stack
          /\ fs[1].table = frames[2].table /\ fs[1].stored = frames[2].stored
      BY <2>1
    <2> QED
      BY <1>1, <1>2, <1>3, <2>2
  <1>4. CASE k # 1
    <2>1. k \in 2 .. Len(frames) - 1
      BY <1>4, FirstFrame
    <2>2. fs[k] = frames[k + 1]
      BY <1>2, <2>1, ReturnedIs
    <2> QED
      BY <1>1, <1>2, <1>4, <2>2
  <1> QED
    BY <1>3, <1>4

LEMMA ReturnedTyped ==
  ASSUME IInv, Len(frames) > 1, NEW bs, Extends(bs), NEW r \in Seq(Loose(Len(bs)))
  PROVE  WellFormed(Returned(r), cell, bs) /\ Owned(Returned(r), cell)
  <1>1. /\ Len(frames) \in Nat \ {0} /\ DOMAIN frames = 1 .. Len(frames)
        /\ Len(box) \in Nat /\ cell \in [Cells -> Loose(Len(box))]
    BY FirstFrame
  <1>2. bs \in Seq(Value) /\ Len(box) =< Len(bs) /\ Len(bs) \in Nat
    BY DEF Extends
  <1>3. /\ Seq(Loose(Len(box))) \subseteq Seq(Loose(Len(bs)))
        /\ [Cells -> Loose(Len(box))] \subseteq [Cells -> Loose(Len(bs))]
    BY <1>1, <1>2, LooseMonotonic
  <1>4. \A n : Loose(n) \subseteq Oops(n)
    BY DEF Loose
  <1>5. Seq(Loose(Len(bs))) \subseteq Seq(Oops(Len(bs)))
    BY <1>4, SeqMonotonic
  <1>6. PICK fs : fs = Returned(r)
    OBVIOUS
  <1>7. /\ DOMAIN fs = 1 .. Len(frames) - 1
        /\ fs = [k \in 1 .. Len(frames) - 1 |-> fs[k]]
    BY <1>6, ReturnedIs
  <1>8. \A k \in 1 .. Len(frames) - 1 :
          /\ k + 1 \in DOMAIN frames
          /\ fs[k].table = frames[k + 1].table
          /\ fs[k].stored = frames[k + 1].stored
          /\ fs[k].op_stack = IF k = 1 THEN r \o frames[2].op_stack
                              ELSE frames[k + 1].op_stack
    BY <1>6, ReturnedFrames
  <1>9. 2 \in DOMAIN frames /\ 1 \in 1 .. Len(frames) - 1
    BY <1>1
  <1>10. \A k \in DOMAIN frames : frames[k].op_stack \in Seq(Loose(Len(bs)))
    BY <1>3, OperandsAreLoose
  <1>11. PICK s : s = r \o frames[2].op_stack
    OBVIOUS
  <1>12. s \in Seq(Loose(Len(bs)))
    <2>1. PICK t \in Seq(Loose(Len(bs))) : t = frames[2].op_stack
      BY <1>9, <1>10
    <2>2. r \o t \in Seq(Loose(Len(bs)))
      OBVIOUS
    <2> QED
      BY <1>11, <2>1, <2>2
  <1>13. \A k \in 1 .. Len(frames) - 1 : fs[k].op_stack \in Seq(Loose(Len(bs)))
    BY <1>8, <1>10, <1>11, <1>12
  <1>14. \A k \in 1 .. Len(frames) - 1 : fs[k] \in Frame(Len(bs))
    <2> TAKE k \in 1 .. Len(frames) - 1
    <2>1. frames[k + 1] \in Frame(Len(box))
      BY <1>8, FirstFrame
    <2>2. /\ frames[k + 1].table \in [Local -> Oops(Len(box))]
          /\ frames[k + 1].stored \in SUBSET Local
      BY <2>1 DEF Frame
    <2>3. Oops(Len(box)) \subseteq Oops(Len(bs))
      BY <1>1, <1>2 DEF Oops, Null
    <2>4. frames[k + 1].table \in [Local -> Oops(Len(bs))]
      BY <2>2, <2>3
    <2>5. fs[k].op_stack \in Seq(Oops(Len(bs)))
      BY <1>5, <1>13
    <2>6. fs[k] = [op_stack |-> fs[k].op_stack, table |-> fs[k].table,
                   stored |-> fs[k].stored]
      <3>1. CASE k = 1
        <4>1. fs[1] = [op_stack |-> s, table |-> frames[2].table,
                       stored |-> frames[2].stored]
          BY <1>6, <1>11, ReturnedIs
        <4> QED
          BY <3>1, <4>1
      <3>2. CASE k # 1
        <4>1. k \in 2 .. Len(frames) - 1
          BY <1>1, <3>2
        <4>2. fs[k] = frames[k + 1]
          BY <1>6, <4>1, ReturnedIs
        <4> QED
          BY <2>1, <4>2 DEF Frame
      <3> QED
        BY <3>1, <3>2
    <2>7. [op_stack |-> fs[k].op_stack, table |-> fs[k].table, stored |-> fs[k].stored]
            \in Frame(Len(bs))
      BY <1>8, <2>2, <2>4, <2>5 DEF Frame
    <2> QED
      BY <2>6, <2>7
  <1>15. fs \in Seq(Frame(Len(bs))) /\ fs # <<>>
    <2>1. PICK F : F = Frame(Len(bs))
      OBVIOUS
    <2>2. PICK N \in Nat \ {0} : N = Len(frames) - 1
      <3>1. \A n \in Nat : n > 1 => n - 1 \in Nat \ {0}
        OBVIOUS
      <3> QED
        BY <1>1, <3>1
    <2>3. fs = [k \in 1 .. N |-> fs[k]] /\ \A k \in 1 .. N : fs[k] \in F
      BY <1>7, <1>14, <2>1, <2>2
    <2>4. fs \in Seq(F) /\ Len(fs) = N
      BY ONLY <2>2, <2>3
    <2> QED
      BY <2>1, <2>2, <2>4
  <1>16. WellFormed(fs, cell, bs)
    <2>1. cell \in [Cells -> Oops(Len(bs))]
      BY <1>1, <1>3, <1>4
    <2> QED
      BY <1>2, <1>15, <2>1 DEF WellFormed
  <1>17. Owned(fs, cell)
    <2> SUFFICES ASSUME NEW k \in DOMAIN fs, NEW i \in fs[k].stored, IsBox(fs[k].table[i])
                 PROVE  /\ \A c \in Cells : cell[c] # fs[k].table[i]
                        /\ \A j \in DOMAIN fs :
                             /\ \A m \in DOMAIN fs[j].op_stack :
                                  fs[j].op_stack[m] # fs[k].table[i]
                             /\ \A l \in Local :
                                  fs[j].table[l] = fs[k].table[i] => j = k /\ l = i
      BY DEF Owned
    <2>1. k \in 1 .. Len(frames) - 1
      BY <1>7
    <2>2. PICK p \in DOMAIN frames : p = k + 1
      BY <1>8, <2>1
    <2>3. PICK b : b = frames[p].table[i]
      OBVIOUS
    <2>4. i \in frames[p].stored /\ b = fs[k].table[i] /\ IsBox(b)
      BY <1>8, <2>1, <2>2, <2>3
    <2>5. /\ \A c \in Cells : cell[c] # b
          /\ \A j \in DOMAIN frames : \A l \in Local :
               frames[j].table[l] = b => j = p /\ l = i
      <3>1. /\ Owned(frames, cell) /\ IsBox(frames[p].table[i])
            /\ p \in DOMAIN frames /\ i \in frames[p].stored
        BY <2>3, <2>4 DEF IInv
      <3>2. /\ \A c \in Cells : cell[c] # frames[p].table[i]
            /\ \A j \in DOMAIN frames : \A l \in Local :
                 frames[j].table[l] = frames[p].table[i] => j = p /\ l = i
        BY ONLY <3>1, Zenon DEF Owned
      <3> QED
        BY ONLY <2>3, <3>2
    <2>6. \A oop \in Loose(Len(bs)) : oop # b
      BY <2>3, <2>4 DEF Loose
    <2>7. ASSUME NEW j \in DOMAIN fs
          PROVE  /\ \A m \in DOMAIN fs[j].op_stack : fs[j].op_stack[m] # b
                 /\ \A l \in Local : fs[j].table[l] = b => j = k /\ l = i
      <3>1. j \in 1 .. Len(frames) - 1
        BY <1>7
      <3>2. \A m \in DOMAIN fs[j].op_stack : fs[j].op_stack[m] \in Loose(Len(bs))
        <4>1. PICK q \in Seq(Loose(Len(bs))) : q = fs[j].op_stack
          BY <1>13, <3>1
        <4> QED
          BY <4>1
      <3>3. \A l \in Local : fs[j].table[l] = b => j + 1 = p /\ l = i
        BY <1>8, <2>5, <3>1
      <3> QED
        BY <2>1, <2>2, <2>6, <3>1, <3>2, <3>3
    <2> QED
      BY <2>4, <2>5, <2>7
  <1> QED
    BY <1>6, <1>16, <1>17

LEMMA ReturnedMeans ==
  ASSUME IInv, Len(frames) > 1, NEW bs, Extends(bs), NEW r \in Seq(Loose(Len(bs)))
  PROVE  MeanFrames(Returned(r), bs)
           = [Tail(MeantFrames) EXCEPT ![1].stack = MeanAll(r, bs) \o @]
  <1>1. /\ Len(frames) \in Nat \ {0} /\ DOMAIN frames = 1 .. Len(frames)
        /\ Len(box) \in Nat /\ Len(bs) \in Nat /\ Len(box) =< Len(bs)
    BY FirstFrame DEF Extends
  <1>2. PICK fs : fs = Returned(r)
    OBVIOUS
  <1>3. DOMAIN fs = 1 .. Len(frames) - 1
    BY <1>2, ReturnedIs
  <1>4. PICK g : g = MeantFrames
    OBVIOUS
  <1>5. g = [k \in 1 .. Len(frames) |-> MeanFrame(frames[k], box)]
    BY <1>1, <1>4, MeantIsMean DEF MeanFrames
  <1>6. Tail(g) = [k \in 1 .. Len(frames) - 1 |-> MeanFrame(frames[k + 1], box)]
    <2>1. PICK S : S = {MeanFrame(frames[k], box) : k \in 1 .. Len(frames)}
      OBVIOUS
    <2>2. g \in Seq(S) /\ Len(g) = Len(frames)
      BY <1>1, <1>5, <2>1
    <2>3. Tail(g) = [k \in 1 .. Len(frames) - 1 |-> g[k + 1]]
      BY <2>2, TailIs
    <2>4. \A k \in 1 .. Len(frames) - 1 : g[k + 1] = MeanFrame(frames[k + 1], box)
      BY <1>1, <1>5
    <2> QED
      BY <2>3, <2>4
  <1>7. PICK t : t = Tail(g)
    OBVIOUS
  <1>8. \A k \in 1 .. Len(frames) - 1 :
          /\ k + 1 \in DOMAIN frames
          /\ fs[k].table = frames[k + 1].table
          /\ fs[k].op_stack = IF k = 1 THEN r \o frames[2].op_stack
                              ELSE frames[k + 1].op_stack
    BY <1>2, ReturnedFrames
  <1>9. \A k \in DOMAIN frames : MeanFrame(frames[k], bs) = MeanFrame(frames[k], box)
    BY ExtendedMeans
  <1>10. 1 \in 1 .. Len(frames) - 1 /\ 2 \in DOMAIN frames
    BY <1>1
  <1>11. MeanAll(r \o frames[2].op_stack, bs)
           = MeanAll(r, bs) \o MeanFrame(frames[2], box).stack
    <2>1. PICK s : s = frames[2].op_stack
      OBVIOUS
    <2>2. s \in Seq(Loose(Len(box)))
      BY <1>10, <2>1, OperandsAreLoose
    <2>3. s \in Seq(Loose(Len(bs)))
      BY <1>1, <2>2, LooseMonotonic
    <2>4. MeanAll(r \o s, bs) = MeanAll(r, bs) \o MeanAll(s, bs)
      BY <2>3, MeanAllConcat
    <2>5. MeanAll(s, bs) = MeanFrame(frames[2], box).stack
      BY <2>1, <2>2, ExtendedMeansAll DEF MeanFrame
    <2> QED
      BY <2>1, <2>4, <2>5
  <1>12. PICK f : f = [t[1] EXCEPT !.stack = MeanAll(r, bs) \o @]
    OBVIOUS
  <1>13. t[1] = MeanFrame(frames[2], box)
    <2>1. \A k \in 1 .. Len(frames) - 1 : t[k] = MeanFrame(frames[k + 1], box)
      BY <1>6, <1>7
    <2>2. t[1] = MeanFrame(frames[1 + 1], box) /\ 1 + 1 = 2
      BY <1>10, <2>1
    <2> QED
      BY <2>2
  <1>14. MeanFrame(fs[1], bs) = f
    <2>1. fs[1].op_stack = r \o frames[2].op_stack /\ fs[1].table = frames[2].table
      <3>1. fs[1].op_stack = r \o frames[2].op_stack /\ fs[1].table = frames[1 + 1].table
        BY <1>8, <1>10
      <3>2. 1 + 1 = 2
        OBVIOUS
      <3> QED
        BY <3>1, <3>2
    <2>2. MeanFrame(fs[1], bs) = [stack |-> MeanAll(r \o frames[2].op_stack, bs),
                                  local |-> [i \in Local |-> Mean(frames[2].table[i], bs)]]
      BY <2>1 DEF MeanFrame
    <2>3. MeanFrame(frames[2], bs).local = [i \in Local |-> Mean(frames[2].table[i], bs)]
      BY DEF MeanFrame
    <2>4. MeanFrame(frames[2], bs).local = MeanFrame(frames[2], box).local
      BY <1>9, <1>10
    <2>5. t[1] = [stack |-> t[1].stack, local |-> t[1].local]
      BY <1>13 DEF MeanFrame
    <2>6. f = [stack |-> MeanAll(r, bs) \o t[1].stack, local |-> t[1].local]
      BY <1>12, <2>5
    <2> QED
      BY <1>11, <1>13, <2>2, <2>3, <2>4, <2>6
  <1>15. \A k \in 2 .. Len(frames) - 1 : MeanFrame(fs[k], bs) = t[k]
    <2> TAKE k \in 2 .. Len(frames) - 1
    <2>1. k \in 1 .. Len(frames) - 1 /\ k + 1 \in DOMAIN frames
      BY <1>1
    <2>2. fs[k] = frames[k + 1]
      BY <1>2, ReturnedIs
    <2>3. t[k] = MeanFrame(frames[k + 1], box)
      BY <1>6, <1>7, <2>1
    <2> QED
      BY <1>9, <2>1, <2>2, <2>3
  <1>16. MeanFrames(fs, bs) = [t EXCEPT ![1] = f]
    <2>1. DOMAIN t = 1 .. Len(frames) - 1 /\ t = [k \in 1 .. Len(frames) - 1 |-> t[k]]
      BY <1>6, <1>7
    <2>2. \A k \in 1 .. Len(frames) - 1 : k # 1 => k \in 2 .. Len(frames) - 1
      BY <1>1
    <2> QED
      BY <1>3, <1>10, <1>14, <1>15, <2>1, <2>2 DEF MeanFrames
  <1>17. [t EXCEPT ![1] = f] = [t EXCEPT ![1].stack = MeanAll(r, bs) \o @]
    BY <1>12
  <1> QED
    BY <1>2, <1>4, <1>7, <1>16, <1>17

LEMMA ReturnedDone ==
  ASSUME IInv, Len(frames) > 1, NEW bs, Extends(bs), NEW r \in Seq(Loose(Len(bs))),
         Become(Returned(r), cell, bs),
         \/ MeanAll(r, bs) = <<>>
         \/ Java!stack # <<>> /\ MeanAll(r, bs) = <<Head(Java!stack)>>
  PROVE  Done
  <1>1. WellFormed(Returned(r), cell, bs) /\ Owned(Returned(r), cell)
    BY ReturnedTyped
  <1>2. IInv'
    BY <1>1, BecomeKeeps
  <1>3. MeantFrames' = MeanFrames(Returned(r), bs) /\ MeantCells' = MeanCells(cell, bs)
    BY <1>1, BecomeMeans
  <1>4. MeantCells' = MeantCells
    BY <1>3, ExtendedMeans
  <1>5. PICK result : result = MeanAll(r, bs)
    OBVIOUS
  <1>6. MeantFrames' = [Tail(MeantFrames) EXCEPT ![1].stack = result \o @]
    BY <1>3, <1>5, ReturnedMeans
  <1>7. Len(MeantFrames) > 1
    <2>1. MeantFrames = [k \in 1 .. Len(frames) |-> MeanFrame(frames[k], box)]
      BY FirstFrame, MeantIsMean DEF MeanFrames
    <2>2. Len(MeantFrames) = Len(frames)
      BY <2>1, FirstFrame
    <2> QED
      BY <2>2
  <1>8. result \in {<<>>} \union (IF Java!stack = <<>> THEN {} ELSE {<<Head(Java!stack)>>})
    BY <1>5
  <1>9. Java!Return
    BY <1>4, <1>6, <1>7, <1>8 DEF Java!Return
  <1> QED
    BY <1>2, <1>9 DEF Done, Java!Unnamed

LEMMA returnDone ==
  ASSUME IInv, xreturn \/ areturn \/ return
  PROVE  Done
  <1>1. Len(box) \in Nat /\ Extends(box)
    BY FirstFrame, BoxExtends
  <1>2. Len(frames) > 1
    BY DEF xreturn, areturn, return
  <1>3. CASE xreturn
    <2>1. op_stack # <<>> /\ IsBox(Head(op_stack))
      BY <1>3 DEF xreturn
    <2>2. /\ Head(op_stack) = op_stack[1] /\ Head(Java!stack) = Java!stack[1]
          /\ 1 \in 1 .. Len(op_stack) /\ Java!stack # <<>>
      BY <2>1, TopIs
    <2>3. /\ Head(op_stack) \in Oops(Len(box))
          /\ Head(Java!stack) = Mean(Head(op_stack), box)
      BY <2>2, OperandIs
    <2>4. PICK v \in Value : v = box[Head(op_stack)] /\ v = Head(Java!stack)
      BY <2>1, <2>3, BoxValue
    <2>5. PICK bs : bs = Append(box, v)
      OBVIOUS
    <2>6. Extends(bs) /\ Len(bs) = Len(box) + 1 /\ Mean(Fresh(1), bs) = v
      BY <2>5, AppendExtends
    <2>7. PICK oop \in Loose(Len(bs)) : oop = Fresh(1)
      BY <1>1, <2>6, FreshIsLoose
    <2>8. <<oop>> \in Seq(Loose(Len(bs))) /\ MeanAll(<<oop>>, bs) = <<Head(Java!stack)>>
      <3>1. Mean(oop, bs) = Head(Java!stack)
        BY <2>4, <2>6, <2>7
      <3> QED
        BY <3>1 DEF MeanAll
    <2>9. Become(Returned(<<oop>>), cell, bs)
      BY <1>3, <2>4, <2>5, <2>7 DEF xreturn
    <2> QED
      BY <1>2, <2>2, <2>6, <2>8, <2>9, ReturnedDone
  <1>4. CASE areturn
    <2>1. op_stack # <<>> /\ Become(Returned(<<Head(op_stack)>>), cell, box)
      BY <1>4 DEF areturn
    <2>2. /\ Head(op_stack) = op_stack[1] /\ Head(Java!stack) = Java!stack[1]
          /\ 1 \in 1 .. Len(op_stack) /\ Java!stack # <<>>
      BY <2>1, TopIs
    <2>3. PICK oop \in Loose(Len(box)) : oop = Head(op_stack) /\ Head(Java!stack) = Mean(oop, box)
      BY <2>2, OperandIs
    <2>4. <<oop>> \in Seq(Loose(Len(box))) /\ MeanAll(<<oop>>, box) = <<Head(Java!stack)>>
      BY <2>3 DEF MeanAll
    <2> QED
      BY <1>1, <1>2, <2>1, <2>2, <2>3, <2>4, ReturnedDone
  <1>5. CASE return
    <2>1. <<>> \in Seq(Loose(Len(box))) /\ MeanAll(<<>>, box) = <<>>
      BY DEF MeanAll
    <2> QED
      BY <1>1, <1>2, <1>5, <2>1, ReturnedDone DEF return
  <1> QED
    BY <1>3, <1>4, <1>5

-----------------------------------------------------------------------------
LEMMA InitInv ==
  ASSUME Init
  PROVE  IInv
  <1>1. /\ box = Zeros /\ cell = [c \in Cells |-> c]
        /\ frames = <<[op_stack |-> <<>>, table |-> [i \in Local |-> Null],
                       stored |-> {}]>>
    BY DEF Init
  <1>2. IntOop(0) \in Value
    BY IntIs
  <1>3. box \in Seq(Value) /\ Len(box) = MaxCells /\ MaxCells \in Nat
    BY <1>1, <1>2, BoxesAssumption DEF Zeros, Cells
  <1>4. cell \in [Cells -> Oops(MaxCells)]
    BY <1>1, <1>3 DEF Cells, Oops, Null
  <1>5. PICK f : f = [op_stack |-> <<>>, table |-> [i \in Local |-> Null], stored |-> {}]
    OBVIOUS
  <1>6. f \in Frame(MaxCells) /\ f.stored = {}
    <2>1. Null \in Oops(MaxCells)
      BY <1>3 DEF Oops, Null
    <2>2. [i \in Local |-> Null] \in [Local -> Oops(MaxCells)]
      BY <2>1
    <2>3. <<>> \in Seq(Oops(MaxCells)) /\ {} \in SUBSET Local
      OBVIOUS
    <2> QED
      BY <1>5, <2>2, <2>3 DEF Frame
  <1>7. frames = <<f>> /\ frames \in Seq(Frame(MaxCells)) /\ frames # <<>>
    BY <1>1, <1>5, <1>6
  <1>8. TypeOK
    BY <1>3, <1>4, <1>7 DEF TypeOK, WellFormed
  <1>9. \A k \in DOMAIN frames : frames[k].stored = {}
    BY <1>6, <1>7
  <1>10. Owned(frames, cell)
    BY <1>9 DEF Owned
  <1> QED
    BY <1>8, <1>10 DEF IInv

LEMMA InitMeans ==
  ASSUME Init
  PROVE  Java!Init
  <1>1. /\ box = Zeros /\ cell = [c \in Cells |-> c]
        /\ frames = <<[op_stack |-> <<>>, table |-> [i \in Local |-> Null],
                       stored |-> {}]>>
    BY DEF Init
  <1>2. IInv
    BY InitInv
  <1>3. IntOop(0) = Java!I(0)
    BY IntIs
  <1>4. MeantCells = [c \in Cells |-> Java!I(0)]
    <2>1. \A c \in Cells : Mean(cell[c], box) = Java!I(0)
      BY <1>1, <1>3, BoxesAssumption DEF Mean, Null, Ref, Zeros, Cells
    <2> QED
      BY <2>1, MeantIsMean DEF MeanCells
  <1>5. PICK f : f = [op_stack |-> <<>>, table |-> [i \in Local |-> Null], stored |-> {}]
    OBVIOUS
  <1>6. PICK g : g = [stack |-> <<>>, local |-> [i \in Local |-> Java!Null]]
    OBVIOUS
  <1>7. MeanFrame(f, box) = g
    <2>1. MeanAll(<<>>, box) = <<>>
      BY DEF MeanAll
    <2>2. Mean(Null, box) = Java!Null
      BY DEF Mean, Null, Java!Null
    <2> QED
      BY <1>5, <1>6, <2>1, <2>2 DEF MeanFrame
  <1>8. MeanFrames(frames, box) = <<g>>
    <2>1. frames = <<f>>
      BY <1>1, <1>5
    <2>2. MeanFrames(frames, box) = [k \in {1} |-> g]
      BY <1>7, <2>1 DEF MeanFrames
    <2> QED
      BY <2>2
  <1>9. literal = Java!NoLiteral
    BY DEF Init, NoLiteral, Java!NoLiteral
  <1> QED
    BY <1>4, <1>6, <1>8, <1>9, MeantIsMean DEF Java!Init, Java!Local, Local

(* The actions that name no constant.                                      *)
LEMMA UnnamedDone ==
  ASSUME IInv, Next, ~(xconst \/ ldc)
  PROVE  Done
  <1>1. CASE aconst_null \/ ldc_object \/ xload \/ xload_n \/ aload \/ aload_n
    BY <1>1, aconst_nullDone, ldc_objectDone, LoadsDone
  <1>2. CASE xstore \/ xstore_n \/ astore \/ astore_n \/ iinc
    BY <1>2, StoresDone, iincDone
  <1>3. CASE \/ xaload \/ aaload \/ getField \/ getStatic
             \/ JVM_GetIntVolatile \/ JVM_GetObjectVolatile
    BY <1>3, FetchesDone, getStaticDone
  <1>4. CASE xastore \/ aastore \/ putField \/ putStatic \/ JVM_PutObject
    BY <1>4, PutsDone
  <1>5. CASE pop \/ pop2 \/ dup \/ dup_x1 \/ dup_x2 \/ dup2 \/ dup2_x1 \/ dup2_x2 \/ iadd
    BY <1>5, popDone, dupDone, dup2Done, iaddDone
  <1>6. CASE invoke \/ xreturn \/ areturn \/ return
    BY <1>6, invokeDone, returnDone
  <1>7. CASE JVM_CompareAndSwapInt \/ JVM_CompareAndSwapObject \/ new
    BY <1>7, JVM_CompareAndSwapIntDone, JVM_CompareAndSwapObjectDone, newDone
  <1> QED
    BY <1>1, <1>2, <1>3, <1>4, <1>5, <1>6, <1>7 DEF Next

LEMMA NamesNone ==
  ASSUME Next, ~(xconst \/ ldc)
  PROVE  literal' = Java!NoLiteral
  <1>1. \A fs, cs, bs : Become(fs, cs, bs) => literal' = Java!NoLiteral
    BY DEF Become, NoLiteral, Java!NoLiteral
  <1>2. CASE aconst_null \/ ldc_object \/ xload \/ xload_n \/ aload \/ aload_n
    BY <1>1, <1>2 DEF aconst_null, ldc_object, xload, xload_n, aload, aload_n,
                      LoadCopy, LoadPointer, PopPushNew, PopPush
  <1>3. CASE xstore \/ xstore_n \/ astore \/ astore_n \/ iinc
    BY <1>1, <1>3 DEF xstore, xstore_n, astore, astore_n, iinc, StoreCopy, StorePointer
  <1>4. CASE xaload \/ aaload \/ xastore \/ aastore
    BY <1>1, <1>4 DEF xaload, aaload, xastore, aastore, PopPushNew, PopPush
  <1>5. CASE getField \/ putField \/ getStatic \/ putStatic
    BY <1>1, <1>5 DEF getField, putField, getStatic, putStatic, PopPush
  <1>6. \A k, l, narrow, s : DupAs(k, l, narrow, s) => literal' = Java!NoLiteral
    BY <1>1 DEF DupAs
  <1>7. CASE pop \/ pop2 \/ dup \/ dup_x1 \/ dup_x2 \/ dup2 \/ dup2_x1 \/ dup2_x2
    BY <1>1, <1>6, <1>7
    DEF pop, pop2, dup, dup_x1, dup_x2, dup2, dup2_x1, dup2_x2, DupUnder
  <1>8. CASE iadd \/ invoke \/ xreturn \/ areturn \/ return
    BY <1>1, <1>8 DEF iadd, invoke, xreturn, areturn, return, PopPushNew
  <1>9. CASE JVM_CompareAndSwapInt \/ JVM_CompareAndSwapObject \/ new
    BY <1>1, <1>9 DEF JVM_CompareAndSwapInt, JVM_CompareAndSwapObject, new
  <1>10. CASE JVM_GetIntVolatile \/ JVM_GetObjectVolatile \/ JVM_PutObject
    BY <1>1, <1>10 DEF JVM_GetIntVolatile, JVM_GetObjectVolatile, JVM_PutObject,
                       PopPushNew, PopPush
  <1> QED
    BY <1>2, <1>3, <1>4, <1>5, <1>7, <1>8, <1>9, <1>10 DEF Next

LEMMA NextDone ==
  ASSUME IInv, Next
  PROVE  IInv' /\ (~AllPrograms => Java!Next)
  <1>1. CASE xconst \/ ldc
    BY <1>1, ConstantsDone DEF Java!Next
  <1>2. CASE ~(xconst \/ ldc)
    BY <1>2, UnnamedDone, NamesNone DEF Done, Java!Next
  <1> QED
    BY <1>1, <1>2

LEMMA StutterDone ==
  ASSUME IInv, UNCHANGED vars
  PROVE  IInv' /\ UNCHANGED <<MeantFrames, MeantCells, literal>>
  <1>1. frames' = frames /\ cell' = cell /\ box' = box /\ literal' = literal
    BY DEF vars
  <1>2. IInv'
    BY <1>1 DEF IInv, TypeOK
  <1>3. (MeantFrames = MeanFrames(frames, box) /\ MeantCells = MeanCells(cell, box))'
    BY MeantIsMean, PTL
  <1> QED
    BY <1>1, <1>2, <1>3, MeantIsMean

(* In every program, each oop is null, the object or a box there is, each  *)
(* box holds a value, and the box of a variable that an instruction has    *)
(* stored is held by that variable alone.                                  *)
THEOREM Invariant == Spec => []IInv
  <1>1. Init => IInv
    BY InitInv
  <1>2. IInv /\ [Next]_vars => IInv'
    BY NextDone, StutterDone
  <1> QED
    BY <1>1, <1>2, PTL DEF Spec

(* iinc changes a stored variable's value in the box itself: nobody else   *)
(* sees it, in any program.                                                *)
THEOREM StoredLocalsStayOwned == Spec => []StoredLocalsAreOwned
  <1>1. IInv => StoredLocalsAreOwned
    BY DEF IInv, Owned, StoredLocalsAreOwned
  <1> QED
    BY <1>1, Invariant, PTL

(* Of programs that increment only variables they have stored, swap        *)
(* integers in fields whose boxes nobody else holds, duplicate no float or *)
(* long, and name no double but by ldc2_w and one that a float is, every   *)
(* step is one the machine of values takes, or none.                       *)
THEOREM BoxesImplementJava ==
  ASSUME ~AllPrograms
  PROVE  Spec => ImplementsJava
  <1>1. Init => Java!Init
    BY InitMeans
  <1>2. IInv /\ [Next]_vars => [Java!Next]_(Java!vars)
    <2>1. IInv /\ Next => Java!Next
      BY NextDone
    <2>2. IInv /\ UNCHANGED vars => UNCHANGED Java!vars
      BY StutterDone DEF Java!vars
    <2> QED
      BY <2>1, <2>2
  <1> QED
    BY <1>1, <1>2, Invariant, PTL DEF Spec, ImplementsJava, Java!Spec
=============================================================================
