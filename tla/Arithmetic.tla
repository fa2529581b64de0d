----------------------------- MODULE Arithmetic -----------------------------
(***************************************************************************)
(* The arithmetic, conversion, comparison and branch instructions of the   *)
(* bytecode engine, one executed on any operands: what C++ computes on the *)
(* machine, against what java defines.  An int has IntBits bits, a long    *)
(* LongBits; byte, short and char have a quarter and a half of an int's.   *)
(* A float is an integer, or one of the three numbers the engine takes for *)
(* infinity, NaN and minus infinity: the bit patterns of those, but read   *)
(* as numbers, in this order.  Floats and doubles are implemented alike.   *)
(***************************************************************************)
EXTENDS Integers, Sequences, Bitwise

CONSTANTS IntBits, LongBits,  \* widths, powers of two
          Ints, Longs,        \* operands
          Floats,             \* operands that are ordinary numbers
          Labels              \* labels of switches

ASSUME ArithmeticAssumption ==
  /\ IntBits \in Nat \ {0} /\ LongBits \in Nat \ {0} /\ IntBits =< LongBits
  /\ Ints \subseteq -(2^(IntBits - 1)) .. 2^(IntBits - 1) - 1
  /\ Longs \subseteq -(2^(LongBits - 1)) .. 2^(LongBits - 1) - 1
  /\ Floats \subseteq Int /\ Labels \subseteq Ints

VARIABLES opcode, \* the instruction that has been executed, and its type
          popped, \* its operands, the top one last
          pushed  \* its result; <<>> when the processor traps

vars == <<opcode, popped, pushed>>

INT_MIN == -(2^(IntBits - 1))
INT_MAX == 2^(IntBits - 1) - 1

Bits(T) == IF T = "int" THEN IntBits ELSE LongBits

(* The number n in the low bits of a word, read with its sign.             *)
Wrap(bits, n) == LET u == n % 2^bits IN IF u < 2^(bits - 1) THEN u ELSE u - 2^bits

(* Division rounds towards zero, and traps where its result does not fit.  *)
Abs(a) == IF a < 0 THEN -a ELSE a
Quot(a, b) == IF (a < 0) = (b < 0) THEN Abs(a) \div Abs(b) ELSE -(Abs(a) \div Abs(b))
Traps(bits, a, b) == b = 0 \/ (a = -(2^(bits - 1)) /\ b = -1)

(* The machine shifts by the count modulo the width.                       *)
Shl(bits, a, s) == Wrap(bits, a * 2^(s % bits))
Shr(a, s) == a \div 2^s

-----------------------------------------------------------------------------
Ready == opcode = <<>>

Typed(T) == IF T = "int" THEN Ints ELSE Longs

Executed(op, operands, result) ==
  /\ opcode' = op
  /\ popped' = operands
  /\ pushed' = result

(* An instruction of two operands of one type.                             *)
Binary(op, T, Result(_, _)) ==
  /\ Ready
  /\ \E val1, val2 \in Typed(T) :
       Executed(<<op, T>>, <<val1, val2>>, <<Wrap(Bits(T), Result(val1, val2))>>)

Types == {"int", "long"}

xadd == \E T \in Types : Binary("add", T, LAMBDA val1, val2 : val2 + val1)
xsub == \E T \in Types : Binary("sub", T, LAMBDA val1, val2 : val1 - val2)
xmul == \E T \in Types : Binary("mul", T, LAMBDA val1, val2 : val1 * val2)

xdiv ==
  /\ Ready
  /\ \E T \in Types : \E val1, val2 \in Typed(T) :
       Executed(<<"div", T>>, <<val1, val2>>,
                IF val1 = -(2^(Bits(T) - 1)) /\ val2 = -1 THEN <<val1>>
                ELSE IF Traps(Bits(T), val1, val2) THEN <<>>
                ELSE <<Quot(val1, val2)>>)

(* The assertions divide too, also where the division traps.               *)
xrem ==
  /\ Ready
  /\ \E T \in Types : \E val1, val2 \in Typed(T) :
       Executed(<<"rem", T>>, <<val1, val2>>,
                IF Traps(Bits(T), val1, val2) THEN <<>>
                ELSE <<val1 - Quot(val1, val2) * val2>>)

xneg ==
  /\ Ready
  /\ \E T \in Types : \E val \in Typed(T) :
       Executed(<<"neg", T>>, <<val>>, <<Wrap(Bits(T), -val)>>)

(* The shifts: the count is an int.                                        *)
Shift(op, Result(_, _, _)) ==
  /\ Ready
  /\ \E T \in Types : \E val1 \in Typed(T), val2 \in Ints :
       Executed(<<op, T>>, <<val1, val2>>, <<Result(T, val1, val2 % Bits(T))>>)

xshl == Shift("shl", LAMBDA T, val1, s : Shl(Bits(T), val1, s))
xshr == Shift("shr", LAMBDA T, val1, s : Shr(val1, s))

(* A mutant: the bits that come in from the left begin one place lower.    *)
Unsigned_OneBitLess(T, val1, s) ==
  IF val1 >= 0 THEN Shr(val1, s)
  ELSE Wrap(Bits(T), Shr(val1, s) + Shl(Bits(T), 1, -s - 1))

(* The sign bits that >> brings in are cleared by adding 2 << ~s.          *)
Unsigned(T, val1, s) ==
  IF val1 >= 0 THEN Shr(val1, s)
  ELSE Wrap(Bits(T), Shr(val1, s) + Shl(Bits(T), 2, -s - 1))

xushr == Shift("ushr", Unsigned)

Bitwise2(op, Result(_, _)) ==
  \E T \in Types :
    Binary(op, T, LAMBDA val1, val2 : Result(val2 % 2^Bits(T), val1 % 2^Bits(T)))

xand == Bitwise2("and", LAMBDA a, b : a & b)
xor == Bitwise2("or", LAMBDA a, b : a | b)
xxor == Bitwise2("xor", LAMBDA a, b : a ^^ b)

(* Conversions of integers.                                                *)
i2l ==
  /\ Ready
  /\ \E val \in Ints : Executed(<<"i2l", "int">>, <<val>>, <<val>>)

l2i ==
  /\ Ready
  /\ \E val \in Longs : Executed(<<"l2i", "long">>, <<val>>, <<Wrap(IntBits, val)>>)

i2b ==
  /\ Ready
  /\ \E val \in Ints :
       Executed(<<"i2b", "int">>, <<val>>, <<Wrap(IntBits \div 4, val)>>)

i2c ==
  /\ Ready
  /\ \E val \in Ints :
       Executed(<<"i2c", "int">>, <<val>>, <<val % 2^(IntBits \div 2)>>)

i2s ==
  /\ Ready
  /\ \E val \in Ints :
       Executed(<<"i2s", "int">>, <<val>>, <<Wrap(IntBits \div 2, val)>>)

Compare(a, b) == IF a < b THEN -1 ELSE IF a > b THEN 1 ELSE 0

lcmp ==
  /\ Ready
  /\ \E val1, val2 \in Longs :
       Executed(<<"cmp", "long">>, <<val1, val2>>, <<Compare(val1, val2)>>)

-----------------------------------------------------------------------------
(* Floats.  The numbers stand for 0x7f800000, 0x7f880000 and 0xff800000;   *)
(* NAN is the processor's own, no comparison with which holds.             *)
FLOAT_INFINITY == 1009
FLOAT_NAN == 1013
FLOAT_NEGATIVE_INFINITY == 2027
NAN == 9999

Known == {FLOAT_INFINITY, FLOAT_NAN, FLOAT_NEGATIVE_INFINITY}
Infinite == {FLOAT_INFINITY, FLOAT_NEGATIVE_INFINITY}

Float(op, Result(_, _)) ==
  /\ Ready
  /\ \E val1, val2 \in Floats \union Known :
       Executed(<<op, "float">>, <<val1, val2>>, <<Result(val1, val2)>>)

Sum(val1, val2) ==
  CASE FLOAT_NAN \in {val1, val2} -> NAN
    [] {val1, val2} = Infinite -> NAN
    [] val2 \in Infinite -> val2
    [] val1 \in Infinite -> val1
    [] OTHER -> val2 + val1

(* Three of the tests for two infinities ask about val2 twice.             *)
BothInfinite(val1, val2) ==
  /\ val2 \in Infinite
  /\ val1 = FLOAT_INFINITY \/ val2 = FLOAT_NEGATIVE_INFINITY

Product(val1, val2) ==
  CASE FLOAT_NAN \in {val1, val2} -> FLOAT_NAN
    [] 0 \in {val1, val2} /\ {val1, val2} \intersect Infinite # {} -> FLOAT_NAN
    [] BothInfinite(val1, val2) ->
         IF val1 = val2 THEN FLOAT_INFINITY ELSE FLOAT_NEGATIVE_INFINITY
    [] OTHER -> val2 * val1

SignedInfinity(positive) ==
  IF positive THEN FLOAT_INFINITY ELSE FLOAT_NEGATIVE_INFINITY

(* val2, on top of the stack, is divided by val1.                          *)
Quotient(val1, val2) ==
  CASE FLOAT_NAN \in {val1, val2} -> FLOAT_NAN
    [] BothInfinite(val1, val2) -> FLOAT_NAN
    [] val2 \in Infinite /\ val1 \notin Infinite ->
         SignedInfinity((val2 > 0 /\ val1 > 0) \/ (val2 < 0 /\ val1 < 0))
    [] val2 \notin Infinite /\ val1 \in Infinite -> 0
    [] val1 = 0 /\ val2 = 0 -> FLOAT_NAN
    [] val2 = 0 /\ val1 \notin Infinite -> SignedInfinity(val1 > 0)
    [] val1 = 0 /\ val2 \notin Infinite -> SignedInfinity(val2 > 0)
    [] OTHER -> Quot(val2, val1)

fadd == Float("fadd", Sum)
dsub == Float("dsub", LAMBDA val1, val2 : val1 - val2)
fmul == Float("fmul", Product)
fdiv == Float("fdiv", Quotient)

(* fcmpl pushes -1, and fcmpg 1, when an operand is FLOAT_NAN.             *)
fcmp ==
  /\ Ready
  /\ \E unordered \in {-1, 1}, val1, val2 \in Floats \union Known :
       Executed(<<"fcmp", "float", unordered>>, <<val1, val2>>,
                <<IF FLOAT_NAN \in {val1, val2} THEN unordered ELSE Compare(val1, val2)>>)

f2i ==
  /\ Ready
  /\ \E val \in Floats \union Known :
       Executed(<<"f2i", "float">>, <<val>>,
                <<CASE val = FLOAT_NAN -> 0
                    [] val = FLOAT_INFINITY -> INT_MAX
                    [] val = FLOAT_NEGATIVE_INFINITY -> INT_MIN
                    [] OTHER -> val>>)

-----------------------------------------------------------------------------
(* Branches: the result is the address of the next instruction.  The loop  *)
(* adds the length of the instruction, which a branch has subtracted.      *)
Length == 3
Offsets == {-4, 5}
Here == 8                    \* address of the instruction
Loop(pc) == pc + Length

(* A mutant: the length, which the loop adds, is not subtracted.           *)
Branch_NotSubtracted(judge, offset) == Loop(IF judge THEN Here + offset ELSE Here)

Branch(judge, offset) == Loop(IF judge THEN Here + offset - Length ELSE Here)

Judge(condition, a, b) ==
  CASE condition = "eq" -> a = b
    [] condition = "ne" -> a # b
    [] condition = "lt" -> a < b
    [] condition = "ge" -> a >= b
    [] condition = "gt" -> a > b
    [] condition = "le" -> a =< b

Conditions == {"eq", "ne", "lt", "ge", "gt", "le"}

if_cond ==
  /\ Ready
  /\ \E condition \in Conditions, offset \in Offsets, val \in Ints :
       Executed(<<"if", condition, offset>>, <<val>>,
                <<Branch(Judge(condition, val, 0), offset)>>)

if_icmp ==
  /\ Ready
  /\ \E condition \in Conditions, offset \in Offsets, val1, val2 \in Ints :
       Executed(<<"if_icmp", condition, offset>>, <<val1, val2>>,
                <<Branch(Judge(condition, val1, val2), offset)>>)

(* References are compared by address.                                     *)
nullptr == 0

if_acmp ==
  /\ Ready
  /\ \E condition \in {"eq", "ne"}, offset \in Offsets, ref1, ref2 \in 0 .. 2 :
       Executed(<<"if_acmp", condition, offset>>, <<ref1, ref2>>,
                <<Branch(Judge(condition, ref1, ref2), offset)>>)

if_null ==
  /\ Ready
  /\ \E condition \in {"eq", "ne"}, offset \in Offsets, ref \in 0 .. 2 :
       Executed(<<"if_null", condition, offset>>, <<ref>>,
                <<Branch(Judge(condition, ref, nullptr), offset)>>)

goto ==
  /\ Ready
  /\ \E offset \in Offsets :
       Executed(<<"goto", "", offset>>, <<>>, <<Branch(TRUE, offset)>>)

(* A switch goes to the target, here a position, of its label, and to 0,   *)
(* the default, without one.  The key is looked at, and stays on the stack.*)
Default == 0

JumpTable(low, high) ==
  [n \in 0 .. high - low + 1 |-> IF n =< high - low THEN n + 1 ELSE Default]

TableTarget(low, high, key, limit) ==
  IF key > limit \/ key < low THEN Default ELSE JumpTable(low, high)[key - low]

(* The limit, the number of targets plus low, is one more than high: where *)
(* that overflows the compiler may compute either.                         *)
tableswitch ==
  /\ Ready
  /\ \E low, high \in Labels, key \in Ints :
       /\ low =< high
       /\ \E limit \in {high + 1, Wrap(IntBits, high + 1)} :
            Executed(<<"tableswitch", low, high>>, <<key>>,
                     <<TableTarget(low, high, key, limit)>>)

(* The default goes into the map as the target of INT_MAX, unless the      *)
(* switch has that label.                                                  *)
LookupTarget(labels, key) ==
  LET jump_tbl == [label \in DOMAIN labels \union {INT_MAX} |->
                    IF label \in DOMAIN labels THEN labels[label] ELSE Default]
  IN  IF key \in DOMAIN jump_tbl THEN jump_tbl[key] ELSE jump_tbl[INT_MAX]

lookupswitch ==
  /\ Ready
  /\ \E matches \in SUBSET Labels, key \in Ints :
       Executed(<<"lookupswitch", matches>>, <<key>>,
                <<LookupTarget([label \in matches |-> label - INT_MIN + 1], key)>>)

Init ==
  /\ opcode = <<>>
  /\ popped = <<>>
  /\ pushed = <<>>

Next ==
  \/ xadd \/ xsub \/ xmul \/ xdiv \/ xrem \/ xneg
  \/ xshl \/ xshr \/ xushr
  \/ xand \/ xor \/ xxor
  \/ i2l \/ l2i \/ i2b \/ i2c \/ i2s \/ lcmp
  \/ fadd \/ dsub \/ fmul \/ fdiv \/ fcmp \/ f2i
  \/ if_cond \/ if_icmp \/ if_acmp \/ if_null \/ goto
  \/ tableswitch \/ lookupswitch

Spec == Init /\ [][Next]_vars

-----------------------------------------------------------------------------
(* What java defines.  A word is known by the number its bits make, the    *)
(* quotient by the remainder it leaves, a shift by the bits it keeps.      *)
Same(bits, a, b) == (a - b) % 2^bits = 0

Fits(bits, a) == a \in -(2^(bits - 1)) .. 2^(bits - 1) - 1

BitOf(a, i) == (a \div 2^i) % 2

IsQuotient(a, b, q) ==
  LET r == a - b * q IN Abs(r) < Abs(b) /\ (r = 0 \/ (r < 0) = (a < 0))

IsRemainder(a, b, r) ==
  /\ Abs(r) < Abs(b) /\ (r = 0 \/ (r < 0) = (a < 0))
  /\ (a - r) % Abs(b) = 0

Shifted(op, bits, a, s, r) ==
  \A i \in 0 .. bits - 1 :
    BitOf(r, i) =
      CASE op = "shl" -> IF i >= s THEN BitOf(a, i - s) ELSE 0
        [] op = "shr" -> BitOf(a, IF i + s < bits THEN i + s ELSE bits - 1)
        [] op = "ushr" -> IF i + s < bits THEN BitOf(a, i + s) ELSE 0

IntegerOps ==
  {"add", "sub", "mul", "div", "rem", "neg", "shl", "shr", "ushr", "and", "or",
   "xor", "i2l", "l2i", "i2b", "i2c", "i2s", "cmp"}

(* Every integer instruction leaves the value java defines, at every width *)
(* and at its limits: sums and products modulo the width, quotients and    *)
(* remainders rounded towards zero, MIN / -1 = MIN, shifts by the count    *)
(* modulo the width with the unsigned one made of a signed shift and an    *)
(* addition, bit by bit operations, narrowings that keep the sign or do    *)
(* not.  Where java throws, and for MIN % -1, the processor traps.         *)
IntegersAreJavas ==
  opcode # <<>> /\ pushed # <<>> /\ opcode[1] \in IntegerOps =>
    LET op == opcode[1]
        bits == Bits(opcode[2])
        a == popped[1]
        b == popped[2]
        r == pushed[1]
        Each(Holds(_, _, _)) ==
          \A i \in 0 .. bits - 1 : Holds(BitOf(a, i), BitOf(b, i), BitOf(r, i))
    IN  /\ Fits(bits, r)
        /\ CASE op = "add" -> Same(bits, r, a + b)
             [] op = "sub" -> Same(bits, r + b, a)
             [] op = "mul" -> Same(bits, r, a * b)
             [] op = "div" -> IsQuotient(a, b, r) \/ (b = -1 /\ Same(bits, r, -a))
             [] op = "rem" -> IsRemainder(a, b, r)
             [] op = "neg" -> Same(bits, r + a, 0)
             [] op \in {"shl", "shr", "ushr"} -> Shifted(op, bits, a, b % bits, r)
             [] op = "and" -> Each(LAMBDA x, y, z : z = x * y)
             [] op = "or" -> Each(LAMBDA x, y, z : z = 1 - (1 - x) * (1 - y))
             [] op = "xor" -> Each(LAMBDA x, y, z : z = (x + y) % 2)
             [] op = "i2l" -> r = a
             [] op = "l2i" -> Same(IntBits, r, a) /\ Fits(IntBits, r)
             [] op = "i2b" -> Same(IntBits \div 4, r, a) /\ Fits(IntBits \div 4, r)
             [] op = "i2c" -> Same(IntBits \div 2, r, a) /\ r >= 0
             [] op = "i2s" -> Same(IntBits \div 2, r, a) /\ Fits(IntBits \div 2, r)
             [] op = "cmp" -> Same(bits, r, 0) = (a = b) /\ (r < 0) = (a < b)

(* The NaN of a constant is a NaN to multiplication, division, comparison  *)
(* and conversion: products and quotients with it are NaN, it compares as  *)
(* the instruction says, and it is converted to 0.                         *)
NaNIsContagious ==
  opcode # <<>> /\ opcode[1] \in {"fmul", "fdiv", "fcmp", "f2i"}
    /\ (\E k \in DOMAIN popped : popped[k] = FLOAT_NAN) =>
      pushed[1] = CASE opcode[1] = "fcmp" -> opcode[3]
                    [] opcode[1] = "f2i" -> 0
                    [] OTHER -> FLOAT_NAN

(* The numbers of both kinds: integers as java computes them, and a NaN    *)
(* that no multiplication, division, comparison or conversion loses.       *)
NumbersAreJavas == IntegersAreJavas /\ NaNIsContagious

(* What the sign of the difference of two numbers must be; that of one, or *)
(* of a reference, is from 0, or null.                                     *)
Signs(condition) ==
  CASE condition = "eq" -> {0}
    [] condition = "ne" -> {-1, 1}
    [] condition = "lt" -> {-1}
    [] condition = "ge" -> {0, 1}
    [] condition = "gt" -> {1}
    [] condition = "le" -> {-1, 0}

SignOf(n) == IF n > 0 THEN 1 ELSE IF n < 0 THEN -1 ELSE 0

(* Every branch, when its condition holds of its operands in their order,  *)
(* goes to the address its offset is added to, its own, and otherwise to   *)
(* the next instruction; a goto goes there always.                         *)
BranchesAreJavas ==
  opcode # <<>> /\ opcode[1] \in {"if", "if_null", "if_icmp", "if_acmp", "goto"} =>
    LET taken ==
          CASE opcode[1] = "goto" -> TRUE
            [] Len(popped) = 1 -> SignOf(popped[1]) \in Signs(opcode[2])
            [] Len(popped) = 2 -> SignOf(popped[1] - popped[2]) \in Signs(opcode[2])
    IN  pushed[1] = IF taken THEN Here + opcode[3] ELSE Here + Length

(* Every switch goes to the target of the label that is the key, and to    *)
(* its default when none is; but not when a label is INT_MAX.              *)
SwitchesAreJavas ==
  opcode # <<>> =>
    LET key == popped[1]
    IN  /\ opcode[1] = "tableswitch" /\ opcode[3] # INT_MAX =>
             pushed[1] = IF key \in opcode[2] .. opcode[3]
                         THEN key - opcode[2] + 1 ELSE Default
        /\ opcode[1] = "lookupswitch" /\ INT_MAX \notin opcode[2] =>
             pushed[1] = IF key \in opcode[2] THEN key - INT_MIN + 1 ELSE Default

(* Every branch and every switch goes where java says.                     *)
JumpsAreJavas == BranchesAreJavas /\ SwitchesAreJavas
=============================================================================
