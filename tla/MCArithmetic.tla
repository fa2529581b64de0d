---------------------------- MODULE MCArithmetic ----------------------------
(* Ints of 8 bits, so bytes of 2 and shorts of 4, and longs of 16: the     *)
(* values at the limits, around zero and around the limits of the shorter. *)
EXTENDS Arithmetic

MCInts == (-128 .. -124) \union (-9 .. 9) \union (124 .. 127)
MCLongs == (-32768 .. -32766) \union {-256, -129, -128} \union (-3 .. 3)
             \union {127, 128, 255, 256} \union (32765 .. 32767)
MCFloats == -2 .. 2
MCLabels == {-128, -127, -1, 0, 2, 126, 127}
=============================================================================
