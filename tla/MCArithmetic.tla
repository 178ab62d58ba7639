---------------------------- MODULE MCArithmetic ----------------------------
(* Widths of 2, 3, 4 and 8 bits: every word, the long values around the    *)
(* borders of a byte, a short, a word and the lower half of a long.        *)
EXTENDS Arithmetic

MCWords == -8 .. 7
MCLongs == {-128, -127, -17, -16, -15, -9, -8, -7, -1, 0, 1, 2, 7, 8, 9, 15, 16, 17, 127}
MCAddresses == {0, 1, 7, 8, 9, 15}
MCFloats == {-8, -1, 0, 3, 7}
=============================================================================
