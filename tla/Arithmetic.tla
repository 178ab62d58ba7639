----------------------------- MODULE Arithmetic -----------------------------
(***************************************************************************)
(* The arithmetic of the interpreter: the operators of                     *)
(* intermarx/ex/opcodes.c on the tagged blocks of the operand stack, and   *)
(* the opcodes of ExMethodExecute (intermarx/ex/runtime.c) that pop their  *)
(* operands, apply one and push its result, or branch on it.               *)
(*                                                                         *)
(* Each operator switches on the types of its operands.  A pair of types   *)
(* without a case ends in PalDebugbreak, a comparison without one is FALSE.*)
(***************************************************************************)
EXTENDS Integers, Sequences

CONSTANTS
  ByteBits, ShortBits, WordBits, LongBits,  \* the widths: 8, 16, 32 and 64
  Words, Longs, Addresses, Floats           \* the values tried of each member

(* The powers of 2, as far as the widths go.                               *)
Power[n \in 0..LongBits] == IF n = 0 THEN 1 ELSE 2 * Power[n - 1]

ASSUME ArithmeticAssumption ==
  /\ {ByteBits, ShortBits, WordBits, LongBits} \subseteq Nat \ {0}
  /\ ByteBits < ShortBits /\ ShortBits < WordBits /\ LongBits = 2 * WordBits
  /\ Words \subseteq -Power[WordBits - 1] .. (Power[WordBits - 1] - 1)
  /\ Longs \subseteq -Power[LongBits - 1] .. (Power[LongBits - 1] - 1)
  /\ Addresses \subseteq 0 .. (Power[WordBits] - 1)
  /\ Floats \subseteq Words

(* RUNTIME_FRAME_BLOCK: a type and the member of the union that it names.  *)
Int32 == "MACHINE_INT32"
Int64 == "MACHINE_INT64"
IntPtr == "MACHINE_INTPTR"
MFloat == "MACHINE_MFLOAT"
Object == "MACHINE_OBJECT"
Link == "MACHINE_MANAGED_POINTER"

Integral == {Int32, Int64, IntPtr}

Operands ==
  [type : {Int32, IntPtr}, value : Words] \union [type : {Int64}, value : Longs]
    \union [type : {Object, Link}, value : Addresses]
    \union [type : {MFloat}, value : Floats]

(* PalDebugbreak stops the machine, a division by zero or one that         *)
(* overflows is an exception of the processor.                             *)
Bugcheck == [type |-> "bugcheck", value |-> 0]
DivideError == [type |-> "divide error", value |-> 0]
Stops(block) == block \in {Bugcheck, DivideError}

(* An assignment to a member keeps the bits that fit.                      *)
Signed(x, bits) == ((x + Power[bits - 1]) % Power[bits]) - Power[bits - 1]
Bits(type) == IF type = Int64 THEN LongBits ELSE WordBits

Block(type, x) ==
  [type |-> type,
   value |-> CASE type = MFloat          -> x
               [] type \in {Link, Object} -> x % Power[WordBits]
               [] OTHER                   -> Signed(x, Bits(type))]

(* Add, Sub, Mul, Div and Rem store the result of two INT64 in the member  *)
(* int32 of a zeroed block: the upper half stays zero.                     *)
Result(type, x) ==
  IF type = Int64 THEN [type |-> Int64, value |-> x % Power[WordBits]] ELSE Block(type, x)

TypePair(first, second) == <<first.type, second.type>>
Apply(types, op(_, _), name, first, second) ==
  IF TypePair(first, second) \notin DOMAIN types
  THEN Bugcheck
  ELSE LET type == types[TypePair(first, second)]
       IN IF type = MFloat
          THEN [type |-> MFloat, value |-> <<name, first.value, second.value>>]
          ELSE Result(type, op(first.value, second.value))

-----------------------------------------------------------------------------
(* ExAdd, ExSub, ExMul, ExDiv, ExRem: the type of the result of each pair  *)
(* of types that has a case.  What an operation on floats gives is left    *)
(* as a term.                                                              *)
Numbers == [p \in {<<Int32, Int32>>, <<Int32, IntPtr>>, <<IntPtr, Int32>>,
                   <<IntPtr, IntPtr>>, <<Int64, Int64>>, <<MFloat, MFloat>>} |->
              IF IntPtr \in {p[1], p[2]} THEN IntPtr ELSE p[1]]

Sums == [p \in DOMAIN Numbers \union {<<Int32, Link>>, <<IntPtr, Link>>,
                                      <<Link, Int32>>, <<Link, IntPtr>>} |->
           IF p \in DOMAIN Numbers THEN Numbers[p] ELSE Link]

Differences == [p \in DOMAIN Numbers \union {<<Link, Int32>>, <<Link, IntPtr>>,
                                             <<Link, Link>>} |->
                  IF p \in DOMAIN Numbers THEN Numbers[p]
                  ELSE IF p[2] = Link THEN IntPtr ELSE Link]

Plus(x, y) == x + y
Minus(x, y) == x - y
Times(x, y) == x * y

ExAdd(first, second) == Apply(Sums, Plus, "+", first, second)
ExSub(first, second) == Apply(Differences, Minus, "-", first, second)
ExMul(first, second) == Apply(Numbers, Times, "*", first, second)

(* C rounds towards zero; the mutant rounds down.                          *)
Magnitude(x) == IF x < 0 THEN -x ELSE x
QuotientDown(x, y) == IF y > 0 THEN x \div y ELSE (-x) \div (-y)
Quotient(x, y) ==
  LET q == Magnitude(x) \div Magnitude(y)
  IN IF (x < 0) = (y < 0) THEN q ELSE -q
Remainder(x, y) == x - y * Quotient(x, y)

(* idiv faults on zero and, in 32 bits, on the quotient that does not fit. *)
Divides(first, second) ==
  \/ first.type = MFloat
  \/ /\ second.value # 0
     /\ \/ first.type = Int64
        \/ Quotient(first.value, second.value) < Power[WordBits - 1]

Divide(op(_, _), name, first, second) ==
  IF TypePair(first, second) \in DOMAIN Numbers /\ ~Divides(first, second)
  THEN DivideError
  ELSE Apply(Numbers, op, name, first, second)

ExDiv(first, second) == Divide(Quotient, "/", first, second)
ExRem(first, second) == Divide(Remainder, "%", first, second)

-----------------------------------------------------------------------------
(* ExAnd, ExShl and ExShr have cases for the same pairs of types; ExAnd    *)
(* is the logical && of its operands.  A shift takes its count modulo the  *)
(* width, as the processor does.                                           *)
Shifts == [p \in Integral \X {Int32, IntPtr} |-> p[1]]

Shift(op(_, _), first, second) ==
  IF TypePair(first, second) \in DOMAIN Shifts
  THEN Block(first.type, op(first.value, second.value % Bits(first.type)))
  ELSE Bugcheck

ShiftLeft(x, count) == x * Power[count]
ShiftRight(x, count) == x \div Power[count]

ExShl(first, second) == Shift(ShiftLeft, first, second)
ExShr(first, second) == Shift(ShiftRight, first, second)
ExAnd(first, second) ==
  IF TypePair(first, second) \in DOMAIN Shifts
  THEN Block(first.type, IF first.value # 0 /\ second.value # 0 THEN 1 ELSE 0)
  ELSE Bugcheck

(* ExOr and ExXor look at the type of the first operand alone and read the *)
(* same member of the second; what they read if it has another width, or   *)
(* is no integer, is not modelled.                                         *)
SameMember(first, second) ==
  first.type \in Integral =>
    second.type \in Integral /\ Bits(first.type) = Bits(second.type)

Bit(x, n) == (x \div Power[n]) % 2
BitByBit(on(_, _), x, y) ==
  LET lower[n \in 0..LongBits] ==
        IF n = 0 THEN 0
        ELSE lower[n - 1] + on(Bit(x, n - 1), Bit(y, n - 1)) * Power[n - 1]
  IN lower[LongBits]

OrBit(b, c) == IF b + c = 0 THEN 0 ELSE 1
XorBit(b, c) == (b + c) % 2

Combine(op(_, _), first, second) ==
  LET unsigned(x) == x % Power[Bits(first.type)]
  IN IF first.type \in Integral
     THEN Block(first.type, BitByBit(op, unsigned(first.value), unsigned(second.value)))
     ELSE Bugcheck

ExOr(first, second) == Combine(OrBit, first, second)
ExXor(first, second) == Combine(XorBit, first, second)

(* ExNot of an INTPTR is its negation.                                     *)
ExNot(first) ==
  CASE first.type \in {Int32, Int64} -> Block(first.type, -first.value - 1)
    [] first.type = IntPtr           -> Block(IntPtr, -first.value)
    [] OTHER                         -> Bugcheck

ExNeg(first) ==
  IF first.type \in {Int32, Int64, MFloat, IntPtr}
  THEN Block(first.type, -first.value)
  ELSE Bugcheck

-----------------------------------------------------------------------------
(* The conversions: the types that each has a case for, and what it keeps. *)
Convert(types, to, value, first) ==
  IF first.type \in types THEN Block(to, value) ELSE Bugcheck

Scalars == {Int32, Int64, IntPtr, MFloat}

ExConvI8(first) == Convert(Scalars, Int32, first.value % Power[ByteBits], first)
ExConvI16Unsigned(first) == Convert(Scalars, Int32, first.value % Power[ShortBits], first)
ExConvI16(first) == Convert(Scalars, Int32, Signed(first.value, ShortBits), first)
ExConvI32(first) == Convert(Scalars, Int32, first.value, first)
ExConvI64(first) == Convert(Scalars \ {Int64}, Int64, first.value, first)
ExConvIntPtr(first) == Convert(Scalars, IntPtr, first.value, first)
ExConvMFloat(first) == Convert(Scalars \ {MFloat}, MFloat, first.value, first)

-----------------------------------------------------------------------------
(* The comparisons.                                                        *)
Ordered == {<<Int32, Int32>>, <<Int32, IntPtr>>, <<IntPtr, Int32>>,
            <<IntPtr, IntPtr>>, <<Int64, Int64>>, <<MFloat, MFloat>>, <<Link, Link>>}
Comparable == Ordered \union {<<IntPtr, Link>>, <<Link, IntPtr>>, <<Object, Object>>}

(* A pointer that is compared with an INTPTR is cast to one.               *)
AsIntPtr(block) == IF block.type = Link THEN Signed(block.value, WordBits) ELSE block.value

ExIsEquals(first, second) ==
  /\ TypePair(first, second) \in Comparable
  /\ AsIntPtr(first) = AsIntPtr(second)
ExIsUnEquals(first, second) == ~ExIsEquals(first, second)

ExIsGreater(first, second) ==
  /\ TypePair(first, second) \in Ordered \union {<<Object, Object>>}
  /\ first.value > second.value
ExIsGreaterEqualsStrict(first, second) ==
  TypePair(first, second) \in Ordered /\ first.value > second.value
ExIsGreaterEquals(first, second) ==
  TypePair(first, second) \in Ordered /\ first.value >= second.value
ExIsLower(first, second) ==
  TypePair(first, second) \in Ordered /\ first.value < second.value
ExIsLowerEquals(first, second) ==
  TypePair(first, second) \in Ordered /\ first.value <= second.value

(* Every block that a comparison can see has a case in ExIsZero.           *)
ExIsZero(first) == first.value = 0
ExIsNonZero(first) == ~ExIsZero(first)

-----------------------------------------------------------------------------
VARIABLES
  stack,     \* the operands of the instruction, then what it leaves
  executed,  \* the instruction and its operands
  branched   \* it has moved the reader to its offset

vars == <<stack, executed, branched>>

None == [op |-> "none", operands |-> <<>>]

Init ==
  /\ stack \in {<<first, second>> : first \in Operands, second \in Operands}
  /\ executed = None
  /\ branched = FALSE

First == stack[1]
Second == stack[2]
Executed(op, operands) == executed' = [op |-> op, operands |-> operands]

BinaryOps == {"OpAdd", "OpSub", "OpMu", "OpDiv", "OpRem", "OpAnd", "OpOr", "OpXor",
              "OpShiftLeft", "OpShiftRight"}
Binary(op, first, second) ==
  CASE op = "OpAdd"        -> ExAdd(first, second)
    [] op = "OpSub"        -> ExSub(first, second)
    [] op = "OpMu"         -> ExMul(first, second)
    [] op = "OpDiv"        -> ExDiv(first, second)
    [] op = "OpRem"        -> ExRem(first, second)
    [] op = "OpAnd"        -> ExAnd(first, second)
    [] op = "OpOr"         -> ExOr(first, second)
    [] op = "OpXor"        -> ExXor(first, second)
    [] op = "OpShiftLeft"  -> ExShl(first, second)
    [] op = "OpShiftRight" -> ExShr(first, second)

(* The operand pushed last is popped first, and is the second of the two.  *)
Operate(op) ==
  /\ executed = None
  /\ op \in {"OpOr", "OpXor"} => SameMember(First, Second)
  /\ stack' = <<Binary(op, First, Second)>>
  /\ Executed(op, stack)
  /\ UNCHANGED branched

UnaryOps == {"OpNeg", "OpNot", "OpConvertI8", "OpConvertI16", "OpConvertI32",
             "OpConvertI64", "OpConvertFloat", "OpConvertIntPtr"}
Unary(op, first) ==
  CASE op = "OpNeg"           -> ExNeg(first)
    [] op = "OpNot"           -> ExNot(first)
    [] op = "OpConvertI8"     -> ExConvI8(first)
    [] op = "OpConvertI16"    -> ExConvI16(first)
    [] op = "OpConvertI32"    -> ExConvI32(first)
    [] op = "OpConvertI64"    -> ExConvI64(first)
    [] op = "OpConvertFloat"  -> ExConvMFloat(first)
    [] op = "OpConvertIntPtr" -> ExConvIntPtr(first)

Change(op) ==
  /\ executed = None
  /\ stack' = <<First, Unary(op, Second)>>
  /\ Executed(op, <<Second>>)
  /\ UNCHANGED branched

(* A comparison decides a branch, or is pushed as an INT32.                *)
Branches == {"OpBranchIfEquals", "OpBranchIfUnequalUnordered", "OpBranchIfGreater",
             "OpBranchIfGreaterOrEqual", "OpBranchIfLess", "OpBranchIfLessOrEqual"}
Taken(op, first, second) ==
  CASE op = "OpBranchIfEquals"           -> ExIsEquals(first, second)
    [] op = "OpBranchIfUnequalUnordered" -> ExIsUnEquals(first, second)
    [] op = "OpBranchIfGreater"          -> ExIsGreater(first, second)
    [] op = "OpBranchIfGreaterOrEqual"   -> ExIsGreaterEquals(first, second)
    [] op = "OpBranchIfLess"             -> ExIsLower(first, second)
    [] op = "OpBranchIfLessOrEqual"      -> ExIsLowerEquals(first, second)

Branch(op) ==
  /\ executed = None
  /\ stack' = <<>>
  /\ branched' = Taken(op, First, Second)
  /\ Executed(op, stack)

BranchOnZero(op) ==
  /\ executed = None
  /\ stack' = <<First>>
  /\ branched' = IF op = "OpBranchIfZero" THEN ExIsZero(Second) ELSE ExIsNonZero(Second)
  /\ Executed(op, <<Second>>)

PushOne == {"OpPushOneIfEqual", "OpPushOneIfGreater", "OpPushOneIfLower"}
Pushed(op, first, second) ==
  CASE op = "OpPushOneIfEqual"   -> ExIsEquals(first, second)
    [] op = "OpPushOneIfGreater" -> ExIsGreater(first, second)
    [] op = "OpPushOneIfLower"   -> ExIsLower(first, second)

Compare(op) ==
  /\ executed = None
  /\ stack' = <<Block(Int32, IF Pushed(op, First, Second) THEN 1 ELSE 0)>>
  /\ Executed(op, stack)
  /\ UNCHANGED branched

Next ==
  \/ \E op \in BinaryOps : Operate(op)
  \/ \E op \in UnaryOps : Change(op)
  \/ \E op \in Branches : Branch(op)
  \/ \E op \in {"OpBranchIfZero", "OpBranchIfNonZero"} : BranchOnZero(op)
  \/ \E op \in PushOne : Compare(op)

Spec == Init /\ [][Next]_vars

-----------------------------------------------------------------------------
(* Of two operands whose types have an order exactly one of "lower",       *)
(* "equal" and "greater" holds; the weak comparisons are the negations of  *)
(* the strict ones, and exchanging the operands exchanges the comparisons: *)
(* a compiler may emit any of the branches for a condition (ExIsEquals,    *)
(* ExIsGreater, ExIsLower, ExIsGreaterEquals, ExIsLowerEquals).  Of other  *)
(* operands at most one holds.                                             *)
OrderIsConsistent ==
  executed = None =>
    LET lower == ExIsLower(First, Second)
        equal == ExIsEquals(First, Second)
        greater == ExIsGreater(First, Second)
    IN /\ ~(lower /\ equal) /\ ~(lower /\ greater) /\ ~(equal /\ greater)
       /\ equal = ExIsEquals(Second, First)
       /\ TypePair(First, Second) \in Ordered =>
            /\ lower \/ equal \/ greater
            /\ ExIsGreaterEquals(First, Second) = ~lower
            /\ ExIsLowerEquals(First, Second) = ~greater
            /\ lower = ExIsGreater(Second, First)

(* The lower word of what OpAdd, OpSub and OpMu leave is that of the exact *)
(* result, whatever the types are, and OpDiv and OpRem together give the   *)
(* dividend back, with a remainder that is smaller than the divisor and    *)
(* has the dividend's sign (ExAdd, ExSub, ExMul, ExDiv, ExRem).  Nothing   *)
(* is said of the upper word of an INT64, which these operators drop.      *)
SameWord(x, y) == (x - y) % Power[WordBits] = 0

DividesBack(x, y, quotient, remainder) ==
  /\ SameWord(quotient.value * y + remainder.value, x)
  /\ quotient.type # Int64 =>
       /\ Magnitude(remainder.value) < Magnitude(y)
       /\ remainder.value # 0 => (remainder.value < 0) = (x < 0)

WordsAreExact ==
  LET op == executed.op
      x == executed.operands[1]
      y == executed.operands[2]
      result == stack[1]
  IN op \in {"OpAdd", "OpSub", "OpMu", "OpDiv"} /\ ~Stops(result) /\ result.type # MFloat =>
       CASE op = "OpAdd" -> SameWord(result.value, x.value + y.value)
         [] op = "OpSub" -> SameWord(result.value, x.value - y.value)
         [] op = "OpMu"  -> SameWord(result.value, x.value * y.value)
         [] op = "OpDiv" -> DividesBack(x.value, y.value, result, ExRem(x, y))

(* A conversion leaves a value of its range that agrees with the operand   *)
(* in the bits that it keeps; to narrow in two steps is to narrow in one,  *)
(* and an INT32 that was widened is narrowed to itself (ExConvI8,          *)
(* ExConvI16, ExConvI32, ExConvI64, ExConvIntPtr, ExConvMFloat).           *)
ConversionsCompose ==
  executed = None /\ Second.type \in Scalars =>
    /\ LET byte == ExConvI8(Second)
           short == ExConvI16(Second)
           word == ExConvI32(Second)
       IN /\ byte.value \in 0 .. Power[ByteBits] - 1
          /\ (byte.value - Second.value) % Power[ByteBits] = 0
          /\ short.value \in -Power[ShortBits - 1] .. Power[ShortBits - 1] - 1
          /\ (short.value - Second.value) % Power[ShortBits] = 0
          /\ SameWord(word.value, Second.value)
          /\ ExConvI8(short) = byte /\ ExConvI8(word) = byte /\ ExConvI16(word) = short
    /\ Second.type = Int32 =>
         /\ ExConvI32(ExConvI64(Second)) = Second
         /\ ExConvI32(ExConvIntPtr(Second)) = Second
         /\ ExConvI32(ExConvMFloat(Second)) = Second
=============================================================================
