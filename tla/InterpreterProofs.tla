------------------------- MODULE InterpreterProofs --------------------------
(***************************************************************************)
(* For every program, every depth and every bound: the collector's walk of *)
(* the frames is complete (FramesAreLinked of Interpreter.tla), no         *)
(* collection leaves a reference behind in a frame (NothingIsLost), and    *)
(* calls, returns and exceptions are those of CallStack.tla                *)
(* (ImplementsCallStack).                                                  *)
(***************************************************************************)
EXTENDS Interpreter, NumberFacts, SequenceTheorems

(* What FramesAreLinked rests on: the thread has a frame while it runs and *)
(* unwinds, and exactly the first one was built without a previous frame,  *)
(* so that the epilogue of a caller is run for each of the others.         *)
Chain == [d \in 1..depth |-> IF d = depth THEN 0 ELSE d + 1]

Linked == depth > 0 => /\ firstFrame = 1
                       /\ currentFrame = depth
                       /\ next = Chain

Framed == status \in {"running", "raising"} => depth > 0

OnlyFirstIsBase == \A d \in 1..depth : calls[d].entered = "base" <=> d = 1

IInv == /\ depth \in Nat
        /\ Linked
        /\ Framed
        /\ OnlyFirstIsBase

-----------------------------------------------------------------------------
(* The opcodes that neither call nor return change no link.                *)
Quiet == status = "running" /\ UNCHANGED links

(* Such an opcode keeps the frames linked.                                 *)
LEMMA QuietKeeps ==
  ASSUME IInv, Quiet
  PROVE  IInv'
  BY DEF IInv, Linked, Chain, Framed, OnlyFirstIsBase, links, Quiet

(* When the behaviour ends the frames stay as they are.                    *)
LEMMA EndKeeps ==
  ASSUME IInv, UNCHANGED links, status' \in {"astray", "caught"}
  PROVE  IInv'
  BY DEF IInv, Linked, Chain, Framed, OnlyFirstIsBase, links

(* The opcodes on the operands, on pointers and on objects are of that     *)
(* kind.                                                                   *)
LEMMA OperandsAreQuiet ==
  ASSUME Operands
  PROVE  Quiet
  <1> USE DEF Quiet, Executes, Executing, Proceed, Rewrite, Throw, Astray, PushStruct
  <1>1. CASE NoOperation \/ Duplicate \/ Discard \/ Immediate \/ Compute \/ LoadNull
    BY <1>1 DEF NoOperation, Duplicate, Discard, Immediate, Compute, LoadNull
  <1>2. CASE LoadArgument \/ StoreArgument \/ Invalid
    BY <1>2 DEF LoadArgument, StoreArgument, Invalid
  <1>3. CASE LoadLocal
    BY <1>3 DEF LoadLocal
  <1>4. CASE StoreLocal
    BY <1>4 DEF StoreLocal
  <1> QED BY <1>1, <1>2, <1>3, <1>4 DEF Operands

LEMMA PointersAreQuiet ==
  ASSUME Pointers
  PROVE  Quiet
  <1> USE DEF Quiet, Executes, Executing, Proceed, Rewrite, Throw, Astray, PushStruct, PushValue
  <1>1. CASE LoadAddress
    BY <1>1 DEF LoadAddress
  <1>2. CASE LoadValueFieldAddress
    BY <1>2 DEF LoadValueFieldAddress
  <1>3. CASE LoadValueFromPointer
    BY <1>3 DEF LoadValueFromPointer
  <1>4. CASE StoreValueToPointer
    BY <1>4 DEF StoreValueToPointer
  <1>5. CASE InitializeObject
    BY <1>5 DEF InitializeObject
  <1> QED BY <1>1, <1>2, <1>3, <1>4, <1>5 DEF Pointers

LEMMA ObjectsAreQuiet ==
  ASSUME Objects
  PROVE  Quiet
  <1> USE DEF Quiet, Executes, Executing, Proceed, Rewrite, Throw, Astray, PushStruct, PushValue
  <1>1. CASE LoadValueField
    BY <1>1 DEF LoadValueField, LoadField
  <1>2. CASE StoreValueField
    BY <1>2 DEF StoreValueField
  <1>3. CASE LoadStaticField \/ StoreStaticField
    BY <1>3 DEF LoadStaticField, StoreStaticField
  <1>4. CASE NewArray \/ LoadArrayLength \/ LoadElement \/ StoreElement
    BY <1>4 DEF NewArray, LoadArrayLength, LoadElement, StoreElement
  <1>5. CASE AllocateString \/ AllocateCharacters
    BY <1>5 DEF AllocateString, AllocateCharacters
  <1>6. CASE IsInstanceOrNull \/ CastClass \/ Box
    BY <1>6 DEF IsInstanceOrNull, CastClass, Box
  <1>7. CASE UnboxToPointer \/ UnboxToValue
    BY <1>7 DEF UnboxToPointer, UnboxToValue
  <1> QED BY <1>1, <1>2, <1>3, <1>4, <1>5, <1>6, <1>7 DEF Objects

-----------------------------------------------------------------------------
(* A prologue adds a frame behind the last one.                            *)
LEMMA EnterKeeps ==
  ASSUME IInv, status = "running",
         NEW m, NEW args, NEW call, NEW caller, NEW cells,
         Enter(m, args, call, caller, cells), call.entered # "base"
  PROVE  IInv'
  <1>1. depth \in Nat /\ depth > 0 /\ depth' = depth + 1
    BY DEF IInv, Framed, Enter
  <1>2. Linked'
    BY <1>1 DEF IInv, Linked, Chain, Enter, LinkTo
  <1>3. OnlyFirstIsBase'
    BY <1>1 DEF IInv, OnlyFirstIsBase, Enter
  <1>4. Framed'
    BY <1>1 DEF Framed
  <1> QED BY <1>1, <1>2, <1>3, <1>4 DEF IInv

(* The first frame is built by a prologue without a previous frame.        *)
LEMMA StartKeeps ==
  ASSUME IInv, NEW m, Start(m)
  PROVE  IInv'
  BY DEF IInv, Linked, Chain, Framed, OnlyFirstIsBase, Start, Call

(* The caller of a frame that is not the first is the last one after it.   *)
LEMMA DropKeeps ==
  ASSUME IInv, NEW stack, Drop(stack), depth > 1
  PROVE  IInv'
  <1>1. depth \in Nat /\ depth' = depth - 1 /\ depth' \in Nat /\ depth' > 0
    BY DEF IInv, Drop
  <1>2. Linked'
    BY <1>1 DEF IInv, Linked, Chain, Drop, Epilogue
  <1>3. OnlyFirstIsBase'
    BY <1>1 DEF IInv, OnlyFirstIsBase, Drop
  <1>4. Framed'
    BY <1>1 DEF Framed
  <1> QED BY <1>1, <1>2, <1>3, <1>4 DEF IInv

(* A frame ends: the first, or another one.                                *)
LEMMA EndFirstKeeps ==
  ASSUME EndFirst
  PROVE  IInv'
  BY DEF IInv, Linked, Framed, OnlyFirstIsBase, EndFirst

(* A method returns, to its caller or to the runtime.                      *)
LEMMA FinishKeeps ==
  ASSUME IInv, status = "running", NEW result, Finish(result)
  PROVE  IInv'
  <1>1. depth \in Nat /\ depth > 0
    BY DEF IInv, Framed
  <1>2. CASE Entry.entered = "base"
    BY <1>2, EndFirstKeeps DEF Finish
  <1>3. CASE Entry.entered # "base"
    <2>1. depth > 1
      BY <1>1, <1>3 DEF IInv, OnlyFirstIsBase, Entry
    <2> QED BY <1>3, <2>1, DropKeeps DEF Finish
  <1> QED BY <1>2, <1>3

(* The next method of a delegate replaces the last frame.                  *)
LEMMA NextSiteKeeps ==
  ASSUME IInv, status = "running", MoreSites, NextSite
  PROVE  IInv'
  <1>1. CASE Astray
    BY <1>1, EndKeeps DEF Astray
  <1>2. CASE ~Astray
    <2>1. depth \in Nat /\ depth > 0 /\ depth # 1
      BY DEF IInv, Framed, OnlyFirstIsBase, MoreSites, Entry
    <2>2. depth' = depth /\ LinkTo(depth)
      BY <1>2 DEF NextSite
    <2>3. Linked'
      BY <2>1, <2>2 DEF IInv, Linked, Chain, LinkTo
    <2>4. OnlyFirstIsBase'
      BY <1>2, <2>1, <2>2 DEF IInv, OnlyFirstIsBase, NextSite, Call
    <2>5. Framed'
      BY <2>1, <2>2 DEF Framed
    <2> QED BY <2>1, <2>2, <2>3, <2>4, <2>5 DEF IInv
  <1> QED BY <1>1, <1>2

-----------------------------------------------------------------------------
(* Jumps, calls, returns and exceptions.                                   *)
LEMMA ControlKeeps ==
  ASSUME IInv, Control
  PROVE  IInv'
  <1> USE DEF Executes, Executing
  <1>1. CASE Branch \/ BranchIf \/ Leave \/ ThrowOperand
    <2>1. Quiet
      BY <1>1 DEF Quiet, Branch, BranchIf, Leave, ThrowOperand, Jump, Proceed, Rewrite, Throw
    <2> QED BY <2>1, QuietKeeps
  <1>2. CASE LoadMethodDescriptor \/ LoadVirtualMethodDescriptor
    <2>1. Quiet
      BY <1>2 DEF Quiet, LoadMethodDescriptor, LoadVirtualMethodDescriptor, Proceed, Rewrite,
                  Throw
    <2> QED BY <2>1, QuietKeeps
  <1>3. CASE OrdinaryCall
    BY <1>3, EnterKeeps, EndKeeps DEF OrdinaryCall, CallMethod, Call, Astray
  <1>4. CASE VirtualCall
    <2>1. status = "running"
      BY <1>4 DEF VirtualCall
    <2>2. ASSUME NEW e, Throw(e)
          PROVE  IInv'
      BY <2>1, <2>2, QuietKeeps DEF Throw, Quiet
    <2>3. ASSUME Astray
          PROVE  IInv'
      BY <2>3, EndKeeps DEF Astray
    <2>4. ASSUME NEW m, CallMethod(m, Operand)
          PROVE  IInv'
      BY <2>1, <2>3, <2>4, EnterKeeps DEF CallMethod, Call
    <2>5. ASSUME NEW receiver, FirstSite(receiver)
          PROVE  IInv'
      BY <2>1, <2>3, <2>5, EnterKeeps DEF FirstSite, Call
    <2> QED BY <1>4, <2>2, <2>3, <2>4, <2>5 DEF VirtualCall
  <1>5. CASE NewObject
    BY <1>5, EnterKeeps, EndKeeps DEF NewObject, Call, Astray
  <1>6. CASE Return
    BY <1>6, FinishKeeps, NextSiteKeeps DEF Return
  <1>7. CASE Unwind
    <2>1. CASE status' = "caught" /\ UNCHANGED links
      BY <2>1, EndKeeps
    <2>2. CASE EndFirst
      BY <2>2, EndFirstKeeps
    <2>3. CASE Entry.entered # "base" /\ Drop(CallerStack)
      <3>1. depth > 1
        BY <1>7, <2>3 DEF Unwind, IInv, Framed, OnlyFirstIsBase, Entry
      <3> QED BY <2>3, <3>1, DropKeeps
    <2> QED BY <1>7, <2>1, <2>2, <2>3 DEF Unwind
  <1> QED BY <1>1, <1>2, <1>3, <1>4, <1>5, <1>6, <1>7 DEF Control

(* Native methods, which fail, return or go astray.                        *)
LEMMA NativesKeep ==
  ASSUME IInv, Natives
  PROVE  IInv'
  <1>1. status = "running"
    BY DEF Natives, Refuse, NativeReturns, NativeString, BindDelegate, JoinDelegates, InNative
  <1>2. ASSUME Astray
        PROVE  IInv'
    BY <1>2, EndKeeps DEF Astray
  <1>3. ASSUME NEW result, Finish(result)
        PROVE  IInv'
    BY <1>1, <1>3, FinishKeeps
  <1>4. CASE Refuse
    BY <1>4, DropKeeps DEF Refuse
  <1>5. CASE NativeReturns \/ NativeString \/ BindDelegate
    BY <1>2, <1>3, <1>5 DEF NativeReturns, NativeString, BindDelegate
  <1>6. CASE JoinDelegates
    BY <1>2, <1>3, <1>6 DEF JoinDelegates
  <1> QED BY <1>4, <1>5, <1>6 DEF Natives

(* A collection moves objects and leaves the frames where they are.        *)
LEMMA CollectionsKeep ==
  ASSUME IInv, Collect \/ HostCollects
  PROVE  IInv'
  <1>1. CASE Astray
    BY <1>1, EndKeeps DEF Astray
  <1>2. CASE UNCHANGED links /\ status = "running"
    BY <1>2, QuietKeeps DEF Quiet
  <1> QED BY <1>1, <1>2 DEF Collect, HostCollects

(* Every action keeps the frames linked.                                   *)
LEMMA NextLinks ==
  ASSUME IInv, Next
  PROVE  IInv'
  <1>1. CASE Stray
    BY <1>1, EndKeeps DEF Stray, Astray
  <1>2. CASE ~Stray
    BY <1>2, StartKeeps, CollectionsKeep, OperandsAreQuiet, PointersAreQuiet,
       ObjectsAreQuiet, QuietKeeps, ControlKeeps, NativesKeep DEF Next
  <1> QED BY <1>1, <1>2

(* FramesAreLinked: at every poll and allocation the walk from firstFrame  *)
(* along next (HpGc, hp.c) meets exactly the frames that the prologues and *)
(* epilogues of runtime.c have on the C stack.                             *)
THEOREM FramesStayLinked == Spec => []FramesAreLinked
  <1>1. Init => IInv
    BY DEF Init, IInv, Linked, Framed, OnlyFirstIsBase
  <1>2. ASSUME IInv, [Next]_vars
        PROVE  IInv'
    <2>1. CASE Next
      BY <1>2, <2>1, NextLinks
    <2>2. CASE UNCHANGED vars
      BY <1>2, <2>2 DEF IInv, Linked, Chain, Framed, OnlyFirstIsBase, vars, links
    <2> QED BY <1>2, <2>1, <2>2
  <1>3. IInv => FramesAreLinked
    BY DEF IInv, Linked, Chain, FramesAreLinked
  <1> QED BY <1>1, <1>2, <1>3, PTL DEF Spec

-----------------------------------------------------------------------------
(* Sequences of blocks without a lost reference.                           *)
IsSeq(s) == \E S : s \in Seq(S)

Clean(s) == IsSeq(s) /\ HoldsNoLost(s)

(* The length and the domain of a sequence.                                *)
LEMMA IsSeqIs ==
  ASSUME NEW s, IsSeq(s)
  PROVE  Len(s) \in Nat /\ DOMAIN s = 1..Len(s)
  <1>1. PICK S : s \in Seq(S)
    BY DEF IsSeq
  <1> QED BY <1>1, LenProperties

(* What a push makes of a sequence.                                        *)
LEMMA SeqPush ==
  ASSUME NEW s, IsSeq(s), NEW b
  PROVE  /\ IsSeq(Append(s, b))
         /\ Len(s) \in Nat
         /\ Len(Append(s, b)) = Len(s) + 1
         /\ DOMAIN Append(s, b) = 1..(Len(s) + 1)
         /\ \A i \in 1..Len(s) : Append(s, b)[i] = s[i]
         /\ Append(s, b)[Len(s) + 1] = b
  <1>1. PICK S : s \in Seq(S)
    BY DEF IsSeq
  <1> DEFINE T == S \union {b}
  <1>2. s \in Seq(T)
    BY <1>1, SeqMonotonic
  <1>3. b \in T
    OBVIOUS
  <1> HIDE DEF T
  <1>4. /\ Append(s, b) \in Seq(T)
        /\ Len(Append(s, b)) = Len(s) + 1
        /\ \A i \in 1..Len(s) : Append(s, b)[i] = s[i]
        /\ Append(s, b)[Len(s) + 1] = b
    BY <1>2, <1>3, AppendProperties
  <1>5. Len(s) \in Nat /\ DOMAIN Append(s, b) = 1..(Len(s) + 1)
    BY <1>2, <1>4, LenProperties
  <1> QED BY <1>4, <1>5 DEF IsSeq

(* A function on the numbers from 1 to n is a sequence.                    *)
LEMMA SeqList ==
  ASSUME NEW n \in Nat, NEW s, s = [i \in 1..n |-> s[i]]
  PROVE  IsSeq(s) /\ Len(s) = n
  <1> DEFINE S == {s[i] : i \in 1..n}
  <1>1. s \in [1..n -> S]
    OBVIOUS
  <1>2. s \in Seq(S)
    BY <1>1, SeqDef
  <1>3. DOMAIN s = 1..n /\ Len(s) = n
    BY <1>1, <1>2, LenProperties
  <1> QED BY <1>2, <1>3 DEF IsSeq

(* A store into a sequence.                                                *)
LEMMA SeqExcept ==
  ASSUME NEW s, IsSeq(s), NEW i, NEW b
  PROVE  IsSeq([s EXCEPT ![i] = b]) /\ Len([s EXCEPT ![i] = b]) = Len(s)
  <1> DEFINE t == [s EXCEPT ![i] = b]
  <1>1. Len(s) \in Nat /\ DOMAIN s = 1..Len(s)
    BY IsSeqIs
  <1>2. t = [j \in 1..Len(s) |-> t[j]]
    BY <1>1
  <1> HIDE DEF t
  <1>3. IsSeq(t) /\ Len(t) = Len(s)
    BY <1>1, <1>2, SeqList
  <1> QED BY <1>3 DEF t

(* The first n elements of a sequence.                                     *)
LEMMA SeqCut ==
  ASSUME NEW s, IsSeq(s), NEW n \in Nat, n <= Len(s)
  PROVE  /\ IsSeq(SubSeq(s, 1, n))
         /\ Len(SubSeq(s, 1, n)) = n
         /\ \A i \in 1..n : SubSeq(s, 1, n)[i] = s[i]
  <1>1. PICK S : s \in Seq(S)
    BY DEF IsSeq
  <1>2. Len(s) \in Nat /\ DOMAIN s = 1..Len(s)
    BY <1>1, LenProperties
  <1>3. \A i \in 1..n : s[i] \in S
    BY <1>1, <1>2, ElementOfSeq
  <1>4. /\ SubSeq(s, 1, n) \in Seq(S)
        /\ Len(SubSeq(s, 1, n)) = IF 1 <= n THEN (n - 1) + 1 ELSE 0
        /\ \A i \in 1..((n - 1) + 1) : SubSeq(s, 1, n)[i] = s[(1 + i) - 1]
    BY <1>3, SubSeqProperties
  <1> QED BY <1>4 DEF IsSeq

(* Sequences with the same elements are the same.                          *)
LEMMA SeqSame ==
  ASSUME NEW s, IsSeq(s), NEW t, IsSeq(t), Len(s) = Len(t), \A i \in 1..Len(s) : s[i] = t[i]
  PROVE  s = t
  <1>1. PICK S : s \in Seq(S)
    BY DEF IsSeq
  <1>2. PICK T : t \in Seq(T)
    BY DEF IsSeq
  <1>3. s = [i \in 1..Len(s) |-> s[i]] /\ t = [i \in 1..Len(t) |-> t[i]]
    BY <1>1, <1>2, LenProperties
  <1> QED BY <1>3

(* Each element of u is one of s or of t.                                  *)
OfEither(u, s, t) ==
  \A i \in DOMAIN u : (\E j \in DOMAIN s : u[i] = s[j]) \/ (\E j \in DOMAIN t : u[i] = t[j])

(* What two sequences make together.                                       *)
LEMMA SeqJoin ==
  ASSUME NEW s, IsSeq(s), NEW t, IsSeq(t)
  PROVE  /\ IsSeq(s \o t)
         /\ Len(s \o t) = Len(s) + Len(t)
         /\ OfEither(s \o t, s, t)
  <1>1. PICK S : s \in Seq(S)
    BY DEF IsSeq
  <1>2. PICK T : t \in Seq(T)
    BY DEF IsSeq
  <1> DEFINE U == S \union T
             u == s \o t
  <1>3. s \in Seq(U) /\ t \in Seq(U)
    BY <1>1, <1>2, SeqMonotonic
  <1> HIDE DEF U
  <1>4. /\ u \in Seq(U)
        /\ Len(u) = Len(s) + Len(t)
        /\ \A i \in 1..(Len(s) + Len(t)) :
              u[i] = IF i <= Len(s) THEN s[i] ELSE t[i - Len(s)]
    BY <1>3, ConcatProperties
  <1>5. /\ Len(s) \in Nat /\ DOMAIN s = 1..Len(s)
        /\ Len(t) \in Nat /\ DOMAIN t = 1..Len(t)
    BY <1>3, LenProperties
  <1>6. DOMAIN u = 1..(Len(s) + Len(t))
    BY <1>4, LenProperties
  <1> HIDE DEF u
  <1>7. ASSUME NEW i \in DOMAIN u
        PROVE  \/ \E j \in DOMAIN s : u[i] = s[j]
               \/ \E j \in DOMAIN t : u[i] = t[j]
    <2>1. CASE i <= Len(s)
      <3>1. i \in DOMAIN s /\ u[i] = s[i]
        BY <1>4, <1>5, <1>6, <2>1
      <3> QED BY <3>1
    <2>2. CASE ~(i <= Len(s))
      <3>1. i - Len(s) \in DOMAIN t /\ u[i] = t[i - Len(s)]
        BY <1>4, <1>5, <1>6, <2>2
      <3> QED BY <3>1
    <2> QED BY <2>1, <2>2
  <1>8. IsSeq(u) /\ OfEither(u, s, t)
    BY <1>4, <1>7 DEF IsSeq, OfEither
  <1> QED BY <1>4, <1>8 DEF u

(* A sequence of one element, and of two.                                  *)
LEMMA OneIs ==
  ASSUME NEW a
  PROVE  IsSeq(<<a>>) /\ Len(<<a>>) = 1 /\ DOMAIN <<a>> = 1..1 /\ <<a>>[1] = a
  <1>1. <<a>> \in Seq({a})
    OBVIOUS
  <1>2. IsSeq(<<a>>)
    BY <1>1, Zenon DEF IsSeq
  <1>3. Len(<<a>>) = 1 /\ DOMAIN <<a>> = 1..1 /\ <<a>>[1] = a
    OBVIOUS
  <1> QED BY <1>2, <1>3

LEMMA TwoAre ==
  ASSUME NEW a, NEW b
  PROVE  IsSeq(<<a, b>>) /\ DOMAIN <<a, b>> = 1..2 /\ <<a, b>>[1] = a /\ <<a, b>>[2] = b
  <1>1. <<a, b>> \in Seq({a, b})
    OBVIOUS
  <1>2. IsSeq(<<a, b>>)
    BY <1>1, Zenon DEF IsSeq
  <1>3. DOMAIN <<a, b>> = 1..2 /\ <<a, b>>[1] = a /\ <<a, b>>[2] = b
    OBVIOUS
  <1> QED BY <1>2, <1>3

(* No operands are lost where there are none.                              *)
LEMMA CleanEmpty == Clean(<<>>) /\ Len(<<>>) = 0
  <1>1. <<>> \in Seq({})
    OBVIOUS
  <1> QED BY <1>1 DEF Clean, IsSeq, HoldsNoLost

(* A push keeps the operands free of lost references if what is pushed is  *)
(* not lost.                                                               *)
LEMMA CleanPush ==
  ASSUME NEW s, Clean(s), NEW b, b.at # Lost
  PROVE  /\ Clean(Append(s, b))
         /\ Len(s) \in Nat
         /\ Len(Append(s, b)) = Len(s) + 1
  <1>1. PICK S : s \in Seq(S)
    BY DEF Clean, IsSeq
  <1> DEFINE T == S \union {b}
  <1>2. s \in Seq(T)
    BY <1>1, SeqMonotonic
  <1>3. b \in T
    OBVIOUS
  <1> HIDE DEF T
  <1>4. /\ Append(s, b) \in Seq(T)
        /\ Len(Append(s, b)) = Len(s) + 1
        /\ \A i \in 1..Len(s) : Append(s, b)[i] = s[i]
        /\ Append(s, b)[Len(s) + 1] = b
    BY <1>2, <1>3, AppendProperties
  <1>5. Len(s) \in Nat /\ DOMAIN s = 1..Len(s) /\ DOMAIN Append(s, b) = 1..(Len(s) + 1)
    BY <1>2, <1>4, LenProperties
  <1>6. ASSUME NEW i \in DOMAIN Append(s, b)
        PROVE  Append(s, b)[i].at # Lost
    <2>1. CASE i = Len(s) + 1
      BY <2>1, <1>4
    <2>2. CASE i # Len(s) + 1
      <3>1. i \in 1..Len(s)
        BY <1>5, <2>2
      <3> QED BY <3>1, <1>4, <1>5 DEF Clean, HoldsNoLost
    <2> QED BY <2>1, <2>2
  <1> QED BY <1>4, <1>5, <1>6 DEF Clean, IsSeq, HoldsNoLost

(* So does a pop.                                                          *)
LEMMA CleanCut ==
  ASSUME NEW s, Clean(s), NEW n \in Nat, n <= Len(s)
  PROVE  Clean(SubSeq(s, 1, n)) /\ Len(SubSeq(s, 1, n)) = n
  <1>1. PICK S : s \in Seq(S)
    BY DEF Clean, IsSeq
  <1>2. Len(s) \in Nat /\ DOMAIN s = 1..Len(s)
    BY <1>1, LenProperties
  <1>3. \A i \in 1..n : s[i] \in S
    BY <1>1, <1>2, ElementOfSeq
  <1>4. /\ SubSeq(s, 1, n) \in Seq(S)
        /\ Len(SubSeq(s, 1, n)) = IF 1 <= n THEN (n - 1) + 1 ELSE 0
        /\ \A i \in 1..((n - 1) + 1) : SubSeq(s, 1, n)[i] = s[(1 + i) - 1]
    BY <1>3, SubSeqProperties
  <1>5. Len(SubSeq(s, 1, n)) = n /\ DOMAIN SubSeq(s, 1, n) = 1..n
    BY <1>4, LenProperties
  <1>6. ASSUME NEW i \in 1..n
        PROVE  SubSeq(s, 1, n)[i].at # Lost
    <2>1. SubSeq(s, 1, n)[i] = s[i] /\ i \in DOMAIN s
      BY <1>2, <1>4
    <2> QED BY <2>1 DEF Clean, HoldsNoLost
  <1> QED BY <1>4, <1>5, <1>6 DEF Clean, IsSeq, HoldsNoLost

(* A list of blocks that are not lost.                                     *)
LEMMA CleanList ==
  ASSUME NEW n \in Nat, NEW s, s = [i \in 1..n |-> s[i]], \A i \in 1..n : s[i].at # Lost
  PROVE  Clean(s) /\ Len(s) = n
  <1> DEFINE S == {s[i] : i \in 1..n}
  <1>1. s \in [1..n -> S]
    OBVIOUS
  <1>2. s \in Seq(S)
    BY <1>1, SeqDef
  <1>3. DOMAIN s = 1..n /\ Len(s) = n
    BY <1>1, <1>2, LenProperties
  <1> QED BY <1>2, <1>3 DEF Clean, IsSeq, HoldsNoLost

(* A store into an argument.                                               *)
LEMMA CleanExcept ==
  ASSUME NEW s, Clean(s), NEW i, NEW b, b.at # Lost
  PROVE  Clean([s EXCEPT ![i] = b])
  <1> DEFINE t == [s EXCEPT ![i] = b]
  <1>1. Len(s) \in Nat /\ DOMAIN s = 1..Len(s)
    BY IsSeqIs DEF Clean
  <1>2. t = [j \in 1..Len(s) |-> t[j]]
    BY <1>1
  <1>3. \A j \in 1..Len(s) : t[j].at # Lost
    BY <1>1 DEF Clean, HoldsNoLost
  <1> HIDE DEF t
  <1>4. Clean(t)
    BY <1>1, <1>2, <1>3, CleanList
  <1> QED BY <1>4 DEF t

-----------------------------------------------------------------------------
(* What the other two theorems rest on.  Each frame is that of a method,   *)
(* its operands are sequences within the room ExMethodPrologueArgs gives   *)
(* them, none of them, of the arguments or of the locals is lost, and the  *)
(* caller still has the object that a constructor or a delegate's loop     *)
(* left with it.  What code can load without looking, the elements of      *)
(* arrays and the receivers of delegates, is not lost either; a delegate   *)
(* has as many receivers as methods.                                       *)
Fields == {"method", "pc", "stack", "args", "local", "vars", "floor", "built"}

FrameSound(f) ==
  /\ DOMAIN f = Fields
  /\ f.method \in Methods
  /\ Clean(f.stack)
  /\ Clean(f.args)
  /\ HoldsNoLost(f.vars)
  /\ Len(f.stack) <= Room(f.method)

NoneLost(contents) == \A k \in DOMAIN contents : contents[k] # Lost

ObjectSound(o) ==
  /\ DOMAIN o = {"type", "kind", "contents", "sites"}
  /\ o.kind # "plain" => NoneLost(o.contents)
  /\ o.kind = "delegate" => /\ IsSeq(o.contents)
                            /\ IsSeq(o.sites)
                            /\ Len(o.contents) = Len(o.sites)

AllSound(h) == IsSeq(h) /\ \A o \in DOMAIN h : ObjectSound(h[o])

HeapSound == AllSound(heap)

FramesSound ==
  /\ status = "idle" => depth = 0
  /\ DOMAIN frames = 1..depth
  /\ \A d \in 1..depth : /\ FrameSound(frames[d])
                         /\ Extra(d) <= Len(frames[d].stack)
                         /\ calls[d].site \in Nat

SInv == IInv /\ FramesSound /\ HeapSound

(* How an opcode ends that neither calls nor returns.                      *)
Works ==
  /\ status = "running"
  /\ UNCHANGED <<links, status, trace>>
  /\ DOMAIN frames' = 1..depth
  /\ \A d \in 1..depth : /\ FrameSound(frames'[d])
                         /\ frames'[d].method = frames[d].method
                         /\ d # depth => Len(frames'[d].stack) = Len(frames[d].stack)
  /\ HeapSound'

Raises ==
  /\ status = "running"
  /\ status' = "raising"
  /\ UNCHANGED <<frames, links, heap, trace>>

Strays == status = "running" /\ Astray

Outcome == Works \/ Raises \/ Strays

-----------------------------------------------------------------------------
(* The numbers that the signature of a method gives.                       *)
LEMMA ArityIs ==
  ASSUME NEW m \in Methods
  PROVE  Arity(m) \in Nat /\ Room(m) \in Nat /\ Rest(m) \in Nat /\ Rest(m) <= Arity(m)
  <1>1. Len(Method(m).parameters) \in Nat /\ Len(Method(m).variables) \in Nat
    BY MethodsAssumption, LenProperties
  <1>2. Arity(m) \in Nat
    BY <1>1 DEF Arity
  <1>3. Rest(m) \in Nat /\ Rest(m) <= Arity(m)
    BY <1>2 DEF Rest
  <1>4. Room(m) \in Nat
    <2> DEFINE p == Len(Method(m).parameters)
               v == Len(Method(m).variables)
    <2>1. p \in Nat /\ v \in Nat
      BY <1>1
    <2>2. Room(m) = (v + p) + 20
      BY DEF Room
    <2> HIDE DEF p, v
    <2> QED BY <2>1, <2>2
  <1> QED BY <1>2, <1>3, <1>4

(* No place is Lost but Lost.                                              *)
LEMMA Places ==
  /\ Nothing # Lost /\ Null # Lost /\ Garbage # Lost /\ Misplaced # Lost
  /\ \A o : Object(o) # Lost /\ Variable(o) # Lost /\ Descriptor(o) # Lost
  /\ \A c, p : Cell(c, p) # Lost
  BY DEF Nothing, Null, Garbage, Misplaced, Lost, Object, Variable, Descriptor, Cell

(* Nor is the place of a block that is made from another place.            *)
LEMMA BlocksAt ==
  /\ Number.at # Lost /\ Unknown.at # Lost
  /\ \A at : Reference(at).at = at
  /\ \A c : Struct(c).at # Lost
  /\ \A at, t : Pointer(at, t).at = at
  /\ \A type, at : Block(type, at).at = at
  /\ \A t, at : at # Lost => Loaded(t, at).at # Lost
  BY Places DEF Number, Unknown, Reference, Struct, Pointer, Block, Loaded

(* The frame of a thread that runs.                                        *)
LEMMA TopIs ==
  ASSUME SInv, status = "running"
  PROVE  /\ depth \in Nat /\ depth > 0 /\ depth \in 1..depth
         /\ FrameSound(Top)
         /\ Clean(Stack)
         /\ Height \in Nat
         /\ Height <= Room(Top.method)
         /\ Room(Top.method) \in Nat
  <1>1. depth \in Nat /\ depth > 0 /\ depth \in 1..depth
    BY DEF SInv, IInv, Framed
  <1>2. FrameSound(Top)
    BY <1>1 DEF SInv, FramesSound, Top
  <1>3. Clean(Stack) /\ Height <= Room(Top.method) /\ Top.method \in Methods
    BY <1>2 DEF FrameSound, Stack, Height
  <1>4. Height \in Nat
    BY <1>3, IsSeqIs DEF Clean, Height
  <1> QED BY <1>1, <1>2, <1>3, <1>4, ArityIs

(* The operands without the top k.                                         *)
LEMMA Popped ==
  ASSUME SInv, status = "running", NEW k \in Nat, k <= Height
  PROVE  Clean(Pop(k)) /\ Len(Pop(k)) = Height - k
  <1>1. Clean(Stack) /\ Height \in Nat /\ Height - k \in Nat /\ Height - k <= Len(Stack)
    BY TopIs DEF Height
  <1> QED BY <1>1, CleanCut DEF Pop

(* No operand is lost.                                                     *)
LEMMA Peeked ==
  ASSUME SInv, status = "running", NEW k \in Nat, k < Height
  PROVE  Peek(k).at # Lost
  <1>1. Clean(Stack) /\ Height \in Nat
    BY TopIs
  <1>2. Height - k \in DOMAIN Stack
    BY <1>1, IsSeqIs DEF Clean, Height
  <1> QED BY <1>1, <1>2 DEF Clean, HoldsNoLost, Peek

(* What an opcode finds.                                                   *)
LEMMA Finds ==
  ASSUME SInv, NEW ops, Executes(ops)
  PROVE  /\ status = "running"
         /\ Op \in ops
         /\ Height >= Takes(Op, Operand)
         /\ Op \in Grows => Height < Room(Top.method)
         /\ Names(Op, Operand)
         /\ Kinds(Op, Peek(Takes(Op, Operand) - 1))
         /\ Op = "return" => ResultFits
  BY DEF Executes, Executing, CodeFits, OpcodeFits

(* That there are operands, and room.                                      *)
LEMMA Counts ==
  ASSUME SInv, NEW ops, Executes(ops)
  PROVE  /\ status = "running"
         /\ Op \in ops
         /\ Height >= Takes(Op, Operand)
         /\ Op \in Grows => Height < Room(Top.method)
  BY Finds

(* The frame behind an opcode that leaves such operands.                   *)
LEMMA AdvanceSound ==
  ASSUME SInv, status = "running", NEW stack, Clean(stack), Len(stack) <= Room(Top.method)
  PROVE  FrameSound(Advance(stack)) /\ Advance(stack).method = Top.method
         /\ Advance(stack).stack = stack
  <1>1. FrameSound(Top)
    BY TopIs
  <1> QED BY <1>1 DEF FrameSound, Advance, Fields

(* An opcode that gives the last frame another value works.                *)
LEMMA RewriteWorks ==
  ASSUME SInv, status = "running", NEW f, FrameSound(f), f.method = Top.method,
         Rewrite(f), HeapSound'
  PROVE  Works
  <1>1. depth \in 1..depth
    BY TopIs
  <1>2. DOMAIN frames = 1..depth /\ \A d \in 1..depth : FrameSound(frames[d])
    BY DEF SInv, FramesSound
  <1>3. frames' = [frames EXCEPT ![depth] = f]
    BY DEF Rewrite
  <1>4. DOMAIN frames' = 1..depth
    BY <1>2, <1>3
  <1>5. ASSUME NEW d \in 1..depth
        PROVE  /\ FrameSound(frames'[d])
               /\ frames'[d].method = frames[d].method
               /\ d # depth => Len(frames'[d].stack) = Len(frames[d].stack)
    <2>1. frames'[d] = IF d = depth THEN f ELSE frames[d]
      BY <1>2, <1>3
    <2> QED BY <1>2, <2>1 DEF Top
  <1> QED BY <1>4, <1>5 DEF Works, Rewrite, state

(* One that gives it other operands works.                                 *)
LEMMA AdvanceWorks ==
  ASSUME SInv, status = "running", NEW stack, Clean(stack), Len(stack) <= Room(Top.method),
         Rewrite(Advance(stack)), HeapSound'
  PROVE  Works
  BY AdvanceSound, RewriteWorks

(* An opcode that leaves the heap alone keeps its objects sound.           *)
LEMMA HeapStays ==
  ASSUME SInv, UNCHANGED heap
  PROVE  HeapSound'
  BY DEF SInv, HeapSound

(* An opcode that changes the operands only.                               *)
LEMMA ProceedWorks ==
  ASSUME SInv, status = "running", NEW stack, Clean(stack), Len(stack) <= Room(Top.method),
         Proceed(stack)
  PROVE  Works
  BY AdvanceWorks, HeapStays DEF Proceed, data

(* An opcode that pushes a block onto what it leaves.                      *)
LEMMA PushWorks ==
  ASSUME SInv, status = "running", NEW stack, Clean(stack), Len(stack) < Room(Top.method),
         NEW b, b.at # Lost, Proceed(Append(stack, b))
  PROVE  Works
  <1>1. Room(Top.method) \in Nat
    BY TopIs
  <1>2. Clean(Append(stack, b)) /\ Len(Append(stack, b)) <= Room(Top.method)
    BY <1>1, CleanPush
  <1> QED BY <1>2, ProceedWorks

(* An opcode that pushes a structure.                                      *)
LEMMA PushStructWorks ==
  ASSUME SInv, status = "running", NEW stack, Clean(stack), Len(stack) < Room(Top.method),
         NEW t, NEW contents, PushStruct(stack, t, contents)
  PROVE  Works
  <1> DEFINE b == Struct(Len(memory) + 1)
  <1>1. Room(Top.method) \in Nat
    BY TopIs
  <1>2. b.at # Lost
    BY BlocksAt
  <1>3. Rewrite(Advance(Append(stack, b))) /\ UNCHANGED heap
    BY DEF PushStruct
  <1> HIDE DEF b
  <1>4. Clean(Append(stack, b)) /\ Len(Append(stack, b)) <= Room(Top.method)
    BY <1>1, <1>2, CleanPush
  <1> QED BY <1>3, <1>4, AdvanceWorks, HeapStays

(* An opcode that pushes a value of any type, or follows a lost reference. *)
LEMMA PushValueWorks ==
  ASSUME SInv, status = "running", NEW stack, Clean(stack), Len(stack) < Room(Top.method),
         NEW t, NEW contents, PushValue(stack, t, contents)
  PROVE  Outcome
  <1>1. CASE IsStructure(Domain, t)
    BY <1>1, PushStructWorks DEF PushValue, Outcome
  <1>2. CASE ~IsStructure(Domain, t) /\ contents[<<>>] \in {Lost, Garbage}
    BY <1>2 DEF PushValue, Outcome, Strays
  <1>3. CASE ~IsStructure(Domain, t) /\ contents[<<>>] \notin {Lost, Garbage}
    <2> DEFINE b == Loaded(t, contents[<<>>])
    <2>1. b.at # Lost
      BY <1>3, BlocksAt
    <2>2. Proceed(Append(stack, b))
      BY <1>3 DEF PushValue
    <2> HIDE DEF b
    <2> QED BY <2>1, <2>2, PushWorks DEF Outcome
  <1> QED BY <1>1, <1>2, <1>3

(* An opcode that throws.                                                  *)
LEMMA ThrowRaises ==
  ASSUME status = "running", NEW e, Throw(e)
  PROVE  Outcome
  BY DEF Throw, Outcome, Raises, data

(* An opcode that goes astray.                                             *)
LEMMA StrayOutcome ==
  ASSUME status = "running", Astray
  PROVE  Outcome
  BY DEF Outcome, Strays

(* A frame of which only the operands, the offset and the C variables of   *)
(* the interpreter change.                                                 *)
LEMMA ReframeWorks ==
  ASSUME SInv, status = "running", NEW stack, Clean(stack), Len(stack) <= Room(Top.method),
         NEW pc, NEW local, Rewrite([Top EXCEPT !.stack = stack, !.pc = pc, !.local = local]),
         HeapSound'
  PROVE  Outcome
  <1> DEFINE f == [Top EXCEPT !.stack = stack, !.pc = pc, !.local = local]
  <1>1. FrameSound(Top)
    BY TopIs
  <1>2. FrameSound(f) /\ f.method = Top.method
    BY <1>1 DEF FrameSound, Fields
  <1> HIDE DEF f
  <1>3. Rewrite(f)
    BY DEF f
  <1> QED BY <1>2, <1>3, RewriteWorks DEF Outcome

(* Opcodes that push one block onto what they leave, or only take some.    *)
LEMMA Replaces ==
  ASSUME SInv, status = "running", NEW k \in Nat, k <= Height,
         k > 0 \/ Height < Room(Top.method),
         NEW b, b.at # Lost, Proceed(Append(Pop(k), b))
  PROVE  Outcome
  <1>1. Height \in Nat /\ Room(Top.method) \in Nat /\ Height <= Room(Top.method)
    BY TopIs
  <1>2. Clean(Pop(k)) /\ Len(Pop(k)) = Height - k
    BY Popped
  <1>3. Len(Pop(k)) < Room(Top.method)
    BY <1>1, <1>2
  <1> QED BY <1>2, <1>3, PushWorks DEF Outcome

(* An opcode that pushes one and takes none.                               *)
LEMMA Pushes ==
  ASSUME SInv, status = "running", Height < Room(Top.method),
         NEW b, b.at # Lost, Proceed(Append(Stack, b))
  PROVE  Outcome
  <1>1. Clean(Stack) /\ Len(Stack) < Room(Top.method)
    BY TopIs DEF Height
  <1> QED BY <1>1, PushWorks DEF Outcome

(* An opcode that leaves the operands as they are.                         *)
LEMMA LeavesOperands ==
  ASSUME SInv, status = "running", Proceed(Stack)
  PROVE  Outcome
  <1>1. Clean(Stack) /\ Len(Stack) <= Room(Top.method)
    BY TopIs DEF Height
  <1> QED BY <1>1, ProceedWorks DEF Outcome

(* An opcode that takes k operands and stores elsewhere.                   *)
LEMMA TakesSome ==
  ASSUME SInv, status = "running", NEW k \in Nat, k <= Height,
         Rewrite(Advance(Pop(k))), HeapSound'
  PROVE  Outcome
  <1>1. Height \in Nat /\ Room(Top.method) \in Nat /\ Height <= Room(Top.method)
    BY TopIs
  <1>2. Clean(Pop(k)) /\ Len(Pop(k)) = Height - k
    BY Popped
  <1>3. Len(Pop(k)) <= Room(Top.method)
    BY <1>1, <1>2
  <1> QED BY <1>2, <1>3, AdvanceWorks DEF Outcome

(* An opcode that takes k operands and stores nothing.                     *)
LEMMA Drops ==
  ASSUME SInv, status = "running", NEW k \in Nat, k <= Height, Proceed(Pop(k))
  PROVE  Outcome
  BY TakesSome, HeapStays DEF Proceed, data

(* A value is pushed onto what is left of the operands.                    *)
LEMMA ReplacesValue ==
  ASSUME SInv, status = "running", NEW k \in Nat, k <= Height,
         k > 0 \/ Height < Room(Top.method),
         NEW t, NEW contents, PushValue(Pop(k), t, contents)
  PROVE  Outcome
  <1>1. Height \in Nat /\ Room(Top.method) \in Nat /\ Height <= Room(Top.method)
    BY TopIs
  <1>2. Clean(Pop(k)) /\ Len(Pop(k)) = Height - k
    BY Popped
  <1>3. Len(Pop(k)) < Room(Top.method)
    BY <1>1, <1>2
  <1> QED BY <1>2, <1>3, PushValueWorks

(* A block is pushed and something else is stored.                         *)
LEMMA Rewrites ==
  ASSUME SInv, status = "running", NEW k \in Nat, k <= Height,
         k > 0 \/ Height < Room(Top.method),
         NEW b, b.at # Lost, Rewrite(Advance(Append(Pop(k), b))), HeapSound'
  PROVE  Outcome
  <1>1. Height \in Nat /\ Room(Top.method) \in Nat /\ Height <= Room(Top.method)
    BY TopIs
  <1>2. Clean(Pop(k)) /\ Len(Pop(k)) = Height - k
    BY Popped
  <1>3. Clean(Append(Pop(k), b)) /\ Len(Append(Pop(k), b)) <= Room(Top.method)
    BY <1>1, <1>2, CleanPush
  <1> QED BY <1>3, AdvanceWorks DEF Outcome

-----------------------------------------------------------------------------
(* The opcodes on the operands: no index of theirs is outside of the       *)
(* arguments or the locals, and the operands stay within the room they     *)
(* have.                                                                   *)
LEMMA OperandsOutcome ==
  ASSUME SInv, Operands
  PROVE  Outcome
  <1>1. CASE NoOperation
    BY <1>1, Finds, LeavesOperands DEF NoOperation
  <1>2. CASE Duplicate
    <2>1. status = "running" /\ Height >= 1 /\ Height < Room(Top.method)
      BY <1>2, Counts DEF Duplicate, Takes, Grows
    <2>2. Peek(0).at # Lost
      BY <2>1, Peeked, TopIs
    <2> QED BY <1>2, <2>1, <2>2, Pushes DEF Duplicate
  <1>3. CASE Discard
    <2>1. status = "running" /\ Height >= 1
      BY <1>3, Counts DEF Discard, Takes
    <2> QED BY <1>3, <2>1, Drops, TopIs DEF Discard
  <1>4. CASE Immediate
    BY <1>4, Finds, BlocksAt, Pushes DEF Immediate, Grows
  <1>5. CASE Compute
    <2>1. CASE Executes({"convert"}) /\ Proceed(Append(Pop(1), Number))
      <3>1. status = "running" /\ Height >= 1
        BY <2>1, Counts DEF Takes
      <3> QED BY <2>1, <3>1, BlocksAt, Replaces, TopIs
    <2>2. CASE Executes({"arith"}) /\ Proceed(Append(Pop(2), Number))
      <3>1. status = "running" /\ Height >= 2
        BY <2>2, Counts DEF Takes
      <3> QED BY <2>2, <3>1, BlocksAt, Replaces, TopIs
    <2> QED BY <1>5, <2>1, <2>2 DEF Compute
  <1>6. CASE LoadNull
    BY <1>6, Finds, BlocksAt, Places, Pushes DEF LoadNull, Grows
  <1>7. CASE LoadArgument
    <2>1. status = "running" /\ Height < Room(Top.method) /\ Operand \in DOMAIN Top.args
      BY <1>7, Finds DEF LoadArgument, Grows, Names
    <2>2. Top.args[Operand].at # Lost
      BY <2>1, TopIs DEF FrameSound, Clean, HoldsNoLost
    <2> QED BY <1>7, <2>1, <2>2, Pushes DEF LoadArgument
  <1>8. CASE StoreArgument
    <2>1. status = "running" /\ Height >= 1
      BY <1>8, Counts DEF StoreArgument, Takes
    <2>2. Peek(0).at # Lost /\ Clean(Pop(1)) /\ Len(Pop(1)) <= Room(Top.method)
      BY <2>1, Peeked, Popped, TopIs
    <2> DEFINE f == [Advance(Pop(1)) EXCEPT !.args[Operand] = Peek(0)]
    <2>3. FrameSound(Advance(Pop(1))) /\ Advance(Pop(1)).method = Top.method
      BY <2>1, <2>2, AdvanceSound
    <2>4. FrameSound(f) /\ f.method = Top.method
      <3>1. Clean(Advance(Pop(1)).args) /\ DOMAIN Advance(Pop(1)) = Fields
        BY <2>3 DEF FrameSound
      <3>2. Clean([Advance(Pop(1)).args EXCEPT ![Operand] = Peek(0)])
        BY <2>2, <3>1, CleanExcept
      <3>3. f = [Advance(Pop(1)) EXCEPT !.args =
                   [Advance(Pop(1)).args EXCEPT ![Operand] = Peek(0)]]
        OBVIOUS
      <3> HIDE DEF f
      <3> QED BY <2>3, <3>1, <3>2, <3>3 DEF FrameSound, Fields
    <2>5. Rewrite(f) /\ UNCHANGED heap
      BY <1>8 DEF StoreArgument, data
    <2> HIDE DEF f
    <2> QED BY <2>1, <2>4, <2>5, RewriteWorks, HeapStays DEF Outcome
  <1>9. CASE LoadLocal
    <2>1. status = "running" /\ Height < Room(Top.method) /\ Operand \in DOMAIN Top.vars
      BY <1>9, Finds DEF LoadLocal, Grows, Names
    <2>2. Top.vars[Operand].at # Lost
      BY <2>1, TopIs DEF FrameSound, HoldsNoLost
    <2>3. Clean(Stack) /\ Len(Stack) < Room(Top.method)
      BY <2>1, TopIs DEF Height
    <2>4. CASE Proceed(Append(Stack, Top.vars[Operand]))
      BY <2>1, <2>2, <2>4, Pushes
    <2>5. CASE \E t, contents : PushStruct(Stack, t, contents)
      BY <2>1, <2>3, <2>5, PushStructWorks DEF Outcome
    <2> QED BY <1>9, <2>4, <2>5 DEF LoadLocal
  <1>10. CASE StoreLocal
    <2>1. status = "running" /\ Height >= 1
      BY <1>10, Counts DEF StoreLocal, Takes
    <2>2. Peek(0).at # Lost /\ Clean(Pop(1)) /\ Len(Pop(1)) <= Room(Top.method)
      BY <2>1, Peeked, Popped, TopIs
    <2> DEFINE f == [Advance(Pop(1)) EXCEPT !.vars[Operand] = Peek(0)]
    <2>3. FrameSound(Advance(Pop(1))) /\ Advance(Pop(1)).method = Top.method
      BY <2>1, <2>2, AdvanceSound
    <2>4. FrameSound(f) /\ f.method = Top.method
      <3> DEFINE v == [Advance(Pop(1)).vars EXCEPT ![Operand] = Peek(0)]
      <3>1. HoldsNoLost(Advance(Pop(1)).vars) /\ DOMAIN Advance(Pop(1)) = Fields
        BY <2>3 DEF FrameSound
      <3>2. HoldsNoLost(v)
        BY <2>2, <3>1 DEF HoldsNoLost
      <3>3. f = [Advance(Pop(1)) EXCEPT !.vars = v]
        OBVIOUS
      <3> HIDE DEF f, v
      <3> QED BY <2>3, <3>1, <3>2, <3>3 DEF FrameSound, Fields
    <2>5. CASE Rewrite(f) /\ UNCHANGED data
      <3> HIDE DEF f
      <3> QED BY <2>1, <2>4, <2>5, RewriteWorks, HeapStays DEF Outcome, data
    <2>6. CASE Astray
      BY <2>1, <2>6 DEF Outcome, Strays
    <2>7. CASE Rewrite(Advance(Pop(1))) /\ UNCHANGED heap
      BY <2>1, <2>7, TakesSome, HeapStays, TopIs
    <2> HIDE DEF f
    <2> QED BY <1>10, <2>5, <2>6, <2>7 DEF StoreLocal, f
  <1>11. CASE Invalid
    BY <1>11, Finds, ThrowRaises DEF Invalid
  <1> QED BY <1>1, <1>2, <1>3, <1>4, <1>5, <1>6, <1>7, <1>8, <1>9, <1>10, <1>11
     DEF Operands

(* The opcodes on addresses.                                               *)
LEMMA PointersOutcome ==
  ASSUME SInv, Pointers
  PROVE  Outcome
  <1>1. CASE LoadAddress
    <2>1. PICK place \in {"vars", "args"} :
            /\ Executes({IF place = "vars" THEN "ldloca" ELSE "ldarga"})
            /\ LET block == Top[place][Operand]
                   t == IF place = "vars" THEN Method(Top.method).variables[Operand]
                                          ELSE Method(Top.method).parameters[Operand]
               IN IF block.type = "STRUCT" THEN Proceed(Append(Stack, Pointer(block.at, t)))
                  ELSE IF block.type \in {"INT32", "INTPTR"}
                  THEN Proceed(Append(Stack, Pointer(Variable(depth), t)))
                  ELSE Throw("engine")
      BY <1>1 DEF LoadAddress
    <2> DEFINE block == Top[place][Operand]
    <2>2. /\ status = "running"
          /\ Op \in {IF place = "vars" THEN "ldloca" ELSE "ldarga"}
          /\ Op \in Grows => Height < Room(Top.method)
          /\ Names(Op, Operand)
      BY <2>1, Finds
    <2>3. Height < Room(Top.method) /\ Operand \in DOMAIN Top[place]
      BY <2>2 DEF Grows, Names
    <2>4. block.at # Lost
      BY <2>2, <2>3, TopIs DEF FrameSound, Clean, HoldsNoLost
    <2>5. \A t : Pointer(block.at, t).at # Lost /\ Pointer(Variable(depth), t).at # Lost
      BY <2>4, Places, BlocksAt
    <2>6. \/ \E t : Proceed(Append(Stack, Pointer(block.at, t)))
          \/ \E t : Proceed(Append(Stack, Pointer(Variable(depth), t)))
          \/ Throw("engine")
      BY <2>1
    <2> HIDE DEF block
    <2> QED BY <2>2, <2>3, <2>5, <2>6, Pushes, ThrowRaises
  <1>2. CASE LoadValueFieldAddress
    <2> DEFINE base == Peek(0)
               at == IF base.at[1] = "cell" THEN Cell(base.at[2], Append(base.at[3], Operand))
                     ELSE IF base.type = "OBJECT" THEN Misplaced ELSE base.at
               b == Pointer(at, Declared(Operand))
    <2>1. status = "running" /\ Height >= 1
      BY <1>2, Counts DEF LoadValueFieldAddress, Takes
    <2>2. base.at # Lost
      BY <2>1, Peeked, TopIs
    <2>3. at # Lost
      BY <2>2, Places
    <2>4. b.at # Lost
      BY <2>3, BlocksAt
    <2>5. Proceed(Append(Pop(1), b)) \/ \E e : Throw(e)
      BY <1>2 DEF LoadValueFieldAddress
    <2> HIDE DEF b
    <2> QED BY <2>1, <2>4, <2>5, Replaces, ThrowRaises, TopIs
  <1>3. CASE LoadValueFromPointer
    <2>1. status = "running" /\ Height >= 1
      BY <1>3, Counts DEF LoadValueFromPointer, Takes
    <2>2. Throw("engine") \/ Astray \/ \E t, contents : PushValue(Pop(1), t, contents)
      BY <1>3 DEF LoadValueFromPointer
    <2> QED BY <2>1, <2>2, ReplacesValue, ThrowRaises, StrayOutcome, TopIs
  <1>4. CASE StoreValueToPointer
    <2>1. status = "running" /\ Height >= 2
      BY <1>4, Counts DEF StoreValueToPointer, Takes
    <2>2. Throw("engine") \/ Astray \/ (Rewrite(Advance(Pop(2))) /\ UNCHANGED heap)
      BY <1>4 DEF StoreValueToPointer
    <2> QED BY <2>1, <2>2, TakesSome, HeapStays, ThrowRaises, StrayOutcome, TopIs
  <1>5. CASE InitializeObject
    <2>1. status = "running"
      BY <1>5, Finds DEF InitializeObject
    <2>2. Throw("engine") \/ Astray \/ (Rewrite(Advance(Stack)) /\ UNCHANGED heap)
      BY <1>5 DEF InitializeObject
    <2>3. Clean(Stack) /\ Len(Stack) <= Room(Top.method)
      BY <2>1, TopIs DEF Height
    <2> QED BY <2>1, <2>2, <2>3, AdvanceWorks, HeapStays, ThrowRaises, StrayOutcome DEF Outcome
  <1> QED BY <1>1, <1>2, <1>3, <1>4, <1>5 DEF Pointers

-----------------------------------------------------------------------------
(* The heap after an allocation, and after a store into one object.        *)
LEMMA HeapGrows ==
  ASSUME NEW h, AllSound(h), NEW o, ObjectSound(o)
  PROVE  AllSound(Append(h, o))
  <1>1. /\ IsSeq(Append(h, o))
        /\ Len(h) \in Nat
        /\ DOMAIN Append(h, o) = 1..(Len(h) + 1)
        /\ \A i \in 1..Len(h) : Append(h, o)[i] = h[i]
        /\ Append(h, o)[Len(h) + 1] = o
    BY SeqPush DEF AllSound
  <1>2. DOMAIN h = 1..Len(h)
    BY IsSeqIs DEF AllSound
  <1>3. ASSUME NEW i \in DOMAIN Append(h, o)
        PROVE  ObjectSound(Append(h, o)[i])
    <2>1. CASE i = Len(h) + 1
      BY <1>1, <2>1
    <2>2. CASE i # Len(h) + 1
      <3>1. i \in 1..Len(h)
        BY <1>1, <2>2
      <3> QED BY <1>1, <1>2, <3>1 DEF AllSound
    <2> QED BY <2>1, <2>2
  <1> QED BY <1>1, <1>3 DEF AllSound

(* The heap after a store into one object.                                 *)
LEMMA HeapStores ==
  ASSUME NEW h, AllSound(h), NEW x, NEW o, x \in DOMAIN h => ObjectSound(o)
  PROVE  AllSound([h EXCEPT ![x] = o])
  <1>1. IsSeq([h EXCEPT ![x] = o])
    BY SeqExcept DEF AllSound
  <1>2. ASSUME NEW i \in DOMAIN h
        PROVE  ObjectSound([h EXCEPT ![x] = o][i])
    BY DEF AllSound
  <1>3. DOMAIN [h EXCEPT ![x] = o] = DOMAIN h
    OBVIOUS
  <1> HIDE DEF AllSound
  <1> QED BY <1>1, <1>2, <1>3 DEF AllSound

(* A part of an object gets a place that is not lost.                      *)
LEMMA ObjectStores ==
  ASSUME NEW o, ObjectSound(o), NEW k, NEW at, at # Lost
  PROVE  ObjectSound([o EXCEPT !.contents[k] = at])
  <1> DEFINE c == [o.contents EXCEPT ![k] = at]
  <1>1. [o EXCEPT !.contents[k] = at] = [o EXCEPT !.contents = c]
    OBVIOUS
  <1>2. NoneLost(o.contents) => NoneLost(c)
    BY DEF NoneLost
  <1>3. IsSeq(o.contents) => IsSeq(c) /\ Len(c) = Len(o.contents)
    BY SeqExcept
  <1> HIDE DEF c
  <1> QED BY <1>1, <1>2, <1>3 DEF ObjectSound

(* Nothing is asked of a new instance with fields.                         *)
LEMMA PlainSound ==
  ASSUME NEW type, NEW contents, NEW sites
  PROVE  ObjectSound(Allocated(type, "plain", contents, sites))
  BY DEF ObjectSound, Allocated

(* A new array.                                                            *)
LEMMA ArraySound ==
  ASSUME NEW type, NEW n, NEW word, word # Lost
  PROVE  ObjectSound(NewArrayOf(type, n, word))
  BY DEF ObjectSound, NewArrayOf, Allocated, NoneLost

(* Zeroed memory holds nothing lost.                                       *)
LEMMA ZeroedPlaces ==
  ASSUME NEW t, NEW path
  PROVE  Zeroed(t, path) # Lost
  BY Places DEF Zeroed

(* An opcode that allocates.                                               *)
LEMMA NewObjectSound ==
  ASSUME SInv, NEW o, ObjectSound(o), heap' = Append(heap, o)
  PROVE  HeapSound'
  BY HeapGrows DEF SInv, HeapSound

(* An opcode that stores into an object.                                   *)
LEMMA ChangedObjectSound ==
  ASSUME SInv, NEW x, NEW o, x \in DOMAIN heap => ObjectSound(o),
         heap' = [heap EXCEPT ![x] = o]
  PROVE  HeapSound'
  BY HeapStores DEF SInv, HeapSound

(* Each object of the heap is sound.                                       *)
LEMMA ObjectIs ==
  ASSUME SInv, NEW x \in DOMAIN heap
  PROVE  ObjectSound(heap[x])
  BY DEF SInv, HeapSound, AllSound

(* A reference to an object is not lost.                                   *)
LEMMA ReferencesAreKept ==
  ASSUME NEW o
  PROVE  Reference(Object(o)).at # Lost
  BY BlocksAt, Places

(* A field is pushed.                                                      *)
LEMMA FieldWorks ==
  ASSUME SInv, status = "running", Height >= 1,
         NEW f, NEW contents, LoadField(Pop(1), f, contents)
  PROVE  Outcome
  BY BlocksAt, Replaces, ReplacesValue, TopIs DEF LoadField

(* The opcodes on fields.                                                  *)
LEMMA FieldsOutcome ==
  ASSUME SInv, LoadValueField \/ StoreValueField \/ LoadStaticField \/ StoreStaticField
  PROVE  Outcome
  <1>1. CASE LoadValueField
    <2>1. status = "running" /\ Height >= 1
      BY <1>1, Counts DEF LoadValueField, Takes
    <2>2. Throw("null") \/ Astray \/ \E contents : LoadField(Pop(1), Operand, contents)
      BY <1>1 DEF LoadValueField
    <2> QED BY <2>1, <2>2, FieldWorks, ThrowRaises, StrayOutcome
  <1>2. CASE StoreValueField
    <2> DEFINE base == Peek(1)
               x == base.at[2]
               t == Declared(Operand)
               c == Overlay(heap[x].contents, <<Operand>>, t, Stored(Peek(0), t))
               o == [heap[x] EXCEPT !.contents = c]
    <2>0. Op = "stfld" /\ status = "running" /\ Height >= 2 /\ Takes(Op, Operand) - 1 = 1
      <3>1. Op = "stfld" /\ status = "running" /\ Height >= Takes(Op, Operand)
        BY <1>2, Counts DEF StoreValueField
      <3> QED BY <3>1 DEF Takes
    <2>1. /\ status = "running" /\ Height >= 2
          /\ IsNull(base) \/ base.type # "OBJECT" \/ IsObject(base, "plain")
      <3>1. Kinds(Op, base)
        BY <1>2, <2>0, Finds DEF StoreValueField
      <3> QED BY <2>0, <3>1 DEF Kinds
    <2>2. \/ Throw("null") \/ Astray \/ Proceed(Pop(2))
          \/ Rewrite(Advance(Pop(2))) /\ UNCHANGED heap
          \/ /\ Rewrite(Advance(Pop(2)))
             /\ IsObject(base, "plain")
             /\ heap' = [heap EXCEPT ![x] = o]
      BY <1>2, <2>1 DEF StoreValueField
    <2>3. CASE /\ Rewrite(Advance(Pop(2)))
               /\ IsObject(base, "plain")
               /\ heap' = [heap EXCEPT ![x] = o]
      <3>1. x \in DOMAIN heap /\ heap[x].kind = "plain"
        BY <2>3 DEF IsObject
      <3>2. ObjectSound(heap[x])
        BY <3>1, ObjectIs
      <3> HIDE DEF c, x
      <3>3. ObjectSound(o)
        BY <3>1, <3>2 DEF ObjectSound
      <3> HIDE DEF o
      <3>4. HeapSound'
        BY <2>3, <3>3, ChangedObjectSound
      <3> QED BY <2>1, <2>3, <3>4, TakesSome, TopIs
    <2> HIDE DEF o, x
    <2> QED BY <2>1, <2>2, <2>3, ThrowRaises, StrayOutcome, Drops, TakesSome, HeapStays, TopIs
  <1>3. CASE LoadStaticField
    <2>1. status = "running" /\ Height < Room(Top.method)
      BY <1>3, Counts DEF LoadStaticField, Grows
    <2>2. Clean(Stack) /\ Len(Stack) < Room(Top.method)
      BY <2>1, TopIs DEF Height
    <2> QED BY <1>3, <2>1, <2>2, PushValueWorks DEF LoadStaticField
  <1>4. CASE StoreStaticField
    <2>1. status = "running" /\ Height >= 1
      BY <1>4, Counts DEF StoreStaticField, Takes
    <2> QED BY <1>4, <2>1, TakesSome, HeapStays, TopIs DEF StoreStaticField
  <1> QED BY <1>1, <1>2, <1>3, <1>4

(* The opcodes on arrays: what is read out of one is not lost.             *)
LEMMA ArraysOutcome ==
  ASSUME SInv, NewArray \/ LoadArrayLength \/ LoadElement \/ StoreElement
  PROVE  Outcome
  <1>1. CASE NewArray
    <2>1. status = "running" /\ Height >= 1
      BY <1>1, Counts DEF NewArray, Takes
    <2>2. PICK n : heap' = Append(heap, NewArrayOf(Operand[2], n, Zeroed(Operand[1], <<>>)))
      BY <1>1 DEF NewArray
    <2>3. ObjectSound(NewArrayOf(Operand[2], n, Zeroed(Operand[1], <<>>)))
      BY ArraySound, ZeroedPlaces
    <2>4. HeapSound'
      BY <2>2, <2>3, NewObjectSound
    <2>5. Rewrite(Advance(Append(Pop(1), Reference(Object(Len(heap) + 1)))))
      BY <1>1 DEF NewArray
    <2> QED BY <2>1, <2>4, <2>5, Rewrites, ReferencesAreKept, TopIs
  <1>2. CASE LoadArrayLength
    <2>1. status = "running" /\ Height >= 1
      BY <1>2, Counts DEF LoadArrayLength, Takes
    <2> QED BY <1>2, <2>1, BlocksAt, Replaces, ThrowRaises, TopIs DEF LoadArrayLength
  <1>3. CASE LoadElement
    <2> DEFINE x == Peek(1).at[2]
    <2>0. Op = "ldelem" /\ status = "running" /\ Height >= 2 /\ Takes(Op, Operand) - 1 = 1
      <3>1. Op = "ldelem" /\ status = "running" /\ Height >= Takes(Op, Operand)
        BY <1>3, Counts DEF LoadElement
      <3> QED BY <3>1 DEF Takes
    <2>1. /\ status = "running" /\ Height >= 2
          /\ IsNull(Peek(1)) \/ IsObject(Peek(1), "array")
      <3>1. Kinds(Op, Peek(1))
        BY <1>3, <2>0, Finds DEF LoadElement
      <3> QED BY <2>0, <3>1 DEF Kinds
    <2>2. \/ \E e : Throw(e)
          \/ \E i \in DOMAIN Elements(Peek(1)) :
                /\ IsObject(Peek(1), "array")
                /\ Proceed(Append(Pop(2), Loaded(Operand, Elements(Peek(1))[i])))
      BY <1>3, <2>1 DEF LoadElement
    <2>3. ASSUME NEW i \in DOMAIN Elements(Peek(1)), IsObject(Peek(1), "array")
          PROVE  Loaded(Operand, Elements(Peek(1))[i]).at # Lost
      <3>1. x \in DOMAIN heap /\ heap[x].kind = "array" /\ Elements(Peek(1)) = heap[x].contents
        BY <2>3 DEF IsObject, Elements
      <3>2. ObjectSound(heap[x])
        BY <3>1, ObjectIs
      <3>3. Elements(Peek(1))[i] # Lost
        BY <3>1, <3>2 DEF ObjectSound, NoneLost
      <3> QED BY <3>3, BlocksAt
    <2> QED BY <2>1, <2>2, <2>3, ThrowRaises, Replaces, TopIs
  <1>4. CASE StoreElement
    <2> DEFINE x == Peek(2).at[2]
    <2>1. status = "running" /\ Height >= 3
      <3>1. status = "running" /\ Op = "stelem" /\ Height >= Takes(Op, Operand)
        <4>1. Executes({"stelem"})
          BY <1>4 DEF StoreElement
        <4> QED BY <4>1, Counts
      <3>2. Takes(Op, Operand) = 3
        BY <3>1 DEF Takes
      <3> QED BY <3>1, <3>2
    <2>2. \/ \E e : Throw(e)
          \/ \E i : /\ heap' = [heap EXCEPT ![x].contents[i] = Peek(0).at]
                    /\ Rewrite(Advance(Pop(3)))
      BY <1>4 DEF StoreElement
    <2>3. ASSUME NEW i, heap' = [heap EXCEPT ![x].contents[i] = Peek(0).at]
          PROVE  HeapSound'
      <3> DEFINE o == [heap[x] EXCEPT !.contents[i] = Peek(0).at]
      <3>1. Peek(0).at # Lost
        BY <2>1, Peeked, TopIs
      <3>2. x \in DOMAIN heap => ObjectSound(heap[x])
        BY ObjectIs
      <3> HIDE DEF x
      <3>3. x \in DOMAIN heap => ObjectSound(o)
        BY <3>1, <3>2, ObjectStores
      <3>4. heap' = [heap EXCEPT ![x] = o]
        BY <2>3
      <3> HIDE DEF o
      <3> QED BY <3>3, <3>4, ChangedObjectSound
    <2> HIDE DEF x
    <2> QED BY <2>1, <2>2, <2>3, ThrowRaises, TakesSome, TopIs
  <1> QED BY <1>1, <1>2, <1>3, <1>4

(* OpLoadString, whose second half stores into the string it finds on the  *)
(* stack.                                                                  *)
LEMMA StringsOutcome ==
  ASSUME SInv, AllocateString \/ AllocateCharacters
  PROVE  Outcome
  <1>1. CASE AllocateString
    <2> DEFINE string == Reference(Object(Len(heap) + 1))
               stack == Append(Stack, string)
    <2>1. status = "running" /\ Height < Room(Top.method)
      BY <1>1, Counts DEF AllocateString, Grows
    <2>2. HeapSound'
      BY <1>1, PlainSound, NewObjectSound DEF AllocateString
    <2>3. Rewrite([Top EXCEPT !.stack = Append(@, string), !.local = <<string>>])
      BY <1>1 DEF AllocateString
    <2>4. string.at # Lost
      BY ReferencesAreKept
    <2> HIDE DEF string
    <2>5. Clean(stack) /\ Len(stack) <= Room(Top.method)
      <3>1. Clean(Stack) /\ Len(Stack) < Room(Top.method) /\ Room(Top.method) \in Nat
        BY <2>1, TopIs DEF Height
      <3> QED BY <2>4, <3>1, CleanPush
    <2>6. [Top EXCEPT !.stack = Append(@, string), !.local = <<string>>]
            = [Top EXCEPT !.stack = stack, !.pc = Top.pc, !.local = <<string>>]
      <3>1. DOMAIN Top = Fields
        BY <2>1, TopIs DEF FrameSound
      <3> QED BY <3>1 DEF Fields, Stack
    <2> HIDE DEF stack
    <2> QED BY <2>1, <2>2, <2>3, <2>5, <2>6, ReframeWorks
  <1>2. CASE AllocateCharacters
    <2>1. status = "running"
      BY <1>2 DEF AllocateCharacters
    <2> DEFINE x == Peek(0).at[2]
               at == Object(Len(heap) + 1)
               o == [heap[x] EXCEPT !.contents[Characters] = at]
               h == [heap EXCEPT ![x] = o]
    <2>2. CASE Astray
      BY <2>1, <2>2, StrayOutcome
    <2>3. CASE /\ heap' = Append([heap EXCEPT ![x].contents[Characters] = at],
                                 NewArrayOf("System.Char[]", 0, Nothing))
               /\ Rewrite([Top EXCEPT !.pc = @ + 1, !.local = <<>>])
      <3>1. x \in DOMAIN heap => ObjectSound(heap[x])
        BY ObjectIs
      <3>2. at # Lost
        BY Places
      <3> HIDE DEF x, at
      <3>3. x \in DOMAIN heap => ObjectSound(o)
        BY <3>1, <3>2, ObjectStores
      <3>4. heap' = Append(h, NewArrayOf("System.Char[]", 0, Nothing))
        BY <2>3
      <3> HIDE DEF o
      <3>5. AllSound(h)
        BY <3>3, HeapStores DEF SInv, HeapSound
      <3>6. ObjectSound(NewArrayOf("System.Char[]", 0, Nothing))
        BY ArraySound, Places
      <3> HIDE DEF h
      <3>7. HeapSound'
        BY <3>4, <3>5, <3>6, HeapGrows DEF HeapSound
      <3>8. [Top EXCEPT !.pc = @ + 1, !.local = <<>>]
              = [Top EXCEPT !.stack = Stack, !.pc = Top.pc + 1, !.local = <<>>]
        <4>1. DOMAIN Top = Fields
          BY <2>1, TopIs DEF FrameSound
        <4> QED BY <4>1 DEF Fields, Stack
      <3>9. Clean(Stack) /\ Len(Stack) <= Room(Top.method)
        BY <2>1, TopIs DEF Height
      <3> QED BY <2>1, <2>3, <3>7, <3>8, <3>9, ReframeWorks
    <2>4. \/ Astray
          \/ /\ heap' = Append([heap EXCEPT ![x].contents[Characters] = at],
                               NewArrayOf("System.Char[]", 0, Nothing))
             /\ Rewrite([Top EXCEPT !.pc = @ + 1, !.local = <<>>])
      BY <1>2 DEF AllocateCharacters
    <2> QED BY <2>2, <2>3, <2>4
  <1> QED BY <1>1, <1>2

(* Casts and boxes.                                                        *)
LEMMA BoxesOutcome ==
  ASSUME SInv, IsInstanceOrNull \/ CastClass \/ Box \/ UnboxToPointer \/ UnboxToValue
  PROVE  Outcome
  <1>1. CASE IsInstanceOrNull
    <2>1. status = "running" /\ Height >= 1
      BY <1>1, Counts DEF IsInstanceOrNull, Takes
    <2>2. Proceed(Stack) \/ Proceed(Append(Pop(1), Reference(Null)))
      BY <1>1 DEF IsInstanceOrNull
    <2> QED BY <2>1, <2>2, LeavesOperands, Replaces, BlocksAt, Places, TopIs
  <1>2. CASE CastClass
    BY <1>2, Finds, LeavesOperands, ThrowRaises DEF CastClass
  <1>3. CASE Box
    <2>1. status = "running" /\ Height >= 1
      BY <1>3, Counts DEF Box, Takes
    <2>2. \/ Throw("engine")
          \/ /\ HeapSound'
             /\ Rewrite(Advance(Append(Pop(1), Reference(Object(Len(heap) + 1)))))
      BY <1>3, PlainSound, NewObjectSound DEF Box
    <2> QED BY <2>1, <2>2, ThrowRaises, Rewrites, ReferencesAreKept, TopIs
  <1>4. CASE UnboxToPointer
    <2>1. status = "running" /\ Height >= 1
      BY <1>4, Counts DEF UnboxToPointer, Takes
    <2> DEFINE b == Pointer(Cell(Len(memory) + 1, <<>>), Operand)
    <2>2. Throw("engine") \/ Astray \/ (Rewrite(Advance(Append(Pop(1), b))) /\ UNCHANGED heap)
      BY <1>4 DEF UnboxToPointer
    <2>3. b.at # Lost
      BY BlocksAt, Places
    <2> HIDE DEF b
    <2> QED BY <2>1, <2>2, <2>3, ThrowRaises, StrayOutcome, Rewrites, HeapStays, TopIs
  <1>5. CASE UnboxToValue
    <2>1. status = "running" /\ Height >= 1
      BY <1>5, Counts DEF UnboxToValue, Takes
    <2> QED BY <1>5, <2>1, StrayOutcome, ReplacesValue, TopIs DEF UnboxToValue
  <1> QED BY <1>1, <1>2, <1>3, <1>4, <1>5

(* All opcodes on objects.                                                 *)
LEMMA ObjectsOutcome ==
  ASSUME SInv, Objects
  PROVE  Outcome
  BY FieldsOutcome, ArraysOutcome, StringsOutcome, BoxesOutcome DEF Objects

(* Control within a method.                                                *)
LEMMA QuietControlOutcome ==
  ASSUME SInv, \/ Branch \/ BranchIf \/ Leave \/ ThrowOperand
               \/ LoadMethodDescriptor \/ LoadVirtualMethodDescriptor
  PROVE  Outcome
  <1>1. ASSUME status = "running", NEW stack, Clean(stack), Len(stack) <= Room(Top.method),
               NEW to, Jump(stack, to)
        PROVE  Outcome
    <2>1. DOMAIN Top = Fields
      BY <1>1, TopIs DEF FrameSound
    <2>2. [Top EXCEPT !.stack = stack, !.pc = to]
            = [Top EXCEPT !.stack = stack, !.pc = to, !.local = Top.local]
      BY <2>1 DEF Fields
    <2>3. Rewrite([Top EXCEPT !.stack = stack, !.pc = to, !.local = Top.local])
      BY <1>1, <2>2 DEF Jump
    <2> QED BY <1>1, <2>3, HeapStays, ReframeWorks DEF Jump, data
  <1>2. ASSUME status = "running"
        PROVE  Clean(Stack) /\ Len(Stack) <= Room(Top.method)
    BY <1>2, TopIs DEF Height
  <1>3. CASE Branch
    BY <1>1, <1>2, <1>3, Finds DEF Branch
  <1>4. CASE BranchIf
    <2>1. PICK n \in 1..2 :
            /\ Executes({IF n = 1 THEN "branch1" ELSE "branch2"})
            /\ Jump(Pop(n), Operand) \/ Proceed(Pop(n))
      BY <1>4 DEF BranchIf
    <2>2. status = "running" /\ Height >= n
      BY <2>1, Counts DEF Takes
    <2>3. Clean(Pop(n)) /\ Len(Pop(n)) <= Room(Top.method)
      <3>1. Clean(Pop(n)) /\ Len(Pop(n)) = Height - n
        BY <2>2, Popped
      <3> QED BY <2>2, <3>1, TopIs
    <2> QED BY <1>1, <2>1, <2>2, <2>3, Drops
  <1>5. CASE Leave
    <2>1. status = "running"
      BY <1>5, Finds DEF Leave
    <2>2. Proceed(Stack) \/ \E to : Jump(Stack, to)
      BY <1>5 DEF Leave
    <2> QED BY <1>1, <1>2, <2>1, <2>2, LeavesOperands
  <1>6. CASE ThrowOperand
    BY <1>6, Finds, ThrowRaises DEF ThrowOperand
  <1>7. CASE LoadMethodDescriptor
    BY <1>7, Finds, BlocksAt, Places, Pushes DEF LoadMethodDescriptor, Grows
  <1>8. CASE LoadVirtualMethodDescriptor
    <2>1. status = "running" /\ Height >= 1
      BY <1>8, Counts DEF LoadVirtualMethodDescriptor, Takes
    <2>2. \/ \E e : Throw(e)
          \/ \E m : Proceed(Append(Pop(1), Block("INTPTR", Descriptor(m))))
      BY <1>8 DEF LoadVirtualMethodDescriptor
    <2>3. \A m : Block("INTPTR", Descriptor(m)).at # Lost
      BY BlocksAt, Places
    <2> QED BY <2>1, <2>2, <2>3, ThrowRaises, Replaces, TopIs
  <1> QED BY <1>3, <1>4, <1>5, <1>6, <1>7, <1>8

-----------------------------------------------------------------------------
(* The walk of the collector, without its CHOOSE.                          *)
WalkFrom(f) ==
  f = [n \in 0..depth |-> IF n = 0 THEN firstFrame
                          ELSE IF f[n - 1] \in 1..depth THEN next[f[n - 1]] ELSE 0]

(* HpGc meets every frame.                                                 *)
LEMMA AllAreWalked ==
  ASSUME IInv, depth > 0
  PROVE  Walked = 1..depth
  <1> DEFINE walk == CHOOSE f : WalkFrom(f)
             g == [n \in 0..depth |-> IF n < depth THEN n + 1 ELSE 0]
  <1>1. Walked = {walk[n] : n \in 0..depth} \ {0}
    BY DEF Walked, WalkFrom
  <1>2. depth \in Nat /\ firstFrame = 1 /\ next = Chain
    BY DEF IInv, Linked
  <1>3. WalkFrom(g)
    <2>1. ASSUME NEW n \in 0..depth
          PROVE  g[n] = IF n = 0 THEN firstFrame
                        ELSE IF g[n - 1] \in 1..depth THEN next[g[n - 1]] ELSE 0
      <3>1. CASE n = 0
        BY <1>2, <3>1
      <3>2. CASE n # 0
        <4>1. n - 1 \in 0..depth /\ g[n - 1] = n /\ n \in 1..depth
          BY <1>2, <3>2
        <4>2. next[n] = IF n = depth THEN 0 ELSE n + 1
          BY <1>2, <4>1 DEF Chain
        <4> QED BY <1>2, <3>2, <4>1, <4>2
      <3> QED BY <3>1, <3>2
    <2> HIDE DEF g
    <2>2. g = [n \in 0..depth |-> g[n]]
      BY DEF g
    <2> QED BY <2>1, <2>2 DEF WalkFrom
  <1>4. WalkFrom(walk)
    BY <1>3
  <1> HIDE DEF walk
  <1>5. walk[0] = 1
    BY <1>2, <1>4 DEF WalkFrom
  <1>6. ASSUME NEW n \in 1..depth
        PROVE  walk[n] = IF walk[n - 1] \in 1..depth THEN next[walk[n - 1]] ELSE 0
    BY <1>2, <1>4 DEF WalkFrom
  <1> DEFINE T == {n \in 0..depth : walk[n] = g[n]}
  <1>7. 0 \in T
    BY <1>2, <1>5
  <1>8. ASSUME NEW n \in 0..(depth - 1), n \in T
        PROVE  n + 1 \in T
    <2>1. n + 1 \in 1..depth /\ (n + 1) - 1 = n /\ g[n] = n + 1
      BY <1>2, <1>8
    <2>2. walk[n + 1] = next[n + 1]
      BY <1>6, <1>8, <2>1
    <2>3. next[n + 1] = g[n + 1]
      BY <1>2, <2>1 DEF Chain
    <2> QED BY <1>2, <2>1, <2>2, <2>3
  <1>9. 0..depth \subseteq T
    <2> HIDE DEF T
    <2> QED BY <1>2, <1>7, <1>8, UpTo
  <1>10. \A n \in 0..depth : walk[n] = IF n < depth THEN n + 1 ELSE 0
    BY <1>9
  <1>11. ASSUME NEW d \in 1..depth
         PROVE  d \in {walk[n] : n \in 0..depth}
    <2>1. d - 1 \in 0..depth /\ walk[d - 1] = d
      BY <1>2, <1>10
    <2> QED BY <2>1
  <1>12. ASSUME NEW n \in 0..depth, walk[n] # 0
         PROVE  walk[n] \in 1..depth
    BY <1>2, <1>10, <1>12
  <1> QED BY <1>1, <1>2, <1>11, <1>12

(* HppTraceObject loses nothing of an array or a delegate.                 *)
LEMMA TracedSound ==
  ASSUME SInv, NEW o \in DOMAIN heap
  PROVE  ObjectSound(TraceObject(o))
  <1> DEFINE c == [k \in DOMAIN heap[o].contents |->
                     IF Traced(o, k) THEN heap[o].contents[k] ELSE Miss(heap[o].contents[k])]
  <1>1. TraceObject(o) = [heap[o] EXCEPT !.contents = c]
    BY DEF TraceObject
  <1>2. ObjectSound(heap[o])
    BY ObjectIs
  <1>3. heap[o].kind # "plain" => c = [k \in DOMAIN heap[o].contents |-> heap[o].contents[k]]
    BY DEF Traced
  <1>4. IsSeq(heap[o].contents) =>
          heap[o].contents = [k \in DOMAIN heap[o].contents |-> heap[o].contents[k]]
    BY DEF IsSeq
  <1>5. heap[o].kind # "plain" => NoneLost(c)
    BY <1>2, <1>3 DEF ObjectSound, NoneLost
  <1>6. heap[o].kind = "delegate" => c = heap[o].contents
    BY <1>2, <1>3, <1>4 DEF ObjectSound
  <1> HIDE DEF c
  <1> QED BY <1>1, <1>2, <1>5, <1>6 DEF ObjectSound

(* A collection: because every frame is met, no operand, local or argument *)
(* is lost (NothingIsLost).                                                *)
LEMMA CollectOutcome ==
  ASSUME SInv, Collect
  PROVE  Outcome
  <1>1. status = "running"
    BY DEF Collect
  <1>2. CASE Astray
    BY <1>1, <1>2, StrayOutcome
  <1>3. CASE /\ frames' = [d \in 1..depth |-> IF d \in Walked THEN ScanFrame(frames[d])
                                                              ELSE MissFrame(frames[d])]
             /\ heap' = [o \in DOMAIN heap |-> TraceObject(o)]
             /\ UNCHANGED <<links, state, status, starts>>
    <2>1. depth \in Nat /\ depth > 0 /\ Walked = 1..depth
      BY <1>1, TopIs, AllAreWalked DEF SInv
    <2>2. frames' = [d \in 1..depth |-> ScanFrame(frames[d])]
      BY <1>3, <2>1
    <2>3. ASSUME NEW d \in 1..depth
          PROVE  FrameSound(frames'[d]) /\ frames'[d].method = frames[d].method
                 /\ Len(frames'[d].stack) = Len(frames[d].stack)
      <3>1. FrameSound(frames[d]) /\ frames'[d] = ScanFrame(frames[d])
        BY <2>2 DEF SInv, FramesSound
      <3> QED BY <3>1 DEF FrameSound, ScanFrame, Fields
    <2>4. HeapSound'
      <3>1. IsSeq(heap)
        BY DEF SInv, HeapSound, AllSound
      <3>2. Len(heap) \in Nat /\ DOMAIN heap = 1..Len(heap)
        BY <3>1, IsSeqIs
      <3> SUFFICES ASSUME NEW h, h = heap'
                   PROVE  AllSound(h)
        BY DEF HeapSound
      <3>3. h = [o \in 1..Len(heap) |-> TraceObject(o)]
        BY <1>3, <3>2
      <3>4. h = [o \in 1..Len(heap) |-> h[o]] /\ DOMAIN h = 1..Len(heap)
        BY <3>3
      <3>5. IsSeq(h)
        BY <3>2, <3>4, SeqList
      <3>6. \A o \in DOMAIN h : ObjectSound(h[o])
        BY <3>2, <3>3, TracedSound
      <3> QED BY <3>5, <3>6 DEF AllSound
    <2>5. DOMAIN frames' = 1..depth
      BY <2>2
    <2> QED BY <1>1, <1>3, <2>3, <2>4, <2>5 DEF Works, Outcome, state
  <1> QED BY <1>2, <1>3 DEF Collect

-----------------------------------------------------------------------------
(* What an activation of CallStack.tla is.                                 *)
Act(d) == [method |-> frames[d].method,
           height |-> Len(frames[d].stack) - Extra(d),
           gives |-> Gives(calls[d])]

Steps == FramesSound' /\ HeapSound' /\ [Calls!Next]_(Calls!vars)

(* The activations are a sequence, one for each frame.                     *)
LEMMA ActivationsAre ==
  ASSUME depth \in Nat
  PROVE  /\ Activations = [d \in 1..depth |-> Act(d)]
         /\ IsSeq(Activations)
         /\ Len(Activations) = depth
         /\ Activations = <<>> <=> depth = 0
  <1>1. Activations = [d \in 1..depth |-> Act(d)]
    BY DEF Activations, Act
  <1>2. Activations = [d \in 1..depth |-> Activations[d]]
    BY <1>1
  <1>3. IsSeq(Activations) /\ Len(Activations) = depth
    BY <1>2, SeqList
  <1>4. depth = 0 => Activations = <<>>
    <2>1. PICK S : Activations \in Seq(S)
      BY <1>3 DEF IsSeq
    <2> QED BY <1>3, <2>1, EmptySeq
  <1>5. Activations = <<>> => depth = 0
    BY <1>3
  <1> QED BY <1>1, <1>3, <1>4, <1>5

(* So are those after a step.                                              *)
LEMMA NextActivations ==
  ASSUME depth' \in Nat
  PROVE  /\ Activations' = [d \in 1..depth' |-> Act(d)']
         /\ IsSeq(Activations')
         /\ Len(Activations') = depth'
  <1>1. Activations' = [d \in 1..depth' |-> Act(d)']
    BY DEF Activations, Act
  <1>2. Activations' = [d \in 1..depth' |-> Activations'[d]]
    BY <1>1
  <1> QED BY <1>1, <1>2, SeqList

(* A number of operands that a method has room for.                        *)
LEMMA HeightIs ==
  ASSUME NEW m \in Methods, NEW h \in Nat, h <= Room(m)
  PROVE  h \in Calls!Heights
  <1>1. Room(m) \in Nat
    BY ArityIs
  <1>2. [k \in Methods |-> Room(k)][m] = Room(m)
    OBVIOUS
  <1>3. h \in 0..[k \in Methods |-> Room(k)][m]
    BY <1>1, <1>2
  <1> QED BY <1>3 DEF Calls!Heights

(* What is known of a frame and its place among the others.                *)
LEMMA FrameIs ==
  ASSUME SInv, NEW d \in 1..depth
  PROVE  /\ FrameSound(frames[d])
         /\ frames[d].method \in Methods
         /\ Clean(frames[d].stack)
         /\ Len(frames[d].stack) \in Nat
         /\ Len(frames[d].stack) <= Room(frames[d].method)
         /\ Room(frames[d].method) \in Nat
         /\ Extra(d) \in {0, 1}
         /\ Extra(d) <= Len(frames[d].stack)
         /\ calls[d].site \in Nat
         /\ frames[d].method = Act(d).method
  <1>1. FrameSound(frames[d]) /\ Extra(d) <= Len(frames[d].stack) /\ calls[d].site \in Nat
    BY DEF SInv, FramesSound
  <1>2. /\ frames[d].method \in Methods /\ Clean(frames[d].stack)
        /\ Len(frames[d].stack) <= Room(frames[d].method)
    BY <1>1 DEF FrameSound
  <1>3. Len(frames[d].stack) \in Nat
    BY <1>2, IsSeqIs DEF Clean
  <1>4. Extra(d) \in {0, 1}
    BY DEF Extra
  <1> QED BY <1>1, <1>2, <1>3, <1>4, ArityIs DEF Act

(* An opcode that works is work of CallStack.tla.                          *)
LEMMA WorksSteps ==
  ASSUME SInv, Works
  PROVE  Steps
  <1> DEFINE h == Len(frames'[depth].stack)
  <1>1. status = "running" /\ depth \in Nat /\ depth > 0 /\ depth \in 1..depth
    BY TopIs DEF Works
  <1>2. /\ depth' = depth /\ calls' = calls /\ status' = "running" /\ trace' = trace
    BY <1>1 DEF Works, links
  <1>3. ASSUME NEW d \in 1..depth
        PROVE  /\ FrameSound(frames'[d])
               /\ frames'[d].method = frames[d].method
               /\ d # depth => Len(frames'[d].stack) = Len(frames[d].stack)
               /\ Extra(d)' = Extra(d)
               /\ Extra(d)' <= Len(frames'[d].stack)
    <2>1. /\ FrameSound(frames'[d])
          /\ frames'[d].method = frames[d].method
          /\ d # depth => Len(frames'[d].stack) = Len(frames[d].stack)
      BY DEF Works
    <2>2. Extra(d)' = Extra(d)
      BY <1>2 DEF Extra
    <2>3. Len(frames'[d].stack) \in Nat
      BY <2>1, IsSeqIs DEF FrameSound, Clean
    <2>4. d = depth => Extra(d) = 0
      BY <1>1 DEF Extra
    <2> QED BY <2>1, <2>2, <2>3, <2>4, FrameIs
  <1>4. FramesSound'
    <2>1. DOMAIN frames' = 1..depth'
      BY <1>2 DEF Works
    <2>2. \A d \in 1..depth : calls'[d].site \in Nat
      BY <1>2, FrameIs
    <2> QED BY <1>2, <1>3, <2>1, <2>2 DEF FramesSound, FrameSound
  <1>5. Act(depth)' = [Act(depth) EXCEPT !.height = h]
    <2>1. Extra(depth)' = 0
      BY <1>1, <1>2 DEF Extra
    <2>2. h \in Nat /\ frames'[depth].method = frames[depth].method
      BY <1>1, <1>3, IsSeqIs DEF FrameSound, Clean
    <2> QED BY <1>2, <2>1, <2>2 DEF Act
  <1>6. \A d \in 1..depth : d # depth => Act(d)' = Act(d)
    BY <1>2, <1>3 DEF Act
  <1>7. Activations' = [Activations EXCEPT ![depth].height = h]
    <2> DEFINE r == [Act(depth) EXCEPT !.height = h]
    <2>1. Activations' = [d \in 1..depth |-> Act(d)']
      BY <1>2 DEF Activations, Act
    <2>2. Activations = [d \in 1..depth |-> Act(d)]
      BY DEF Activations, Act
    <2>3. [Activations EXCEPT ![depth].height = h] = [Activations EXCEPT ![depth] = r]
      BY <1>1, <2>2
    <2>4. ASSUME NEW d \in 1..depth
          PROVE  Activations'[d] = IF d = depth THEN r ELSE Activations[d]
      BY <1>2, <1>5, <1>6, <2>1, <2>2
    <2> HIDE DEF r
    <2>5. [Activations EXCEPT ![depth] = r]
            = [d \in 1..depth |-> IF d = depth THEN r ELSE Activations[d]]
      BY <2>2
    <2>6. Activations' = [d \in 1..depth |-> Activations'[d]]
      BY <2>1
    <2> QED BY <2>3, <2>4, <2>5, <2>6
  <1>8. h \in Calls!Heights /\ h <= Room(frames[depth].method) /\ frames[depth].method \in Methods
    <2>1. FrameSound(frames'[depth]) /\ frames'[depth].method = frames[depth].method
      BY <1>1, <1>3
    <2>2. h \in Nat /\ h <= Room(frames[depth].method) /\ frames[depth].method \in Methods
      BY <2>1, IsSeqIs DEF FrameSound, Clean
    <2> HIDE DEF h
    <2> QED BY <2>2, HeightIs
  <1>9. Calls!Work(h)
    <2>1. /\ Len(Activations) = depth /\ Activations # <<>>
          /\ Activations[depth].method = frames[depth].method
      BY <1>1, ActivationsAre DEF Act
    <2> HIDE DEF h
    <2> QED BY <1>1, <1>2, <1>7, <1>8, <2>1 DEF Calls!Work, Calls!Last
  <1>10. Calls!Next
    BY <1>8, <1>9 DEF Calls!Next
  <1> QED BY <1>4, <1>10 DEF Steps, Works

(* A step that leaves the frames and the objects alone.                    *)
LEMMA SameFrames ==
  ASSUME SInv, UNCHANGED <<frames, links, heap>>, status' # "idle"
  PROVE  FramesSound' /\ HeapSound'
  <1>1. frames' = frames /\ depth' = depth /\ calls' = calls
    BY DEF links
  <1>2. \A d \in 1..depth : Extra(d)' = Extra(d)
    BY <1>1 DEF Extra
  <1> QED BY <1>1, <1>2, HeapStays DEF SInv, FramesSound, FrameSound

(* Such a step leaves the activations alone too.                           *)
LEMMA SameActivations ==
  ASSUME UNCHANGED <<frames, links>>
  PROVE  Activations' = Activations
  BY DEF Activations, Extra, links

(* An opcode that throws raises.                                           *)
LEMMA RaisesSteps ==
  ASSUME SInv, Raises
  PROVE  Steps
  <1>1. Activations' = Activations
    BY SameActivations DEF Raises
  <1>2. Activations # <<>>
    BY TopIs, ActivationsAre DEF Raises
  <1>3. Calls!Raise
    BY <1>1, <1>2 DEF Raises, Calls!Raise
  <1> QED BY <1>3, SameFrames DEF Steps, Raises, Calls!Next

(* Where the behaviour goes astray CallStack.tla stutters.                 *)
LEMMA StraysSteps ==
  ASSUME SInv, Astray, status \in {"idle", "running"}
  PROVE  Steps
  <1>1. Activations' = Activations
    BY SameActivations DEF Astray
  <1>2. UNCHANGED Calls!vars
    BY <1>1 DEF Astray, Calls!vars, state
  <1> QED BY <1>2, SameFrames DEF Steps, Astray, data

(* However such an opcode ends, CallStack.tla allows it.                   *)
LEMMA OutcomeSteps ==
  ASSUME SInv, Outcome
  PROVE  Steps
  BY WorksSteps, RaisesSteps, StraysSteps DEF Outcome, Strays

-----------------------------------------------------------------------------
(* A frame fresh from its prologue.                                        *)
LEMMA NewFrameSound ==
  ASSUME NEW m \in Methods, NEW args, Clean(args), NEW cells
  PROVE  /\ FrameSound(NewFrame(m, args, cells))
         /\ NewFrame(m, args, cells).method = m
         /\ NewFrame(m, args, cells).stack = <<>>
  <1>1. HoldsNoLost(Locals(m, cells))
    BY BlocksAt DEF Locals, HoldsNoLost
  <1>2. Clean(<<>>) /\ Len(<<>>) <= Room(m)
    BY CleanEmpty, ArityIs
  <1> QED BY <1>1, <1>2 DEF FrameSound, NewFrame, Fields

(* A prologue takes from the caller what the signature s says and is a     *)
(* call of CallStack.tla; x is 1 if an object stays with the caller's      *)
(* operands that is not one of them.                                       *)
LEMMA EnterSteps ==
  ASSUME SInv, status = "running",
         NEW m \in Methods, NEW args, Clean(args), NEW call, call.site \in Nat,
         NEW stack, Clean(stack), Len(stack) <= Room(Top.method), NEW cells,
         NEW x, x = IF call.entered \in {"construct", "delegate"} THEN 1 ELSE 0,
         x <= Len(stack),
         NEW s \in Shapes(m), s.takes \in Nat, s.gives = Gives(call),
         Height = (Len(stack) - x) + s.takes,
         Enter(m, args, call, Advance(stack), cells), HeapSound'
  PROVE  Steps
  <1> DEFINE new == NewFrame(m, args, cells)
             r == [Act(depth) EXCEPT !.height = @ - s.takes]
             a == Calls!Activation(m, s.gives)
  <1>1. depth \in Nat /\ depth > 0 /\ depth \in 1..depth /\ Height \in Nat
    BY TopIs
  <1>2. FrameSound(Advance(stack)) /\ Advance(stack).method = Top.method
        /\ Advance(stack).stack = stack
    BY AdvanceSound
  <1>3. FrameSound(new) /\ new.method = m /\ new.stack = <<>>
    BY NewFrameSound
  <1>4. /\ depth' = depth + 1 /\ status' = status /\ trace' = trace
        /\ DOMAIN frames' = 1..depth'
        /\ frames'[depth + 1] = new
        /\ frames'[depth] = Advance(stack)
        /\ calls'[depth + 1] = call
        /\ \A d \in 1..depth : /\ d # depth => frames'[d] = frames[d]
                               /\ calls'[d] = calls[d]
    BY <1>1 DEF Enter, state
  <1> HIDE DEF new
  <1>5. Len(stack) \in Nat /\ x \in {0, 1} /\ Len(<<>>) = 0
    BY IsSeqIs, CleanEmpty DEF Clean
  <1>6. Extra(depth + 1)' = 0
    BY <1>1, <1>4 DEF Extra
  <1>7. Extra(depth) = 0
    BY <1>1 DEF Extra
  <1>8. ASSUME NEW d \in 1..depth
        PROVE  Extra(d)' = IF d = depth THEN x ELSE Extra(d)
    <2>1. CASE d = depth
      <3>1. d < depth' /\ calls'[d + 1] = call
        BY <1>1, <1>4, <2>1
      <3> QED BY <2>1, <3>1 DEF Extra
    <2>2. CASE d # depth
      <3>1. d < depth' /\ d < depth /\ d + 1 \in 1..depth
        BY <1>1, <1>4, <2>2
      <3>2. calls'[d + 1] = calls[d + 1]
        BY <1>4, <3>1
      <3> QED BY <2>2, <3>1, <3>2 DEF Extra
    <2> QED BY <2>1, <2>2
  <1>9. ASSUME NEW d \in 1..depth'
        PROVE  /\ FrameSound(frames'[d])
               /\ Extra(d)' <= Len(frames'[d].stack)
               /\ calls'[d].site \in Nat
    <2>1. CASE d = depth + 1
      <3>1. Extra(d)' = 0
        BY <1>4, <2>1 DEF Extra
      <3> QED BY <1>3, <1>4, <1>5, <2>1, <3>1
    <2>2. CASE d = depth
      <3>1. frames'[d] = Advance(stack) /\ calls'[d] = calls[d] /\ Extra(d)' = x
        BY <1>1, <1>4, <1>8, <2>2
      <3> QED BY <1>1, <1>2, <2>2, <3>1, FrameIs
    <2>3. CASE d # depth + 1 /\ d # depth
      <3>1. d \in 1..depth
        BY <1>1, <1>4, <2>3
      <3>2. frames'[d] = frames[d] /\ calls'[d] = calls[d] /\ Extra(d)' = Extra(d)
        BY <1>4, <1>8, <2>3, <3>1
      <3> QED BY <3>1, <3>2, FrameIs
    <2> QED BY <2>1, <2>2, <2>3
  <1>10. FramesSound'
    BY <1>4, <1>9 DEF FramesSound, FrameSound
  <1>11. ASSUME NEW d \in 1..(depth + 1)
         PROVE  Act(d)' = IF d = depth + 1 THEN a ELSE IF d = depth THEN r ELSE Act(d)
    <2>1. CASE d = depth + 1
      <3>1. Extra(d)' = 0
        BY <1>4, <2>1 DEF Extra
      <3>2. frames'[d] = new /\ calls'[d] = call
        BY <1>4, <2>1
      <3> QED BY <1>3, <1>5, <2>1, <3>1, <3>2 DEF Act, Calls!Activation
    <2>2. CASE d = depth
      <3>1. frames'[d] = Advance(stack) /\ calls'[d] = calls[d] /\ Extra(d)' = x
        BY <1>1, <1>4, <1>8, <2>2
      <3>2. Len(stack) - x = (Height - 0) - s.takes
        BY <1>1, <1>5
      <3>3. frames[depth].method = Top.method /\ Len(frames[depth].stack) = Height
        BY DEF Top, Height, Stack
      <3>4. Act(d)' = [method |-> Top.method, height |-> Len(stack) - x,
                       gives |-> Gives(calls[depth])]
        BY <1>2, <2>2, <3>1 DEF Act
      <3>5. r = [method |-> Top.method, height |-> (Height - 0) - s.takes,
                 gives |-> Gives(calls[depth])]
        BY <1>7, <3>3 DEF Act
      <3>6. d # depth + 1
        BY <1>1, <2>2
      <3> HIDE DEF r
      <3> QED BY <2>2, <3>2, <3>4, <3>5, <3>6
    <2>3. CASE d # depth + 1 /\ d # depth
      <3>1. d \in 1..depth
        BY <1>1, <2>3
      <3>2. frames'[d] = frames[d] /\ calls'[d] = calls[d] /\ Extra(d)' = Extra(d)
        BY <1>4, <1>8, <2>3, <3>1
      <3> QED BY <2>3, <3>2 DEF Act
    <2> QED BY <2>1, <2>2, <2>3
  <1>12. Activations[depth] = Act(depth) /\ Act(depth).height = Height
         /\ Activations # <<>> /\ Len(Activations) = depth /\ IsSeq(Activations)
    BY <1>1, <1>7, ActivationsAre DEF Act, Top, Height, Stack
  <1> DEFINE B == [Activations EXCEPT ![depth] = r]
  <1>13. [Activations EXCEPT ![depth].height = @ - s.takes] = B
    BY <1>12
  <1>14. /\ IsSeq(B) /\ Len(B) = depth
         /\ \A d \in 1..depth : B[d] = IF d = depth THEN r ELSE Act(d)
    <2> HIDE DEF r
    <2>1. Activations = [d \in 1..depth |-> Act(d)]
      BY <1>1, ActivationsAre
    <2>2. IsSeq(B) /\ Len(B) = depth
      BY <1>12, SeqExcept
    <2> QED BY <2>1, <2>2
  <1>15. Activations' = Append(B, a)
    <2> HIDE DEF B, a, r
    <2>1. /\ IsSeq(Append(B, a)) /\ Len(Append(B, a)) = depth + 1
          /\ \A d \in 1..depth : Append(B, a)[d] = B[d]
          /\ Append(B, a)[depth + 1] = a
      BY <1>14, SeqPush
    <2>2. depth' \in Nat
      BY <1>1, <1>4
    <2>3. IsSeq(Activations') /\ Len(Activations') = depth + 1
          /\ \A d \in 1..(depth + 1) : Activations'[d] = Act(d)'
      BY <1>4, <2>2, NextActivations
    <2>4. ASSUME NEW d \in 1..(depth + 1)
          PROVE  Activations'[d] = Append(B, a)[d]
      <3>1. CASE d = depth + 1
        BY <1>11, <2>1, <2>3, <3>1
      <3>2. CASE d # depth + 1
        <4>1. d \in 1..depth
          BY <1>1, <3>2
        <4> QED BY <1>11, <1>14, <2>1, <2>3, <3>2, <4>1
      <3> QED BY <3>1, <3>2
    <2> QED BY <2>1, <2>3, <2>4, SeqSame
  <1>16. Calls!Call(m, s)
    <2>1. Activations[depth].height >= s.takes
      BY <1>5, <1>12
    <2>2. Activations' = Append([Activations EXCEPT ![depth].height = @ - s.takes],
                                Calls!Activation(m, s.gives))
      BY <1>13, <1>15
    <2> HIDE DEF B, r, a
    <2> QED BY <1>4, <1>12, <2>1, <2>2 DEF Calls!Call, Calls!Last
  <1>17. Calls!Next
    <2>1. s \in [k \in Methods |-> Shapes(k)][m]
      OBVIOUS
    <2> QED BY <1>16, <2>1 DEF Calls!Next
  <1> QED BY <1>10, <1>17 DEF Steps

(* The arguments that a prologue pops are not lost.                        *)
LEMMA ArgumentsClean ==
  ASSUME SInv, status = "running", NEW n \in Nat, n <= Height
  PROVE  /\ Clean(Arguments(n))
         /\ \A b : b.at # Lost =>
              Clean([i \in 1..(n + 1) |-> IF i = 1 THEN b ELSE Arguments(n)[i - 1]])
  <1>1. Clean(Stack) /\ Height \in Nat /\ DOMAIN Stack = 1..Height
    BY TopIs, IsSeqIs DEF Clean, Height
  <1>2. ASSUME NEW i \in 1..n
        PROVE  Arguments(n)[i] = Stack[Height - n + i] /\ Arguments(n)[i].at # Lost
    <2>1. Arguments(n)[i] = Stack[Height - n + i]
      BY DEF Arguments
    <2>2. Height - n + i \in DOMAIN Stack
      BY <1>1
    <2> QED BY <1>1, <2>1, <2>2 DEF Clean, HoldsNoLost
  <1>3. Arguments(n) = [i \in 1..n |-> Arguments(n)[i]]
    BY DEF Arguments
  <1>4. Clean(Arguments(n))
    BY <1>2, <1>3, CleanList
  <1>5. ASSUME NEW b, b.at # Lost
        PROVE  Clean([i \in 1..(n + 1) |-> IF i = 1 THEN b ELSE Arguments(n)[i - 1]])
    <2> DEFINE s == [i \in 1..(n + 1) |-> IF i = 1 THEN b ELSE Arguments(n)[i - 1]]
    <2>1. s = [i \in 1..(n + 1) |-> s[i]]
      OBVIOUS
    <2>2. ASSUME NEW i \in 1..(n + 1)
          PROVE  s[i].at # Lost
      <3>1. CASE i = 1
        BY <1>5, <3>1
      <3>2. CASE i # 1
        <4>1. i - 1 \in 1..n /\ s[i] = Arguments(n)[i - 1]
          BY <3>2
        <4> QED BY <4>1, <1>2
      <3> QED BY <3>1, <3>2
    <2> HIDE DEF s
    <2>3. Clean(s)
      BY <2>1, <2>2, CleanList
    <2> QED BY <2>3 DEF s
  <1> QED BY <1>4, <1>5

(* The signatures that the three prologues use.                            *)
LEMMA ShapesAre ==
  ASSUME NEW m \in Methods, NEW called \in Methods
  PROVE  /\ [takes |-> Arity(m), gives |-> Results(called)] \in Shapes(m)
         /\ [takes |-> Rest(m) + 1, gives |-> Results(called)] \in Shapes(m)
         /\ [takes |-> Rest(m), gives |-> 1] \in Shapes(m)
  BY DEF Shapes

(* ExMethodPrologueArgs and -ArgsNative.                                   *)
LEMMA CallMethodSteps ==
  ASSUME SInv, status = "running", NEW m \in Methods, NEW called \in Methods,
         CallMethod(m, called)
  PROVE  Steps
  <1> DEFINE n == Arity(m)
             call == Call("call", called, 1, 0)
             s == [takes |-> n, gives |-> Results(called)]
  <1>1. CASE Height < n
    BY <1>1, StraysSteps DEF CallMethod
  <1>2. CASE ~(Height < n)
    <2>1. n \in Nat /\ Height \in Nat /\ n <= Height
      BY <1>2, ArityIs, TopIs
    <2>2. Clean(Arguments(n))
      BY <2>1, ArgumentsClean
    <2>3. Clean(Pop(n)) /\ Len(Pop(n)) = Height - n /\ Len(Pop(n)) <= Room(Top.method)
      <3>1. Clean(Pop(n)) /\ Len(Pop(n)) = Height - n
        BY <2>1, Popped
      <3> QED BY <2>1, <3>1, TopIs
    <2>4. /\ call.site \in Nat
          /\ 0 = IF call.entered \in {"construct", "delegate"} THEN 1 ELSE 0
          /\ s \in Shapes(m) /\ s.takes = n /\ s.gives = Gives(call)
      BY ShapesAre DEF Call, Gives
    <2>5. Enter(m, Arguments(n), call, Advance(Pop(n)), memory) /\ UNCHANGED heap
      BY <1>2 DEF CallMethod
    <2>6. HeapSound'
      BY <2>5, HeapStays
    <2> HIDE DEF n, s, call
    <2>7. 0 <= Len(Pop(n)) /\ Height = (Len(Pop(n)) - 0) + s.takes /\ s.takes \in Nat
      BY <2>1, <2>3, <2>4
    <2> QED BY <2>2, <2>3, <2>4, <2>5, <2>6, <2>7, EnterSteps
  <1> QED BY <1>1, <1>2

(* ExMethodPrologueDelegate: the receiver comes out of the delegate, and   *)
(* the delegate stays with the caller.                                     *)
LEMMA FirstSiteSteps ==
  ASSUME SInv, status = "running", Operand \in Methods, NEW receiver, FirstSite(receiver)
  PROVE  Steps
  <1> DEFINE delegate == Delegate(Stack[receiver])
             m == delegate.sites[1]
             n == Rest(m)
             b == Reference(delegate.contents[1])
             args == [i \in 1..(n + 1) |-> IF i = 1 THEN b ELSE Arguments(n)[i - 1]]
             call == Call("delegate", Operand, 1, receiver)
             s == [takes |-> n + 1, gives |-> Results(Operand)]
  <1>1. CASE Astray
    BY <1>1, StraysSteps
  <1>2. CASE /\ IsObject(Stack[receiver], "delegate") /\ delegate.sites # <<>>
             /\ m \in Bytecode /\ ~(Height <= n)
             /\ Enter(m, args, call, Advance(Pop(n)), memory)
             /\ UNCHANGED heap
    <2>1. m \in Methods /\ n \in Nat /\ Height \in Nat /\ n <= Height /\ n < Height
      <3>1. m \in Methods
        BY <1>2 DEF Bytecode
      <3>2. n \in Nat /\ Height \in Nat
        BY <3>1, ArityIs, TopIs
      <3> QED BY <1>2, <3>1, <3>2
    <2>2. b.at # Lost
      <3>1. ObjectSound(delegate) /\ delegate.kind = "delegate"
        BY <1>2, ObjectIs DEF Delegate, IsObject
      <3> HIDE DEF delegate
      <3>2. /\ IsSeq(delegate.contents) /\ IsSeq(delegate.sites)
            /\ Len(delegate.contents) = Len(delegate.sites) /\ NoneLost(delegate.contents)
        BY <3>1 DEF ObjectSound
      <3>3. Len(delegate.sites) # 0
        <4>1. PICK S : delegate.sites \in Seq(S)
          BY <3>2 DEF IsSeq
        <4> QED BY <1>2, <4>1, EmptySeq
      <3>4. 1 \in DOMAIN delegate.contents
        BY <3>2, <3>3, IsSeqIs
      <3>5. delegate.contents[1] # Lost
        BY <3>2, <3>4 DEF NoneLost
      <3> QED BY <3>5, BlocksAt
    <2>3. Clean(args)
      <3> HIDE DEF b, n
      <3> QED BY <2>1, <2>2, ArgumentsClean
    <2>4. Clean(Pop(n)) /\ Len(Pop(n)) = Height - n /\ Len(Pop(n)) <= Room(Top.method)
      <3>1. Clean(Pop(n)) /\ Len(Pop(n)) = Height - n
        BY <2>1, Popped
      <3> QED BY <2>1, <3>1, TopIs
    <2>5. /\ call.site \in Nat
          /\ 1 = IF call.entered \in {"construct", "delegate"} THEN 1 ELSE 0
          /\ s \in Shapes(m) /\ s.takes = n + 1 /\ s.gives = Gives(call)
      BY <2>1, ShapesAre DEF Call, Gives
    <2>6. HeapSound'
      BY <1>2, HeapStays
    <2> HIDE DEF m, n, s, call, args
    <2>7. 1 <= Len(Pop(n)) /\ Height = (Len(Pop(n)) - 1) + s.takes /\ s.takes \in Nat
      BY <2>1, <2>4, <2>5
    <2> QED BY <1>2, <2>1, <2>3, <2>4, <2>5, <2>6, <2>7, EnterSteps
  <1> QED BY <1>1, <1>2 DEF FirstSite

(* ExMethodPrologueCtor and -CtorNative: the instance is in the frame of   *)
(* the caller and in the first argument.                                   *)
LEMMA NewObjectSteps ==
  ASSUME SInv, NewObject
  PROVE  Steps
  <1> DEFINE owner == Method(Operand).owner
             n == Rest(Operand)
             structure == Is(Domain, owner, "struct")
             instance == IF structure THEN Struct(Len(memory) + 1)
                         ELSE Reference(Object(Len(heap) + 1))
             this == IF structure THEN Pointer(instance.at, owner) ELSE instance
             args == [i \in 1..(n + 1) |-> IF i = 1 THEN this ELSE Arguments(n)[i - 1]]
             cell == [type |-> owner,
                      contents |-> [p \in Paths(Domain, owner) |-> Zeroed(owner, p)]]
             kind == IF Is(Domain, owner, "delegate") THEN "delegate" ELSE "plain"
             paths == IF kind = "delegate" THEN {} ELSE ObjectPaths(Domain, owner)
             contents == [p \in paths |-> Zeroed(owner, p)]
             cells == IF structure THEN Append(memory, cell) ELSE memory
             call == Call("construct", Operand, 1, 0)
             s == [takes |-> n, gives |-> 1]
             stack == Append(Pop(n), instance)
  <1>1. status = "running" /\ Operand \in Methods /\ Height < Room(Top.method)
    BY Finds DEF NewObject, Names, Grows
  <1>2. CASE Height < n
    BY <1>1, <1>2, StraysSteps DEF NewObject
  <1>3. CASE ~(Height < n)
    <2>1. n \in Nat /\ Height \in Nat /\ n <= Height
      BY <1>1, <1>3, ArityIs, TopIs
    <2>2. instance.at # Lost /\ this.at # Lost
      BY BlocksAt, Places
    <2>3. /\ Enter(Operand, args, call, Advance(stack), cells)
          /\ \/ UNCHANGED heap
             \/ heap' = Append(heap, Allocated(owner, kind, contents, <<>>))
      BY <1>3 DEF NewObject
    <2>4. HeapSound'
      <3>1. CASE kind = "plain"
        BY <2>3, <3>1, HeapStays, PlainSound, NewObjectSound
      <3>2. CASE kind = "delegate"
        <4>1. DOMAIN contents = {}
          BY <3>2
        <4>2. contents = <<>>
          BY <4>1
        <4>3. <<>> \in Seq({})
          OBVIOUS
        <4>4. ObjectSound(Allocated(owner, kind, contents, <<>>))
          BY <3>2, <4>2, <4>3 DEF ObjectSound, Allocated, NoneLost, IsSeq
        <4> QED BY <2>3, <4>4, HeapStays, NewObjectSound
      <3> QED BY <3>1, <3>2
    <2> HIDE DEF instance, this, cells
    <2>5. Clean(args)
      <3> HIDE DEF n
      <3> QED BY <1>1, <2>1, <2>2, ArgumentsClean
    <2>6. Clean(stack) /\ Len(stack) = (Height - n) + 1 /\ Len(stack) <= Room(Top.method)
      <3>1. Clean(Pop(n)) /\ Len(Pop(n)) = Height - n
        BY <1>1, <2>1, Popped
      <3>2. Clean(stack) /\ Len(stack) = Len(Pop(n)) + 1
        BY <2>2, <3>1, CleanPush
      <3>3. Room(Top.method) \in Nat
        BY <1>1, TopIs
      <3> HIDE DEF n, stack
      <3> QED BY <1>1, <2>1, <3>1, <3>2, <3>3
    <2>7. /\ call.site \in Nat
          /\ 1 = IF call.entered \in {"construct", "delegate"} THEN 1 ELSE 0
          /\ s \in Shapes(Operand) /\ s.takes = n /\ s.gives = Gives(call)
      BY <1>1, ShapesAre DEF Call, Gives
    <2> HIDE DEF n, s, call, args, stack
    <2>8. 1 <= Len(stack) /\ Height = (Len(stack) - 1) + s.takes /\ s.takes \in Nat
      BY <2>1, <2>6, <2>7
    <2> QED BY <1>1, <2>3, <2>4, <2>5, <2>6, <2>7, <2>8, EnterSteps
  <1> QED BY <1>2, <1>3

(* A call that throws instead.                                             *)
LEMMA ThrowSteps ==
  ASSUME SInv, status = "running", NEW e, Throw(e)
  PROVE  Steps
  BY ThrowRaises, OutcomeSteps

(* OpCall and OpVirtualCall.                                               *)
LEMMA CallsStep ==
  ASSUME SInv, OrdinaryCall \/ VirtualCall
  PROVE  Steps
  <1>1. CASE OrdinaryCall
    <2>1. status = "running" /\ Operand \in Methods
      BY <1>1, Finds DEF OrdinaryCall, Names
    <2> QED BY <1>1, <2>1, CallMethodSteps DEF OrdinaryCall
  <1>2. CASE VirtualCall
    <2> DEFINE receiver == Height - Arity(Operand) + 1
               target == Dispatch(Stack[receiver], Operand)
    <2>1. status = "running" /\ Operand \in Methods
      BY <1>2, Finds DEF VirtualCall, Names
    <2>2. \/ Throw("null") \/ Astray \/ Throw("engine")
          \/ FirstSite(receiver)
          \/ target \in Methods /\ CallMethod(target, Operand)
      BY <1>2 DEF VirtualCall
    <2> HIDE DEF receiver, target
    <2> QED BY <2>1, <2>2, ThrowSteps, StraysSteps, FirstSiteSteps, CallMethodSteps
  <1> QED BY <1>1, <1>2

(* The runtime calls a method itself.                                      *)
LEMMA StartSteps ==
  ASSUME SInv, NEW m \in Methods, Start(m)
  PROVE  Steps
  <1> DEFINE new == NewFrame(m, <<>>, <<>>)
  <1>1. depth = 0 /\ Activations = <<>>
    BY ActivationsAre DEF SInv, FramesSound, Start
  <1>2. FrameSound(new) /\ new.method = m /\ new.stack = <<>>
    BY CleanEmpty, NewFrameSound
  <1>3. /\ depth' = 1 /\ status' = "running" /\ trace' = trace /\ heap' = heap
        /\ DOMAIN frames' = 1..1 /\ frames'[1] = new
        /\ calls'[1] = Call("base", m, 1, 0)
    BY DEF Start, state
  <1> HIDE DEF new
  <1>4. \A d \in 1..1 : Extra(d)' = 0
    BY <1>3 DEF Extra
  <1>5. FramesSound'
    BY <1>2, <1>3, <1>4, CleanEmpty DEF FramesSound, FrameSound, Call
  <1>6. Act(1)' = Calls!Activation(m, 0)
    <2>1. Extra(1)' = 0
      BY <1>4
    <2> QED BY <1>2, <1>3, <2>1, CleanEmpty DEF Act, Calls!Activation, Gives, Call
  <1>7. Activations' = <<Calls!Activation(m, 0)>>
    <2> DEFINE a == Calls!Activation(m, 0)
    <2> HIDE DEF a
    <2>1. IsSeq(Activations') /\ Len(Activations') = 1 /\ Activations'[1] = a
      BY <1>3, <1>6, NextActivations DEF a
    <2>2. <<a>> \in Seq({a}) /\ Len(<<a>>) = 1 /\ <<a>>[1] = a
      OBVIOUS
    <2>3. Activations' = <<a>>
      BY <2>1, <2>2, SeqSame DEF IsSeq
    <2> QED BY <2>3 DEF a
  <1>8. Calls!Begin(m)
    BY <1>1, <1>3, <1>7 DEF Calls!Begin
  <1>9. HeapSound'
    BY <1>3, HeapStays
  <1> QED BY <1>5, <1>8, <1>9 DEF Steps, Calls!Next

-----------------------------------------------------------------------------
(* What OpVirtualCall leaves of the caller's operands once the callee has  *)
(* ended: the activation's height, with the instance that is under         *)
(* construction.                                                           *)
LEMMA CallerIs ==
  ASSUME SInv, depth \in Nat, depth > 1
  PROVE  /\ depth - 1 \in 1..depth /\ depth \in 1..depth
         /\ Clean(CallerStack)
         /\ Len(CallerStack) \in Nat
         /\ Len(CallerStack) <= Room(frames[depth - 1].method)
         /\ Room(frames[depth - 1].method) \in Nat
         /\ frames[depth - 1].method \in Methods
         /\ Len(CallerStack) = Act(depth - 1).height
              + (IF Entry.entered = "construct" THEN 1 ELSE 0)
         /\ Act(depth - 1).height \in Nat
  <1> DEFINE s == frames[depth - 1].stack
  <1>1. depth - 1 \in 1..depth /\ depth \in 1..depth
    OBVIOUS
  <1>2. /\ Clean(s) /\ Len(s) \in Nat /\ Len(s) <= Room(frames[depth - 1].method)
        /\ Room(frames[depth - 1].method) \in Nat
        /\ Extra(depth - 1) \in {0, 1} /\ Extra(depth - 1) <= Len(s)
        /\ frames[depth - 1].method \in Methods
    BY <1>1, FrameIs
  <1>3. Extra(depth - 1) = IF Entry.entered \in {"construct", "delegate"} THEN 1 ELSE 0
    <2>1. depth - 1 < depth /\ (depth - 1) + 1 = depth
      OBVIOUS
    <2> QED BY <2>1 DEF Extra, Entry
  <1>4. Act(depth - 1).height = Len(s) - Extra(depth - 1)
    BY DEF Act
  <1>5. CASE Entry.entered = "delegate"
    <2>1. Len(s) - 1 \in Nat /\ Len(s) - 1 <= Len(s)
      BY <1>2, <1>3, <1>5
    <2>2. CallerStack = SubSeq(s, 1, Len(s) - 1)
      BY <1>5 DEF CallerStack
    <2> HIDE DEF s
    <2>3. Clean(CallerStack) /\ Len(CallerStack) = Len(s) - 1
      BY <1>2, <2>1, <2>2, CleanCut
    <2> QED BY <1>1, <1>2, <1>3, <1>4, <1>5, <2>1, <2>3
  <1>6. CASE Entry.entered # "delegate"
    <2>1. CallerStack = s
      BY <1>6 DEF CallerStack
    <2> HIDE DEF s
    <2> QED BY <1>1, <1>2, <1>3, <1>4, <1>6, <2>1
  <1> QED BY <1>5, <1>6

(* What Calls!Cut and Calls!Return make of n activations.                  *)
CutOf(s, n, h) == IF n = 1 THEN <<>> ELSE [SubSeq(s, 1, n - 1) EXCEPT ![n - 1].height = h]

ReturnOf(s, n) == IF n = 1 THEN <<>>
                  ELSE [SubSeq(s, 1, n - 1) EXCEPT ![n - 1].height = @ + s[n].gives]

(* They are what CallStack.tla says.                                       *)
LEMMA CutIs ==
  ASSUME depth \in Nat, NEW h
  PROVE  /\ Calls!Cut(h) = CutOf(Activations, depth, h)
         /\ /\ Activations # <<>>
            /\ status \notin {"raising", "caught"} /\ status' \notin {"raising", "caught"}
            /\ depth > 1 => Calls!Receives
            /\ Activations' = ReturnOf(Activations, depth)
            /\ trace' = trace
            => Calls!Return
  <1>1. Len(Activations) = depth
    BY ActivationsAre
  <1>2. Calls!Cut(h) = CutOf(Activations, Len(Activations), h)
    BY DEF Calls!Cut, Calls!Last, CutOf
  <1>3. ReturnOf(Activations, Len(Activations))
          = IF Len(Activations) = 1 THEN <<>>
            ELSE [SubSeq(Activations, 1, Len(Activations) - 1) EXCEPT
                    ![Len(Activations) - 1].height = @ + Activations[Len(Activations)].gives]
    BY DEF ReturnOf
  <1>4. ReturnOf(Activations, Len(Activations)) = ReturnOf(Activations, depth)
    BY <1>1
  <1>5. ASSUME Activations # <<>>,
               status \notin {"raising", "caught"}, status' \notin {"raising", "caught"},
               depth > 1 => Calls!Receives,
               Activations' = ReturnOf(Activations, depth),
               trace' = trace
        PROVE  Calls!Return
    <2>1. Activations' = ReturnOf(Activations, Len(Activations))
      BY <1>4, <1>5
    <2>2. Len(Activations) > 1 => Calls!Receives
      BY <1>1, <1>5
    <2> HIDE DEF Activations
    <2> QED BY <1>3, <1>5, <2>1, <2>2 DEF Calls!Return, Calls!Last
  <1> QED BY <1>1, <1>2, <1>5

(* When the innermost frame is gone the one below is the last, with the    *)
(* operands it is given.                                                   *)
LEMMA DropCuts ==
  ASSUME SInv, depth \in Nat, depth > 1, status' # "idle",
         NEW stack, Clean(stack), Len(stack) <= Room(frames[depth - 1].method), Drop(stack)
  PROVE  /\ FramesSound'
         /\ Activations' = Calls!Cut(Len(stack))
  <1> DEFINE h == Len(stack)
             r == [Act(depth - 1) EXCEPT !.height = h]
             A == SubSeq(Activations, 1, depth - 1)
             B == [A EXCEPT ![depth - 1] = r]
             f == [frames[depth - 1] EXCEPT !.stack = stack]
  <1>1. h \in Nat /\ depth - 1 \in 1..depth /\ depth - 1 \in Nat
    BY IsSeqIs DEF Clean
  <1>2. FrameSound(frames[depth - 1])
    BY <1>1, FrameIs
  <1>3. FrameSound(f) /\ f.method = frames[depth - 1].method /\ f.stack = stack
    BY <1>2 DEF FrameSound, Fields
  <1>4. /\ depth' = depth - 1
        /\ DOMAIN frames' = 1..(depth - 1)
        /\ frames'[depth - 1] = f
        /\ \A d \in 1..(depth - 1) : /\ d # depth - 1 => frames'[d] = frames[d]
                                     /\ calls'[d] = calls[d]
    BY <1>1 DEF Drop
  <1> HIDE DEF f
  <1>5. ASSUME NEW d \in 1..(depth - 1)
        PROVE  Extra(d)' = IF d = depth - 1 THEN 0 ELSE Extra(d)
    <2>1. CASE d = depth - 1
      BY <1>1, <1>4, <2>1 DEF Extra
    <2>2. CASE d # depth - 1
      <3>1. d < depth' /\ d < depth /\ d + 1 \in 1..(depth - 1)
        BY <1>1, <1>4, <2>2
      <3>2. calls'[d + 1] = calls[d + 1]
        BY <1>4, <3>1
      <3> QED BY <2>2, <3>1, <3>2 DEF Extra
    <2> QED BY <2>1, <2>2
  <1>6. ASSUME NEW d \in 1..(depth - 1)
        PROVE  /\ FrameSound(frames'[d])
               /\ Extra(d)' <= Len(frames'[d].stack)
               /\ calls'[d].site \in Nat
    <2>0. d \in 1..depth
      BY <1>1
    <2>1. CASE d = depth - 1
      BY <1>1, <1>3, <1>4, <1>5, <2>0, <2>1, FrameIs
    <2>2. CASE d # depth - 1
      BY <1>4, <1>5, <2>0, <2>2, FrameIs
    <2> QED BY <2>1, <2>2
  <1>7. FramesSound'
    BY <1>4, <1>6 DEF FramesSound, FrameSound
  <1>8. ASSUME NEW d \in 1..(depth - 1)
        PROVE  Act(d)' = IF d = depth - 1 THEN r ELSE Act(d)
    <2>1. CASE d = depth - 1
      <3>1. frames'[d] = f /\ calls'[d] = calls[d] /\ Extra(d)' = 0
        BY <1>1, <1>4, <1>5, <2>1
      <3>2. r = [method |-> frames[depth - 1].method, height |-> h,
                 gives |-> Gives(calls[depth - 1])]
        BY DEF Act
      <3>3. Act(d)' = [method |-> frames[depth - 1].method, height |-> h - 0,
                       gives |-> Gives(calls[depth - 1])]
        BY <1>3, <2>1, <3>1 DEF Act
      <3> HIDE DEF r
      <3> QED BY <1>1, <2>1, <3>2, <3>3
    <2>2. CASE d # depth - 1
      <3>1. frames'[d] = frames[d] /\ calls'[d] = calls[d] /\ Extra(d)' = Extra(d)
        BY <1>4, <1>5, <2>2
      <3> QED BY <2>2, <3>1 DEF Act
    <2> QED BY <2>1, <2>2
  <1>9. /\ IsSeq(Activations) /\ Len(Activations) = depth
        /\ Activations = [d \in 1..depth |-> Act(d)]
    BY ActivationsAre
  <1>10. /\ IsSeq(A) /\ Len(A) = depth - 1
         /\ \A d \in 1..(depth - 1) : A[d] = Act(d)
    <2>1. /\ IsSeq(A) /\ Len(A) = depth - 1
          /\ \A d \in 1..(depth - 1) : A[d] = Activations[d]
      BY <1>1, <1>9, SeqCut
    <2> QED BY <1>1, <1>9, <2>1
  <1>11. DOMAIN A = 1..(depth - 1)
    <2> HIDE DEF A
    <2> QED BY <1>10, IsSeqIs
  <1>12. Calls!Cut(h) = B
    <2>1. [A EXCEPT ![depth - 1].height = h] = B
      <3>1. A[depth - 1] = Act(depth - 1)
        BY <1>1, <1>10
      <3> HIDE DEF A, h
      <3> QED BY <3>1
    <2> HIDE DEF B, h
    <2>2. depth # 1
      OBVIOUS
    <2>3. CutOf(Activations, depth, h) = [A EXCEPT ![depth - 1].height = h]
      BY <2>2, Zenon DEF CutOf
    <2>4. Calls!Cut(h) = CutOf(Activations, depth, h)
      BY CutIs
    <2> QED BY <2>1, <2>3, <2>4
  <1>13. /\ IsSeq(B) /\ Len(B) = depth - 1
         /\ \A d \in 1..(depth - 1) : B[d] = IF d = depth - 1 THEN r ELSE Act(d)
    <2> HIDE DEF A, r
    <2> QED BY <1>10, <1>11, SeqExcept
  <1>14. Activations' = B
    <2> HIDE DEF B, r
    <2>1. IsSeq(Activations') /\ Len(Activations') = depth - 1
          /\ \A d \in 1..(depth - 1) : Activations'[d] = Act(d)'
      BY <1>1, <1>4, NextActivations
    <2> QED BY <1>8, <1>13, <2>1, SeqSame
  <1> QED BY <1>7, <1>12, <1>14

(* When the first frame is gone there are no activations.                  *)
LEMMA EndFirstEmpties ==
  ASSUME EndFirst
  PROVE  FramesSound' /\ Activations' = <<>> /\ status' = "idle"
  <1>1. depth' = 0 /\ status' = "idle" /\ frames' = <<>>
    BY DEF EndFirst
  <1>2. FramesSound'
    BY <1>1 DEF FramesSound
  <1>3. IsSeq(Activations') /\ Len(Activations') = 0
    BY <1>1, NextActivations
  <1>4. Activations' = <<>>
    BY <1>3, CleanEmpty, SeqSame DEF Clean
  <1> QED BY <1>1, <1>2, <1>4

(* A return gives the caller the results of the signature, as              *)
(* CallStack.tla says.                                                     *)
LEMMA FinishSteps ==
  ASSUME SInv, status = "running", ResultFits, NEW result, result.at # Lost,
         Finish(result), HeapSound'
  PROVE  Steps
  <1>1. depth \in Nat /\ depth > 0 /\ Activations # <<>> /\ Len(Activations) = depth
        /\ Activations = [d \in 1..depth |-> Act(d)]
    BY TopIs, ActivationsAre
  <1>2. CASE Entry.entered = "base"
    <2>1. depth = 1
      BY <1>1, <1>2 DEF SInv, IInv, OnlyFirstIsBase, Entry
    <2>2. EndFirst /\ trace' = trace
      BY <1>2 DEF Finish, state
    <2>3. Calls!Return
      BY <1>1, <2>1, <2>2, EndFirstEmpties DEF Calls!Return, Calls!Last
    <2> QED BY <2>2, <2>3, EndFirstEmpties DEF Steps, Calls!Next
  <1>3. CASE Entry.entered # "base"
    <2> DEFINE c == CallerStack
               stack == WithResult(c, result)
               grows == Entry.entered # "construct" /\ Method(Entry.called).returns
               below == Act(depth - 1).height
               h == below + Act(depth).gives
    <2>1. depth > 1
      BY <1>1, <1>3 DEF SInv, IInv, OnlyFirstIsBase, Entry
    <2>2. /\ Clean(c) /\ Len(c) \in Nat /\ Room(frames[depth - 1].method) \in Nat
          /\ Len(c) = below + (IF Entry.entered = "construct" THEN 1 ELSE 0)
          /\ below \in Nat /\ depth - 1 \in 1..depth /\ depth \in 1..depth
      BY <1>1, <2>1, CallerIs
    <2>3. Act(depth).gives = IF Entry.entered = "construct" THEN 1
                             ELSE IF Method(Entry.called).returns THEN 1 ELSE 0
      BY <1>3 DEF Act, Gives, Entry, Results
    <2> HIDE DEF c, below
    <2>4. /\ Clean(stack) /\ Len(stack) = h
          /\ Len(stack) = Len(WithResult(c, Unknown))
      <3>1. CASE grows
        <4>1. stack = Append(c, result) /\ WithResult(c, Unknown) = Append(c, Unknown)
          BY <3>1 DEF WithResult
        <4>2. Clean(Append(c, result)) /\ Len(Append(c, result)) = Len(c) + 1
              /\ Len(Append(c, Unknown)) = Len(c) + 1
          BY <2>2, BlocksAt, CleanPush
        <4>3. Act(depth).gives = 1 /\ Len(c) = below + 0
          BY <2>2, <2>3, <3>1
        <4> QED BY <2>2, <4>1, <4>2, <4>3
      <3>2. CASE ~grows
        <4>1. stack = c /\ WithResult(c, Unknown) = c
          BY <3>2 DEF WithResult
        <4>2. Len(c) = below + Act(depth).gives
          BY <2>2, <2>3, <3>2
        <4> QED BY <2>2, <4>1, <4>2
      <3> QED BY <3>1, <3>2
    <2>5. Len(stack) <= Room(frames[depth - 1].method)
      BY <2>1, <2>4 DEF ResultFits, c
    <2>6. Drop(stack) /\ status' = status /\ trace' = trace
      BY <1>3 DEF Finish, state, c
    <2>7. FramesSound' /\ Activations' = Calls!Cut(h)
      <3> HIDE DEF stack, h
      <3> QED BY <1>1, <2>1, <2>4, <2>5, <2>6, DropCuts
    <2>8. Activations[depth - 1].height = below /\ Activations[depth] = Act(depth)
          /\ Activations[depth - 1].method = frames[depth - 1].method
      BY <1>1, <2>2 DEF below, Act
    <2>9. frames[depth - 1].method \in Methods
      BY <2>2, FrameIs
    <2>10. Calls!Receives
      <3>1. Activations[depth - 1].height + Activations[depth].gives
              <= Room(frames[depth - 1].method)
        BY <2>4, <2>5, <2>8
      <3> QED BY <1>1, <2>8, <2>9, <3>1 DEF Calls!Receives, Calls!Last
    <2>11. Activations' = ReturnOf(Activations, depth)
      <3> DEFINE A == SubSeq(Activations, 1, depth - 1)
      <3>0. depth # 1
        BY <2>1
      <3>1. Activations' = [A EXCEPT ![depth - 1].height = h]
        <4> HIDE DEF h
        <4>1. CutOf(Activations, depth, h) = [A EXCEPT ![depth - 1].height = h]
          BY <3>0, Zenon DEF CutOf
        <4>2. Calls!Cut(h) = CutOf(Activations, depth, h)
          BY <1>1, CutIs
        <4> QED BY <2>7, <4>1, <4>2
      <3>2. A[depth - 1] = Activations[depth - 1]
        BY <1>1, <2>1, <2>2, ActivationsAre, SeqCut
      <3>3. ReturnOf(Activations, depth)
              = [A EXCEPT ![depth - 1].height = @ + Activations[depth].gives]
        BY <3>0, Zenon DEF ReturnOf
      <3> HIDE DEF A
      <3>4. [A EXCEPT ![depth - 1].height = @ + Activations[depth].gives]
              = [A EXCEPT ![depth - 1].height = h]
        BY <2>8, <3>2
      <3> QED BY <3>1, <3>3, <3>4
    <2>12. Calls!Return
      BY <1>1, <2>6, <2>10, <2>11, CutIs
    <2> QED BY <2>7, <2>12 DEF Steps, Calls!Next
  <1> QED BY <1>2, <1>3

(* The next method of a delegate's loop.                                   *)
LEMMA NextSiteSteps ==
  ASSUME SInv, status = "running", MoreSites, NextSite
  PROVE  Steps
  <1> DEFINE t == Entry.site + 1
             m == Called.sites[t]
             kept == SubSeq(memory, 1, Top.built)
             b == Reference(Called.contents[t])
             args == [Top.args EXCEPT ![1] = b]
             call == Call("delegate", Entry.called, t, Entry.receiver)
             fresh == NewFrame(m, args, kept)
             new == [fresh EXCEPT !.floor = Top.floor]
             receiver == frames[depth - 1].stack[Entry.receiver]
  <1>1. depth \in Nat /\ depth > 0 /\ depth \in 1..depth /\ depth # 1
        /\ Entry.entered = "delegate" /\ FrameSound(Top) /\ Entry.site \in Nat
    BY TopIs, FrameIs DEF SInv, IInv, OnlyFirstIsBase, MoreSites, Entry
  <1>2. CASE Astray
    BY <1>2, StraysSteps
  <1>3. CASE /\ IsObject(receiver, "delegate") /\ m \in Bytecode
             /\ frames' = [frames EXCEPT ![depth] = new]
             /\ calls' = [d \in 1..depth |-> IF d = depth THEN call ELSE calls[d]]
             /\ UNCHANGED <<depth, heap, state, status>>
    <2>1. m \in Methods
      BY <1>3 DEF Bytecode
    <2>2. b.at # Lost
      <3>1. ObjectSound(Called) /\ Called.kind = "delegate"
        BY <1>3, ObjectIs DEF Called, Delegate, IsObject
      <3>2. /\ IsSeq(Called.contents) /\ IsSeq(Called.sites)
            /\ Len(Called.contents) = Len(Called.sites) /\ NoneLost(Called.contents)
        BY <3>1 DEF ObjectSound
      <3>3. t <= Len(Called.contents) /\ t \in Nat \ {0}
        BY <1>1, <3>2, IsSeqIs DEF MoreSites
      <3>4. t \in DOMAIN Called.contents
        BY <3>2, <3>3, IsSeqIs
      <3>5. Called.contents[t] # Lost
        BY <3>2, <3>4 DEF NoneLost
      <3> QED BY <3>5, BlocksAt
    <2>3. Clean(args)
      <3>1. Clean(Top.args)
        BY <1>1 DEF FrameSound
      <3> HIDE DEF b
      <3> QED BY <2>2, <3>1, CleanExcept
    <2>4. FrameSound(new) /\ new.method = m /\ new.stack = <<>>
      <3>1. FrameSound(fresh) /\ fresh.method = m /\ fresh.stack = <<>>
        <4> HIDE DEF m, args, kept
        <4> QED BY <2>1, <2>3, NewFrameSound
      <3> HIDE DEF fresh, m
      <3>2. /\ DOMAIN new = DOMAIN fresh
            /\ new.method = fresh.method /\ new.stack = fresh.stack
            /\ new.args = fresh.args /\ new.vars = fresh.vars
        BY <3>1 DEF FrameSound, Fields
      <3> HIDE DEF new
      <3> QED BY <3>1, <3>2 DEF FrameSound
    <2>5. /\ call.site \in Nat /\ call.entered = "delegate"
          /\ Gives(call) = Gives(Entry)
      BY <1>1 DEF Call, Gives
    <2>6. DOMAIN frames = 1..depth
      BY DEF SInv, FramesSound
    <2> HIDE DEF m, args, kept, new, call
    <2>7. /\ depth' = depth /\ status' = status /\ trace' = trace /\ heap' = heap
          /\ DOMAIN frames' = 1..depth
          /\ frames'[depth] = new /\ calls'[depth] = call
          /\ \A d \in 1..depth : d # depth => frames'[d] = frames[d] /\ calls'[d] = calls[d]
      BY <1>1, <1>3, <2>6 DEF state
    <2>8. ASSUME NEW d \in 1..depth
          PROVE  Extra(d)' = Extra(d)
      <3>1. CASE d = depth
        BY <2>7, <3>1 DEF Extra
      <3>2. CASE d # depth
        <4>1. d + 1 \in 1..depth
          BY <1>1, <3>2
        <4>2. calls'[d + 1].entered = calls[d + 1].entered
          BY <1>1, <2>5, <2>7, <4>1 DEF Entry
        <4> QED BY <2>7, <4>2 DEF Extra
      <3> QED BY <3>1, <3>2
    <2>9. Extra(depth) = 0
      BY <1>1 DEF Extra
    <2>10. FramesSound'
      <3>1. ASSUME NEW d \in 1..depth
            PROVE  /\ FrameSound(frames'[d])
                   /\ Extra(d)' <= Len(frames'[d].stack)
                   /\ calls'[d].site \in Nat
        <4>1. CASE d = depth
          BY <2>4, <2>5, <2>7, <2>8, <2>9, <4>1, CleanEmpty
        <4>2. CASE d # depth
          BY <2>7, <2>8, <4>2, FrameIs
        <4> QED BY <4>1, <4>2
      <3> QED BY <2>7, <3>1 DEF FramesSound, FrameSound
    <2> DEFINE a == Calls!Activation(m, Act(depth).gives)
               B == [Activations EXCEPT ![depth] = a]
    <2>11. ASSUME NEW d \in 1..depth
           PROVE  Act(d)' = IF d = depth THEN a ELSE Act(d)
      <3>1. CASE d = depth
        <4>1. Extra(d)' = 0 /\ frames'[d] = new /\ calls'[d] = call
          BY <1>1, <2>7, <2>8, <2>9, <3>1
        <4>2. Gives(call) = Act(depth).gives
          BY <2>5 DEF Act, Entry
        <4> QED BY <2>4, <3>1, <4>1, <4>2, CleanEmpty DEF Act, Calls!Activation
      <3>2. CASE d # depth
        BY <2>7, <2>8, <3>2 DEF Act
      <3> QED BY <3>1, <3>2
    <2>12. /\ IsSeq(Activations) /\ Len(Activations) = depth
           /\ \A d \in 1..depth : Activations[d] = Act(d)
      BY <1>1, ActivationsAre
    <2>13. Activations' = B
      <3> HIDE DEF a
      <3>1. IsSeq(B) /\ Len(B) = depth
        BY <2>12, SeqExcept
      <3>2. \A d \in 1..depth : B[d] = IF d = depth THEN a ELSE Act(d)
        <4>1. Activations = [d \in 1..depth |-> Act(d)]
          BY <1>1, ActivationsAre
        <4> QED BY <4>1
      <3> HIDE DEF B
      <3>3. IsSeq(Activations') /\ Len(Activations') = depth
            /\ \A d \in 1..depth : Activations'[d] = Act(d)'
        BY <1>1, <2>7, NextActivations
      <3> QED BY <2>11, <3>1, <3>2, <3>3, SeqSame
    <2>14. Activations' = [Activations EXCEPT ![depth] = Calls!Activation(m, @.gives)]
      BY <1>1, <2>12, <2>13
    <2>15. Calls!Relay(m)
      BY <1>1, <2>7, <2>12, <2>14 DEF Calls!Relay, Calls!Last
    <2> QED BY <2>1, <2>7, <2>10, <2>15, HeapStays DEF Steps, Calls!Next
  <1> QED BY <1>2, <1>3 DEF NextSite

(* OpReturn.                                                               *)
LEMMA ReturnSteps ==
  ASSUME SInv, Return
  PROVE  Steps
  <1>1. status = "running" /\ Op = "return" /\ ResultFits /\ Height >= Takes(Op, Operand)
    BY Finds DEF Return
  <1>2. CASE MoreSites
    BY <1>1, <1>2, NextSiteSteps DEF Return
  <1>3. CASE ~MoreSites
    <2> DEFINE result == IF Method(Top.method).returns THEN Peek(0) ELSE Unknown
    <2>1. result.at # Lost
      <3>1. CASE Method(Top.method).returns
        <4>1. Height >= 1
          BY <1>1, <3>1 DEF Takes
        <4>2. Peek(0).at # Lost
          BY <1>1, <4>1, Peeked, TopIs
        <4> QED BY <3>1, <4>2
      <3>2. CASE ~Method(Top.method).returns
        BY <3>2, BlocksAt
      <3> QED BY <3>1, <3>2
    <2>2. Finish(result) /\ UNCHANGED heap
      BY <1>3 DEF Return
    <2> HIDE DEF result
    <2> QED BY <1>1, <2>1, <2>2, FinishSteps, HeapStays
  <1> QED BY <1>2, <1>3

(* An exception leaves a method without a handler.                         *)
LEMMA UnwindSteps ==
  ASSUME SInv, Unwind
  PROVE  Steps
  <1>1. /\ status = "raising" /\ depth \in Nat /\ depth > 0 /\ depth \in 1..depth
        /\ Len(Activations) = depth /\ Activations # <<>>
        /\ Activations[depth].method = Top.method
    BY ActivationsAre DEF SInv, IInv, Framed, Unwind, Act, Top
  <1>2. CASE status' = "caught" /\ UNCHANGED <<frames, links, data, state, starts>>
    <2>1. Activations' = Activations
      BY <1>2, SameActivations
    <2>2. UNCHANGED Calls!vars
      BY <1>1, <1>2, <2>1 DEF Calls!vars, state
    <2> QED BY <1>2, <2>2, SameFrames DEF Steps, data
  <1>3. CASE /\ Entry.entered = "base" /\ EndFirst
             /\ trace' = Append(trace, Top.method) /\ UNCHANGED heap
    <2>1. depth = 1
      BY <1>1, <1>3 DEF SInv, IInv, OnlyFirstIsBase, Entry
    <2>2. Activations' = <<>> /\ FramesSound' /\ status' = "idle"
      BY <1>3, EndFirstEmpties
    <2>3. Calls!Cut(0) = <<>>
      BY <1>1, <2>1 DEF Calls!Cut, Calls!Last
    <2>4. Calls!Unwind(0)
      BY <1>1, <1>3, <2>1, <2>2, <2>3 DEF Calls!Unwind, Calls!Remains, Calls!Last
    <2>5. 0 \in Calls!Heights
      <3>1. Top.method \in Methods /\ 0 <= Room(Top.method)
        BY <1>1, FrameIs DEF Top
      <3> QED BY <3>1, HeightIs
    <2> QED BY <1>3, <2>2, <2>4, <2>5, HeapStays DEF Steps, Calls!Next
  <1>4. CASE /\ Entry.entered # "base" /\ Drop(CallerStack) /\ UNCHANGED <<status, heap>>
             /\ trace' = Append(trace, Top.method)
    <2> DEFINE h == Len(CallerStack)
    <2>1. depth > 1
      BY <1>1, <1>4 DEF SInv, IInv, OnlyFirstIsBase, Entry
    <2>2. /\ Clean(CallerStack) /\ h \in Nat /\ h <= Room(frames[depth - 1].method)
          /\ frames[depth - 1].method \in Methods /\ depth - 1 \in 1..depth
      BY <1>1, <2>1, CallerIs
    <2>3. FramesSound' /\ Activations' = Calls!Cut(h)
      BY <1>1, <1>4, <2>1, <2>2, DropCuts
    <2>4. h \in Calls!Heights
      BY <2>2, HeightIs
    <2>5. Activations[depth - 1].method = frames[depth - 1].method
      BY <1>1, <2>2, ActivationsAre DEF Act
    <2> HIDE DEF h
    <2>6. Calls!Unwind(h)
      BY <1>1, <1>4, <2>1, <2>2, <2>3, <2>5 DEF Calls!Unwind, Calls!Remains, Calls!Last
    <2> QED BY <1>4, <2>3, <2>4, <2>6, HeapStays DEF Steps, Calls!Next
  <1> QED BY <1>2, <1>3, <1>4 DEF Unwind

(* A native method that cannot be called.                                  *)
LEMMA RefuseSteps ==
  ASSUME SInv, Refuse
  PROVE  Steps
  <1> DEFINE h == Len(CallerStack)
  <1>1. /\ status = "running" /\ depth \in Nat /\ depth > 1
        /\ Len(Activations) = depth /\ Drop(CallerStack)
        /\ status' = "raising" /\ UNCHANGED <<heap, trace>>
    BY ActivationsAre DEF SInv, IInv, Refuse, InNative
  <1>2. /\ Clean(CallerStack) /\ h \in Nat /\ h <= Room(frames[depth - 1].method)
        /\ frames[depth - 1].method \in Methods /\ depth - 1 \in 1..depth
    BY <1>1, CallerIs
  <1>3. FramesSound' /\ Activations' = Calls!Cut(h)
    BY <1>1, <1>2, DropCuts
  <1>4. h \in Calls!Heights
    BY <1>2, HeightIs
  <1>5. Activations[depth - 1].method = frames[depth - 1].method
    BY <1>1, <1>2, ActivationsAre DEF Act
  <1> HIDE DEF h
  <1>6. Calls!Refuse(h)
    BY <1>1, <1>2, <1>3, <1>5 DEF Calls!Refuse, Calls!Remains, Calls!Last
  <1> QED BY <1>1, <1>3, <1>4, <1>6, HeapStays DEF Steps, Calls!Next

-----------------------------------------------------------------------------
(* The heap after two allocations.                                         *)
LEMMA HeapJoins ==
  ASSUME NEW h, AllSound(h), NEW a, ObjectSound(a), NEW b, ObjectSound(b)
  PROVE  AllSound(h \o <<a, b>>)
  <1> DEFINE t == <<a, b>>
  <1>1. IsSeq(t) /\ DOMAIN t = 1..2 /\ t[1] = a /\ t[2] = b
    BY TwoAre
  <1> HIDE DEF t
  <1>2. \A j \in DOMAIN t : ObjectSound(t[j])
    BY <1>1
  <1>3. IsSeq(h) /\ \A j \in DOMAIN h : ObjectSound(h[j])
    BY DEF AllSound
  <1> DEFINE u == h \o t
  <1>4. IsSeq(u) /\ OfEither(u, h, t)
    BY <1>1, <1>3, SeqJoin
  <1> HIDE DEF u
  <1>5. \A i \in DOMAIN u : ObjectSound(u[i])
    BY <1>2, <1>3, <1>4 DEF OfEither
  <1>6. AllSound(u)
    BY <1>4, <1>5 DEF AllSound
  <1> QED BY <1>6 DEF u, t

(* A native method that returns a number, nothing or a string.             *)
LEMMA ReturnsStep ==
  ASSUME SInv, NativeReturns \/ NativeString
  PROVE  Steps
  <1>1. status = "running" /\ ResultFits
    BY DEF NativeReturns, NativeString, InNative, NativeFits
  <1>2. CASE NativeReturns
    BY <1>1, <1>2, BlocksAt, FinishSteps, HeapStays DEF NativeReturns
  <1>3. CASE NativeString
    <2> DEFINE a == Allocated(StringType, "plain",
                              [p \in {Characters} |-> Object(Len(heap) + 2)], <<>>)
               b == NewArrayOf("System.Char[]", 0, Nothing)
    <2>1. CASE Astray
      BY <1>1, <2>1, StraysSteps
    <2>2. CASE heap' = heap \o <<a, b>> /\ Finish(Reference(Object(Len(heap) + 1)))
      <3>1. ObjectSound(a) /\ ObjectSound(b)
        BY PlainSound, ArraySound, Places
      <3> HIDE DEF a, b
      <3>2. AllSound(heap \o <<a, b>>)
        BY <3>1, HeapJoins DEF SInv, HeapSound
      <3>3. HeapSound'
        BY <2>2, <3>2 DEF HeapSound
      <3> QED BY <1>1, <2>2, <3>3, ReferencesAreKept, FinishSteps
    <2> QED BY <1>3, <2>1, <2>2 DEF NativeString
  <1> QED BY <1>2, <1>3

(* A delegate with a receiver for each method.                             *)
LEMMA DelegateSound ==
  ASSUME NEW type, NEW contents, IsSeq(contents), NEW sites, IsSeq(sites),
         Len(contents) = Len(sites), NoneLost(contents)
  PROVE  ObjectSound(Allocated(type, "delegate", contents, sites))
  BY DEF ObjectSound, Allocated

(* The constructor of a delegate.                                          *)
LEMMA BindSteps ==
  ASSUME SInv, BindDelegate
  PROVE  Steps
  <1> DEFINE x == Top.args[1].at[2]
             at == Top.args[2].at
             site == Top.args[3].at[3][1]
             o == [heap[x] EXCEPT !.sites = <<site>>, !.contents = <<at>>]
  <1>1. /\ status = "running" /\ ResultFits
        /\ Len(Top.args) = 3 /\ x \in DOMAIN heap /\ heap[x].kind = "delegate"
    BY DEF BindDelegate, InNative, NativeFits, IsObject
  <1>2. at # Lost
    <2>1. Clean(Top.args)
      BY <1>1, TopIs DEF FrameSound
    <2>2. 2 \in DOMAIN Top.args
      BY <1>1, <2>1, IsSeqIs DEF Clean
    <2> QED BY <2>1, <2>2 DEF Clean, HoldsNoLost
  <1>3. ObjectSound(heap[x])
    BY <1>1, ObjectIs
  <1>4. Finish(Unknown) /\ heap' = [heap EXCEPT ![x] = o]
    BY DEF BindDelegate
  <1> HIDE DEF x, at, site
  <1>5. ObjectSound(o)
    <2>1. /\ IsSeq(<<at>>) /\ Len(<<at>>) = 1 /\ IsSeq(<<site>>) /\ Len(<<site>>) = 1
          /\ NoneLost(<<at>>)
      BY <1>2, OneIs DEF NoneLost
    <2> QED BY <1>1, <1>3, <2>1 DEF ObjectSound
  <1> HIDE DEF o
  <1>6. HeapSound'
    BY <1>4, <1>5, ChangedObjectSound
  <1> QED BY <1>1, <1>4, <1>6, BlocksAt, FinishSteps

(* The methods that Remove keeps, without the CHOOSE of their recursion.   *)
LeftBy(f) ==
  f = [n \in 0..Len(This.sites) |->
         IF n = 0 THEN <<>> ELSE IF Keeps(n) THEN Append(f[n - 1], n) ELSE f[n - 1]]

Left == CHOOSE f : LeftBy(f)

Kept == Left[Len(This.sites)]

(* They are methods of the delegate.                                       *)
LEMMA KeptAre ==
  ASSUME IsSeq(This.sites)
  PROVE  Kept \in Seq(1..Len(This.sites))
  <1> DEFINE N == Len(This.sites)
             D == Seq(1..N)
             step == [n \in 1..N |-> [s \in D |-> IF Keeps(n) THEN Append(s, n) ELSE s]]
  <1>1. N \in Nat
    BY IsSeqIs
  <1>2. <<>> \in D
    OBVIOUS
  <1>3. \A n \in 1..N : \A s \in D : Append(s, n) \in D
    BY AppendProperties
  <1> HIDE DEF N, D
  <1>4. step \in [1..N -> [D -> D]]
    BY <1>3
  <1>5. \E f : LeftBy(f)
    <2> HIDE DEF step
    <2>1. PICK f : Recursive(f, N, D, <<>>, step)
      BY <1>1, <1>2, <1>4, RecursionExists
    <2>2. ASSUME NEW n \in 0..N
          PROVE  f[n] = IF n = 0 THEN <<>>
                        ELSE IF Keeps(n) THEN Append(f[n - 1], n) ELSE f[n - 1]
      <3>1. CASE n = 0
        BY <2>1, <3>1 DEF Recursive
      <3>2. CASE n # 0
        <4>1. n \in 1..N /\ n - 1 \in 0..N
          BY <1>1, <3>2
        <4>2. f[n] = step[n][f[n - 1]] /\ f[n - 1] \in D
          BY <2>1, <4>1 DEF Recursive
        <4>3. f[n] = IF Keeps(n) THEN Append(f[n - 1], n) ELSE f[n - 1]
          BY <4>1, <4>2 DEF step
        <4> QED BY <3>2, <4>3
      <3> QED BY <3>1, <3>2
    <2>3. f = [n \in 0..N |-> f[n]]
      BY <2>1 DEF Recursive
    <2>4. LeftBy(f)
      BY <2>2, <2>3 DEF LeftBy, N
    <2> QED BY <2>4
  <1>6. LeftBy(Left)
    BY <1>5 DEF Left
  <1>7. /\ Left[0] = <<>>
        /\ \A n \in 1..N : Left[n] = IF Keeps(n) THEN Append(Left[n - 1], n) ELSE Left[n - 1]
    <2>1. \A n \in 0..N : Left[n] = IF n = 0 THEN <<>>
                                    ELSE IF Keeps(n) THEN Append(Left[n - 1], n)
                                    ELSE Left[n - 1]
      BY <1>6 DEF LeftBy, N
    <2> QED BY <1>1, <2>1
  <1> DEFINE T == {n \in 0..N : Left[n] \in D}
  <1>8. 0 \in T
    BY <1>1, <1>2, <1>7
  <1>9. ASSUME NEW n \in 0..(N - 1), n \in T
        PROVE  n + 1 \in T
    <2>1. n + 1 \in 1..N /\ (n + 1) - 1 = n /\ Left[n] \in D
      BY <1>1, <1>9
    <2>2. Left[n + 1] \in {Append(Left[n], n + 1), Left[n]}
      BY <1>7, <2>1
    <2>3. Left[n + 1] \in D
      BY <1>3, <2>1, <2>2
    <2> QED BY <2>1, <2>3
  <1>10. 0..N \subseteq T
    <2> HIDE DEF T
    <2> QED BY <1>1, <1>8, <1>9, UpTo
  <1>11. Left[N] \in D
    BY <1>1, <1>10
  <1> QED BY <1>11 DEF Kept, N, D

(* Combine and Remove: each method of the result has its receiver, and     *)
(* none of them is lost.                                                   *)
LEMMA JoinSteps ==
  ASSUME SInv, JoinDelegates
  PROVE  Steps
  <1> DEFINE sites == IF Native = "combine" THEN This.sites \o Other.sites
                      ELSE [i \in DOMAIN Kept |-> This.sites[Kept[i]]]
             receivers == IF Native = "combine" THEN This.contents \o Other.contents
                          ELSE [i \in DOMAIN Kept |-> This.contents[Kept[i]]]
  <1>1. /\ status = "running" /\ ResultFits
        /\ Len(Top.args) = 2
        /\ \A i \in 1..2 : Top.args[i].at = Null \/ IsObject(Top.args[i], "delegate")
    BY DEF JoinDelegates, InNative, NativeFits
  <1>2. \/ Finish(Top.args[1]) /\ UNCHANGED heap
        \/ Astray
        \/ Finish(Reference(Null)) /\ UNCHANGED heap
        \/ /\ Top.args[1].at # Null /\ Top.args[2].at # Null
           /\ heap' = Append(heap, Allocated(This.type, "delegate", receivers, sites))
           /\ Finish(Reference(Object(Len(heap) + 1)))
    BY DEF JoinDelegates, Kept, Left, LeftBy
  <1>3. CASE Finish(Top.args[1]) /\ UNCHANGED heap
    <2>1. Clean(Top.args)
      BY <1>1, TopIs DEF FrameSound
    <2>2. Top.args[1].at # Lost
      BY <1>1, <2>1, IsSeqIs DEF Clean, HoldsNoLost
    <2> QED BY <1>1, <1>3, <2>2, HeapStays, FinishSteps
  <1>4. CASE Finish(Reference(Null)) /\ UNCHANGED heap
    BY <1>1, <1>4, BlocksAt, Places, HeapStays, FinishSteps
  <1>5. CASE /\ Top.args[1].at # Null /\ Top.args[2].at # Null
             /\ heap' = Append(heap, Allocated(This.type, "delegate", receivers, sites))
             /\ Finish(Reference(Object(Len(heap) + 1)))
    <2>1. /\ ObjectSound(This) /\ This.kind = "delegate"
          /\ ObjectSound(Other) /\ Other.kind = "delegate"
      <3>1. IsObject(Top.args[1], "delegate") /\ IsObject(Top.args[2], "delegate")
        BY <1>1, <1>5
      <3> QED BY <3>1, ObjectIs DEF This, Other, Delegate, IsObject
    <2>2. /\ IsSeq(This.contents) /\ IsSeq(This.sites) /\ NoneLost(This.contents)
          /\ Len(This.contents) = Len(This.sites)
          /\ IsSeq(Other.contents) /\ IsSeq(Other.sites) /\ NoneLost(Other.contents)
          /\ Len(Other.contents) = Len(Other.sites)
      BY <2>1 DEF ObjectSound
    <2>3. IsSeq(receivers) /\ IsSeq(sites) /\ Len(receivers) = Len(sites)
          /\ NoneLost(receivers)
      <3>1. CASE Native = "combine"
        <4> DEFINE r == This.contents \o Other.contents
                   t == This.sites \o Other.sites
        <4>1. /\ IsSeq(r) /\ Len(r) = Len(This.contents) + Len(Other.contents)
              /\ OfEither(r, This.contents, Other.contents)
          BY <2>2, SeqJoin
        <4>2. IsSeq(t) /\ Len(t) = Len(This.sites) + Len(Other.sites)
          BY <2>2, SeqJoin
        <4> HIDE DEF r, t
        <4>3. Len(r) = Len(t)
          BY <2>2, <4>1, <4>2
        <4>4. NoneLost(r)
          BY <2>2, <4>1 DEF NoneLost, OfEither
        <4> QED BY <3>1, <4>1, <4>2, <4>3, <4>4 DEF r, t
      <3>2. CASE Native # "combine"
        <4> DEFINE r == [i \in DOMAIN Kept |-> This.contents[Kept[i]]]
                   t == [i \in DOMAIN Kept |-> This.sites[Kept[i]]]
        <4>1. Kept \in Seq(1..Len(This.sites))
          BY <2>2, KeptAre
        <4>2. Len(Kept) \in Nat /\ DOMAIN Kept = 1..Len(Kept)
              /\ \A i \in 1..Len(Kept) : Kept[i] \in 1..Len(This.sites)
          BY <4>1, LenProperties, ElementOfSeq
        <4>3. r = [i \in 1..Len(Kept) |-> r[i]] /\ t = [i \in 1..Len(Kept) |-> t[i]]
          BY <4>2
        <4>4. DOMAIN This.contents = 1..Len(This.sites)
          BY <2>2, IsSeqIs
        <4>5. NoneLost(r)
          BY <2>2, <4>2, <4>4 DEF NoneLost
        <4> HIDE DEF r, t
        <4>6. IsSeq(r) /\ IsSeq(t) /\ Len(r) = Len(t)
          BY <4>2, <4>3, SeqList
        <4> QED BY <3>2, <4>5, <4>6 DEF r, t
      <3> QED BY <3>1, <3>2
    <2> HIDE DEF receivers, sites
    <2>4. ObjectSound(Allocated(This.type, "delegate", receivers, sites))
      BY <2>3, DelegateSound
    <2>5. HeapSound'
      BY <1>5, <2>4, NewObjectSound
    <2> QED BY <1>1, <1>5, <2>5, ReferencesAreKept, FinishSteps
  <1> HIDE DEF receivers, sites
  <1> QED BY <1>1, <1>2, <1>3, <1>4, <1>5, StraysSteps

-----------------------------------------------------------------------------
(* Every action keeps frames and objects sound and is a step of            *)
(* CallStack.tla.                                                          *)
LEMMA NextSteps ==
  ASSUME SInv, Next
  PROVE  Steps
  <1>1. CASE \E m \in Methods : Start(m)
    BY <1>1, StartSteps
  <1>2. CASE HostCollects \/ Stray
    BY <1>2, StraysSteps DEF HostCollects, Stray
  <1>3. CASE Collect \/ Operands \/ Pointers \/ Objects
    BY <1>3, CollectOutcome, OperandsOutcome, PointersOutcome, ObjectsOutcome, OutcomeSteps
  <1>4. CASE Control
    BY <1>4, QuietControlOutcome, OutcomeSteps, CallsStep, NewObjectSteps, ReturnSteps,
       UnwindSteps DEF Control
  <1>5. CASE Natives
    BY <1>5, RefuseSteps, ReturnsStep, BindSteps, JoinSteps DEF Natives
  <1> QED BY <1>1, <1>2, <1>3, <1>4, <1>5 DEF Next

(* Before the first call.                                                  *)
LEMMA InitSound ==
  ASSUME Init
  PROVE  SInv /\ Calls!Init
  <1>1. IInv
    BY DEF Init, IInv, Linked, Framed, OnlyFirstIsBase
  <1>2. FramesSound
    BY DEF Init, FramesSound
  <1>3. HeapSound
    BY CleanEmpty DEF Init, HeapSound, AllSound, Clean
  <1>4. Calls!Init
    BY ActivationsAre DEF Init, Calls!Init
  <1> QED BY <1>1, <1>2, <1>3, <1>4 DEF SInv

(* SInv is inductive, and every step is one of CallStack.tla or a stutter. *)
LEMMA StepSound ==
  ASSUME SInv, [Next]_vars
  PROVE  SInv' /\ [Calls!Next]_(Calls!vars)
  <1>1. CASE Next
    <2>1. Steps
      BY <1>1, NextSteps
    <2>2. IInv'
      BY <1>1, NextLinks DEF SInv
    <2> QED BY <2>1, <2>2 DEF Steps, SInv
  <1>2. CASE UNCHANGED vars
    <2>1. /\ UNCHANGED <<frames, depth, calls, next, firstFrame, currentFrame, heap>>
          /\ UNCHANGED <<status, trace>>
      BY <1>2 DEF vars, links, data, state
    <2>2. IInv'
      BY <2>1 DEF SInv, IInv, Linked, Chain, Framed, OnlyFirstIsBase
    <2>3. FramesSound'
      BY <2>1 DEF SInv, FramesSound, FrameSound, Extra
    <2>4. Activations' = Activations
      BY <2>1, SameActivations DEF links
    <2>5. UNCHANGED Calls!vars
      BY <2>1, <2>4 DEF Calls!vars
    <2> QED BY <2>1, <2>2, <2>3, <2>5, HeapStays DEF SInv
  <1> QED BY <1>1, <1>2

(* NothingIsLost: for every program, every depth and every bound, no       *)
(* collection leaves a reference behind in the operands, the locals or the *)
(* arguments of a frame that ExMethodPrologueArgs, -Ctor, -Delegate or     *)
(* -Native built (runtime.c), wherever the thread polls or allocates.      *)
THEOREM NothingStaysLost == Spec => []NothingIsLost
  <1>1. Init => SInv
    BY InitSound
  <1>2. SInv /\ [Next]_vars => SInv'
    BY StepSound
  <1>3. SInv => NothingIsLost
    BY DEF SInv, FramesSound, FrameSound, Clean, NothingIsLost
  <1> QED BY <1>1, <1>2, <1>3, PTL DEF Spec

(* ImplementsCallStack: for every program, the calls of runtime.c take,    *)
(* give back and unwind as CallStack.tla says; the abstract operands of a  *)
(* method are those of its frame without the object that is under          *)
(* construction and the delegate whose methods are called.                 *)
THEOREM CallsAreThoseOfCallStack == Spec => ImplementsCallStack
  <1>1. Init => SInv /\ Calls!Init
    BY InitSound
  <1>2. SInv /\ [Next]_vars => SInv' /\ [Calls!Next]_(Calls!vars)
    BY StepSound
  <1> QED BY <1>1, <1>2, PTL DEF Spec, ImplementsCallStack, Calls!Spec
=============================================================================
