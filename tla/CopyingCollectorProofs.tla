----------------------- MODULE CopyingCollectorProofs -----------------------
(***************************************************************************)
(* What holds of one collection (CopyingCollector.tla) for every heap,     *)
(* every shape of its objects and frames and every set of roots: an object *)
(* is copied once, copies are faithful, a black copy does not refer to the *)
(* old heap, and the slots of frames and the wrappers of threads follow.   *)
(***************************************************************************)
EXTENDS CopyingCollector, SequenceTheorems, TLAPS

(* The three sorts of pointers are disjoint, and each is injective.        *)
LEMMA PointerFacts ==
  /\ \A a, b : Managed(a) = Managed(b) <=> a = b
  /\ \A a, b : Copy(a) = Copy(b) <=> a = b
  /\ \A a, b : Managed(a) # Copy(b)
  /\ \A a : Managed(a) # Null /\ Copy(a) # Null
  /\ \A a : Managed(a)[2] = a /\ Copy(a)[2] = a
  /\ \A a : IsManaged(Managed(a)) /\ ~IsCopy(Managed(a))
  /\ \A a : IsCopy(Copy(a)) /\ ~IsManaged(Copy(a))
  /\ ~IsManaged(Null) /\ ~IsCopy(Null)
BY DEF Managed, Copy, Null, IsManaged, IsCopy

(* The pointers when the next heap has n objects, and those objects.       *)
PointersTo(n) == {Null} \union {Managed(o) : o \in HeapObjects} \union {Copy(c) : c \in 1..n}

CopyType(n) == [origin : HeapObjects, color : {"grey", "black", "white"},
                forward : PointersTo(n), fields : [Fields -> PointersTo(n)]]

(* Objects refer to objects until they are copied; a forward is a copy, a  *)
(* copy's forward is itself until the collection is over.                  *)
Unforwarded == {Null} \union {Managed(o) : o \in HeapObjects}
Forwards(n) == {Null} \union {Copy(c) : c \in 1..n}

HeapInv ==
  /\ fields \in [HeapObjects -> [Fields -> Unforwarded]]
  /\ forward \in [HeapObjects -> Forwards(Len(copies))]
  /\ phase # "done" => \A c \in 1..Len(copies) : copies[c].forward = Copy(c)

(* The fields that HppTraceObject has passed are forwarded, and of the     *)
(* copies that GcInspect has passed without finding a grey one none is.    *)
LoopInv ==
  /\ phase = "trace" =>
       /\ i \in 1..Len(copies)
       /\ tryAgain = TRUE
       /\ copies[i].color = "grey"
       /\ \A k \in Fields : k < f /\ FieldKinds[k] = "object"
                              => ~IsManaged(copies[i].fields[k])
  /\ phase = "inspect" /\ tryAgain = FALSE =>
       \A c \in 1..Len(copies) : c < i => copies[c].color # "grey"
  /\ phase = "finish" => \A c \in 1..Len(copies) : copies[c].color # "grey"

(* RUNTIME_THREAD.wrapper is the object, or its copy once there is one;    *)
(* the objects that the interop loop has passed have one.                  *)
WrapperIsForward ==
  /\ threadWrapper = [o \in DOMAIN threadWrapper |-> threadWrapper[o]]
  /\ \A o \in DOMAIN threadWrapper :
       /\ o \in interop
       /\ threadWrapper[o] = IF forward[o] = Null THEN Managed(o) ELSE forward[o]

WrapperInv ==
  /\ WrapperIsForward
  /\ phase = "interop" => \A o \in interop : o < i => forward[o] # Null
  /\ phase \in {"inspect", "trace", "finish", "done"} =>
       \A o \in interop : forward[o] # Null

(* The slots that HppScanFrame has passed are forwarded, and just what can  *)
(* be reached has been copied so far.                                      *)
ReachInv ==
  /\ Survivors \subseteq Reachable
  /\ phase = "frames" =>
       \A r \in Slots : r < i /\ SlotKinds[r] = "object" => ~IsManaged(slots[r])
  /\ phase \in {"interop", "inspect", "trace", "finish", "done"} =>
       \A r \in Slots : SlotKinds[r] = "object" => ~IsManaged(slots[r])
  /\ phase = "done" => \A c \in 1..Len(copies) : copies[c].color # "grey"

CollectorInv ==
  /\ TypeOK /\ HeapInv /\ LoopInv /\ WrapperInv /\ ReachInv
  /\ OneCopyEach /\ BlackIsForwarded /\ CopiesAreFaithful

LEMMA PointersOfHeap == Pointers = PointersTo(Len(copies))
BY DEF Pointers, PointersTo

-----------------------------------------------------------------------------
(* What HppTransferObject makes of the next heap and the forwards: the     *)
(* copies that were there are there, a new one is grey, faithful and its   *)
(* own forward, and forwards and origins agree.                            *)
Extends(next) ==
  /\ next \in Seq(CopyType(Len(next)))
  /\ Len(copies) <= Len(next)
  /\ \A c \in 1..Len(copies) : next[c] = copies[c]
  /\ \A c \in 1..Len(next) : c > Len(copies) =>
       next[c].color = "grey" /\ next[c].fields = fields[next[c].origin]
  /\ \A c \in 1..Len(next) : next[c].forward = Copy(c)
  /\ forward' \in [HeapObjects -> Forwards(Len(next))]
  /\ \A o \in HeapObjects, c \in 1..Len(next) :
       next[c].origin = o <=> forward'[o] = Copy(c)
  /\ \A o \in HeapObjects : forward[o] # Null => forward'[o] = forward[o]

MeaningIn(next, p) == IF IsCopy(p) THEN Managed(next[p[2]].origin) ELSE p

LEMMA TransferExtends ==
  ASSUME CollectorInv, phase # "done", NEW p \in Pointers, Transfer(p)
  PROVE  /\ Extends(NextHeapWith(p))
         /\ Transferred(p) \in Forwards(Len(NextHeapWith(p)))
         /\ MeaningIn(NextHeapWith(p), Transferred(p)) = Meaning(p)
         /\ IsManaged(p) => forward'[p[2]] # Null
         /\ \A c \in 1..Len(NextHeapWith(p)) : c > Len(copies) =>
              p = Managed(NextHeapWith(p)[c].origin)
<1> DEFINE next == NextHeapWith(p)
<1> USE PointerFacts
<1>0. /\ copies \in Seq(CopyType(Len(copies))) /\ Len(copies) \in Nat
      /\ forward \in [HeapObjects -> Forwards(Len(copies))]
      /\ fields \in [HeapObjects -> [Fields -> Unforwarded]]
      /\ p \in PointersTo(Len(copies))
  <2>1. copies \in Seq(CopyType(Len(copies)))
    BY PointersOfHeap DEF CollectorInv, TypeOK, CopyType
  <2> QED BY <2>1, LenProperties, PointersOfHeap DEF CollectorInv, HeapInv
<1>1. \A c \in 1..Len(copies) : copies[c] \in CopyType(Len(copies))
  BY <1>0, ElementOfSeq
<1>2. CASE Fresh(p)
  <2>1. PICK o \in HeapObjects : p = Managed(o)
    BY <1>0, <1>2 DEF PointersTo, Fresh
  <2>2. forward[o] = Null
    BY <1>2, <2>1 DEF Fresh
  <2>3. next = Append(copies, CopyOf(o))
    BY <1>2, <2>1 DEF NextHeapWith
  <2>4. PointersTo(Len(copies)) \subseteq PointersTo(Len(copies) + 1)
    BY <1>0 DEF PointersTo
  <2>5. CopyType(Len(copies)) \subseteq CopyType(Len(copies) + 1)
    BY <2>4 DEF CopyType
  <2>6. CopyOf(o) \in CopyType(Len(copies) + 1)
    <3>1. Copy(Len(copies) + 1) \in PointersTo(Len(copies) + 1)
      BY <1>0 DEF PointersTo
    <3>2. fields[o] \in [Fields -> PointersTo(Len(copies) + 1)]
      BY <1>0 DEF PointersTo, Unforwarded
    <3> QED BY <3>1, <3>2 DEF CopyOf, CopyType
  <2>7. copies \in Seq(CopyType(Len(copies) + 1))
    BY <1>0, <2>5, SeqMonotonic
  <2>8. /\ next \in Seq(CopyType(Len(copies) + 1))
        /\ Len(next) = Len(copies) + 1
        /\ \A c \in 1..Len(copies) : next[c] = copies[c]
        /\ next[Len(copies) + 1] = CopyOf(o)
    BY <1>0, <2>3, <2>6, <2>7, AppendProperties
  <2>9. Transferred(p) = Copy(Len(copies) + 1)
    BY <1>2 DEF Transferred
  <2>10. \A u \in HeapObjects :
           forward'[u] = IF u = o THEN Copy(Len(copies) + 1) ELSE forward[u]
    BY <1>2, <2>1, <2>9 DEF Transfer, NewForward
  <2>11. forward' \in [HeapObjects -> Forwards(Len(next))]
    <3>1. Forwards(Len(copies)) \subseteq Forwards(Len(next))
      BY <1>0, <2>8 DEF Forwards
    <3>2. Copy(Len(copies) + 1) \in Forwards(Len(next))
      BY <1>0, <2>8 DEF Forwards
    <3>3. forward' = [u \in HeapObjects |-> forward'[u]]
      BY DEF Transfer, NewForward
    <3> QED BY <1>0, <2>10, <3>1, <3>2, <3>3
  <2>12. /\ CopyOf(o).origin = o /\ CopyOf(o).color = "grey"
         /\ CopyOf(o).forward = Copy(Len(copies) + 1) /\ CopyOf(o).fields = fields[o]
    BY DEF CopyOf
  <2>13. \A u \in HeapObjects, c \in 1..Len(next) :
           next[c].origin = u <=> forward'[u] = Copy(c)
    <3> SUFFICES ASSUME NEW u \in HeapObjects, NEW c \in 1..Len(next)
                 PROVE  next[c].origin = u <=> forward'[u] = Copy(c)
      OBVIOUS
    <3>1. CASE c \in 1..Len(copies)
      <4>1. copies[c].origin = u <=> forward[u] = Copy(c)
        BY <3>1 DEF CollectorInv, OneCopyEach
      <4>2. u = o => forward[u] # Copy(c) /\ c # Len(copies) + 1
        BY <1>0, <2>2, <3>1
      <4> QED BY <2>8, <2>10, <3>1, <4>1, <4>2
    <3>2. CASE c = Len(copies) + 1
      <4>1. \A w \in HeapObjects : forward[w] # Copy(c)
        <5> SUFFICES ASSUME NEW w \in HeapObjects, forward[w] = Copy(c)
                     PROVE  FALSE
          OBVIOUS
        <5>1. forward[w] \in Forwards(Len(copies))
          BY <1>0
        <5>2. PICK d \in 1..Len(copies) : forward[w] = Copy(d)
          BY <5>1 DEF Forwards
        <5> QED BY <1>0, <3>2, <5>2
      <4> QED BY <2>8, <2>10, <2>12, <3>2, <4>1
    <3> QED BY <1>0, <2>8, <3>1, <3>2
  <2>14. \A c \in 1..Len(next) : next[c].forward = Copy(c)
    <3> SUFFICES ASSUME NEW c \in 1..Len(next) PROVE next[c].forward = Copy(c)
      OBVIOUS
    <3>1. CASE c \in 1..Len(copies)
      BY <2>8, <3>1 DEF CollectorInv, HeapInv
    <3>2. CASE c = Len(copies) + 1
      BY <2>8, <2>12, <3>2
    <3> QED BY <1>0, <2>8, <3>1, <3>2
  <2>15. \A c \in 1..Len(next) : c > Len(copies) =>
           next[c].color = "grey" /\ next[c].fields = fields[next[c].origin]
    <3>1. \A c \in 1..Len(next) : c > Len(copies) => c = Len(copies) + 1
      BY <1>0, <2>8
    <3> QED BY <2>8, <2>12, <3>1
  <2>16. Extends(next)
    BY <1>0, <2>2, <2>8, <2>10, <2>11, <2>13, <2>14, <2>15 DEF Extends
  <2>17. MeaningIn(next, Transferred(p)) = Meaning(p)
    BY <2>1, <2>8, <2>9, <2>12 DEF MeaningIn, Meaning
  <2>18. Transferred(p) \in Forwards(Len(next))
    BY <1>0, <2>8, <2>9 DEF Forwards
  <2>19. \A c \in 1..Len(next) : c > Len(copies) => p = Managed(next[c].origin)
    <3>1. \A c \in 1..Len(next) : c > Len(copies) => c = Len(copies) + 1
      BY <1>0, <2>8
    <3> QED BY <2>1, <2>8, <2>12, <3>1
  <2> QED BY <2>1, <2>10, <2>16, <2>17, <2>18, <2>19
<1>3. CASE ~Fresh(p)
  <2>1. next = copies /\ Transferred(p) = Forward(p)
    BY <1>3 DEF NextHeapWith, Transferred
  <2>2. forward' = forward
    BY <1>0, <1>3 DEF Transfer, NewForward
  <2>3. Extends(next)
    BY <1>0, <2>1, <2>2 DEF Extends, CollectorInv, HeapInv, OneCopyEach
  <2>4. CASE p = Null
    BY <2>1, <2>3, <2>4 DEF Forward, Forwards, MeaningIn, Meaning
  <2>5. CASE IsManaged(p)
    <3>1. PICK o \in HeapObjects : p = Managed(o)
      BY <1>0, <2>5 DEF PointersTo
    <3>2. forward[o] # Null
      BY <1>3, <2>5, <3>1 DEF Fresh
    <3>3. PICK c \in 1..Len(copies) : forward[o] = Copy(c)
      BY <1>0, <3>2 DEF Forwards
    <3>4. copies[c].origin = o
      BY <3>3 DEF CollectorInv, OneCopyEach
    <3>5. Transferred(p) = Copy(c)
      BY <2>1, <3>1, <3>3 DEF Forward
    <3> QED BY <2>1, <2>2, <2>3, <3>1, <3>2, <3>3, <3>4, <3>5 DEF Forwards, MeaningIn, Meaning
  <2>6. CASE IsCopy(p)
    <3>1. PICK c \in 1..Len(copies) : p = Copy(c)
      BY <1>0, <2>6 DEF PointersTo
    <3>2. Transferred(p) = Copy(c)
      BY <2>1, <3>1 DEF Forward, CollectorInv, HeapInv
    <3> QED BY <2>1, <2>3, <3>1, <3>2 DEF Forwards, MeaningIn, Meaning
  <2>7. \A c \in 1..Len(next) : ~(c > Len(copies))
    BY <1>0, <2>1
  <2> QED BY <1>0, <2>4, <2>5, <2>6, <2>7 DEF PointersTo
<1> QED BY <1>2, <1>3

-----------------------------------------------------------------------------
(* A step that makes the next heap out of Extends(next), and changes at    *)
(* most references in its fields to the copy of what they refer to.        *)
TypeOfCopies == copies \in Seq(CopyType(Len(copies)))

LEMMA HeapGrows ==
  ASSUME CollectorInv, phase # "done", fields' = fields,
         NEW next, Extends(next),
         copies' \in Seq(CopyType(Len(next))), Len(copies') = Len(next),
         \A c \in 1..Len(next) :
           /\ copies'[c].origin = next[c].origin
           /\ copies'[c].color = next[c].color
           /\ copies'[c].forward = next[c].forward,
         \A c \in 1..Len(next), k \in Fields :
           /\ MeaningIn(next, copies'[c].fields[k]) = MeaningIn(next, next[c].fields[k])
           /\ ~IsManaged(next[c].fields[k]) => ~IsManaged(copies'[c].fields[k])
  PROVE  /\ TypeOfCopies' /\ HeapInv' /\ OneCopyEach' /\ BlackIsForwarded'
         /\ CopiesAreFaithful'
         /\ \A c \in 1..Len(copies) : copies'[c].origin = copies[c].origin
         /\ Len(copies) <= Len(copies') /\ Len(copies') \in Nat
<1> USE PointerFacts
<1>0. /\ copies \in Seq(CopyType(Len(copies))) /\ Len(copies) \in Nat
      /\ Len(next) \in Nat
  <2>1. copies \in Seq(CopyType(Len(copies)))
    BY DEF CollectorInv, TypeOK, CopyType, Pointers, PointersTo
  <2> QED BY <2>1, LenProperties DEF Extends
<1>1. \A c \in 1..Len(copies) : copies[c] \in CopyType(Len(copies))
  BY <1>0, ElementOfSeq
<1>2. TypeOfCopies'
  BY DEF TypeOfCopies
<1>3. HeapInv'
  BY DEF HeapInv, CollectorInv, Extends
<1>4. OneCopyEach'
  BY DEF OneCopyEach, Extends
<1>5. \A c \in 1..Len(next) :
        \/ c \in 1..Len(copies)
        \/ c > Len(copies)
  BY <1>0
<1>6. BlackIsForwarded'
  <2> SUFFICES ASSUME NEW c \in 1..Len(next), NEW k \in Fields,
                      next[c].color # "grey", FieldKinds[k] = "object"
               PROVE  ~IsManaged(next[c].fields[k])
    BY DEF BlackIsForwarded, IsManaged
  <2>1. c \in 1..Len(copies) /\ next[c] = copies[c]
    BY <1>5 DEF Extends
  <2> QED BY <2>1 DEF CollectorInv, BlackIsForwarded
<1>7. \A c \in 1..Len(next), k \in Fields :
        MeaningIn(next, next[c].fields[k]) = fields[next[c].origin][k]
  <2> SUFFICES ASSUME NEW c \in 1..Len(next), NEW k \in Fields
               PROVE  MeaningIn(next, next[c].fields[k]) = fields[next[c].origin][k]
    OBVIOUS
  <2>1. CASE c \in 1..Len(copies)
    <3>1. Meaning(copies[c].fields[k]) = fields[copies[c].origin][k]
      BY <2>1 DEF CollectorInv, CopiesAreFaithful
    <3>2. copies[c].fields[k] \in PointersTo(Len(copies))
      BY <1>1, <2>1 DEF CopyType
    <3>3. \A p \in PointersTo(Len(copies)) : MeaningIn(next, p) = Meaning(p)
      BY <1>0 DEF PointersTo, MeaningIn, Meaning, Extends
    <3>4. next[c] = copies[c]
      BY <2>1 DEF Extends
    <3> QED BY <3>1, <3>2, <3>3, <3>4
  <2>2. CASE c > Len(copies)
    <3>1. next[c].fields = fields[next[c].origin]
      BY <2>2 DEF Extends
    <3>2. next[c] \in CopyType(Len(next))
      BY ElementOfSeq DEF Extends
    <3>3. fields[next[c].origin][k] \in Unforwarded
      BY <3>2 DEF CollectorInv, HeapInv, CopyType
    <3> QED BY <3>1, <3>3 DEF Unforwarded, MeaningIn
  <2> QED BY <1>5, <2>1, <2>2
<1>8. CopiesAreFaithful'
  <2> SUFFICES ASSUME NEW c \in 1..Len(next), NEW k \in Fields
               PROVE  Meaning(copies[c].fields[k])' = fields[next[c].origin][k]
    BY DEF CopiesAreFaithful
  <2>1. copies'[c].fields[k] \in PointersTo(Len(next))
    <3>1. copies'[c] \in CopyType(Len(next))
      BY ElementOfSeq
    <3> QED BY <3>1 DEF CopyType
  <2>2. \A p \in PointersTo(Len(next)) :
          MeaningIn(next, p) = IF IsCopy(p) THEN Managed(copies'[p[2]].origin) ELSE p
    BY DEF PointersTo, MeaningIn
  <2> QED BY <1>7, <2>1, <2>2 DEF Meaning, IsCopy
<1> QED BY <1>0, <1>2, <1>3, <1>4, <1>6, <1>8 DEF Extends

-----------------------------------------------------------------------------
(* What the steps say of the heaps, apart from the last one's.             *)
HeapPart == TypeOfCopies /\ HeapInv /\ OneCopyEach /\ BlackIsForwarded /\ CopiesAreFaithful

Kept == /\ Len(copies) <= Len(copies')
        /\ \A c \in 1..Len(copies) : copies'[c].origin = copies[c].origin
        /\ \A o \in HeapObjects : forward[o] # Null => forward'[o] # Null

LEMMA HeapTypes ==
  ASSUME CollectorInv
  PROVE  /\ copies \in Seq(CopyType(Len(copies))) /\ Len(copies) \in Nat
         /\ \A c \in 1..Len(copies) : copies[c] \in CopyType(Len(copies))
         /\ \A c \in 1..Len(copies) : copies[c].origin \in HeapObjects
         /\ \A c \in 1..Len(copies), k \in Fields : copies[c].fields[k] \in Pointers
         /\ \A r \in Slots : slots[r] \in Pointers
         /\ Pointers = PointersTo(Len(copies))
<1>1. copies \in Seq(CopyType(Len(copies)))
  BY DEF CollectorInv, TypeOK, CopyType, Pointers, PointersTo
<1>2. \A c \in 1..Len(copies) : copies[c] \in CopyType(Len(copies))
  BY <1>1, ElementOfSeq
<1> QED BY <1>1, <1>2, LenProperties, PointersOfHeap DEF CollectorInv, TypeOK, CopyType

(* A pointer that is not changed keeps its meaning and its type.           *)
LEMMA PointersKept ==
  ASSUME CollectorInv, TypeOfCopies', Kept
  PROVE  /\ Pointers \subseteq Pointers'
         /\ \A p \in Pointers : Meaning(p) = MeaningIn(copies', p)
         /\ Len(copies') \in Nat
<1>1. Len(copies') \in Nat
  BY LenProperties DEF TypeOfCopies
<1>2. Pointers' = PointersTo(Len(copies'))
  BY DEF Pointers, PointersTo
<1>3. PointersTo(Len(copies)) \subseteq PointersTo(Len(copies'))
  BY <1>1, HeapTypes DEF PointersTo, Kept
<1>4. \A p \in PointersTo(Len(copies)) : Meaning(p) = MeaningIn(copies', p)
  BY PointerFacts DEF PointersTo, Meaning, MeaningIn, Kept
<1> QED BY <1>1, <1>2, <1>3, <1>4, HeapTypes

(* What can be reached does not change while the slots' meanings do not.   *)
SlotMeanings == \A r \in Slots : Meaning(slots[r])' = Meaning(slots[r])

LEMMA ReachableKept ==
  ASSUME SlotMeanings, interop' = interop, fields' = fields
  PROVE  Reachable' = Reachable
<1>1. Roots' = Roots
  BY DEF SlotMeanings, Roots
<1>2. \A S : Closed(S)' <=> Closed(S)
  BY DEF Closed
<1> QED BY <1>1, <1>2 DEF Reachable

(* RUNTIME_THREAD.wrapper follows header->forward.                         *)
LEMMA WrapperStep ==
  ASSUME CollectorInv, NEW p \in Pointers, Transfer(p), interop' = interop,
         NEW next, Extends(next)
  PROVE  WrapperIsForward'
<1>1. /\ threadWrapper' = NewWrappers(p) /\ forward' = NewForward(p)
  BY DEF Transfer
<1>2. /\ DOMAIN threadWrapper' = DOMAIN threadWrapper
      /\ threadWrapper' = [o \in DOMAIN threadWrapper' |-> threadWrapper'[o]]
  BY <1>1 DEF NewWrappers
<1>3. \A o \in DOMAIN threadWrapper :
        /\ o \in interop /\ o \in HeapObjects
        /\ threadWrapper[o] = IF forward[o] = Null THEN Managed(o) ELSE forward[o]
  BY DEF CollectorInv, WrapperInv, WrapperIsForward, TypeOK
<1>4. ASSUME NEW o \in DOMAIN threadWrapper
      PROVE  threadWrapper'[o] = IF forward'[o] = Null THEN Managed(o) ELSE forward'[o]
  <2>1. CASE Fresh(p) /\ p[2] = o
    <3>1. threadWrapper'[o] = Transferred(p) /\ forward'[o] = Transferred(p)
      BY <1>1, <1>3, <2>1 DEF NewWrappers, NewForward
    <3>2. Transferred(p) # Null
      BY <2>1, PointerFacts DEF Transferred
    <3> QED BY <3>1, <3>2
  <2>2. CASE ~(Fresh(p) /\ p[2] = o)
    <3>1. threadWrapper'[o] = threadWrapper[o] /\ forward'[o] = forward[o]
      BY <1>1, <1>3, <2>2 DEF NewWrappers, NewForward
    <3> QED BY <1>3, <3>1
  <2> QED BY <2>1, <2>2
<1> QED BY <1>2, <1>3, <1>4 DEF WrapperIsForward

(* HppTransferObject on its own (HppScanFrame and the interop loop).       *)
LEMMA TransferStep ==
  ASSUME CollectorInv, phase # "done", NEW p \in Pointers, Transfer(p),
         copies' = NextHeapWith(p), fields' = fields, interop' = interop
  PROVE  /\ HeapPart' /\ Kept /\ WrapperIsForward'
         /\ Transferred(p) \in Forwards(Len(copies'))
         /\ MeaningIn(copies', Transferred(p)) = Meaning(p)
         /\ IsManaged(p) => forward'[p[2]] # Null
         /\ \A c \in 1..Len(copies') : c > Len(copies) => p = Managed(copies'[c].origin)
<1>1. Extends(copies') /\ Transferred(p) \in Forwards(Len(copies'))
  BY TransferExtends
<1>2. HeapPart' /\ Kept
  BY <1>1, HeapGrows DEF HeapPart, Extends, Kept
<1>3. WrapperIsForward'
  BY <1>1, WrapperStep
<1> QED BY <1>1, <1>2, <1>3, TransferExtends

-----------------------------------------------------------------------------
LEMMA InitInv == Init => CollectorInv
<1> SUFFICES ASSUME Init PROVE CollectorInv
  OBVIOUS
<1> USE PointerFacts, CollectorAssumption
<1>1. copies = <<>> /\ Len(copies) = 0 /\ 1..Len(copies) = {}
  BY EmptySeq DEF Init
<1>2. /\ Targets \subseteq HeapObjects
      /\ \A kind : Pointees(kind) \subseteq Unforwarded
  BY DEF HeapObjects, Pointees, Unforwarded
<1>3. Unforwarded \subseteq Pointers
  BY DEF Unforwarded, Pointers
<1>4. fields \in [HeapObjects -> [Fields -> Unforwarded]]
  <2>1. Pointees("object") \union Pointees("struct") \subseteq Unforwarded
    BY <1>2
  <2> QED BY <2>1 DEF Init
<1>5. slots \in [Slots -> Unforwarded]
  <2>1. Pointees("object") \union Pointees("struct") \subseteq Unforwarded
    BY <1>2
  <2> QED BY <2>1 DEF Init
<1>6. WrapperIsForward
  BY DEF Init, WrapperIsForward, HeapObjects
<1>7. TypeOK
  <2>1. threadWrapper \in [DOMAIN threadWrapper -> Pointers]
    BY <1>3 DEF Init, HeapObjects, Unforwarded
  <2>2. copies \in Seq([origin : HeapObjects, color : {"grey", "black", "white"},
                        forward : Pointers, fields : [Fields -> Pointers]])
    BY <1>1, EmptySeq
  <2>3. Len(FieldKinds) \in Nat
    BY LenProperties
  <2>4. forward \in [HeapObjects -> Pointers]
    BY <1>3 DEF Init, Unforwarded
  <2>5. fields \in [HeapObjects -> [Fields -> Pointers]] /\ slots \in [Slots -> Pointers]
    BY <1>3, <1>4, <1>5
  <2>6. f \in 1..(Len(FieldKinds) + 1) /\ i \in Nat \ {0}
    BY <2>3 DEF Init
  <2>7. /\ interop \subseteq HeapObjects /\ statics \in [1..Statics -> Kinds]
        /\ phase = "statics" /\ tryAgain \in BOOLEAN
    BY DEF Init
  <2> HIDE CollectorAssumption, PointerFacts
  <2> QED BY <2>1, <2>2, <2>4, <2>5, <2>6, <2>7 DEF TypeOK
<1>8. HeapInv
  BY <1>1, <1>4 DEF Init, HeapInv, Forwards
<1>9. OneCopyEach /\ BlackIsForwarded /\ CopiesAreFaithful
  BY <1>1 DEF OneCopyEach, BlackIsForwarded, CopiesAreFaithful
<1>10. LoopInv /\ WrapperInv
  BY <1>6 DEF Init, LoopInv, WrapperInv
<1>11. ReachInv
  BY <1>1 DEF Init, ReachInv, Survivors
<1> QED BY <1>7, <1>8, <1>9, <1>10, <1>11 DEF CollectorInv

(* The steps that change neither heap, the slots nor the wrappers.         *)
LEMMA QuietStep ==
  ASSUME CollectorInv, phase # "done", phase' # "done",
         UNCHANGED <<heapVars, threadWrapper, forward, copies, slots>>
  PROVE  /\ HeapPart' /\ Kept /\ WrapperIsForward' /\ SlotMeanings
         /\ Survivors' = Survivors /\ Reachable' = Reachable
         /\ Pointers' = Pointers
<1>1. SlotMeanings
  BY DEF SlotMeanings, Meaning, IsCopy, heapVars
<1>2. HeapPart'
  BY HeapTypes DEF HeapPart, CollectorInv, TypeOfCopies, HeapInv, OneCopyEach, CopyType,
     BlackIsForwarded, CopiesAreFaithful, Meaning, IsCopy, IsManaged, heapVars, PointersTo
<1>3. Kept
  BY HeapTypes DEF Kept
<1>4. WrapperIsForward'
  BY DEF CollectorInv, WrapperInv, WrapperIsForward, heapVars
<1>5. Survivors' = Survivors /\ Pointers' = Pointers
  BY DEF Survivors, Pointers
<1> QED BY <1>1, <1>2, <1>3, <1>4, <1>5, ReachableKept DEF heapVars

(* The parts of the type invariant that follow from the others.            *)
LEMMA TypeFollows ==
  ASSUME CollectorInv, HeapPart', Kept, WrapperIsForward',
         fields' = fields, interop' = interop, statics' = statics,
         slots' \in [Slots -> Pointers'],
         phase' \in {"statics", "frames", "interop", "inspect", "trace", "finish", "done",
                    "wild"},
         i' \in Nat \ {0}, f' \in 1..(Len(FieldKinds) + 1), tryAgain' \in BOOLEAN
  PROVE  TypeOK'
<1>1. Pointers' = PointersTo(Len(copies')) /\ Pointers \subseteq Pointers'
  BY PointersKept DEF HeapPart, Pointers, PointersTo
<1>2. forward' \in [HeapObjects -> Pointers']
  <2>1. Forwards(Len(copies')) \subseteq Pointers'
    BY <1>1 DEF Forwards, PointersTo
  <2> QED BY <2>1 DEF HeapPart, HeapInv
<1>3. threadWrapper' \in [DOMAIN threadWrapper' -> Pointers']
  <2>1. \A o \in HeapObjects : Managed(o) \in Pointers'
    BY <1>1 DEF PointersTo
  <2>2. \A o \in DOMAIN threadWrapper' : o \in HeapObjects /\ threadWrapper'[o] \in Pointers'
    BY <1>2, <2>1 DEF WrapperIsForward, CollectorInv, TypeOK
  <2> QED BY <2>2 DEF WrapperIsForward
<1>4. fields' \in [HeapObjects -> [Fields -> Pointers']]
  BY <1>1 DEF CollectorInv, TypeOK
<1>5. copies' \in Seq([origin : HeapObjects, color : {"grey", "black", "white"},
                      forward : Pointers', fields : [Fields -> Pointers']])
  BY <1>1 DEF HeapPart, TypeOfCopies, CopyType
<1> QED BY <1>2, <1>3, <1>4, <1>5 DEF TypeOK, CollectorInv

(* An object is copied because it can be reached.                          *)
LEMMA SurvivorsStep ==
  ASSUME CollectorInv, HeapPart', Kept, Reachable' = Reachable,
         \A c \in 1..Len(copies') : c > Len(copies) => copies'[c].origin \in Reachable
  PROVE  (Survivors \subseteq Reachable)'
<1>1. Len(copies) \in Nat /\ Len(copies') \in Nat
  BY HeapTypes, PointersKept DEF HeapPart
<1>2. \A c \in 1..Len(copies) : copies[c].origin \in Reachable
  BY DEF CollectorInv, ReachInv, Survivors
<1>3. \A c \in 1..Len(copies') : c \in 1..Len(copies) \/ c > Len(copies)
  BY <1>1
<1>4. \A c \in 1..Len(copies') : copies'[c].origin \in Reachable
  BY <1>2, <1>3 DEF Kept
<1> QED BY <1>4 DEF Survivors

-----------------------------------------------------------------------------
(* Each action preserves the invariant and the meaning of the slots.       *)
LEMMA StaticsStep ==
  ASSUME CollectorInv, WalkStatic \/ TransferStatic \/ StaticsTraced
  PROVE  CollectorInv' /\ SlotMeanings
<1>1. /\ HeapPart' /\ Kept /\ WrapperIsForward' /\ SlotMeanings
      /\ Survivors' = Survivors /\ Reachable' = Reachable /\ Pointers' = Pointers
  BY QuietStep DEF WalkStatic, TransferStatic, StaticsTraced
<1>2. /\ i' \in Nat \ {0} /\ f' = f /\ tryAgain' = tryAgain
      /\ phase' \in {"statics", "frames", "wild"}
      /\ phase' = "frames" => i' = 1
      /\ UNCHANGED <<fields, interop, statics, slots>>
  BY DEF WalkStatic, TransferStatic, StaticsTraced, heapVars, CollectorInv, TypeOK
<1>3. TypeOK'
  BY <1>1, <1>2, TypeFollows DEF CollectorInv, TypeOK
<1>4. LoopInv'
  BY <1>2 DEF LoopInv
<1>5. WrapperInv'
  BY <1>1, <1>2 DEF WrapperInv
<1>6. ReachInv'
  <2>1. \A r \in Slots : ~(r < 1)
    BY DEF Slots
  <2> QED BY <1>1, <1>2, <2>1 DEF ReachInv, CollectorInv
<1> QED BY <1>1, <1>3, <1>4, <1>5, <1>6 DEF CollectorInv, HeapPart

LEMMA TraceSlotStep ==
  ASSUME CollectorInv, TraceSlot
  PROVE  CollectorInv' /\ SlotMeanings
<1> USE CollectorAssumption
<1>0. /\ i \in Slots /\ i' = i + 1 /\ i \in Nat /\ i' \in Nat \ {0}
      /\ phase = "frames" /\ phase' = "frames"
      /\ UNCHANGED <<fields, interop, statics, f, tryAgain>>
  <2>1. Len(SlotKinds) \in Nat
    BY LenProperties
  <2> QED BY <2>1 DEF TraceSlot, CollectorInv, TypeOK, Slots, heapVars
<1>1. CASE SlotKinds[i] # "object"
  <2>1. /\ HeapPart' /\ Kept /\ WrapperIsForward' /\ SlotMeanings
        /\ Survivors' = Survivors /\ Reachable' = Reachable /\ Pointers' = Pointers
        /\ slots' = slots
    BY <1>0, <1>1, QuietStep DEF TraceSlot
  <2>2. TypeOK'
    BY <1>0, <2>1, TypeFollows DEF CollectorInv, TypeOK
  <2>3. LoopInv' /\ WrapperInv'
    BY <1>0, <2>1 DEF LoopInv, WrapperInv
  <2>4. \A r \in Slots : r < i + 1 => r < i \/ r = i
    BY <1>0 DEF Slots
  <2>5. ReachInv'
    BY <1>0, <1>1, <2>1, <2>4 DEF ReachInv, CollectorInv, IsManaged
  <2> QED BY <2>1, <2>2, <2>3, <2>5 DEF CollectorInv, HeapPart
<1>2. CASE SlotKinds[i] = "object"
  <2> DEFINE p == slots[i]
  <2>0. p \in Pointers
    BY <1>0, HeapTypes
  <2>1. /\ Transfer(p) /\ copies' = NextHeapWith(p)
        /\ slots' = [slots EXCEPT ![i] = Transferred(p)]
    BY <1>2 DEF TraceSlot
  <2>2. /\ HeapPart' /\ Kept /\ WrapperIsForward'
        /\ Transferred(p) \in Forwards(Len(copies'))
        /\ MeaningIn(copies', Transferred(p)) = Meaning(p)
        /\ \A c \in 1..Len(copies') : c > Len(copies) => p = Managed(copies'[c].origin)
    BY <1>0, <2>0, <2>1, TransferStep
  <2>3. /\ Pointers \subseteq Pointers'
        /\ \A q \in Pointers : Meaning(q) = MeaningIn(copies', q)
    BY <2>2, PointersKept DEF HeapPart
  <2>4. \A r \in Slots : slots'[r] = IF r = i THEN Transferred(p) ELSE slots[r]
    BY <1>0, <2>1 DEF CollectorInv, TypeOK
  <2>5. SlotMeanings
    <3>1. \A r \in Slots : MeaningIn(copies', slots'[r]) = Meaning(slots[r])
      BY <2>2, <2>3, <2>4, HeapTypes
    <3>2. \A r \in Slots : Meaning(slots[r])' = MeaningIn(copies', slots'[r])
      BY DEF Meaning, MeaningIn, IsCopy
    <3> QED BY <3>1, <3>2 DEF SlotMeanings
  <2>6. Reachable' = Reachable
    BY <1>0, <2>5, ReachableKept
  <2>7. slots' \in [Slots -> Pointers']
    <3>1. Forwards(Len(copies')) \subseteq Pointers'
      BY DEF Forwards, Pointers
    <3> QED BY <2>1, <2>2, <2>3, <3>1 DEF CollectorInv, TypeOK
  <2>8. TypeOK'
    BY <1>0, <2>2, <2>7, TypeFollows DEF CollectorInv, TypeOK
  <2>9. LoopInv' /\ WrapperInv'
    BY <1>0, <2>2 DEF LoopInv, WrapperInv
  <2>10. (Survivors \subseteq Reachable)'
    <3> SUFFICES ASSUME NEW c \in 1..Len(copies'), c > Len(copies)
                 PROVE  copies'[c].origin \in Reachable
      BY <2>2, <2>6, SurvivorsStep
    <3>1. Meaning(slots[i]) = Managed(copies'[c].origin)
      BY <2>2, PointerFacts DEF Meaning
    <3>2. copies'[c].origin \in HeapObjects
      <4>1. copies'[c] \in CopyType(Len(copies'))
        BY <2>2, ElementOfSeq DEF HeapPart, TypeOfCopies
      <4> QED BY <4>1 DEF CopyType
    <3> QED BY <1>0, <1>2, <3>1, <3>2 DEF Reachable, Roots
  <2>11. ReachInv'
    <3>1. \A r \in Slots : r < i + 1 => r < i \/ r = i
      BY <1>0 DEF Slots
    <3>2. ~IsManaged(Transferred(p))
      BY <2>2, PointerFacts DEF Forwards
    <3> QED BY <1>0, <2>4, <2>10, <3>1, <3>2 DEF ReachInv, CollectorInv, IsManaged
  <2> QED BY <2>2, <2>5, <2>8, <2>9, <2>11 DEF CollectorInv, HeapPart
<1> QED BY <1>1, <1>2

LEMMA SlotsTracedStep ==
  ASSUME CollectorInv, SlotsTraced
  PROVE  CollectorInv' /\ SlotMeanings
<1>1. /\ HeapPart' /\ Kept /\ WrapperIsForward' /\ SlotMeanings
      /\ Survivors' = Survivors /\ Reachable' = Reachable /\ Pointers' = Pointers
  BY QuietStep DEF SlotsTraced
<1>2. /\ i' = 1 /\ phase = "frames" /\ phase' = "interop" /\ i > Len(SlotKinds) /\ i \in Nat
      /\ UNCHANGED <<fields, interop, statics, slots, f, tryAgain>>
  BY DEF SlotsTraced, heapVars, CollectorInv, TypeOK
<1>3. TypeOK'
  BY <1>1, <1>2, TypeFollows DEF CollectorInv, TypeOK
<1>4. LoopInv'
  BY <1>2 DEF LoopInv
<1>5. WrapperInv'
  <2>1. \A o \in interop : ~(o < 1)
    BY DEF CollectorInv, TypeOK, HeapObjects
  <2> QED BY <1>1, <1>2, <2>1 DEF WrapperInv
<1>6. ReachInv'
  <2>1. \A r \in Slots : r < i
    BY <1>2, LenProperties, CollectorAssumption DEF Slots
  <2> QED BY <1>1, <1>2, <2>1 DEF ReachInv, CollectorInv, IsManaged
<1> QED BY <1>1, <1>3, <1>4, <1>5, <1>6 DEF CollectorInv, HeapPart

LEMMA TraceInteropStep ==
  ASSUME CollectorInv, TraceInterop
  PROVE  CollectorInv' /\ SlotMeanings
<1> USE CollectorAssumption
<1>0. /\ i \in HeapObjects /\ i' = i + 1 /\ i \in Nat /\ i' \in Nat \ {0}
      /\ phase = "interop" /\ phase' = "interop"
      /\ UNCHANGED <<fields, interop, statics, slots, f, tryAgain>>
  BY DEF TraceInterop, CollectorInv, TypeOK, HeapObjects, heapVars
<1>1. \A o \in interop : o < i + 1 => o < i \/ o = i
  BY <1>0 DEF CollectorInv, TypeOK, HeapObjects
<1>2. CASE i \notin interop
  <2>1. /\ HeapPart' /\ Kept /\ WrapperIsForward' /\ SlotMeanings
        /\ Survivors' = Survivors /\ Reachable' = Reachable /\ Pointers' = Pointers
        /\ forward' = forward
    BY <1>0, <1>2, QuietStep DEF TraceInterop
  <2>2. TypeOK'
    BY <1>0, <2>1, TypeFollows DEF CollectorInv, TypeOK
  <2>3. LoopInv' /\ WrapperInv'
    BY <1>0, <1>1, <1>2, <2>1 DEF LoopInv, WrapperInv, CollectorInv
  <2>4. ReachInv'
    BY <1>0, <2>1 DEF ReachInv, CollectorInv, IsManaged
  <2> QED BY <2>1, <2>2, <2>3, <2>4 DEF CollectorInv, HeapPart
<1>3. CASE i \in interop
  <2> DEFINE p == Managed(i)
  <2>0. p \in Pointers
    BY <1>0 DEF Pointers
  <2>1. Transfer(p) /\ copies' = NextHeapWith(p)
    BY <1>3 DEF TraceInterop
  <2>2. /\ HeapPart' /\ Kept /\ WrapperIsForward'
        /\ forward'[i] # Null
        /\ \A c \in 1..Len(copies') : c > Len(copies) => copies'[c].origin = i
    <3>1. p[2] = i /\ IsManaged(p)
      BY PointerFacts
    <3>2. \A o : p = Managed(o) => o = i
      BY PointerFacts
    <3> HIDE DEF p
    <3> QED BY <1>0, <2>0, <2>1, <3>1, <3>2, TransferStep
  <2>3. /\ Pointers \subseteq Pointers'
        /\ \A q \in Pointers : Meaning(q) = MeaningIn(copies', q)
    BY <2>2, PointersKept DEF HeapPart
  <2>4. SlotMeanings
    <3>1. \A r \in Slots : MeaningIn(copies', slots[r]) = Meaning(slots[r])
      BY <2>3, HeapTypes
    <3>2. \A r \in Slots : Meaning(slots[r])' = MeaningIn(copies', slots[r])
      BY <1>0 DEF Meaning, MeaningIn, IsCopy
    <3> QED BY <3>1, <3>2 DEF SlotMeanings
  <2>5. Reachable' = Reachable
    BY <1>0, <2>4, ReachableKept
  <2>6. TypeOK'
    <3>1. slots' \in [Slots -> Pointers']
      BY <1>0, <2>3 DEF CollectorInv, TypeOK
    <3> QED BY <1>0, <2>2, <3>1, TypeFollows DEF CollectorInv, TypeOK
  <2>7. LoopInv' /\ WrapperInv'
    <3>1. \A o \in interop : o \in HeapObjects
      BY DEF CollectorInv, TypeOK
    <3> QED BY <1>0, <1>1, <2>2, <3>1 DEF LoopInv, WrapperInv, CollectorInv, Kept
  <2>8. (Survivors \subseteq Reachable)'
    <3>1. i \in Reachable
      BY <1>0, <1>3 DEF Reachable, Roots
    <3> QED BY <2>2, <2>5, <3>1, SurvivorsStep
  <2>9. ReachInv'
    BY <1>0, <2>8 DEF ReachInv, CollectorInv, IsManaged
  <2> QED BY <2>2, <2>4, <2>6, <2>7, <2>9 DEF CollectorInv, HeapPart
<1> QED BY <1>2, <1>3

LEMMA InteropTracedStep ==
  ASSUME CollectorInv, InteropTraced
  PROVE  CollectorInv' /\ SlotMeanings
<1>1. /\ HeapPart' /\ Kept /\ WrapperIsForward' /\ SlotMeanings
      /\ Survivors' = Survivors /\ Reachable' = Reachable /\ Pointers' = Pointers
  BY QuietStep DEF InteropTraced
<1>2. /\ i' = 1 /\ phase = "interop" /\ phase' = "inspect" /\ i > Objects /\ i \in Nat
      /\ UNCHANGED <<fields, interop, statics, slots, forward, f, tryAgain>>
  BY DEF InteropTraced, heapVars, CollectorInv, TypeOK
<1>3. TypeOK'
  BY <1>1, <1>2, TypeFollows DEF CollectorInv, TypeOK
<1>4. LoopInv'
  BY <1>1, <1>2, HeapTypes DEF LoopInv, HeapPart, TypeOfCopies
<1>5. WrapperInv'
  <2>1. \A o \in interop : o < i
    BY <1>2, CollectorAssumption DEF CollectorInv, TypeOK, HeapObjects
  <2> QED BY <1>1, <1>2, <2>1 DEF WrapperInv, CollectorInv
<1>6. ReachInv'
  BY <1>1, <1>2 DEF ReachInv, CollectorInv, IsManaged
<1> QED BY <1>1, <1>3, <1>4, <1>5, <1>6 DEF CollectorInv, HeapPart

(* GcInspect's own steps: from a copy to the next, to a grey one's fields, *)
(* to another round or to the end.                                         *)
LEMMA InspectStep ==
  ASSUME CollectorInv, InspectGrey \/ InspectBlack \/ Inspected
  PROVE  CollectorInv' /\ SlotMeanings
<1> USE CollectorAssumption
<1>1. /\ HeapPart' /\ Kept /\ WrapperIsForward' /\ SlotMeanings
      /\ Survivors' = Survivors /\ Reachable' = Reachable /\ Pointers' = Pointers
  BY QuietStep DEF InspectGrey, InspectBlack, Inspected
<1>2. /\ phase = "inspect" /\ phase' \in {"inspect", "trace", "finish"}
      /\ i \in Nat \ {0} /\ i' \in Nat \ {0} /\ f' \in 1..(Len(FieldKinds) + 1)
      /\ tryAgain' \in BOOLEAN
      /\ UNCHANGED <<fields, interop, statics, slots, copies, forward>>
  <2>1. Len(FieldKinds) \in Nat
    BY LenProperties
  <2>2. i \in Nat \ {0} /\ f \in 1..(Len(FieldKinds) + 1) /\ tryAgain \in BOOLEAN
    BY DEF CollectorInv, TypeOK
  <2>3. UNCHANGED <<fields, interop, statics, slots, copies, forward>>
    BY DEF InspectGrey, InspectBlack, Inspected, heapVars
  <2>4. CASE InspectGrey
    BY <2>1, <2>2, <2>3, <2>4 DEF InspectGrey
  <2>5. CASE InspectBlack
    BY <2>1, <2>2, <2>3, <2>5 DEF InspectBlack
  <2>6. CASE Inspected
    <3>1. /\ phase = "inspect" /\ f' = f
          /\ \/ i' = 1 /\ tryAgain' = FALSE /\ phase' = phase
             \/ phase' = "finish" /\ i' = i /\ tryAgain' = tryAgain
      BY <2>6 DEF Inspected
    <3>2. tryAgain' \in BOOLEAN
      BY <2>2, <3>1, Zenon
    <3>3. /\ phase' \in {"inspect", "trace", "finish"} /\ i' \in Nat \ {0}
          /\ f' \in 1..(Len(FieldKinds) + 1)
      BY <2>2, <3>1
    <3> QED BY <2>2, <2>3, <3>1, <3>2, <3>3, Zenon
  <2> QED BY <2>4, <2>5, <2>6
<1>3. TypeOK'
  BY <1>1, <1>2, TypeFollows DEF CollectorInv, TypeOK
<1>4. LoopInv'
  <2>1. CASE InspectGrey
    <3>1. \A k \in Fields : ~(k < 1)
      BY DEF Fields
    <3> QED BY <1>2, <2>1, <3>1, HeapTypes DEF InspectGrey, LoopInv
  <2>2. CASE InspectBlack
    <3>1. \A c \in 1..Len(copies) : c < i + 1 => c < i \/ c = i
      BY <1>2, HeapTypes
    <3> QED BY <1>2, <2>2, <3>1 DEF InspectBlack, LoopInv, CollectorInv
  <2>3. CASE Inspected
    <3>1. \A c \in 1..Len(copies) : c < i /\ ~(c < 1)
      BY <1>2, <2>3, HeapTypes DEF Inspected
    <3> QED BY <1>2, <2>3, <3>1 DEF Inspected, LoopInv, CollectorInv, TypeOK
  <2> QED BY <2>1, <2>2, <2>3
<1>5. WrapperInv' /\ ReachInv'
  BY <1>1, <1>2 DEF WrapperInv, ReachInv, CollectorInv, IsManaged
<1> QED BY <1>1, <1>3, <1>4, <1>5 DEF CollectorInv, HeapPart

LEMMA TraceFieldStep ==
  ASSUME CollectorInv, TraceField
  PROVE  CollectorInv' /\ SlotMeanings
<1> USE CollectorAssumption
<1>0. /\ i \in 1..Len(copies) /\ i \in Nat /\ f \in Fields /\ f \in Nat
      /\ f' = f + 1 /\ f' \in 1..(Len(FieldKinds) + 1)
      /\ phase = "trace" /\ phase' = "trace" /\ tryAgain = TRUE /\ copies[i].color = "grey"
      /\ UNCHANGED <<fields, interop, statics, slots, i, tryAgain>>
  <2>1. Len(FieldKinds) \in Nat
    BY LenProperties
  <2>2. phase = "trace" /\ f <= Len(FieldKinds)
    BY DEF TraceField
  <2>3. i \in 1..Len(copies) /\ tryAgain = TRUE /\ copies[i].color = "grey"
    BY <2>2 DEF CollectorInv, LoopInv
  <2>4. f \in Nat /\ f >= 1
    BY DEF CollectorInv, TypeOK
  <2>5. f' = f + 1 /\ UNCHANGED <<fields, interop, statics, slots, phase, i, tryAgain>>
    BY DEF TraceField, heapVars
  <2> QED BY <2>1, <2>2, <2>3, <2>4, <2>5 DEF Fields, CollectorInv, TypeOK
<1>1. \A k \in Fields : k < f + 1 => k < f \/ k = f
  BY <1>0 DEF Fields
<1>2. \A k \in Fields : k < f /\ FieldKinds[k] = "object" => ~IsManaged(copies[i].fields[k])
  BY <1>0 DEF CollectorInv, LoopInv
<1>3. CASE FieldKinds[f] # "object"
  <2>0. UNCHANGED <<threadWrapper, forward, copies>>
    BY <1>3 DEF TraceField
  <2>1. /\ HeapPart' /\ Kept /\ WrapperIsForward' /\ SlotMeanings
        /\ Survivors' = Survivors /\ Reachable' = Reachable /\ Pointers' = Pointers
    BY <1>0, <2>0, QuietStep DEF heapVars
  <2>2. TypeOK'
    BY <1>0, <2>1, TypeFollows DEF CollectorInv, TypeOK
  <2>3. LoopInv'
    BY <1>0, <1>1, <1>2, <1>3, <2>0 DEF LoopInv, IsManaged
  <2>4. WrapperInv' /\ ReachInv'
    BY <1>0, <2>0, <2>1 DEF WrapperInv, ReachInv, CollectorInv, IsManaged
  <2> QED BY <2>1, <2>2, <2>3, <2>4 DEF CollectorInv, HeapPart
<1>4. CASE FieldKinds[f] = "object"
  <2> DEFINE p == copies[i].fields[f]
             next == NextHeapWith(p)
             q == Transferred(p)
             e == [next[i] EXCEPT !.fields = [next[i].fields EXCEPT ![f] = q]]
  <2>0. p \in Pointers
    BY <1>0, HeapTypes
  <2>1. Transfer(p) /\ copies' = [next EXCEPT ![i].fields[f] = q]
    BY <1>4 DEF TraceField
  <2>2. /\ Extends(next) /\ q \in Forwards(Len(next))
        /\ MeaningIn(next, q) = Meaning(p)
        /\ \A c \in 1..Len(next) : c > Len(copies) => p = Managed(next[c].origin)
    BY <1>0, <2>0, <2>1, TransferExtends
  <2> HIDE DEF next, q, p
  <2>3. /\ Len(next) \in Nat /\ Len(copies) \in Nat /\ i \in 1..Len(next)
        /\ next[i] = copies[i] /\ next[i] \in CopyType(Len(next))
    <3>1. next \in Seq(CopyType(Len(next))) /\ Len(copies) <= Len(next)
      BY <2>2 DEF Extends
    <3>2. Len(next) \in Nat /\ Len(copies) \in Nat /\ i \in 1..Len(next)
      BY <1>0, <3>1, LenProperties, HeapTypes
    <3> QED BY <1>0, <2>2, <3>1, <3>2, ElementOfSeq DEF Extends
  <2>4. /\ e \in CopyType(Len(next))
        /\ e.origin = next[i].origin /\ e.color = next[i].color /\ e.forward = next[i].forward
        /\ \A k \in Fields : e.fields[k] = IF k = f THEN q ELSE next[i].fields[k]
    <3>1. q \in PointersTo(Len(next))
      BY <2>2 DEF Forwards, PointersTo
    <3> QED BY <1>0, <2>3, <3>1 DEF CopyType
  <2>5. copies' = [next EXCEPT ![i] = e]
    BY <2>1
  <2> HIDE DEF e
  <2>6. /\ copies' \in Seq(CopyType(Len(next))) /\ Len(copies') = Len(next)
        /\ \A c \in 1..Len(next) : copies'[c] = IF c = i THEN e ELSE next[c]
    BY <2>2, <2>3, <2>4, <2>5, ExceptSeq DEF Extends
  <2>7. MeaningIn(next, p) = Meaning(p) /\ p = next[i].fields[f]
    <3>1. \A c \in 1..Len(copies) : next[c] = copies[c]
      BY <2>2 DEF Extends
    <3>2. p \in PointersTo(Len(copies))
      BY <2>0, HeapTypes
    <3>3. \A u \in PointersTo(Len(copies)) : MeaningIn(next, u) = Meaning(u)
      BY <3>1, PointerFacts DEF PointersTo, MeaningIn, Meaning
    <3> QED BY <2>3, <3>2, <3>3 DEF p
  <2>8. ~IsManaged(q)
    BY <2>2, PointerFacts DEF Forwards
  <2>9. /\ HeapPart' /\ Len(copies) <= Len(copies')
        /\ \A c \in 1..Len(copies) : copies'[c].origin = copies[c].origin
    <3>1. \A c \in 1..Len(next) :
            /\ copies'[c].origin = next[c].origin
            /\ copies'[c].color = next[c].color
            /\ copies'[c].forward = next[c].forward
      BY <2>4, <2>6
    <3>2. \A c \in 1..Len(next), k \in Fields :
            /\ MeaningIn(next, copies'[c].fields[k]) = MeaningIn(next, next[c].fields[k])
            /\ ~IsManaged(next[c].fields[k]) => ~IsManaged(copies'[c].fields[k])
      BY <2>2, <2>4, <2>6, <2>7, <2>8
    <3> QED BY <1>0, <2>2, <2>6, <3>1, <3>2, HeapGrows DEF HeapPart
  <2>10. Kept
    BY <2>2, <2>9 DEF Kept, Extends
  <2>11. WrapperIsForward'
    BY <1>0, <2>0, <2>1, <2>2, WrapperStep
  <2>12. /\ Pointers \subseteq Pointers'
         /\ \A u \in Pointers : Meaning(u) = MeaningIn(copies', u)
    BY <2>9, <2>10, PointersKept DEF HeapPart
  <2>13. SlotMeanings
    <3>1. \A r \in Slots : MeaningIn(copies', slots[r]) = Meaning(slots[r])
      BY <2>12, HeapTypes
    <3>2. \A r \in Slots : Meaning(slots[r])' = MeaningIn(copies', slots[r])
      BY <1>0 DEF Meaning, MeaningIn, IsCopy
    <3> QED BY <3>1, <3>2 DEF SlotMeanings
  <2>14. Reachable' = Reachable
    BY <1>0, <2>13, ReachableKept
  <2>15. TypeOK'
    <3>1. slots' \in [Slots -> Pointers']
      BY <1>0, <2>12 DEF CollectorInv, TypeOK
    <3> QED BY <1>0, <2>9, <2>10, <2>11, <3>1, TypeFollows DEF CollectorInv, TypeOK
  <2>16. LoopInv'
    <3>1. copies'[i].color = "grey" /\ Len(copies') = Len(next)
      BY <1>0, <2>3, <2>4, <2>6
    <3>2. \A k \in Fields : k < f + 1 /\ FieldKinds[k] = "object"
                              => ~IsManaged(copies'[i].fields[k])
      BY <1>1, <1>2, <2>3, <2>4, <2>6, <2>8
    <3> QED BY <1>0, <2>3, <3>1, <3>2 DEF LoopInv, IsManaged
  <2>17. WrapperInv'
    <3>1. \A o \in interop : o \in HeapObjects
      BY DEF CollectorInv, TypeOK
    <3> QED BY <1>0, <2>10, <2>11, <3>1 DEF WrapperInv, CollectorInv, Kept
  <2>18. (Survivors \subseteq Reachable)'
    <3> SUFFICES ASSUME NEW c \in 1..Len(copies'), c > Len(copies)
                 PROVE  copies'[c].origin \in Reachable
      BY <2>9, <2>10, <2>14, SurvivorsStep
    <3> DEFINE o == copies'[c].origin
               s == copies[i].origin
    <3>1. o = next[c].origin /\ o \in HeapObjects
      <4>1. copies'[c] \in CopyType(Len(next))
        BY <2>6, ElementOfSeq
      <4>2. c \in 1..Len(next) /\ c # i
        BY <1>0, <2>3, <2>6
      <4> QED BY <2>6, <4>1, <4>2 DEF CopyType
    <3>2. p = Managed(o)
      BY <2>2, <2>6, <3>1
    <3>3. fields[s][f] = Managed(o)
      BY <1>0, <3>2, PointerFacts DEF CollectorInv, CopiesAreFaithful, Meaning, p
    <3>4. s \in Reachable
      BY <1>0 DEF CollectorInv, ReachInv, Survivors
    <3> HIDE DEF s, o
    <3>5. o \in Reachable
      BY <1>0, <1>4, <3>1, <3>3, <3>4 DEF Reachable, Closed
    <3> QED BY <3>5 DEF o
  <2>19. ReachInv'
    BY <1>0, <2>18 DEF ReachInv, CollectorInv, IsManaged
  <2> QED BY <2>9, <2>13, <2>15, <2>16, <2>17, <2>19 DEF CollectorInv, HeapPart
<1> QED BY <1>3, <1>4

(* The steps that change just the color and the forward of copies.         *)
LEMMA RecolorStep ==
  ASSUME CollectorInv,
         copies' \in Seq(CopyType(Len(copies))), Len(copies') = Len(copies),
         \A c \in 1..Len(copies) : /\ copies'[c].origin = copies[c].origin
                                   /\ copies'[c].fields = copies[c].fields,
         UNCHANGED <<fields, interop, slots, threadWrapper, forward>>
  PROVE  /\ TypeOfCopies' /\ OneCopyEach' /\ CopiesAreFaithful' /\ Kept /\ WrapperIsForward'
         /\ SlotMeanings /\ Survivors' = Survivors /\ Reachable' = Reachable
         /\ Pointers' = Pointers
<1>1. TypeOfCopies' /\ Pointers' = Pointers
  BY DEF TypeOfCopies, Pointers
<1>2. OneCopyEach' /\ WrapperIsForward'
  BY DEF OneCopyEach, CollectorInv, WrapperInv, WrapperIsForward
<1>3. Kept
  BY HeapTypes DEF Kept
<1>4. \A u \in Pointers : Meaning(u) = MeaningIn(copies', u)
  BY <1>1, <1>3, PointersKept
<1>5. CopiesAreFaithful'
  <2>1. \A c \in 1..Len(copies), k \in Fields :
          MeaningIn(copies', copies[c].fields[k]) = fields[copies[c].origin][k]
    BY <1>4, HeapTypes DEF CollectorInv, CopiesAreFaithful
  <2>2. \A c \in 1..Len(copies), k \in Fields :
          Meaning(copies[c].fields[k])' = MeaningIn(copies', copies[c].fields[k])
    BY DEF Meaning, MeaningIn, IsCopy
  <2> QED BY <2>1, <2>2 DEF CopiesAreFaithful
<1>6. SlotMeanings
  <2>1. \A r \in Slots : MeaningIn(copies', slots[r]) = Meaning(slots[r])
    BY <1>4, HeapTypes
  <2>2. \A r \in Slots : Meaning(slots[r])' = MeaningIn(copies', slots[r])
    BY DEF Meaning, MeaningIn, IsCopy
  <2> QED BY <2>1, <2>2 DEF SlotMeanings
<1>7. Reachable' = Reachable /\ Survivors' = Survivors
  BY <1>6, ReachableKept DEF Survivors
<1> QED BY <1>1, <1>2, <1>3, <1>5, <1>6, <1>7

LEMMA FieldsTracedStep ==
  ASSUME CollectorInv, FieldsTraced
  PROVE  CollectorInv' /\ SlotMeanings
<1> DEFINE e == [copies[i] EXCEPT !.color = "black"]
<1>0. /\ i \in 1..Len(copies) /\ i \in Nat \ {0} /\ i' = i + 1 /\ f \in Nat
      /\ Len(FieldKinds) \in Nat /\ f > Len(FieldKinds)
      /\ phase = "trace" /\ phase' = "inspect" /\ tryAgain = TRUE
      /\ UNCHANGED <<fields, interop, statics, slots, threadWrapper, forward, f, tryAgain>>
  <2>1. Len(FieldKinds) \in Nat
    BY CollectorAssumption, LenProperties
  <2>2. phase = "trace" /\ f > Len(FieldKinds) /\ phase' = "inspect" /\ i' = i + 1
    BY DEF FieldsTraced
  <2>3. i \in 1..Len(copies) /\ tryAgain = TRUE
    BY <2>2 DEF CollectorInv, LoopInv
  <2>4. UNCHANGED <<fields, interop, statics, slots, threadWrapper, forward, f, tryAgain>>
    BY DEF FieldsTraced, heapVars
  <2> QED BY <2>1, <2>2, <2>3, <2>4 DEF CollectorInv, TypeOK
<1>1. /\ copies[i] \in CopyType(Len(copies)) /\ Len(copies) \in Nat
      /\ copies \in Seq(CopyType(Len(copies)))
  BY <1>0, HeapTypes
<1>2. /\ e \in CopyType(Len(copies)) /\ e.color = "black"
      /\ e.origin = copies[i].origin /\ e.forward = copies[i].forward
      /\ e.fields = copies[i].fields
  BY <1>1 DEF CopyType
<1>3. copies' = [copies EXCEPT ![i] = e]
  BY DEF FieldsTraced
<1> HIDE DEF e
<1>4. /\ copies' \in Seq(CopyType(Len(copies))) /\ Len(copies') = Len(copies)
      /\ \A c \in 1..Len(copies) : copies'[c] = IF c = i THEN e ELSE copies[c]
  BY <1>0, <1>1, <1>2, <1>3, ExceptSeq
<1>5. \A c \in 1..Len(copies) :
        /\ copies'[c].origin = copies[c].origin /\ copies'[c].forward = copies[c].forward
        /\ copies'[c].fields = copies[c].fields
  BY <1>2, <1>4
<1>6. /\ TypeOfCopies' /\ OneCopyEach' /\ CopiesAreFaithful' /\ Kept /\ WrapperIsForward'
      /\ SlotMeanings /\ Survivors' = Survivors /\ Reachable' = Reachable
      /\ Pointers' = Pointers
  BY <1>0, <1>4, <1>5, RecolorStep
<1>7. HeapInv'
  BY <1>0, <1>4, <1>5 DEF HeapInv, CollectorInv
<1>8. BlackIsForwarded'
  <2>1. \A k \in Fields : k < f
    BY <1>0 DEF Fields
  <2>2. \A k \in Fields : FieldKinds[k] = "object" => ~IsManaged(copies[i].fields[k])
    BY <1>0, <2>1 DEF CollectorInv, LoopInv
  <2> QED BY <1>4, <1>5, <2>2 DEF BlackIsForwarded, CollectorInv, IsManaged
<1>9. TypeOK'
  BY <1>0, <1>6, <1>7, <1>8, TypeFollows DEF CollectorInv, TypeOK, HeapPart
<1>10. LoopInv' /\ WrapperInv' /\ ReachInv'
  BY <1>0, <1>6 DEF LoopInv, WrapperInv, ReachInv, CollectorInv, IsManaged
<1> QED BY <1>6, <1>7, <1>8, <1>9, <1>10 DEF CollectorInv

LEMMA FinishStep ==
  ASSUME CollectorInv, Finish
  PROVE  CollectorInv' /\ SlotMeanings
<1> DEFINE e(c) == [copies[c] EXCEPT !.color = "white", !.forward = Null]
<1>0. /\ phase = "finish" /\ phase' = "done"
      /\ UNCHANGED <<fields, interop, statics, slots, threadWrapper, forward, i, f, tryAgain>>
  BY DEF Finish, heapVars
<1>1. /\ Len(copies) \in Nat
      /\ \A c \in 1..Len(copies) : copies[c] \in CopyType(Len(copies))
  BY HeapTypes
<1>2. \A c \in 1..Len(copies) :
        /\ e(c) \in CopyType(Len(copies)) /\ e(c).color = "white"
        /\ e(c).origin = copies[c].origin /\ e(c).fields = copies[c].fields
  BY <1>1 DEF CopyType, PointersTo
<1>3. copies' = [c \in 1..Len(copies) |-> e(c)]
  BY DEF Finish
<1> HIDE DEF e
<1>4. copies' \in Seq(CopyType(Len(copies))) /\ Len(copies') = Len(copies)
  BY <1>1, <1>2, <1>3
<1>5. \A c \in 1..Len(copies) :
        /\ copies'[c].origin = copies[c].origin /\ copies'[c].color = "white"
        /\ copies'[c].fields = copies[c].fields
  BY <1>2, <1>3
<1>6. /\ TypeOfCopies' /\ OneCopyEach' /\ CopiesAreFaithful' /\ Kept /\ WrapperIsForward'
      /\ SlotMeanings /\ Survivors' = Survivors /\ Reachable' = Reachable
      /\ Pointers' = Pointers
  BY <1>0, <1>4, <1>5, RecolorStep
<1>7. HeapInv'
  BY <1>0, <1>4 DEF HeapInv, CollectorInv
<1>8. BlackIsForwarded'
  BY <1>0, <1>4, <1>5 DEF BlackIsForwarded, CollectorInv, LoopInv, IsManaged
<1>9. TypeOK'
  BY <1>0, <1>6, <1>7, <1>8, TypeFollows DEF CollectorInv, TypeOK, HeapPart
<1>10. LoopInv' /\ WrapperInv'
  BY <1>0, <1>6 DEF LoopInv, WrapperInv, CollectorInv
<1>11. ReachInv'
  BY <1>0, <1>4, <1>5, <1>6 DEF ReachInv, CollectorInv, IsManaged
<1> QED BY <1>6, <1>7, <1>8, <1>9, <1>10, <1>11 DEF CollectorInv

-----------------------------------------------------------------------------
LEMMA StepInv == CollectorInv /\ [Next]_vars => CollectorInv' /\ SlotMeanings
<1> SUFFICES ASSUME CollectorInv, [Next]_vars
             PROVE  CollectorInv' /\ SlotMeanings
  OBVIOUS
<1>1. CASE WalkStatic \/ TransferStatic \/ StaticsTraced
  BY <1>1, StaticsStep
<1>2. CASE TraceSlot
  BY <1>2, TraceSlotStep
<1>3. CASE SlotsTraced
  BY <1>3, SlotsTracedStep
<1>4. CASE TraceInterop
  BY <1>4, TraceInteropStep
<1>5. CASE InteropTraced
  BY <1>5, InteropTracedStep
<1>6. CASE InspectGrey \/ InspectBlack \/ Inspected
  BY <1>6, InspectStep
<1>7. CASE TraceField
  BY <1>7, TraceFieldStep
<1>8. CASE FieldsTraced
  BY <1>8, FieldsTracedStep
<1>9. CASE Finish
  BY <1>9, FinishStep
<1>10. CASE UNCHANGED vars
  <2>1. /\ fields' = fields /\ interop' = interop /\ threadWrapper' = threadWrapper
        /\ forward' = forward /\ copies' = copies /\ slots' = slots /\ statics' = statics
        /\ phase' = phase /\ i' = i /\ f' = f /\ tryAgain' = tryAgain
    BY <1>10 DEF vars
  <2>2. Pointers' = Pointers /\ SlotMeanings
    BY <2>1 DEF Pointers, SlotMeanings, Meaning, IsCopy
  <2>3. Survivors' = Survivors /\ Reachable' = Reachable
    BY <2>1, <2>2, ReachableKept DEF Survivors
  <2>4. TypeOK' /\ HeapInv'
    BY <2>1, <2>2 DEF CollectorInv, TypeOK, HeapInv
  <2>5. LoopInv' /\ WrapperInv' /\ ReachInv'
    BY <2>1, <2>3 DEF CollectorInv, LoopInv, WrapperInv, WrapperIsForward, ReachInv, IsManaged
  <2>6. OneCopyEach' /\ BlackIsForwarded' /\ CopiesAreFaithful'
    BY <2>1 DEF CollectorInv, OneCopyEach, BlackIsForwarded, CopiesAreFaithful, Meaning,
                IsCopy, IsManaged
  <2> QED BY <2>2, <2>4, <2>5, <2>6 DEF CollectorInv
<1> QED BY <1>1, <1>2, <1>3, <1>4, <1>5, <1>6, <1>7, <1>8, <1>9, <1>10 DEF Next

LEMMA Invariance == Spec => []CollectorInv
BY InitInv, StepInv, PTL DEF Spec

(* Every pointer of a collection points to an object of the old heap or to *)
(* one that has been copied, at every step of HpGc.                        *)
THEOREM TypeCorrect == Spec => []TypeOK
<1>1. CollectorInv => TypeOK
  BY DEF CollectorInv
<1> QED BY <1>1, Invariance, PTL

(* HppTransferObject never copies an object twice: however the roots and   *)
(* the fields share objects, each has one copy, its forward.               *)
THEOREM OneCopyAlways == Spec => []OneCopyEach
<1>1. CollectorInv => OneCopyEach
  BY DEF CollectorInv
<1> QED BY <1>1, Invariance, PTL

(* A copy that HppTraceObject has painted black keeps no reference into    *)
(* the heap that HpGc zeroes at its end, in a field of its own type.       *)
THEOREM BlackAlwaysForwarded == Spec => []BlackIsForwarded
<1>1. CollectorInv => BlackIsForwarded
  BY DEF CollectorInv
<1> QED BY <1>1, Invariance, PTL

(* A copy's fields stand for the objects that the fields of its original   *)
(* stand for, at every step, half-traced copies included.                  *)
THEOREM CopiesAlwaysFaithful == Spec => []CopiesAreFaithful
<1>1. CollectorInv => CopiesAreFaithful
  BY DEF CollectorInv
<1> QED BY <1>1, Invariance, PTL

(* The wrapper of every managed thread is the copy of the thread's object  *)
(* when HpGc returns.                                                      *)
THEOREM WrappersAlwaysFollow == Spec => []WrappersFollow
<1>1. CollectorInv => WrappersFollow
  BY DEF CollectorInv, WrapperInv, WrapperIsForward, WrappersFollow
<1> QED BY <1>1, Invariance, PTL

(* HppScanFrame never makes a slot refer to another object.                *)
THEOREM SlotsAlwaysKeepMeaning == Spec => SlotsKeepMeaning
<1>1. CollectorInv /\ [Next]_vars => [SlotMeanings]_vars
  BY StepInv
<1>2. SlotMeanings <=> \A r \in Slots : Meaning(slots[r])' = Meaning(slots[r])
  BY DEF SlotMeanings
<1> QED BY <1>1, <1>2, Invariance, PTL DEF Spec, SlotsKeepMeaning

(* When HpGc returns, the survivors are closed under the references that   *)
(* it follows: with the roots among them, they are all that can be         *)
(* reached, and they were copied only because they could be.               *)
THEOREM SurvivorsAlwaysReachable == Spec => []SurvivorsAreReachable
<1>1. CollectorInv => SurvivorsAreReachable
  <2> SUFFICES ASSUME CollectorInv, phase = "done"
               PROVE  /\ Survivors = Reachable
                      /\ \A r \in Slots : SlotKinds[r] = "object" => ~IsManaged(slots[r])
    BY DEF SurvivorsAreReachable
  <2>1. /\ Survivors \subseteq Reachable
        /\ \A r \in Slots : SlotKinds[r] = "object" => ~IsManaged(slots[r])
        /\ \A c \in 1..Len(copies) : copies[c].color # "grey"
        /\ \A o \in interop : forward[o] # Null
    BY DEF CollectorInv, ReachInv, WrapperInv
  <2>2. Survivors \subseteq HeapObjects
    BY HeapTypes DEF Survivors
  <2>3. \A u \in Pointers, o \in HeapObjects :
          Meaning(u) = Managed(o) /\ ~IsManaged(u) => o \in Survivors
    <3> SUFFICES ASSUME NEW u \in Pointers, NEW o \in HeapObjects,
                        Meaning(u) = Managed(o), ~IsManaged(u)
                 PROVE  o \in Survivors
      OBVIOUS
    <3>1. IsCopy(u)
      BY PointerFacts DEF Meaning
    <3>2. PICK c \in 1..Len(copies) : u = Copy(c)
      BY <3>1, PointerFacts DEF Pointers
    <3>3. copies[c].origin = o
      BY <3>1, <3>2, PointerFacts DEF Meaning
    <3> QED BY <3>3 DEF Survivors
  <2>4. Roots \subseteq Survivors
    <3>1. \A o \in interop : o \in Survivors
      <4> SUFFICES ASSUME NEW o \in interop PROVE o \in Survivors
        OBVIOUS
      <4>1. o \in HeapObjects
        BY DEF CollectorInv, TypeOK
      <4>2. PICK c \in 1..Len(copies) : forward[o] = Copy(c)
        BY <2>1, <4>1 DEF CollectorInv, HeapInv, Forwards
      <4> QED BY <4>1, <4>2 DEF CollectorInv, OneCopyEach, Survivors
    <3> QED BY <2>1, <2>3, <3>1, HeapTypes DEF Roots
  <2>5. Closed(Survivors)
    <3> SUFFICES ASSUME NEW c \in 1..Len(copies), NEW k \in Fields, NEW o \in HeapObjects,
                        FieldKinds[k] = "object",
                        fields[copies[c].origin][k] = Managed(o)
                 PROVE  o \in Survivors
      BY DEF Closed, Survivors
    <3>1. Meaning(copies[c].fields[k]) = Managed(o)
      BY DEF CollectorInv, CopiesAreFaithful
    <3>2. ~IsManaged(copies[c].fields[k])
      BY <2>1 DEF CollectorInv, BlackIsForwarded
    <3> QED BY <2>3, <3>1, <3>2, HeapTypes
  <2>6. Reachable \subseteq Survivors
    BY <2>2, <2>4, <2>5 DEF Reachable
  <2> QED BY <2>1, <2>6
<1> QED BY <1>1, Invariance, PTL
=============================================================================
