------------------------- MODULE StopTheWorldProofs -------------------------
(***************************************************************************)
(* That the world stands still while objects move, and that nobody is in   *)
(* the lock of a heap when the heaps are swapped: WorldStopped, LocksQuiet-*)
(* AtSwap and HeapExitByOwner of StopTheWorld.tla, for any number of       *)
(* threads and any size of the heaps, if the timer stays out of the        *)
(* windows in which a thread is registered, leaves PalSafepoint, or lets   *)
(* the others go.                                                          *)
(***************************************************************************)
EXTENDS StopTheWorld, FiniteSetTheorems, TLAPS

Windows == {"addCount", "addPointer", "spLeave",
            "gcFlagOff", "gcUnlockNext", "gcUnlockManaged"}

TypeInv ==
  /\ pc \in [Threads -> Labels]
  /\ after \in [Threads -> {"run", "lock"}]
  /\ threadList \in [Threads -> Threads \union {NoThread}]
  /\ threadCount \in Nat
  /\ target \in [Threads -> Threads \union {NoThread}]
  /\ index \in [Threads -> Nat]
  /\ inSafePoint \in [Threads -> BOOLEAN]
  /\ managed \in Heap
  /\ next \in Heap
  /\ saved \in Heap
  /\ scan \in Nat \ {0}

(* One thread at a time is in a window, and nobody else executes.          *)
WindowInv == \A t, u \in Threads : pc[t] \in Windows /\ pc[u] \in Windows => t = u

(* The vector holds every thread that exists, once each.  While its count  *)
(* is ahead of the pointer, the last place does not count.                 *)
Absent == {"none", "made"}
Adding == \E t \in Threads : pc[t] = "addPointer"
Filled == IF Adding THEN threadCount - 1 ELSE threadCount

ListInv ==
  /\ Filled \in 0..N
  /\ \A i \in 1..Filled : threadList[i] \in Threads /\ pc[threadList[i]] \notin Absent
  /\ \A i, j \in 1..Filled : threadList[i] = threadList[j] => i = j
  /\ \A t \in Threads : pc[t] \notin Absent => \E i \in 1..Filled : threadList[i] = t

(* A thread that is being made has a creator, which has no other.          *)
AddInv ==
  /\ \A t \in Threads : pc[t] \in AddLabels =>
       target[t] \in Threads /\ pc[target[t]] = "made"
  /\ \A t, u \in Threads :
       pc[t] \in AddLabels /\ pc[u] \in AddLabels /\ target[t] = target[u] => t = u
  /\ \A u \in Threads : pc[u] = "made" =>
       \E t \in Threads : pc[t] \in AddLabels /\ target[t] = u
  /\ \A t \in Threads : pc[t] = "addCount" => index[t] = threadCount
  /\ \A t \in Threads : pc[t] = "addPointer" => index[t] + 1 = threadCount

(* inSafePoint is what it says, up to the window in which it is cleared.   *)
FlagInv ==
  \A t \in Threads : inSafePoint[t] => pc[t] \in {"spEnter", "spHeld", "spLeave"}

(* A collector has the monitor, and those whom HppWaitSafepoint has seen   *)
(* wait for it.                                                            *)
Busy == {"gcScan", "gcExit"} \union Moving
OwnerInv == \A t \in Threads : pc[t] \in Busy => bumpOwner = t

Parked(u) == inSafePoint[u] /\ pc[u] \in {"spEnter", "spHeld"}
ScanInv ==
  /\ (\A t \in Threads : pc[t] # "gcScan") => scan = 1
  /\ scan - 1 <= Filled
  /\ \A t \in Threads : pc[t] = "gcScan" =>
       \A i \in 1..(scan - 1) : threadList[i] = t \/ Parked(threadList[i])

(* Who has the lock of the heap, or waits for it, is in the allocation.    *)
Allocating == {"held", "space", "unlock"}
Quiet(heap) == heap.owner = NoThread /\ heap.line = <<>>
LockInv ==
  /\ \A t \in Threads : pc[t] \in {"space", "unlock"} => managed.owner = t
  /\ managed.owner # NoThread => pc[managed.owner] \in Allocating
  /\ \A i \in DOMAIN managed.line :
       /\ pc[managed.line[i]] = "held"
       /\ managed.line[i] # managed.owner
  /\ \A i, j \in DOMAIN managed.line : managed.line[i] = managed.line[j] => i = j
  /\ Quiet(next)
  /\ Quiet(saved)

NoneHalts == \A t \in Threads : pc[t] \notin {"bugcheck", "corrupt"}

ControlInv == /\ WindowInv /\ ListInv /\ AddInv /\ FlagInv
              /\ OwnerInv /\ ScanInv /\ WorldStopped /\ NoneHalts

IInv == TypeInv /\ ControlInv /\ LockInv

-----------------------------------------------------------------------------
(* Labels that the lemmas below tell apart.                                *)
Settled == Labels \ (Absent \union AddLabels)

LEMMA LabelFacts ==
  /\ Windows \subseteq Labels
  /\ Busy \subseteq Settled
  /\ Allocating \subseteq Settled
  BY DEF Windows, Busy, Moving, Settled, Labels, Absent, AddLabels, Allocating,
         SafepointLabels, CollectLabels, ReleaseLabels, AllocLabels

LEMMA InitEstablishes == Init => IInv
<1> SUFFICES ASSUME Init PROVE IInv
  OBVIOUS
<1> USE HeapAssumption DEF Init, Threads
<1>1. TypeInv
  <2>1. /\ pc \in [Threads -> Labels]
        /\ threadList \in [Threads -> Threads \union {NoThread}]
    BY DEF Labels
  <2>2. EmptyHeap \in Heap
    BY DEF EmptyHeap, Heap
  <2>3. managed \in Heap /\ next \in Heap /\ saved \in Heap
    BY <2>2
  <2>4. threadCount \in Nat /\ scan \in Nat \ {0}
    OBVIOUS
  <2>5. /\ after \in [Threads -> {"run", "lock"}]
        /\ target \in [Threads -> Threads \union {NoThread}]
        /\ index \in [Threads -> Nat]
        /\ inSafePoint \in [Threads -> BOOLEAN]
    OBVIOUS
  <2> HIDE DEF Init
  <2> QED BY <2>1, <2>3, <2>4, <2>5 DEF TypeInv
<1>2. WindowInv
  BY DEF WindowInv, Windows
<1>3. /\ ~Adding
      /\ Filled = Started
  BY DEF Adding, Filled
<1>4. ListInv
  <2>1. \A i \in 1..Started : i \in Threads /\ threadList[i] = i /\ pc[i] = "run"
    OBVIOUS
  <2>2. \A t \in Threads : pc[t] \notin Absent => t \in 1..Started
    BY DEF Absent
  <2>3. Started \in 0..N
    OBVIOUS
  <2> HIDE DEF Init
  <2> QED BY <1>3, <2>1, <2>2, <2>3 DEF ListInv, Absent
<1>5. AddInv
  BY DEF AddInv, AddLabels
<1>6. FlagInv /\ OwnerInv /\ WorldStopped /\ NoneHalts
  BY DEF FlagInv, OwnerInv, WorldStopped, NoneHalts, Busy, Moving
<1>7. ScanInv
  BY <1>3 DEF ScanInv
<1>8. LockInv
  BY DEF LockInv, EmptyHeap, Quiet, Allocating
<1> QED BY <1>1, <1>2, <1>4, <1>5, <1>6, <1>7, <1>8 DEF IInv, ControlInv

-----------------------------------------------------------------------------
(* One thread moves from a label to another, neither of them in the making *)
(* of a thread.                                                            *)
Moves(t, l) == /\ pc[t] \in Settled
               /\ l \in Settled
               /\ pc' = [pc EXCEPT ![t] = l]

LEMMA MovesPoints ==
  ASSUME TypeInv, NEW t \in Threads, NEW l, Moves(t, l)
  PROVE  /\ pc' \in [Threads -> Labels]
         /\ \A u \in Threads : pc'[u] = IF u = t THEN l ELSE pc[u]
  BY DEF TypeInv, Moves, Settled

LEMMA WindowKept ==
  ASSUME TypeInv, Windows \subseteq Protected,
         NEW t \in Threads, At(t, pc[t]), NEW l, Moves(t, l)
  PROVE  WindowInv'
  BY MovesPoints DEF WindowInv, At

LEMMA ListKept ==
  ASSUME TypeInv, ListInv, AddInv,
         NEW t \in Threads, NEW l, Moves(t, l), UNCHANGED listVars
  PROVE  ListInv' /\ AddInv' /\ Filled' = Filled
<1> USE DEF listVars
<1>1. \A u \in Threads : pc'[u] = IF u = t THEN l ELSE pc[u]
  BY MovesPoints
<1>2. /\ pc[t] \notin Absent \union AddLabels
      /\ l \notin Absent \union AddLabels
  BY DEF Moves, Settled
<1>3. \A u \in Threads : pc'[u] \in Absent \union AddLabels => pc'[u] = pc[u]
  BY <1>1, <1>2
<1>4. \A u \in Threads : pc[u] \in Absent \union AddLabels => pc'[u] = pc[u]
  BY <1>1, <1>2
<1>5. Adding' <=> Adding
  BY <1>3, <1>4 DEF Adding, AddLabels
<1>6. Filled' = Filled
  BY <1>5 DEF Filled
<1>7. ListInv'
  BY <1>3, <1>4, <1>6 DEF ListInv, Absent
<1>8. AddInv'
  BY <1>3, <1>4 DEF AddInv, AddLabels, Absent
<1> QED BY <1>6, <1>7, <1>8

(* A thread that neither begins nor ends a collection, nor goes on with    *)
(* one, and leaves PalSafepoint's monitor only as its owner.               *)
LEMMA WorldKept ==
  ASSUME IInv, NEW t \in Threads, NEW l, Moves(t, l),
         UNCHANGED <<listVars, scan>>,
         pc[t] \notin Busy, l \notin Busy,
         \A u \in Threads : pc[u] \in Busy => bumpOwner' = u,
         inSafePoint' \in [Threads -> BOOLEAN],
         \A u \in Threads \ {t} : inSafePoint'[u] = inSafePoint[u],
         inSafePoint'[t] => l \in {"spEnter", "spHeld", "spLeave"},
         pc[t] \in {"spEnter", "spHeld"} =>
           \/ l = "spHeld" /\ inSafePoint'[t] = inSafePoint[t]
           \/ \A u \in Threads : pc[u] \notin Busy
  PROVE  FlagInv' /\ OwnerInv' /\ ScanInv' /\ WorldStopped'
<1> USE DEF IInv, ControlInv
<1>1. \A u \in Threads : pc'[u] = IF u = t THEN l ELSE pc[u]
  BY MovesPoints
<1>2. Filled' = Filled
  BY ListKept
<1>3. FlagInv'
  BY <1>1 DEF FlagInv
<1>4. OwnerInv'
  BY <1>1 DEF OwnerInv
<1>5. \A u \in Threads : pc'[u] \in Busy <=> pc[u] \in Busy
  BY <1>1
<1>6. \A u \in Threads : pc'[u] = "gcScan" <=> pc[u] = "gcScan"
  BY <1>1 DEF Busy
<1>7. ASSUME NEW u \in Threads, pc[u] = "gcScan", NEW w \in Threads, Parked(w)
      PROVE  Parked(w)'
  BY <1>1, <1>7 DEF Parked, Busy
<1>8. ScanInv'
  <2>1. ASSUME NEW u \in Threads, pc'[u] = "gcScan", NEW i \in 1..(scan' - 1)
        PROVE  threadList'[i] = u \/ Parked(threadList[i])'
    <3>1. pc[u] = "gcScan" /\ i \in 1..(scan - 1)
      BY <1>6, <2>1
    <3>2. threadList[i] = u \/ Parked(threadList[i])
      BY <3>1 DEF ScanInv
    <3>3. i \in 1..Filled
      BY <3>1, HeapAssumption DEF ScanInv, ListInv, TypeInv
    <3>4. threadList[i] \in Threads
      BY <3>3 DEF ListInv
    <3> QED BY <1>7, <3>1, <3>2, <3>4 DEF listVars
  <2>2. threadList' = threadList /\ scan' = scan
    BY DEF listVars
  <2> QED BY <1>2, <1>6, <2>1, <2>2 DEF ScanInv, Parked
<1>9. WorldStopped'
  <2>1. ASSUME NEW u \in Threads, NEW w \in Threads, pc'[u] \in Moving, w # u
        PROVE  pc'[w] \in {"none", "spEnter", "spHeld"}
    <3>1. pc[u] \in Moving /\ pc[u] \in Busy /\ pc[w] \in {"none", "spEnter", "spHeld"}
      BY <1>1, <2>1 DEF WorldStopped, Busy
    <3> QED BY <1>1, <3>1 DEF Moves, Settled, Absent
  <2> QED BY <2>1 DEF WorldStopped
<1> QED BY <1>3, <1>4, <1>8, <1>9

(* A thread that has nothing to do with the lock of the heap.              *)
LEMMA LockKept ==
  ASSUME TypeInv, LockInv, NEW t \in Threads, NEW l, Moves(t, l),
         pc[t] \notin Allocating, l \notin Allocating,
         managed'.owner = managed.owner, managed'.line = managed.line,
         Quiet(next)', Quiet(saved)'
  PROVE  LockInv'
<1>1. \A u \in Threads : pc'[u] = IF u = t THEN l ELSE pc[u]
  BY MovesPoints
<1>2. /\ managed.owner \in Threads \union {NoThread}
      /\ managed.line \in Seq(Threads)
  BY DEF TypeInv, Heap
<1>3. \A i \in DOMAIN managed.line : managed.line[i] \in Threads
  BY <1>2
<1> QED BY <1>1, <1>2, <1>3 DEF LockInv, Allocating, Quiet

-----------------------------------------------------------------------------
(* Steps outside the making of threads and outside a collection.           *)
LEMMA ControlKept ==
  ASSUME IInv, Windows \subseteq Protected,
         NEW t \in Threads, At(t, pc[t]), NEW l, Moves(t, l),
         l \notin Busy \union {"bugcheck", "corrupt"},
         pc[t] \notin Busy \union {"spEnter", "spHeld", "spLeave"},
         UNCHANGED <<listVars, inSafePoint, bumpOwner, scan>>
  PROVE  ControlInv'
<1>1. ~inSafePoint[t]
  BY DEF IInv, ControlInv, FlagInv
<1>2. inSafePoint' \in [Threads -> BOOLEAN]
  BY DEF IInv, TypeInv
<1>3. FlagInv' /\ OwnerInv' /\ ScanInv' /\ WorldStopped'
  BY <1>1, <1>2, WorldKept DEF IInv, ControlInv, OwnerInv
<1>4. WindowInv' /\ ListInv' /\ AddInv'
  BY WindowKept, ListKept DEF IInv, ControlInv
<1>5. NoneHalts'
  BY MovesPoints DEF IInv, ControlInv, NoneHalts
<1> QED BY <1>3, <1>4, <1>5 DEF ControlInv

LEMMA PollKept ==
  ASSUME IInv, Windows \subseteq Protected, NEW t \in Threads,
         Poll(t) \/ Allocate(t) \/ Safepoint(t) \/ AllocTest(t)
  PROVE  IInv'
<1>1. PICK l \in {"sp", "alloc", "spFlag", "run", "lock", "try"} :
        /\ pc' = [pc EXCEPT ![t] = l]
        /\ pc[t] \in {"run", "sp", "alloc"}
        /\ At(t, pc[t])
  BY DEF Poll, Allocate, Safepoint, AllocTest, At, Go, IInv, TypeInv
<1>2. /\ UNCHANGED <<listVars, inSafePoint, bumpOwner, scan>>
      /\ UNCHANGED heapVars
      /\ after' = after \/ after' = [after EXCEPT ![t] = "run"]
  BY DEF Poll, Allocate, Safepoint, AllocTest, bumpVars
<1>3. Moves(t, l)
  BY <1>1 DEF Moves, Settled, Labels, Absent, AddLabels, SafepointLabels, AllocLabels
<1>4. ControlInv'
  BY <1>1, <1>2, <1>3, ControlKept DEF Busy, Moving
<1>5. TypeInv'
  BY <1>2, <1>3, MovesPoints DEF IInv, TypeInv, listVars, heapVars
<1>6. LockInv'
  BY <1>1, <1>2, <1>3, LockKept DEF IInv, LockInv, Allocating, heapVars, Quiet
<1> QED BY <1>4, <1>5, <1>6 DEF IInv

(* The monitor is taken when it is free, and left by its owner.            *)
LEMMA BumpFacts ==
  ASSUME NEW t \in Threads
  PROVE  /\ BumpEnter(t) => bumpOwner' = bumpOwner \/ bumpOwner = NoThread
         /\ BumpExit(t) => bumpOwner = t
  BY DEF BumpEnter, BumpExit, Bump!Take, Bump!Wait, Bump!Free, Bump!HandOver

LEMMA SafepointFlagKept ==
  ASSUME IInv, Windows \subseteq Protected, NEW t \in Threads, SafepointFlag(t)
  PROVE  IInv'
<1>1. /\ At(t, pc[t]) /\ pc[t] = "spFlag"
      /\ pc' = [pc EXCEPT ![t] = "spEnter"]
      /\ inSafePoint' = [inSafePoint EXCEPT ![t] = Registered(t)]
      /\ UNCHANGED <<after, listVars, bumpOwner, heapVars, scan>>
  BY DEF SafepointFlag, At, Go, bumpVars
<1>2. Moves(t, "spEnter")
  BY <1>1 DEF Moves, Settled, Labels, Absent, AddLabels, SafepointLabels
<1>3. inSafePoint' \in [Threads -> BOOLEAN]
  BY <1>1 DEF IInv, TypeInv, Registered
<1>4. \A u \in Threads \ {t} : inSafePoint'[u] = inSafePoint[u]
  BY <1>1 DEF IInv, TypeInv
<1>5. FlagInv' /\ OwnerInv' /\ ScanInv' /\ WorldStopped'
  BY <1>1, <1>2, <1>3, <1>4, WorldKept DEF IInv, ControlInv, OwnerInv, Busy, Moving
<1>6. WindowInv' /\ ListInv' /\ AddInv' /\ NoneHalts'
  BY <1>1, <1>2, WindowKept, ListKept, MovesPoints DEF IInv, ControlInv, NoneHalts
<1>7. TypeInv'
  BY <1>1, <1>2, <1>3, MovesPoints DEF IInv, TypeInv, listVars, heapVars
<1>8. LockInv'
  BY <1>1, <1>2, LockKept DEF IInv, LockInv, Allocating, heapVars, Quiet
<1> QED BY <1>5, <1>6, <1>7, <1>8 DEF IInv, ControlInv

LEMMA SafepointEnterKept ==
  ASSUME IInv, Windows \subseteq Protected, NEW t \in Threads, SafepointEnter(t)
  PROVE  IInv'
<1>1. /\ At(t, pc[t]) /\ pc[t] = "spEnter"
      /\ pc' = [pc EXCEPT ![t] = "spHeld"]
      /\ bumpOwner' = bumpOwner \/ bumpOwner = NoThread
      /\ UNCHANGED <<after, listVars, inSafePoint, heapVars, scan>>
  BY BumpFacts DEF SafepointEnter, At, Go
<1>2. Moves(t, "spHeld")
  BY <1>1 DEF Moves, Settled, Labels, Absent, AddLabels, SafepointLabels
<1>3. \A u \in Threads : pc[u] \in Busy => bumpOwner' = u
  BY <1>1, HeapAssumption DEF IInv, ControlInv, OwnerInv, Threads
<1>4. FlagInv' /\ OwnerInv' /\ ScanInv' /\ WorldStopped'
  BY <1>1, <1>2, <1>3, WorldKept DEF IInv, TypeInv, Busy, Moving
<1>5. WindowInv' /\ ListInv' /\ AddInv' /\ NoneHalts'
  BY <1>1, <1>2, WindowKept, ListKept, MovesPoints DEF IInv, ControlInv, NoneHalts
<1>6. TypeInv'
  BY <1>1, <1>2, MovesPoints DEF IInv, TypeInv, listVars, heapVars
<1>7. LockInv'
  BY <1>1, <1>2, LockKept DEF IInv, LockInv, Allocating, heapVars, Quiet
<1> QED BY <1>4, <1>5, <1>6, <1>7 DEF IInv, ControlInv

LEMMA SafepointHeldKept ==
  ASSUME IInv, Windows \subseteq Protected, NEW t \in Threads, SafepointHeld(t)
  PROVE  IInv'
<1>1. /\ At(t, pc[t]) /\ pc[t] = "spHeld"
      /\ pc' = [pc EXCEPT ![t] = "spLeave"]
      /\ bumpOwner = t
      /\ UNCHANGED <<after, listVars, inSafePoint, heapVars, scan>>
  BY BumpFacts DEF SafepointHeld, At, Go
<1>2. Moves(t, "spLeave")
  BY <1>1 DEF Moves, Settled, Labels, Absent, AddLabels, SafepointLabels
<1>3. \A u \in Threads : pc[u] \notin Busy
  BY <1>1 DEF IInv, ControlInv, OwnerInv, Busy, Moving
<1>4. FlagInv' /\ OwnerInv' /\ ScanInv' /\ WorldStopped'
  BY <1>1, <1>2, <1>3, WorldKept DEF IInv, TypeInv, Busy, Moving
<1>5. WindowInv' /\ ListInv' /\ AddInv' /\ NoneHalts'
  BY <1>1, <1>2, WindowKept, ListKept, MovesPoints DEF IInv, ControlInv, NoneHalts
<1>6. TypeInv'
  BY <1>1, <1>2, MovesPoints DEF IInv, TypeInv, listVars, heapVars
<1>7. LockInv'
  BY <1>1, <1>2, LockKept DEF IInv, LockInv, Allocating, heapVars, Quiet
<1> QED BY <1>4, <1>5, <1>6, <1>7 DEF IInv, ControlInv

LEMMA SafepointLeaveKept ==
  ASSUME IInv, Windows \subseteq Protected, NEW t \in Threads, SafepointLeave(t)
  PROVE  IInv'
<1>1. /\ At(t, pc[t]) /\ pc[t] = "spLeave"
      /\ pc' = [pc EXCEPT ![t] = after[t]]
      /\ inSafePoint' = [inSafePoint EXCEPT ![t] = FALSE]
      /\ UNCHANGED <<after, listVars, bumpOwner, heapVars, scan>>
  BY DEF SafepointLeave, At, Go, bumpVars
<1>2. after[t] \in {"run", "lock"}
  BY DEF IInv, TypeInv
<1>3. Moves(t, after[t])
  BY <1>1, <1>2
     DEF Moves, Settled, Labels, Absent, AddLabels, SafepointLabels, AllocLabels
<1>4. /\ inSafePoint' \in [Threads -> BOOLEAN]
      /\ \A u \in Threads \ {t} : inSafePoint'[u] = inSafePoint[u]
      /\ ~inSafePoint'[t]
  BY <1>1 DEF IInv, TypeInv
<1>5. FlagInv' /\ OwnerInv' /\ ScanInv' /\ WorldStopped'
  BY <1>1, <1>2, <1>3, <1>4, WorldKept DEF IInv, ControlInv, OwnerInv, Busy, Moving
<1>6. WindowInv' /\ ListInv' /\ AddInv' /\ NoneHalts'
  BY <1>1, <1>2, <1>3, WindowKept, ListKept, MovesPoints DEF IInv, ControlInv, NoneHalts
<1>7. TypeInv'
  BY <1>1, <1>3, <1>4, MovesPoints DEF IInv, TypeInv, listVars, heapVars
<1>8. LockInv'
  BY <1>1, <1>2, <1>3, LockKept DEF IInv, LockInv, Allocating, heapVars, Quiet
<1> QED BY <1>5, <1>6, <1>7, <1>8 DEF IInv, ControlInv

LEMMA GcEnterKept ==
  ASSUME IInv, Windows \subseteq Protected, NEW t \in Threads, GcEnter(t)
  PROVE  IInv'
<1>1. /\ At(t, pc[t]) /\ pc[t] = "gcEnter"
      /\ pc' = [pc EXCEPT ![t] = "gcHeld"]
      /\ bumpOwner' = bumpOwner \/ bumpOwner = NoThread
      /\ UNCHANGED <<after, listVars, inSafePoint, heapVars, scan>>
  BY BumpFacts DEF GcEnter, At, Go
<1>2. Moves(t, "gcHeld")
  BY <1>1 DEF Moves, Settled, Labels, Absent, AddLabels, CollectLabels
<1>3. \A u \in Threads : pc[u] \in Busy => bumpOwner' = u
  BY <1>1, HeapAssumption DEF IInv, ControlInv, OwnerInv, Threads
<1>4. ~inSafePoint[t]
  BY <1>1 DEF IInv, ControlInv, FlagInv
<1>5. FlagInv' /\ OwnerInv' /\ ScanInv' /\ WorldStopped'
  BY <1>1, <1>2, <1>3, <1>4, WorldKept DEF IInv, TypeInv, Busy, Moving
<1>6. WindowInv' /\ ListInv' /\ AddInv' /\ NoneHalts'
  BY <1>1, <1>2, WindowKept, ListKept, MovesPoints DEF IInv, ControlInv, NoneHalts
<1>7. TypeInv'
  BY <1>1, <1>2, MovesPoints DEF IInv, TypeInv, listVars, heapVars
<1>8. LockInv'
  BY <1>1, <1>2, LockKept DEF IInv, LockInv, Allocating, heapVars, Quiet
<1> QED BY <1>5, <1>6, <1>7, <1>8 DEF IInv, ControlInv

(* The flags of the collection, on the heaps and for the others.           *)
LEMMA FlagsKept ==
  ASSUME IInv, Windows \subseteq Protected, NEW t \in Threads,
         \/ GcFlagOff(t) \/ GcUnlockNext(t) \/ GcUnlockManaged(t)
         \/ TryWin(t) \/ TryLose(t)
  PROVE  IInv'
<1>1. PICK l \in {"gcUnlockNext", "gcUnlockManaged", "lock", "gcEnter", "sp"} :
        /\ pc' = [pc EXCEPT ![t] = l]
        /\ pc[t] \in ReleaseLabels \union {"try"}
        /\ At(t, pc[t])
  BY DEF GcFlagOff, GcUnlockNext, GcUnlockManaged, TryWin, TryLose, At, Go, ReleaseLabels
<1>2. /\ UNCHANGED <<listVars, inSafePoint, bumpOwner, scan, saved>>
      /\ \/ UNCHANGED <<managed, next>>
         \/ managed' = [managed EXCEPT !.isGcInProgress = FALSE] /\ next' = next
         \/ managed' = [managed EXCEPT !.isGcInProgress = TRUE] /\ next' = next
         \/ next' = [next EXCEPT !.isGcInProgress = FALSE] /\ managed' = managed
      /\ after' = after \/ after' = [after EXCEPT ![t] = "lock"]
  BY DEF GcFlagOff, GcUnlockNext, GcUnlockManaged, TryWin, TryLose, bumpVars, heapVars
<1>3. Moves(t, l)
  BY <1>1 DEF Moves, Settled, Labels, Absent, AddLabels, SafepointLabels, AllocLabels,
              CollectLabels, ReleaseLabels
<1>4. ControlInv'
  BY <1>1, <1>2, <1>3, ControlKept DEF Busy, Moving, ReleaseLabels
<1>5. /\ managed' \in Heap /\ next' \in Heap
      /\ managed'.owner = managed.owner /\ managed'.line = managed.line
      /\ next'.owner = next.owner /\ next'.line = next.line
  <2>1. managed \in Heap /\ next \in Heap
    BY DEF IInv, TypeInv
  <2>2. \A heap \in Heap, flag \in BOOLEAN :
          LET h == [heap EXCEPT !.isGcInProgress = flag]
          IN  h \in Heap /\ h.owner = heap.owner /\ h.line = heap.line
    BY DEF Heap
  <2> QED BY <1>2, <2>1, <2>2
<1>6. TypeInv'
  BY <1>2, <1>3, <1>5, MovesPoints DEF IInv, TypeInv, listVars
<1>7. LockInv'
  BY <1>1, <1>2, <1>3, <1>5, LockKept DEF IInv, LockInv, Allocating, Quiet, ReleaseLabels
<1> QED BY <1>4, <1>6, <1>7 DEF IInv

-----------------------------------------------------------------------------
(* The lock of the heap.                                                   *)
LEMMA LockPoints ==
  ASSUME IInv
  PROVE  /\ managed.owner \in Threads \union {NoThread}
         /\ managed.line \in Seq(Threads)
         /\ DOMAIN managed.line = 1..Len(managed.line)
         /\ \A i \in DOMAIN managed.line : managed.line[i] \in Threads
         /\ NoThread \notin Threads
  BY HeapAssumption DEF IInv, TypeInv, Heap, Threads

LEMMA HeapEnterKept ==
  ASSUME IInv, Windows \subseteq Protected, NEW t \in Threads, HeapEnter(t)
  PROVE  IInv'
<1>1. /\ At(t, pc[t]) /\ pc[t] = "lock"
      /\ pc' = [pc EXCEPT ![t] = "held"]
      /\ UNCHANGED <<after, listVars, inSafePoint, bumpOwner, next, saved, scan>>
      /\ managed' = IF managed.owner = NoThread
                    THEN [managed EXCEPT !.owner = t]
                    ELSE [managed EXCEPT !.line = Append(@, t)]
  BY DEF HeapEnter, At, Go, bumpVars
<1>2. Moves(t, "held")
  BY <1>1 DEF Moves, Settled, Labels, Absent, AddLabels, AllocLabels
<1>3. ControlInv'
  BY <1>1, <1>2, ControlKept DEF Busy, Moving
<1>4. managed' \in Heap
  <2>1. managed \in Heap /\ Append(managed.line, t) \in Seq(Threads)
    BY LockPoints DEF IInv, TypeInv
  <2>2. CASE managed.owner = NoThread
    BY <1>1, <2>1, <2>2 DEF Heap
  <2>3. CASE managed.owner # NoThread
    <3>1. managed' = [managed EXCEPT !.line = Append(managed.line, t)]
      BY <1>1, <2>3
    <3> QED BY <2>1, <3>1 DEF Heap
  <2> QED BY <2>2, <2>3
<1>5. TypeInv'
  BY <1>1, <1>2, <1>4, MovesPoints DEF IInv, TypeInv, listVars
<1>6. \A u \in Threads : pc'[u] = IF u = t THEN "held" ELSE pc[u]
  BY <1>2, MovesPoints DEF IInv
<1>7. /\ managed.owner # t
      /\ \A i \in DOMAIN managed.line : managed.line[i] # t
  BY <1>1, HeapAssumption DEF IInv, LockInv, Allocating, Threads
<1>8. LockInv'
  <2>1. CASE managed.owner = NoThread
    <3>1. managed'.owner = t /\ managed'.line = managed.line
      BY <1>1, <2>1 DEF IInv, TypeInv, Heap
    <3> QED BY <1>1, <1>6, <1>7, <2>1, <3>1, LockPoints
            DEF IInv, LockInv, Allocating, Quiet
  <2>2. CASE managed.owner # NoThread
    <3>1. managed'.owner = managed.owner /\ managed'.line = Append(managed.line, t)
      BY <1>1, <2>2 DEF IInv, TypeInv, Heap
    <3>2. /\ DOMAIN managed'.line = 1..(Len(managed.line) + 1)
          /\ \A i \in DOMAIN managed'.line :
               \/ i \in DOMAIN managed.line /\ managed'.line[i] = managed.line[i]
               \/ i = Len(managed.line) + 1 /\ managed'.line[i] = t
      BY <3>1, LockPoints
    <3>3. \A i \in DOMAIN managed'.line :
            pc'[managed'.line[i]] = "held" /\ managed'.line[i] # managed'.owner
      BY <1>6, <1>7, <3>1, <3>2, LockPoints DEF IInv, LockInv
    <3>4. \A i, j \in DOMAIN managed'.line : managed'.line[i] = managed'.line[j] => i = j
      BY <1>7, <3>2 DEF IInv, LockInv
    <3>5. /\ \A u \in Threads : pc'[u] \in {"space", "unlock"} => managed'.owner = u
          /\ managed'.owner # NoThread => pc'[managed'.owner] \in Allocating
      BY <1>6, <1>7, <3>1, LockPoints DEF IInv, LockInv
    <3> QED BY <1>1, <3>3, <3>4, <3>5 DEF IInv, LockInv, Quiet
  <2> QED BY <2>1, <2>2
<1> QED BY <1>3, <1>5, <1>8 DEF IInv

LEMMA HeapHeldKept ==
  ASSUME IInv, Windows \subseteq Protected, NEW t \in Threads,
         HeapHeld(t) \/ HeapSpace(t)
  PROVE  IInv'
<1>1. PICK l \in {"space", "unlock"} :
        /\ pc' = [pc EXCEPT ![t] = l]
        /\ pc[t] \in {"held", "space"}
        /\ At(t, pc[t])
        /\ managed.owner = t
  BY DEF HeapHeld, HeapSpace, At, Go, IInv, LockInv
<1>2. /\ UNCHANGED <<after, listVars, inSafePoint, bumpOwner, next, saved, scan>>
      /\ \/ managed' = managed
         \/ managed' = [managed EXCEPT !.used = IF @ < MaxUsed THEN @ + 1 ELSE @]
  BY DEF HeapHeld, HeapSpace, bumpVars, heapVars
<1>3. Moves(t, l)
  BY <1>1 DEF Moves, Settled, Labels, Absent, AddLabels, AllocLabels
<1>4. ControlInv'
  BY <1>1, <1>2, <1>3, ControlKept DEF Busy, Moving
<1>5. managed' \in Heap /\ managed'.owner = managed.owner /\ managed'.line = managed.line
  <2>1. managed \in Heap
    BY DEF IInv, TypeInv
  <2>2. \A n \in Nat : (IF n < MaxUsed THEN n + 1 ELSE n) \in Nat
    OBVIOUS
  <2>3. managed.used \in Nat
    BY <2>1 DEF Heap
  <2>4. ASSUME NEW n \in Nat, managed' = [managed EXCEPT !.used = n]
        PROVE  managed' \in Heap /\ managed'.owner = managed.owner
               /\ managed'.line = managed.line
    BY <2>1, <2>4 DEF Heap
  <2>5. CASE managed' = managed
    BY <2>1, <2>5
  <2>6. CASE managed' = [managed EXCEPT !.used = IF @ < MaxUsed THEN @ + 1 ELSE @]
    <3>1. managed' = [managed EXCEPT !.used = IF managed.used < MaxUsed
                                              THEN managed.used + 1 ELSE managed.used]
      BY <2>6
    <3> QED BY <2>2, <2>3, <2>4, <3>1
  <2> QED BY <1>2, <2>5, <2>6
<1>6. TypeInv'
  BY <1>2, <1>3, <1>5, MovesPoints DEF IInv, TypeInv, listVars
<1>7. \A u \in Threads : pc'[u] = IF u = t THEN l ELSE pc[u]
  BY <1>3, MovesPoints DEF IInv
<1>8. LockInv'
  BY <1>1, <1>2, <1>5, <1>7, LockPoints DEF IInv, LockInv, Allocating, Quiet
<1> QED BY <1>4, <1>6, <1>8 DEF IInv

LEMMA HeapExitKept ==
  ASSUME IInv, Windows \subseteq Protected, NEW t \in Threads, HeapExit(t)
  PROVE  IInv'
<1>1. /\ At(t, pc[t]) /\ pc[t] = "unlock"
      /\ managed.owner = t
  BY DEF HeapExit, At, IInv, LockInv
<1>2. /\ pc' = [pc EXCEPT ![t] = "run"]
      /\ UNCHANGED <<after, listVars, inSafePoint, bumpOwner, next, saved, scan>>
      /\ managed' = IF managed.line = <<>>
                    THEN [managed EXCEPT !.owner = NoThread]
                    ELSE [managed EXCEPT !.owner = Head(managed.line),
                                         !.line = Tail(@)]
  BY <1>1 DEF HeapExit, Go, bumpVars
<1>3. Moves(t, "run")
  BY <1>1, <1>2 DEF Moves, Settled, Labels, Absent, AddLabels, AllocLabels
<1>4. ControlInv'
  BY <1>1, <1>2, <1>3, ControlKept DEF Busy, Moving
<1>5. \A u \in Threads : pc'[u] = IF u = t THEN "run" ELSE pc[u]
  BY <1>3, MovesPoints DEF IInv
<1>6. managed' \in Heap /\ LockInv'
  <2>1. CASE managed.line = <<>>
    <3>1. /\ managed' \in Heap
          /\ managed'.owner = NoThread /\ managed'.line = <<>>
      BY <1>2, <2>1 DEF IInv, TypeInv, Heap
    <3> QED BY <1>1, <1>2, <1>5, <3>1 DEF IInv, LockInv, Quiet
  <2>2. CASE managed.line # <<>>
    <3>1. /\ Head(managed.line) = managed.line[1] /\ 1 \in DOMAIN managed.line
          /\ Tail(managed.line) \in Seq(Threads)
          /\ DOMAIN Tail(managed.line) = 1..(Len(managed.line) - 1)
          /\ \A i \in DOMAIN Tail(managed.line) :
               /\ i + 1 \in DOMAIN managed.line
               /\ i + 1 # 1
               /\ Tail(managed.line)[i] = managed.line[i + 1]
      BY <2>2, LockPoints
    <3>2. /\ managed' \in Heap
          /\ managed'.owner = managed.line[1] /\ managed'.line = Tail(managed.line)
      BY <1>2, <2>2, <3>1, LockPoints DEF IInv, TypeInv, Heap
    <3>3. \A i \in DOMAIN managed.line : pc'[managed.line[i]] = "held"
      BY <1>1, <1>5, LockPoints DEF IInv, LockInv
    <3>4. \A i \in DOMAIN managed'.line :
            pc'[managed'.line[i]] = "held" /\ managed'.line[i] # managed'.owner
      BY <3>1, <3>2, <3>3 DEF IInv, LockInv
    <3>5. \A i, j \in DOMAIN managed'.line : managed'.line[i] = managed'.line[j] => i = j
      BY <3>1, <3>2 DEF IInv, LockInv
    <3>6. /\ \A u \in Threads : pc'[u] \in {"space", "unlock"} => managed'.owner = u
          /\ managed'.owner # NoThread => pc'[managed'.owner] \in Allocating
      BY <1>1, <1>5, <3>1, <3>2, <3>3 DEF IInv, LockInv, Allocating
    <3> QED BY <1>2, <3>2, <3>4, <3>5, <3>6 DEF IInv, LockInv, Quiet
  <2> QED BY <2>1, <2>2
<1>7. TypeInv'
  BY <1>2, <1>3, <1>6, MovesPoints DEF IInv, TypeInv, listVars
<1> QED BY <1>4, <1>6, <1>7 DEF IInv

-----------------------------------------------------------------------------
(* The collector.  Nobody else collects while it has the monitor.          *)
LEMMA CollectorKept ==
  ASSUME IInv, Windows \subseteq Protected,
         NEW t \in Threads, At(t, pc[t]), NEW l, Moves(t, l),
         pc[t] \in CollectLabels, l \in CollectLabels,
         \A u \in Threads \ {t} : pc[u] \notin Busy,
         l \in Busy => bumpOwner' = t,
         l \in Moving =>
           \A u \in Threads \ {t} : pc[u] \in {"none", "spEnter", "spHeld"},
         UNCHANGED <<listVars, inSafePoint>>,
         scan' = 1
  PROVE  ControlInv'
<1> USE DEF IInv, ControlInv
<1>1. \A u \in Threads : pc'[u] = IF u = t THEN l ELSE pc[u]
  BY MovesPoints
<1>2. WindowInv' /\ ListInv' /\ AddInv' /\ Filled' = Filled
  BY WindowKept, ListKept
<1>3. FlagInv'
  BY <1>1 DEF FlagInv, CollectLabels, ReleaseLabels, Moving
<1>4. OwnerInv'
  BY <1>1 DEF OwnerInv
<1>5. ScanInv'
  BY <1>2 DEF ScanInv, ListInv
<1>6. WorldStopped'
  BY <1>1 DEF WorldStopped, Busy
<1>7. NoneHalts'
  BY <1>1 DEF NoneHalts, CollectLabels, ReleaseLabels, Moving
<1> QED BY <1>2, <1>3, <1>4, <1>5, <1>6, <1>7

LEMMA Alone ==
  ASSUME IInv, NEW t \in Threads, bumpOwner = t
  PROVE  \A u \in Threads \ {t} : pc[u] \notin Busy
  BY DEF IInv, ControlInv, OwnerInv

LEMMA GcHeldKept ==
  ASSUME IInv, Windows \subseteq Protected, NEW t \in Threads, GcHeld(t)
  PROVE  IInv'
<1>1. /\ At(t, pc[t]) /\ pc[t] = "gcHeld" /\ bumpOwner = t
      /\ pc' = [pc EXCEPT ![t] = "gcScan"]
      /\ UNCHANGED <<after, listVars, inSafePoint, bumpOwner, heapVars, scan>>
  BY DEF GcHeld, At, Go, bumpVars
<1>2. Moves(t, "gcScan")
  BY <1>1 DEF Moves, Settled, Labels, Absent, AddLabels, CollectLabels
<1>3. \A u \in Threads : pc[u] # "gcScan"
  BY <1>1, Alone DEF Busy
<1>4. ControlInv'
  BY <1>1, <1>2, <1>3, Alone, CollectorKept
     DEF IInv, ControlInv, ScanInv, CollectLabels, Moving
<1>5. TypeInv'
  BY <1>1, <1>2, MovesPoints DEF IInv, TypeInv, listVars, heapVars
<1>6. LockInv'
  BY <1>1, <1>2, LockKept DEF IInv, LockInv, Allocating, heapVars, Quiet
<1> QED BY <1>4, <1>5, <1>6 DEF IInv

(* HppWaitSafepoint: whom it has seen stays in PalSafepoint.  Nobody is in *)
(* a window while the collector executes, so the list is complete and the  *)
(* flag of a thread that leaves PalSafepoint is not seen.                  *)
LEMMA ScanFacts ==
  ASSUME IInv, Windows \subseteq Protected,
         NEW t \in Threads, At(t, "gcScan")
  PROVE  /\ bumpOwner = t
         /\ threadCount = Filled
         /\ \A u \in Threads : inSafePoint[u] => u = t \/ Parked(u)
<1> USE DEF IInv, ControlInv
<1>1. pc[t] = "gcScan" /\ \A u \in Threads : pc[u] \notin Windows
  BY DEF At, Windows
<1>2. bumpOwner = t
  BY <1>1 DEF OwnerInv, Busy
<1>3. threadCount = Filled
  BY <1>1 DEF Filled, Adding, Windows
<1>4. \A u \in Threads : inSafePoint[u] => u = t \/ Parked(u)
  BY <1>1 DEF FlagInv, Parked, Windows
<1> QED BY <1>2, <1>3, <1>4

LEMMA GcScanKept ==
  ASSUME IInv, Windows \subseteq Protected, NEW t \in Threads, GcScan(t)
  PROVE  IInv'
<1>1. At(t, "gcScan") /\ pc[t] = "gcScan" /\ scan <= threadCount
  BY DEF GcScan, At
<1>2. threadCount = Filled /\ \A u \in Threads : inSafePoint[u] => u = t \/ Parked(u)
  BY <1>1, ScanFacts
<1>3. scan \in 1..Filled
  BY <1>1, <1>2 DEF IInv, TypeInv
<1>4. threadList[scan] \in Threads /\ NoThread \notin Threads
  BY <1>3, HeapAssumption DEF IInv, ControlInv, ListInv, Threads
<1>5. /\ inSafePoint[threadList[scan]] \/ threadList[scan] = t
      /\ scan' = scan + 1
      /\ UNCHANGED <<pc, after, listVars, inSafePoint, bumpOwner, heapVars>>
  BY <1>4 DEF GcScan, bumpVars
<1>6. threadList[scan] = t \/ Parked(threadList[scan])
  BY <1>2, <1>4, <1>5
<1>7. ScanInv'
  <2>1. Filled' = Filled /\ Filled \in Nat /\ scan \in Nat
    BY <1>3, <1>5, HeapAssumption
       DEF Filled, Adding, listVars, IInv, ControlInv, ListInv, TypeInv
  <2>2. ASSUME NEW u \in Threads, pc[u] = "gcScan", NEW i \in 1..scan
        PROVE  threadList[i] = u \/ Parked(threadList[i])
    <3>1. u = t
      BY <1>1, <2>2, ScanFacts DEF IInv, ControlInv, OwnerInv, Busy
    <3>2. i = scan \/ i \in 1..(scan - 1)
      BY <2>1
    <3> QED BY <1>1, <1>6, <3>1, <3>2 DEF IInv, ControlInv, ScanInv
  <2>3. scan' - 1 = scan /\ scan <= Filled
    BY <1>3, <1>5, <2>1
  <2> QED BY <1>1, <1>5, <2>1, <2>2, <2>3 DEF ScanInv, Parked, listVars
<1>8. TypeInv' /\ LockInv'
  BY <1>3, <1>5 DEF IInv, TypeInv, LockInv, Quiet, listVars, heapVars
<1>9. WindowInv' /\ ListInv' /\ AddInv' /\ FlagInv' /\ OwnerInv' /\ WorldStopped' /\ NoneHalts'
  BY <1>5 DEF IInv, ControlInv, WindowInv, ListInv, AddInv, FlagInv, OwnerInv,
              WorldStopped, NoneHalts, Filled, Adding, listVars
<1> QED BY <1>7, <1>8, <1>9 DEF IInv, ControlInv

(* The end of the list: everyone who exists has been seen.                 *)
LEMMA GcScannedKept ==
  ASSUME IInv, Windows \subseteq Protected, NEW t \in Threads, GcScanned(t)
  PROVE  IInv'
<1>1. /\ At(t, "gcScan") /\ At(t, pc[t]) /\ pc[t] = "gcScan" /\ scan > threadCount
      /\ pc' = [pc EXCEPT ![t] = "gcCopy"]
      /\ scan' = 1
      /\ UNCHANGED <<after, listVars, inSafePoint, bumpOwner, heapVars>>
  BY DEF GcScanned, At, Go, bumpVars
<1>2. Moves(t, "gcCopy")
  BY <1>1 DEF Moves, Settled, Labels, Absent, AddLabels, CollectLabels, Moving
<1>3. bumpOwner = t /\ threadCount = Filled
  BY <1>1, ScanFacts
<1>4. scan - 1 = Filled
  BY <1>1, <1>3 DEF IInv, ControlInv, ScanInv, TypeInv
<1>5. \A u \in Threads \ {t} :
        pc[u] \notin Absent => pc[u] \in {"spEnter", "spHeld"}
  <2>1. ASSUME NEW u \in Threads \ {t}, pc[u] \notin Absent
        PROVE  pc[u] \in {"spEnter", "spHeld"}
    <3>1. PICK i \in 1..(scan - 1) : threadList[i] = u
      BY <1>4, <2>1 DEF IInv, ControlInv, ListInv
    <3> QED BY <1>1, <3>1 DEF IInv, ControlInv, ScanInv, Parked
  <2> QED BY <2>1
<1>6. \A u \in Threads \ {t} : pc[u] # "made"
  BY <1>1, <1>5 DEF IInv, ControlInv, AddInv, AddLabels, Absent
<1>7. \A u \in Threads \ {t} : pc[u] \in {"none", "spEnter", "spHeld"}
  BY <1>5, <1>6 DEF Absent
<1>8. ControlInv'
  BY <1>1, <1>2, <1>3, <1>7, Alone, CollectorKept DEF CollectLabels, Moving
<1>9. TypeInv'
  BY <1>1, <1>2, MovesPoints DEF IInv, TypeInv, listVars, heapVars
<1>10. LockInv'
  BY <1>1, <1>2, LockKept DEF IInv, LockInv, Allocating, heapVars, Quiet
<1> QED BY <1>8, <1>9, <1>10 DEF IInv

(* While objects move nobody is in the lock of the heap.                   *)
LEMMA MovingFacts ==
  ASSUME IInv, NEW t \in Threads, pc[t] \in Moving
  PROVE  /\ Quiet(managed)
         /\ \A u \in Threads : pc[u] \notin Allocating
         /\ \A u \in Threads \ {t} : pc[u] \in {"none", "spEnter", "spHeld"}
         /\ bumpOwner = t
         /\ scan = 1
<1> USE DEF IInv, ControlInv
<1>1. \A u \in Threads \ {t} : pc[u] \in {"none", "spEnter", "spHeld"}
  BY DEF WorldStopped
<1>2. \A u \in Threads : pc[u] \notin Allocating
  BY <1>1 DEF Allocating, Moving
<1>3. managed.owner = NoThread
  BY <1>2, LockPoints DEF LockInv
<1>4. managed.line = <<>>
  <2>1. \A i \in DOMAIN managed.line : FALSE
    BY <1>2, LockPoints DEF LockInv, Allocating
  <2> QED BY <2>1, LockPoints
<1>5. bumpOwner = t
  BY DEF OwnerInv, Busy
<1>6. scan = 1
  BY <1>1 DEF ScanInv, Moving
<1> QED BY <1>1, <1>2, <1>3, <1>4, <1>5, <1>6 DEF Quiet

(* The steps of HpGc that move the heaps about.                            *)
LEMMA MovingKept ==
  ASSUME IInv, Windows \subseteq Protected,
         NEW t \in Threads, At(t, pc[t]), pc[t] \in Moving,
         NEW l \in Moving \union {"gcExit"}, pc' = [pc EXCEPT ![t] = l],
         managed' \in Heap, next' \in Heap, saved' \in Heap,
         Quiet(managed)', Quiet(next)', Quiet(saved)',
         UNCHANGED <<after, listVars, inSafePoint, bumpOwner, scan>>
  PROVE  IInv'
<1>1. Moves(t, l)
  BY DEF Moves, Settled, Labels, Absent, AddLabels, CollectLabels, Moving
<1>2. ControlInv'
  BY <1>1, MovingFacts, Alone, CollectorKept DEF CollectLabels
<1>3. TypeInv'
  BY <1>1, MovesPoints DEF IInv, TypeInv, listVars
<1>4. \A u \in Threads : pc'[u] \notin Allocating
  BY <1>1, MovingFacts, MovesPoints DEF IInv, Moving, Allocating
<1>5. LockInv'
  BY <1>4 DEF LockInv, Quiet, Allocating
<1> QED BY <1>2, <1>3, <1>5 DEF IInv

LEMMA GcMoveKept ==
  ASSUME IInv, Windows \subseteq Protected, NEW t \in Threads,
         GcCopy(t) \/ GcSave(t) \/ GcTake(t) \/ GcPut(t)
  PROVE  IInv'
<1> USE DEF At, Go, Moving, bumpVars
<1>1. managed \in Heap /\ next \in Heap /\ saved \in Heap
  BY DEF IInv, TypeInv
<1>2. Quiet(next) /\ Quiet(saved)
  BY DEF IInv, LockInv
<1>3. EmptyHeap \in Heap /\ Quiet(EmptyHeap)
  BY DEF EmptyHeap, Heap, Quiet
<1>4. CASE GcCopy(t)
  <2>1. PICK live \in 0..(Capacity - 1) : next' = [next EXCEPT !.used = @ + live]
    BY <1>4 DEF GcCopy
  <2>2. next.used + live \in Nat
    BY <1>1, HeapAssumption DEF Heap
  <2>3. next' \in Heap /\ next'.owner = next.owner /\ next'.line = next.line
    BY <1>1, <2>1, <2>2 DEF Heap
  <2> QED BY <1>1, <1>2, <1>4, <2>3, MovingFacts, MovingKept DEF GcCopy, Quiet
<1>5. CASE GcSave(t)
  <2>1. Quiet(managed)
    BY <1>5, MovingFacts DEF GcSave
  <2>2. saved' \in Heap /\ saved'.owner = managed.owner /\ saved'.line = managed.line
    BY <1>1, <1>5 DEF GcSave, Heap
  <2> QED BY <1>1, <1>2, <1>5, <2>1, <2>2, MovingKept DEF GcSave, Quiet
<1>6. CASE GcTake(t)
  <2>1. Quiet(managed)
    BY <1>6, MovingFacts DEF GcTake
  <2>2. pc' = [pc EXCEPT ![t] = "gcPut"]
    BY <1>2, <1>6, <2>1 DEF GcTake, Quiet
  <2> QED BY <1>1, <1>2, <1>6, <2>2, MovingKept DEF GcTake, Quiet
<1>7. CASE GcPut(t)
  <2>1. Quiet(managed)
    BY <1>7, MovingFacts DEF GcPut
  <2> QED BY <1>1, <1>2, <1>3, <1>7, <2>1, MovingKept DEF GcPut, Quiet
<1> QED BY <1>4, <1>5, <1>6, <1>7

LEMMA GcExitKept ==
  ASSUME IInv, Windows \subseteq Protected, NEW t \in Threads, GcExit(t)
  PROVE  IInv'
<1>1. /\ At(t, pc[t]) /\ pc[t] = "gcExit" /\ bumpOwner = t
      /\ pc' = [pc EXCEPT ![t] = "gcFlagOff"]
      /\ UNCHANGED <<after, listVars, inSafePoint, heapVars, scan>>
  BY BumpFacts DEF GcExit, At, Go
<1>2. Moves(t, "gcFlagOff")
  BY <1>1 DEF Moves, Settled, Labels, Absent, AddLabels, CollectLabels, ReleaseLabels
<1>3. \A u \in Threads : pc[u] # "gcScan"
  BY <1>1, Alone DEF Busy
<1>4. ControlInv'
  BY <1>1, <1>2, <1>3, Alone, CollectorKept
     DEF IInv, ControlInv, ScanInv, CollectLabels, ReleaseLabels, Busy, Moving
<1>5. TypeInv'
  BY <1>1, <1>2, MovesPoints DEF IInv, TypeInv, listVars, heapVars
<1>6. LockInv'
  BY <1>1, <1>2, LockKept DEF IInv, LockInv, Allocating, heapVars, Quiet
<1> QED BY <1>4, <1>5, <1>6 DEF IInv

-----------------------------------------------------------------------------
(* The making of a thread.                                                 *)
LEMMA StartKept ==
  ASSUME IInv, Windows \subseteq Protected, NEW t \in Threads, NEW u \in Threads,
         PalManagedThreadStart(t, u)
  PROVE  IInv'
<1>1. /\ pc[u] = "new" /\ pc' = [pc EXCEPT ![u] = "run"]
      /\ UNCHANGED <<after, listVars, inSafePoint, bumpOwner, heapVars, scan>>
  BY DEF PalManagedThreadStart, Go, bumpVars
<1>2. Moves(u, "run")
  BY <1>1 DEF Moves, Settled, Labels, Absent, AddLabels
<1>3. ~inSafePoint[u]
  BY <1>1 DEF IInv, ControlInv, FlagInv
<1>4. FlagInv' /\ OwnerInv' /\ ScanInv' /\ WorldStopped'
  BY <1>1, <1>2, <1>3, WorldKept DEF IInv, TypeInv, ControlInv, OwnerInv, Busy, Moving
<1>5. ListInv' /\ AddInv'
  BY <1>1, <1>2, ListKept DEF IInv, ControlInv
<1>6. WindowInv' /\ NoneHalts'
  BY <1>1, <1>2, MovesPoints DEF IInv, ControlInv, WindowInv, NoneHalts, Windows
<1>7. TypeInv'
  BY <1>1, <1>2, MovesPoints DEF IInv, TypeInv, listVars, heapVars
<1>8. LockInv'
  BY <1>1, <1>2, LockKept DEF IInv, LockInv, Allocating, heapVars, Quiet
<1> QED BY <1>4, <1>5, <1>6, <1>7, <1>8 DEF IInv, ControlInv

(* What the steps of the making of a thread have in common: its creator t, *)
(* and the thread u, which may be t itself where only the creator moves.   *)
Making == {"none", "made", "new", "run"} \union AddLabels

LEMMA MakingKept ==
  ASSUME IInv, NEW t \in Threads, NEW u \in Threads,
         pc[t] \in Making \ {"none"}, pc[u] \in Making,
         pc'[t] \in Making, pc'[u] \in Making,
         \A w \in Threads \ {t, u} : pc'[w] = pc[w],
         UNCHANGED <<inSafePoint, bumpOwner, heapVars, scan>>,
         Filled' \in Nat, Filled <= Filled',
         \A i \in 1..Filled : threadList'[i] = threadList[i]
  PROVE  FlagInv' /\ OwnerInv' /\ ScanInv' /\ WorldStopped' /\ NoneHalts' /\ LockInv'
<1> USE DEF IInv, ControlInv
<1>1. \A w \in Threads : pc'[w] # pc[w] => /\ pc[w] \in Making /\ pc'[w] \in Making
                                           /\ w \in {t, u}
  OBVIOUS
<1>2. FlagInv'
  BY <1>1 DEF FlagInv, Making, AddLabels
<1>3. \A w \in Threads : pc'[w] \in Busy <=> pc[w] \in Busy /\ pc'[w] = pc[w]
  BY <1>1 DEF Busy, Moving, Making, AddLabels
<1>4. OwnerInv'
  BY <1>3 DEF OwnerInv
<1>5. \A w \in Threads : pc[w] \notin Moving
  BY DEF WorldStopped, Making, AddLabels, Moving
<1>6. WorldStopped'
  BY <1>3, <1>5 DEF WorldStopped, Busy
<1>7. NoneHalts'
  BY <1>1 DEF NoneHalts, Making, AddLabels
<1>8. ScanInv'
  <2>1. Filled \in Nat /\ scan \in Nat \ {0} /\ scan - 1 <= Filled
    BY HeapAssumption DEF ListInv, TypeInv, ScanInv
  <2>2. \A w \in Threads : pc'[w] = "gcScan" <=> pc[w] = "gcScan"
    BY <1>1 DEF Making, AddLabels
  <2>3. \A w \in Threads : Parked(w) => Parked(w)'
    BY <1>1 DEF Parked, Making, AddLabels
  <2>4. ASSUME NEW w \in Threads, pc'[w] = "gcScan", NEW i \in 1..(scan - 1)
        PROVE  threadList'[i] = w \/ Parked(threadList[i])'
    <3>1. i \in 1..Filled /\ threadList[i] \in Threads
      BY <2>1 DEF ListInv
    <3> QED BY <2>2, <2>3, <2>4, <3>1 DEF ScanInv
  <2>5. \A i \in 1..(scan - 1) : threadList'[i] = threadList[i]
    BY <2>1
  <2>6. scan' - 1 <= Filled'
    BY <2>1
  <2> QED BY <2>2, <2>4, <2>5, <2>6 DEF ScanInv, Parked
<1>9. LockInv'
  BY <1>1, LockPoints DEF LockInv, Allocating, Making, AddLabels, heapVars, Quiet
<1> QED BY <1>2, <1>4, <1>6, <1>7, <1>8, <1>9

LEMMA CreateKept ==
  ASSUME IInv, Windows \subseteq Protected, NEW t \in Threads, NEW u \in Threads,
         PalManagedThreadCreate(t, u)
  PROVE  IInv'
<1>1. /\ pc[t] = "run" /\ pc[u] = "none" /\ t # u
      /\ pc' = [pc EXCEPT ![t] = "add", ![u] = "made"]
      /\ target' = [target EXCEPT ![t] = u]
      /\ UNCHANGED <<after, threadList, threadCount, index, inSafePoint, bumpOwner,
                     heapVars, scan>>
      /\ \A w \in Threads : pc[w] \notin Windows
  BY DEF PalManagedThreadCreate, At, bumpVars, Windows
<1>2. /\ pc' \in [Threads -> Labels]
      /\ \A w \in Threads : pc'[w] = IF w = u THEN "made" ELSE IF w = t THEN "add" ELSE pc[w]
      /\ \A w \in Threads : target'[w] = IF w = t THEN u ELSE target[w]
      /\ target' \in [Threads -> Threads \union {NoThread}]
  BY <1>1 DEF IInv, TypeInv, Labels, AddLabels
<1>3. ~Adding /\ ~Adding' /\ Filled' = Filled /\ Filled = threadCount
  BY <1>1, <1>2 DEF Adding, Filled, Windows
<1>4. ListInv'
  BY <1>1, <1>2, <1>3 DEF IInv, ControlInv, ListInv, Absent
<1>5. AddInv'
  BY <1>1, <1>2 DEF IInv, ControlInv, AddInv, AddLabels, Windows
<1>6. WindowInv'
  BY <1>1, <1>2 DEF WindowInv, Windows
<1>7. Filled' \in Nat
  BY <1>3 DEF IInv, TypeInv
<1>8. FlagInv' /\ OwnerInv' /\ ScanInv' /\ WorldStopped' /\ NoneHalts' /\ LockInv'
  <2>1. /\ pc'[t] \in Making /\ pc'[u] \in Making
        /\ \A w \in Threads \ {t, u} : pc'[w] = pc[w]
        /\ pc[t] \in Making \ {"none"} /\ pc[u] \in Making
    BY <1>1, <1>2 DEF Making, AddLabels
  <2>2. Filled <= Filled' /\ \A i \in 1..Filled : threadList'[i] = threadList[i]
    BY <1>1, <1>3, <1>7
  <2> QED BY <1>1, <1>2, <1>7, <2>1, <2>2, MakingKept
<1>9. TypeInv'
  BY <1>1, <1>2 DEF IInv, TypeInv, heapVars
<1> QED BY <1>4, <1>5, <1>6, <1>8, <1>9 DEF IInv, ControlInv

LEMMA AddKept ==
  ASSUME IInv, Windows \subseteq Protected, NEW t \in Threads, Add(t)
  PROVE  IInv'
<1>1. /\ pc[t] = "add"
      /\ pc' = [pc EXCEPT ![t] = "addCount"]
      /\ index' = [index EXCEPT ![t] = threadCount]
      /\ UNCHANGED <<after, threadList, threadCount, target, inSafePoint, bumpOwner,
                     heapVars, scan>>
      /\ \A w \in Threads : pc[w] \notin Windows
  BY DEF Add, At, Go, bumpVars, Windows
<1>2. /\ pc' \in [Threads -> Labels]
      /\ \A w \in Threads : pc'[w] = IF w = t THEN "addCount" ELSE pc[w]
      /\ index' \in [Threads -> Nat] /\ index'[t] = threadCount
  BY <1>1 DEF IInv, TypeInv, Labels, AddLabels
<1>3. ~Adding /\ ~Adding' /\ Filled' = Filled /\ Filled = threadCount
  BY <1>1, <1>2 DEF Adding, Filled, Windows
<1>4. ListInv'
  BY <1>1, <1>2, <1>3 DEF IInv, ControlInv, ListInv, Absent
<1>5. AddInv'
  BY <1>1, <1>2 DEF IInv, ControlInv, AddInv, AddLabels, Windows
<1>6. WindowInv'
  BY <1>1, <1>2 DEF WindowInv
<1>7. Filled' \in Nat
  BY <1>3 DEF IInv, TypeInv
<1>8. FlagInv' /\ OwnerInv' /\ ScanInv' /\ WorldStopped' /\ NoneHalts' /\ LockInv'
  BY <1>1, <1>2, <1>3, <1>7, MakingKept DEF Making, AddLabels
<1>9. TypeInv'
  BY <1>1, <1>2 DEF IInv, TypeInv, heapVars
<1> QED BY <1>4, <1>5, <1>6, <1>8, <1>9 DEF IInv, ControlInv

(* The count is ahead of the pointer now, and Filled stays behind.         *)
LEMMA AddCountKept ==
  ASSUME IInv, Windows \subseteq Protected, NEW t \in Threads, AddCount(t)
  PROVE  IInv'
<1>1. /\ pc[t] = "addCount"
      /\ pc' = [pc EXCEPT ![t] = "addPointer"]
      /\ threadCount' = index[t] + 1
      /\ index[t] = threadCount
      /\ UNCHANGED <<after, threadList, index, target, inSafePoint, bumpOwner,
                     heapVars, scan>>
      /\ \A w \in Threads \ {t} : pc[w] \notin Windows
  BY DEF AddCount, At, Go, bumpVars, IInv, ControlInv, AddInv
<1>2. /\ pc' \in [Threads -> Labels]
      /\ \A w \in Threads : pc'[w] = IF w = t THEN "addPointer" ELSE pc[w]
      /\ threadCount \in Nat
  BY <1>1 DEF IInv, TypeInv, Labels, AddLabels
<1>3. ~Adding /\ Adding' /\ Filled' = Filled /\ Filled = threadCount
  <2>1. ~Adding /\ Adding'
    BY <1>1, <1>2 DEF Adding, Windows
  <2> QED BY <1>1, <1>2, <2>1 DEF Filled
<1>4. ListInv'
  BY <1>1, <1>2, <1>3 DEF IInv, ControlInv, ListInv, Absent
<1>5. AddInv'
  BY <1>1, <1>2 DEF IInv, ControlInv, AddInv, AddLabels, Windows
<1>6. WindowInv'
  BY <1>1, <1>2 DEF WindowInv
<1>7. Filled' \in Nat
  BY <1>2, <1>3
<1>8. FlagInv' /\ OwnerInv' /\ ScanInv' /\ WorldStopped' /\ NoneHalts' /\ LockInv'
  BY <1>1, <1>2, <1>3, <1>7, MakingKept DEF Making, AddLabels
<1>9. TypeInv'
  BY <1>1, <1>2 DEF IInv, TypeInv, heapVars
<1> QED BY <1>4, <1>5, <1>6, <1>8, <1>9 DEF IInv, ControlInv

(* There is a place for a thread that is not in the list: the pigeonhole.  *)
LEMMA RoomForOne ==
  ASSUME IInv, NEW u \in Threads, pc[u] \in Absent
  PROVE  Filled \in 0..(N - 1)
<1> DEFINE F == [i \in 1..Filled |-> threadList[i]]
           T == Threads \ {u}
<1>1. /\ Filled \in 0..N
      /\ \A i \in 1..Filled : threadList[i] \in T
      /\ \A i, j \in 1..Filled : threadList[i] = threadList[j] => i = j
  BY DEF IInv, ControlInv, ListInv
<1>2. F \in Injection(1..Filled, T)
  BY <1>1 DEF Injection, IsInjective
<1>3. IsFiniteSet(Threads) /\ Cardinality(Threads) = N
  BY HeapAssumption, FS_Interval DEF Threads
<1>4. IsFiniteSet(T) /\ Cardinality(T) = N - 1
  BY <1>3, FS_RemoveElement
<1>5. Cardinality(1..Filled) <= N - 1
  <2> HIDE DEF F, T
  <2> QED BY <1>2, <1>4, FS_Injection
<1>6. Cardinality(1..Filled) = Filled
  BY <1>1, FS_Interval, HeapAssumption
<1> QED BY <1>1, <1>5, <1>6, HeapAssumption

LEMMA AddPointerKept ==
  ASSUME IInv, Windows \subseteq Protected, NEW t \in Threads, AddPointer(t)
  PROVE  IInv'
<1> DEFINE u == target[t]
<1>1. /\ pc[t] = "addPointer"
      /\ threadList' = [threadList EXCEPT ![index[t] + 1] = u]
      /\ pc' = [pc EXCEPT ![t] = "run", ![u] = "new"]
      /\ target' = [target EXCEPT ![t] = NoThread]
      /\ index' = [index EXCEPT ![t] = 0]
      /\ UNCHANGED <<after, threadCount, inSafePoint, bumpOwner, heapVars, scan>>
      /\ \A w \in Threads \ {t} : pc[w] \notin Windows
  BY DEF AddPointer, At, bumpVars
<1>2. /\ u \in Threads /\ pc[u] = "made" /\ u # t
      /\ index[t] + 1 = threadCount
      /\ \A w \in Threads : pc[w] \in AddLabels /\ target[w] = u => w = t
  BY <1>1 DEF IInv, ControlInv, AddInv, AddLabels
<1> HIDE DEF u
<1>3. /\ pc' \in [Threads -> Labels]
      /\ \A w \in Threads : pc'[w] = IF w = u THEN "new" ELSE IF w = t THEN "run" ELSE pc[w]
      /\ \A w \in Threads \ {t} : target'[w] = target[w] /\ index'[w] = index[w]
      /\ target' \in [Threads -> Threads \union {NoThread}]
      /\ index' \in [Threads -> Nat]
      /\ threadCount \in Nat
  BY <1>1, <1>2 DEF IInv, TypeInv, Labels
<1>4. Adding /\ ~Adding'
  BY <1>1, <1>3 DEF Adding, Windows
<1>5. Filled + 1 = threadCount /\ Filled' = threadCount
  BY <1>1, <1>3, <1>4 DEF Filled
<1>6. Filled \in 0..(N - 1)
  BY <1>2, RoomForOne DEF Absent
<1>7. /\ threadCount \in Threads
      /\ threadList' \in [Threads -> Threads \union {NoThread}]
      /\ threadList'[threadCount] = u
      /\ \A i \in 1..Filled : threadList'[i] = threadList[i]
  BY <1>1, <1>2, <1>5, <1>6, HeapAssumption DEF IInv, TypeInv, Threads
<1>8. ListInv'
  <2>1. Filled' \in 0..N /\ 1..Filled' = (1..Filled) \union {threadCount}
    BY <1>3, <1>5, <1>6, HeapAssumption
  <2>2. \A i \in 1..Filled :
          threadList[i] \in Threads /\ pc[threadList[i]] \notin Absent
          /\ threadList[i] # u
    BY <1>2 DEF IInv, ControlInv, ListInv, Absent
  <2>3. \A i \in 1..Filled' :
          threadList'[i] \in Threads /\ pc'[threadList'[i]] \notin Absent
    <3>1. \A w \in Threads : pc[w] \notin Absent => pc'[w] \notin Absent
      BY <1>3 DEF Absent
    <3>2. u \in Threads /\ pc'[u] \notin Absent
      BY <1>2, <1>3 DEF Absent
    <3>3. \A i \in 1..Filled :
            threadList'[i] \in Threads /\ pc'[threadList'[i]] \notin Absent
      BY <1>7, <2>2, <3>1
    <3> QED BY <1>7, <2>1, <3>2, <3>3
  <2>4. \A i, j \in 1..Filled' : threadList'[i] = threadList'[j] => i = j
    <3>1. \A i, j \in 1..Filled : threadList'[i] = threadList'[j] => i = j
      BY <1>7 DEF IInv, ControlInv, ListInv
    <3>2. \A i \in 1..Filled : threadList'[i] # threadList'[threadCount]
      BY <1>7, <2>2
    <3> QED BY <2>1, <3>1, <3>2
  <2>5. ASSUME NEW w \in Threads, pc'[w] \notin Absent
        PROVE  \E i \in 1..Filled' : threadList'[i] = w
    <3>1. CASE w = u
      BY <1>7, <2>1, <3>1
    <3>2. CASE w # u
      <4>1. pc[w] \notin Absent
        BY <1>1, <1>3, <2>5, <3>2 DEF Absent
      <4>2. PICK i \in 1..Filled : threadList[i] = w
        BY <4>1 DEF IInv, ControlInv, ListInv
      <4> QED BY <1>7, <2>1, <4>2
    <3> QED BY <3>1, <3>2
  <2> QED BY <2>1, <2>3, <2>4, <2>5 DEF ListInv
<1>9. AddInv'
  BY <1>1, <1>2, <1>3 DEF IInv, ControlInv, AddInv, AddLabels, Windows
<1>10. WindowInv'
  BY <1>1, <1>3 DEF WindowInv, Windows
<1>11. FlagInv' /\ OwnerInv' /\ ScanInv' /\ WorldStopped' /\ NoneHalts' /\ LockInv'
  <2>1. /\ pc'[t] \in Making /\ pc'[u] \in Making
        /\ \A w \in Threads \ {t, u} : pc'[w] = pc[w]
        /\ pc[t] \in Making \ {"none"} /\ pc[u] \in Making
    BY <1>1, <1>2, <1>3 DEF Making, AddLabels
  <2>2. Filled <= Filled' /\ Filled' \in Nat
    BY <1>3, <1>5, <1>6, HeapAssumption
  <2> QED BY <1>1, <1>2, <1>3, <1>7, <2>1, <2>2, MakingKept
<1>12. TypeInv'
  BY <1>1, <1>3, <1>7 DEF IInv, TypeInv, heapVars
<1> QED BY <1>8, <1>9, <1>10, <1>11, <1>12 DEF IInv, ControlInv

-----------------------------------------------------------------------------
LEMMA StepKept ==
  ASSUME IInv, Windows \subseteq Protected, [Next]_vars
  PROVE  IInv'
<1>1. CASE UNCHANGED vars
  <2>1. UNCHANGED <<pc, after, threadList, threadCount, target, index, inSafePoint,
                    bumpOwner, managed, next, saved, scan>>
    BY <1>1 DEF vars, listVars, bumpVars, heapVars
  <2>2. TypeInv'
    BY <2>1 DEF IInv, TypeInv
  <2>3. WindowInv' /\ FlagInv' /\ OwnerInv' /\ WorldStopped' /\ NoneHalts'
    BY <2>1 DEF IInv, ControlInv, WindowInv, FlagInv, OwnerInv, WorldStopped, NoneHalts
  <2>4. Filled' = Filled
    BY <2>1 DEF Filled, Adding
  <2>5. ListInv'
    BY <2>1, <2>4 DEF IInv, ControlInv, ListInv
  <2>6. AddInv'
    BY <2>1 DEF IInv, ControlInv, AddInv
  <2>7. ScanInv'
    BY <2>1, <2>4 DEF IInv, ControlInv, ScanInv, Parked
  <2>8. LockInv'
    BY <2>1 DEF IInv, LockInv, Quiet
  <2> QED
    BY <2>2, <2>3, <2>5, <2>6, <2>7, <2>8 DEF IInv, ControlInv
<1>2. ASSUME NEW t \in Threads, Step(t)
      PROVE  IInv'
  <2>1. CASE Add(t) \/ AddCount(t) \/ AddPointer(t)
    BY <2>1, AddKept, AddCountKept, AddPointerKept
  <2>2. CASE \/ Safepoint(t) \/ SafepointFlag(t) \/ SafepointEnter(t)
             \/ SafepointHeld(t) \/ SafepointLeave(t)
    BY <2>2, PollKept, SafepointFlagKept, SafepointEnterKept, SafepointHeldKept,
       SafepointLeaveKept
  <2>3. CASE GcEnter(t) \/ GcHeld(t) \/ GcScan(t) \/ GcScanned(t)
    BY <2>3, GcEnterKept, GcHeldKept, GcScanKept, GcScannedKept
  <2>4. CASE GcCopy(t) \/ GcSave(t) \/ GcTake(t) \/ GcPut(t) \/ GcExit(t)
    BY <2>4, GcMoveKept, GcExitKept
  <2>5. CASE \/ GcFlagOff(t) \/ GcUnlockNext(t) \/ GcUnlockManaged(t)
             \/ AllocTest(t) \/ TryWin(t) \/ TryLose(t)
    BY <2>5, FlagsKept, PollKept
  <2>6. CASE HeapEnter(t) \/ HeapHeld(t) \/ HeapSpace(t) \/ HeapExit(t)
    BY <2>6, HeapEnterKept, HeapHeldKept, HeapExitKept
  <2> QED BY <1>2, <2>1, <2>2, <2>3, <2>4, <2>5, <2>6 DEF Step
<1>3. ASSUME NEW t \in Threads, Client(t)
      PROVE  IInv'
  <2>1. CASE Poll(t) \/ Allocate(t)
    BY <2>1, PollKept
  <2>2. ASSUME NEW u \in Threads,
               PalManagedThreadCreate(t, u) \/ PalManagedThreadStart(t, u)
        PROVE  IInv'
    BY <2>2, CreateKept, StartKept
  <2> QED BY <1>3, <2>1, <2>2 DEF Client
<1> QED BY <1>1, <1>2, <1>3 DEF Next

LEMMA Invariance == Windows \subseteq Protected => (Spec => []IInv)
<1> SUFFICES ASSUME Windows \subseteq Protected PROVE Spec => []IInv
  OBVIOUS
<1>1. Init => IInv
  BY InitEstablishes
<1>2. IInv /\ [Next]_vars => IInv'
  BY StepKept
<1> QED BY <1>1, <1>2, PTL DEF Spec

(* While HpGc moves objects, every other thread that runs stands inside    *)
(* PalSafepoint.                                                           *)
THEOREM TheWorldStops == Windows \subseteq Protected => (Spec => []WorldStopped)
<1>1. IInv => WorldStopped
  BY DEF IInv, ControlInv
<1> QED BY <1>1, Invariance, PTL

(* The locks of the heaps are free, with nobody in line, when HpGc copies  *)
(* them with the heaps.                                                    *)
THEOREM TheLocksAreQuiet == Windows \subseteq Protected => (Spec => []LocksQuietAtSwap)
<1>1. IInv => LocksQuietAtSwap
  BY MovingFacts DEF LocksQuietAtSwap, IInv, LockInv, Quiet
<1> QED BY <1>1, Invariance, PTL

(* CriticalSectionExit of the heap's lock never meets the check that halts *)
(* the machine.                                                            *)
THEOREM TheOwnerLeaves == Windows \subseteq Protected => (Spec => []HeapExitByOwner)
<1>1. IInv => HeapExitByOwner
  BY DEF HeapExitByOwner, IInv, LockInv
<1> QED BY <1>1, Invariance, PTL

(* So neither the bugcheck nor a broken vector or list is ever reached.    *)
THEOREM NothingHalts == Windows \subseteq Protected => (Spec => []NoneHalts)
<1>1. IInv => NoneHalts
  BY DEF IInv, ControlInv
<1> QED BY <1>1, Invariance, PTL
=============================================================================
