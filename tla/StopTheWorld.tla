---------------------------- MODULE StopTheWorld ----------------------------
(***************************************************************************)
(* How a managed thread stops the others to collect garbage, and how it    *)
(* lets them go: HpManagedHeapAllocate, HpGc and HppWaitSafepoint          *)
(* (intermarx/hp/hp.c), PalSafepoint, PalEnterMaintainenceMode and         *)
(* PalExitMaintainenceMode (intermarx/pal/pal.c), and the threads that     *)
(* PalManagedThreadCreate registers (intermarx/pal/corelib.c).  What the   *)
(* collector copies is CopyingCollector.tla's matter: here a heap is how   *)
(* much of it is used, and its lock.                                       *)
(*                                                                         *)
(* A step is one access to what the threads share, and the timer may fall  *)
(* between any two, except where Protected says that it does not.  The     *)
(* maintenance monitor is the lock of Monitor.tla, its operations used as  *)
(* steps.  The lock of a heap lies inside struct MANAGED_HEAP, which HpGc  *)
(* copies: it is part of the value of a heap.                              *)
(***************************************************************************)
EXTENDS Integers, Sequences

CONSTANTS
  N,          \* the number of threads there may be
  Started,    \* threads 1..Started run at first; 1 is MtGlobalBootstrapThread
  Capacity,   \* the size of a heap; the free space an allocation asks for is 1
  MaxUsed,    \* how far the model counts what a heap is overrun by
  Protected,  \* labels at which the timer does not take the CPU from a thread
  NoThread    \* the NULL owner of a monitor

ASSUME HeapAssumption ==
  /\ N \in Nat \ {0}
  /\ Started \in 1..N
  /\ Capacity \in Nat \ {0}
  /\ MaxUsed \in Nat
  /\ NoThread \notin 1..N

Threads == 1..N

VARIABLES
  pc,           \* what each thread does next
  after,        \* where PalSafepoint returns to
  threadList,   \* the pointers of the vector MtGlobalThreadList
  threadCount,  \* its count
  target,       \* the thread that a PalManagedThreadCreate makes
  index,        \* the count that its RtlVectorAdd read
  inSafePoint,  \* RUNTIME_THREAD.inSafePoint
  maintainence, \* PalGlobalMaintainence
  bumpOwner, bumpCount, bumpLine,  \* the monitor PalGlobalMaintainenceBump
  managed,      \* HpGlobalManagedHeap
  next,         \* HpGlobalNextManagedHeap
  saved,        \* oldHeap of the collecting HpGc
  scan          \* i of the collecting HppWaitSafepoint

bumpVars == <<bumpOwner, bumpCount, bumpLine>>
heapVars == <<managed, next, saved>>
listVars == <<threadList, threadCount, target, index>>
vars == <<pc, after, listVars, inSafePoint, maintainence, bumpVars, heapVars,
          scan>>

(* PalSafepoint. *)
SafepointLabels == {"sp", "spFlag", "spEnter", "spHeld", "spLeave"}

(* HpGc, from PalEnterMaintainenceMode to the PalExitLocks of its caller. *)
Moving == {"gcCopy", "gcSave", "gcTake", "gcPut"}
ReleaseLabels == {"gcFlagOff", "gcUnlockNext", "gcUnlockManaged"}
CollectLabels == {"gcEnter", "gcHeld", "gcScan", "gcExit"}
                   \union Moving \union ReleaseLabels

(* PalManagedThreadCreate, in RtlVectorAdd. *)
AddLabels == {"add", "addCount", "addPointer"}

(* HpManagedHeapAllocate. *)
AllocLabels == {"alloc", "try", "lock", "held", "space", "unlock"}

Labels == {"none", "made", "new", "run", "bugcheck", "corrupt"}
            \union AddLabels \union SafepointLabels \union CollectLabels \union AllocLabels

Heap == [used : Nat, isGcInProgress : BOOLEAN,
         owner : Threads \union {NoThread}, line : Seq(Threads)]

EmptyHeap == [used |-> 0, isGcInProgress |-> FALSE, owner |-> NoThread,
              line |-> <<>>]

Init ==
  /\ pc = [t \in Threads |-> IF t <= Started THEN "run" ELSE "none"]
  /\ after = [t \in Threads |-> "run"]
  /\ threadList = [i \in Threads |-> IF i <= Started THEN i ELSE NoThread]
  /\ threadCount = Started
  /\ target = [t \in Threads |-> NoThread]
  /\ index = [t \in Threads |-> 0]
  /\ inSafePoint = [t \in Threads |-> FALSE]
  /\ maintainence = FALSE
  /\ bumpOwner = NoThread
  /\ bumpCount = 0
  /\ bumpLine = <<>>
  /\ managed = EmptyHeap
  /\ next = EmptyHeap
  /\ saved = EmptyHeap
  /\ scan = 1

Bump == INSTANCE Monitor WITH holder <- bumpOwner, count <- bumpCount,
                              line <- bumpLine, inside <- {}

(* Nobody enters the monitor twice: HpGc is not called from itself. *)
BumpEnter(t) == Bump!Take(t) \/ Bump!Wait(t)
BumpExit(t) == Bump!Free(t) \/ Bump!HandOver(t)

-----------------------------------------------------------------------------
At(t, label) == /\ pc[t] = label
                /\ \A u \in Threads \ {t} : pc[u] \notin Protected

Go(t, label) == pc' = [pc EXCEPT ![t] = label]

(* The interpreter calls PalSafepoint at OpNoOperation, OpBranch, OpCall,  *)
(* OpVirtualCall, OpNewObject and OpBox; it allocates; it creates threads  *)
(* and starts them.                                                        *)
Poll(t) == /\ At(t, "run")
           /\ Go(t, "sp")
           /\ after' = [after EXCEPT ![t] = "run"]
           /\ UNCHANGED <<listVars, inSafePoint, maintainence, bumpVars, heapVars,
                          scan>>

Allocate(t) == /\ At(t, "run")
               /\ Go(t, "alloc")
               /\ UNCHANGED <<after, listVars, inSafePoint, maintainence, bumpVars,
                              heapVars, scan>>

(* PalManagedThreadCreate registers the new thread: RtlVectorAdd reads the *)
(* count, stores it incremented, and stores the pointer.  The vector does  *)
(* not grow: it starts with room for 10.                                   *)
PalManagedThreadCreate(t, u) ==
  /\ At(t, "run")
  /\ pc[u] = "none"
  /\ pc' = [pc EXCEPT ![t] = "add", ![u] = "made"]
  /\ target' = [target EXCEPT ![t] = u]
  /\ UNCHANGED <<after, threadList, threadCount, index, inSafePoint, maintainence,
                 bumpVars, heapVars, scan>>

Add(t) ==
  /\ At(t, "add")
  /\ index' = [index EXCEPT ![t] = threadCount]
  /\ Go(t, "addCount")
  /\ UNCHANGED <<after, threadList, threadCount, target, inSafePoint, maintainence,
                 bumpVars, heapVars, scan>>

AddCount(t) ==
  /\ At(t, "addCount")
  /\ threadCount' = index[t] + 1
  /\ Go(t, "addPointer")
  /\ UNCHANGED <<after, threadList, target, index, inSafePoint, maintainence,
                 bumpVars, heapVars, scan>>

AddPointer(t) ==
  /\ At(t, "addPointer")
  /\ threadList' = [threadList EXCEPT ![index[t] + 1] = target[t]]
  /\ pc' = [pc EXCEPT ![t] = "run", ![target[t]] = "new"]
  /\ target' = [target EXCEPT ![t] = NoThread]
  /\ index' = [index EXCEPT ![t] = 0]
  /\ UNCHANGED <<after, threadCount, inSafePoint, maintainence, bumpVars, heapVars,
                 scan>>

PalManagedThreadStart(t, u) ==
  /\ At(t, "run")
  /\ pc[u] = "new"
  /\ Go(u, "run")
  /\ UNCHANGED <<after, listVars, inSafePoint, maintainence, bumpVars, heapVars,
                 scan>>

-----------------------------------------------------------------------------
(* PalSafepoint: nothing, or wait until the collector leaves the monitor.  *)
Safepoint(t) ==
  /\ At(t, "sp")
  /\ Go(t, IF maintainence THEN "spFlag" ELSE after[t])
  /\ UNCHANGED <<after, listVars, inSafePoint, maintainence, bumpVars, heapVars,
                 scan>>

(* MtThreadGetCurrent looks the thread up in the list; for one that is not *)
(* there it is a NULL pointer that is written through.                     *)
Registered(t) == \E i \in 1..threadCount : threadList[i] = t

SafepointFlag(t) ==
  /\ At(t, "spFlag")
  /\ inSafePoint' = [inSafePoint EXCEPT ![t] = Registered(t)]
  /\ Go(t, "spEnter")
  /\ UNCHANGED <<after, listVars, maintainence, bumpVars, heapVars, scan>>

SafepointEnter(t) ==
  /\ At(t, "spEnter")
  /\ BumpEnter(t)
  /\ Go(t, "spHeld")
  /\ UNCHANGED <<after, listVars, inSafePoint, maintainence, heapVars, scan>>

(* PalMonitorExit, once PalMonitorEnter has returned. *)
SafepointHeld(t) ==
  /\ At(t, "spHeld")
  /\ BumpExit(t)
  /\ Go(t, "spLeave")
  /\ UNCHANGED <<after, listVars, inSafePoint, maintainence, heapVars, scan>>

(* The mutant leaves inSafePoint set. *)
SafepointStays(t) ==
  /\ At(t, "spLeave")
  /\ Go(t, after[t])
  /\ UNCHANGED <<after, listVars, inSafePoint, maintainence, bumpVars, heapVars,
                 scan>>

SafepointLeave(t) ==
  /\ At(t, "spLeave")
  /\ inSafePoint' = [inSafePoint EXCEPT ![t] = FALSE]
  /\ Go(t, after[t])
  /\ UNCHANGED <<after, listVars, maintainence, bumpVars, heapVars, scan>>

-----------------------------------------------------------------------------
(* HpGc.  PalEnterMaintainenceMode; the mutant does not set the flag. *)
GcEnter(t) ==
  /\ At(t, "gcEnter")
  /\ BumpEnter(t)
  /\ Go(t, "gcHeld")
  /\ UNCHANGED <<after, listVars, inSafePoint, maintainence, heapVars, scan>>

GcHeldSilently(t) ==
  /\ At(t, "gcHeld")
  /\ bumpOwner = t
  /\ Go(t, "gcScan")
  /\ UNCHANGED <<after, listVars, inSafePoint, maintainence, bumpVars, heapVars,
                 scan>>

GcHeld(t) ==
  /\ At(t, "gcHeld")
  /\ bumpOwner = t
  /\ maintainence' = TRUE
  /\ Go(t, "gcScan")
  /\ UNCHANGED <<after, listVars, inSafePoint, bumpVars, heapVars, scan>>

(* HppWaitSafepoint spins on one thread after another; the mutant spins on *)
(* none, and the next one stops a thread short of the end of the list.     *)
GcScanBlindly(t) ==
  /\ At(t, "gcScan")
  /\ scan <= threadCount
  /\ scan' = scan + 1
  /\ UNCHANGED <<pc, after, listVars, inSafePoint, maintainence, bumpVars,
                 heapVars>>

GcScan(t) ==
  /\ At(t, "gcScan")
  /\ scan <= threadCount
  /\ IF threadList[scan] = NoThread
     THEN Go(t, "corrupt") /\ UNCHANGED scan
     ELSE /\ inSafePoint[threadList[scan]] \/ threadList[scan] = t
          /\ scan' = scan + 1
          /\ UNCHANGED pc
  /\ UNCHANGED <<after, listVars, inSafePoint, maintainence, bumpVars, heapVars>>

GcScannedShort(t) ==
  /\ At(t, "gcScan")
  /\ scan >= threadCount
  /\ Go(t, "gcCopy")
  /\ scan' = 1
  /\ UNCHANGED <<after, listVars, inSafePoint, maintainence, bumpVars, heapVars>>

GcScanned(t) ==
  /\ At(t, "gcScan")
  /\ scan > threadCount
  /\ Go(t, "gcCopy")
  /\ scan' = 1
  /\ UNCHANGED <<after, listVars, inSafePoint, maintainence, bumpVars, heapVars>>

(* What survives is copied; it fits.  The copies are allocated under the   *)
(* lock of the next heap, which the collector finds free.                  *)
GcCopy(t) ==
  /\ At(t, "gcCopy")
  /\ \E live \in 0..(Capacity - 1) :
       /\ live <= managed.used
       /\ next' = [next EXCEPT !.used = @ + live]
  /\ Go(t, "gcSave")
  /\ UNCHANGED <<after, listVars, inSafePoint, maintainence, bumpVars, managed,
                 saved, scan>>

(* The heaps change places, each with its flag and its lock.  The list of  *)
(* a lock is linked to the address of its head: if a thread waits for the  *)
(* lock, copying the head breaks the list, and the model stops.            *)
GcSave(t) ==
  /\ At(t, "gcSave")
  /\ saved' = [managed EXCEPT !.used = 0]
  /\ Go(t, "gcTake")
  /\ UNCHANGED <<after, listVars, inSafePoint, maintainence, bumpVars, managed,
                 next, scan>>

GcTake(t) ==
  /\ At(t, "gcTake")
  /\ managed' = next
  /\ Go(t, IF \A heap \in {managed, next, saved} : heap.line = <<>>
           THEN "gcPut" ELSE "corrupt")
  /\ UNCHANGED <<after, listVars, inSafePoint, maintainence, bumpVars, next, saved,
                 scan>>

GcPut(t) ==
  /\ At(t, "gcPut")
  /\ next' = saved
  /\ saved' = EmptyHeap
  /\ Go(t, "gcExit")
  /\ UNCHANGED <<after, listVars, inSafePoint, maintainence, bumpVars, managed,
                 scan>>

(* PalExitMaintainenceMode: the monitor first, the flag second. *)
GcExit(t) ==
  /\ At(t, "gcExit")
  /\ BumpExit(t)
  /\ Go(t, "gcFlagOff")
  /\ UNCHANGED <<after, listVars, inSafePoint, maintainence, heapVars, scan>>

GcFlagOff(t) ==
  /\ At(t, "gcFlagOff")
  /\ maintainence' = FALSE
  /\ Go(t, "gcUnlockNext")
  /\ UNCHANGED <<after, listVars, inSafePoint, bumpVars, heapVars, scan>>

(* HpManagedHeapAllocate clears the flags of both heaps, wherever the one  *)
(* that it set is by now.                                                  *)
GcUnlockNext(t) ==
  /\ At(t, "gcUnlockNext")
  /\ next' = [next EXCEPT !.isGcInProgress = FALSE]
  /\ Go(t, "gcUnlockManaged")
  /\ UNCHANGED <<after, listVars, inSafePoint, maintainence, bumpVars, managed,
                 saved, scan>>

GcUnlockManaged(t) ==
  /\ At(t, "gcUnlockManaged")
  /\ managed' = [managed EXCEPT !.isGcInProgress = FALSE]
  /\ Go(t, "lock")
  /\ UNCHANGED <<after, listVars, inSafePoint, maintainence, bumpVars, next, saved,
                 scan>>

-----------------------------------------------------------------------------
(* HpManagedHeapAllocate: is there space? *)
AllocTest(t) ==
  /\ At(t, "alloc")
  /\ Go(t, IF managed.used + 1 >= Capacity THEN "try" ELSE "lock")
  /\ UNCHANGED <<after, listVars, inSafePoint, maintainence, bumpVars, heapVars,
                 scan>>

(* One thread collects; another goes through PalSafepoint, and then        *)
(* allocates without looking again.                                        *)
TryWin(t) ==
  /\ At(t, "try")
  /\ ~managed.isGcInProgress
  /\ managed' = [managed EXCEPT !.isGcInProgress = TRUE]
  /\ Go(t, "gcEnter")
  /\ UNCHANGED <<after, listVars, inSafePoint, maintainence, bumpVars, next, saved,
                 scan>>

TryLose(t) ==
  /\ At(t, "try")
  /\ managed.isGcInProgress
  /\ Go(t, "sp")
  /\ after' = [after EXCEPT ![t] = "lock"]
  /\ UNCHANGED <<listVars, inSafePoint, maintainence, bumpVars, heapVars, scan>>

(* The lock of the heap, as in Monitor.tla. *)
HeapEnter(t) ==
  /\ At(t, "lock")
  /\ managed' = IF managed.owner = NoThread
                THEN [managed EXCEPT !.owner = t]
                ELSE [managed EXCEPT !.line = Append(@, t)]
  /\ Go(t, "held")
  /\ UNCHANGED <<after, listVars, inSafePoint, maintainence, bumpVars, next, saved,
                 scan>>

HeapHeld(t) ==
  /\ At(t, "held")
  /\ managed.owner = t
  /\ Go(t, "space")
  /\ UNCHANGED <<after, listVars, inSafePoint, maintainence, bumpVars, heapVars,
                 scan>>

(* The bump of the heap's pointer. *)
HeapSpace(t) ==
  /\ At(t, "space")
  /\ managed' = [managed EXCEPT !.used = IF @ < MaxUsed THEN @ + 1 ELSE @]
  /\ Go(t, "unlock")
  /\ UNCHANGED <<after, listVars, inSafePoint, maintainence, bumpVars, next, saved,
                 scan>>

(* CriticalSectionExit: a bugcheck for anyone but the owner. *)
HeapExit(t) ==
  /\ At(t, "unlock")
  /\ IF managed.owner # t
     THEN Go(t, "bugcheck") /\ UNCHANGED managed
     ELSE /\ managed' = IF managed.line = <<>>
                        THEN [managed EXCEPT !.owner = NoThread]
                        ELSE [managed EXCEPT !.owner = Head(managed.line),
                                             !.line = Tail(@)]
          /\ Go(t, "run")
  /\ UNCHANGED <<after, listVars, inSafePoint, maintainence, bumpVars, next, saved,
                 scan>>

-----------------------------------------------------------------------------
Step(t) ==
  \/ Add(t) \/ AddCount(t) \/ AddPointer(t)
  \/ Safepoint(t) \/ SafepointFlag(t) \/ SafepointEnter(t) \/ SafepointHeld(t)
  \/ SafepointLeave(t)
  \/ GcEnter(t) \/ GcHeld(t) \/ GcScan(t) \/ GcScanned(t) \/ GcCopy(t)
  \/ GcSave(t) \/ GcTake(t) \/ GcPut(t) \/ GcExit(t) \/ GcFlagOff(t)
  \/ GcUnlockNext(t) \/ GcUnlockManaged(t)
  \/ AllocTest(t) \/ TryWin(t) \/ TryLose(t)
  \/ HeapEnter(t) \/ HeapHeld(t) \/ HeapSpace(t) \/ HeapExit(t)

Client(t) == \/ Poll(t) \/ Allocate(t)
             \/ \E u \in Threads : \/ PalManagedThreadCreate(t, u)
                                   \/ PalManagedThreadStart(t, u)

(* The bugcheck halts the machine. *)
Next == /\ \A t \in Threads : pc[t] \notin {"bugcheck", "corrupt"}
        /\ \E t \in Threads : Step(t) \/ Client(t)

Spec == Init /\ [][Next]_vars

(* The round robin runs every thread again and again, and managed code     *)
(* comes to an opcode that polls again and again.                          *)
Fairness == \A t \in Threads : SF_vars(Step(t)) /\ SF_vars(Poll(t))

FairSpec == Spec /\ Fairness

-----------------------------------------------------------------------------
(* While HpGc moves objects every other thread that runs stands inside     *)
(* PalSafepoint, before it leaves the monitor again.                       *)
WorldStopped ==
  \A t, u \in Threads : pc[t] \in Moving =>
    u = t \/ pc[u] \in {"none", "spEnter", "spHeld"}

(* So nobody holds the lock of a heap, or waits for it, when HpGc copies   *)
(* the heaps with their locks: the list of a lock does not survive a copy. *)
LocksQuietAtSwap ==
  \A t \in Threads : pc[t] \in Moving =>
    \A heap \in {managed, next} : heap.owner = NoThread /\ heap.line = <<>>

(* The thread that leaves the lock of a heap owns it: the check of         *)
(* CriticalSectionExit ("Bad critical section exit!", crit.c:83).          *)
HeapExitByOwner ==
  \A t \in Threads : pc[t] = "unlock" => managed.owner = t

(* A collection that begins comes to its end. *)
CollectionEnds == \A t \in Threads : pc[t] = "gcEnter" ~> pc[t] = "lock"
=============================================================================
