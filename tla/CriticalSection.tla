-------------------------- MODULE CriticalSection --------------------------
(***************************************************************************)
(* The kernel's blocking lock and the scheduler under it, on the one CPU   *)
(* the kernel runs on: CriticalSectionEnter and Exit (ps/crit.c),          *)
(* ThreadLock, ThreadUnlock and ThreadSleep (ps/sched.c), PsiSchedule      *)
(* (ps/entry.c) and the two ways into it, the timer interrupt and          *)
(* PalYieldToDispatch (pal/arch/ia32/entry.c).                             *)
(*                                                                         *)
(* A step of a thread is one access to memory that other threads share:    *)
(* the kernel is built with -O0, so lockCount++ is a load and a store, and *)
(* each operand of a condition is a load of its own.  The timer interrupt  *)
(* may fall between any two steps.  The interrupt handler runs with        *)
(* interrupts off: PsiSchedule is one step.                                *)
(***************************************************************************)
EXTENDS Integers, Sequences

CONSTANTS
  N,                \* the number of threads; a thread's number is its place in
                    \* PsGlobalSchedulableObjectCollection
  MaxDepth,         \* bounds how often a client nests CriticalSectionEnter
  MaxLock,          \* bounds lockCount from both sides: lost updates can let it
                    \* drift without limit if PreemptBlocking
  SleepTicks,       \* ThreadSleep's sleepLength, in timer ticks (50 in the code)
  NoThread,         \* the NULL owner
  Calls,            \* what clients call besides CriticalSectionEnter and Exit:
                    \* a subset of {"sleep", "yield", "return"}
  PreemptBlocking   \* TRUE: the timer may interrupt a thread at any step.
                    \* FALSE: not between the SpinlockExit of crit.c:68 and the
                    \* store of SCHEDULABLE_OBJECT_WAITING of sched.c:98

ASSUME ConstantsAssumption ==
  /\ N \in Nat \ {0}
  /\ MaxDepth \in Nat \ {0}
  /\ MaxLock \in Nat \ {0}
  /\ SleepTicks \in Nat
  /\ NoThread \notin 1..N
  /\ Calls \subseteq {"sleep", "yield", "return"}
  /\ PreemptBlocking \in BOOLEAN

Threads == 1..N

(* PsiInitializeIdleThread creates the idle thread before any other and    *)
(* ListEntryAdd puts each new thread at the head: idle is the last.        *)
Idle == N

VARIABLES
  state,              \* KERNEL_THREAD.state
  lockCount,          \* KERNEL_THREAD.lockCount
  isSleep,            \* KERNEL_THREAD.isSleep
  elapsed,            \* PalClock() - sleepStart, in ticks, for a sleeping thread
  current,            \* schedulableObject of the CPU's descriptor
  machine,            \* "up", "halted" by hlt with interrupts off, or "corrupt"
  accquireLock,       \* the section's spinlock
  owner,              \* the section's owner
  occupationCounter,  \* the section's occupationCounter
  locks,              \* the section's list of waiting threads
  pc,                 \* what each thread does next
  ret,                \* where ThreadLock returns to
  reg,                \* the lockCount that lockCount++ or lockCount-- loaded
  selected,           \* the thread that PsUnlockThread was called for
  depth               \* how many CriticalSectionEnter calls a client owes Exits

schedVars == <<state, lockCount, isSleep, elapsed, current>>
sectionVars == <<accquireLock, owner, occupationCounter, locks>>
localVars == <<ret, reg, selected, depth>>
vars == <<schedVars, sectionVars, localVars, machine, pc>>

READY   == "READY"
WAITING == "WAITING"
EXITED  == "EXITED"

(* Steps of CriticalSectionEnter, of CriticalSectionExit, of ThreadLock,   *)
(* of ThreadUnlock and of ThreadSleep.                                     *)
EnterLabels  == {"enter", "enterBody", "enterDone", "enqueued", "enterYield"}
ExitLabels   == {"exit", "exitSpin", "exitBody", "exitDone", "exitPass"}
LockLabels   == {"lockLoad", "lockStore", "lockTest", "lockState", "lockWait",
                 "lockYield"}
UnlockLabels == {"unlockLoad", "unlockStore", "unlockAssert", "unlockTest",
                 "unlockState", "unlockReady"}
SleepLabels  == {"sleep", "sleepFlag"}
Labels == EnterLabels \union ExitLabels \union LockLabels \union UnlockLabels
            \union SleepLabels \union {"new", "run", "assert", "bugcheck"}

(* Where PreemptBlocking = FALSE keeps the timer away. *)
BlockingLabels == LockLabels \ {"lockYield"}

Init ==
  /\ state = [t \in Threads |-> IF t = Idle THEN READY ELSE WAITING]
  /\ lockCount = [t \in Threads |-> IF t = Idle THEN 0 ELSE 1]
  /\ isSleep = [t \in Threads |-> FALSE]
  /\ elapsed = [t \in Threads |-> 0]
  /\ current = Idle
  /\ machine = "up"
  /\ accquireLock = FALSE
  /\ owner = NoThread
  /\ occupationCounter = 0
  /\ locks = <<>>
  /\ pc = [t \in Threads |-> IF t = Idle THEN "run" ELSE "new"]
  /\ ret = [t \in Threads |-> "run"]
  /\ reg = [t \in Threads |-> 0]
  /\ selected = [t \in Threads |-> NoThread]
  /\ depth = [t \in Threads |-> 0]

-----------------------------------------------------------------------------
(* The scheduler.                                                          *)

(* The thread that h calls of ListEntryNext lead to from the current one. *)
After(h) == ((current + h - 1) % N) + 1

Ready(h) == state[After(h)] = READY

(* sleepStart + sleepLength < clock; in the mutant <=. *)
DueEarly(t, sinceStart) == isSleep[t] /\ sinceStart[t] >= SleepTicks
Due(t, sinceStart) == isSleep[t] /\ sinceStart[t] > SleepTicks

(* PsiSchedule walks the ring to the first ready thread; the N-th it meets *)
(* is the current one.  The idle thread never blocks, so the walk ends.  A *)
(* sleeper that it passes and whose time is up is unlocked (ThreadUnlock,  *)
(* with interrupts off, in one step), but the walk goes on behind it.      *)
Woken(h, sinceStart) == {t \in {After(g) : g \in 1..(h - 1)} : Due(t, sinceStart)}

SwitchTo(h, sinceStart) ==
  LET woken == Woken(h, sinceStart)
  IN /\ Ready(h)
     /\ \A g \in 1..(h - 1) : ~Ready(g)
     /\ current' = After(h)
     /\ elapsed' = [t \in Threads |-> IF t \in woken THEN 0 ELSE sinceStart[t]]
     /\ isSleep' = [t \in Threads |-> isSleep[t] /\ t \notin woken]
     /\ lockCount' = [t \in Threads |-> IF t \in woken THEN lockCount[t] - 1
                                                       ELSE lockCount[t]]
     /\ state' = [t \in Threads |-> IF /\ t \in woken
                                       /\ lockCount[t] = 1
                                       /\ state[t] = WAITING
                                    THEN READY ELSE state[t]]
     /\ machine' = IF \E t \in woken : lockCount[t] < 1 THEN "halted"
                                                        ELSE machine

PsiSchedule(sinceStart) == \E h \in 1..N : SwitchTo(h, sinceStart)

(* PaliClockHandler, on the timer's interrupt: a tick of PalGlobalClock,   *)
(* then the scheduler.  After HalBugcheck's cli there are no interrupts.   *)
Sleeping(t) == isSleep[t] \/ pc[t] = "sleepFlag"

Ticked == [t \in Threads |->
             IF Sleeping(t) /\ elapsed[t] <= SleepTicks THEN elapsed[t] + 1
                                                        ELSE elapsed[t]]

PaliClockHandler ==
  /\ machine = "up"
  /\ pc[current] # "bugcheck"
  /\ PreemptBlocking \/ pc[current] \notin BlockingLabels
  /\ PsiSchedule(Ticked)
  /\ UNCHANGED <<sectionVars, localVars, pc>>

-----------------------------------------------------------------------------
(* Steps of the current thread.                                            *)

At(t, label) == /\ machine = "up"
                /\ t = current
                /\ pc[t] = label

Go(t, label) == pc' = [pc EXCEPT ![t] = label]

(* PalYieldToDispatch: the scheduler without a tick. *)
YieldTo(t, label) ==
  /\ PsiSchedule(elapsed)
  /\ Go(t, label)
  /\ UNCHANGED <<sectionVars, localVars>>

(* SpinlockEnter waits in a loop for the flag; SpinlockExit clears it.  In *)
(* the mutant the flag is set without looking at it.                       *)
SpinlockEnterBlindly(t, from, to) ==
  /\ At(t, from)
  /\ accquireLock' = TRUE
  /\ Go(t, to)
  /\ UNCHANGED <<schedVars, owner, occupationCounter, locks, localVars, machine>>

SpinlockEnter(t, from, to) ==
  /\ At(t, from)
  /\ ~accquireLock
  /\ accquireLock' = TRUE
  /\ Go(t, to)
  /\ UNCHANGED <<schedVars, owner, occupationCounter, locks, localVars, machine>>

SpinlockExit(t) ==
  /\ accquireLock' = FALSE
  /\ UNCHANGED <<schedVars, owner, occupationCounter, locks, machine>>

(* CriticalSectionEnter. *)
Enter(t) == SpinlockEnter(t, "enter", "enterBody")

(* The thread takes a free section or nests in its own; the mutant forgets *)
(* to count.                                                               *)
EnterOwnUncounted(t) ==
  /\ owner \in {t, NoThread}
  /\ owner' = t
  /\ Go(t, "enterDone")
  /\ UNCHANGED <<occupationCounter, locks, machine>>

EnterOwn(t) ==
  /\ owner \in {t, NoThread}
  /\ owner' = t
  /\ occupationCounter' = occupationCounter + 1
  /\ Go(t, "enterDone")
  /\ UNCHANGED <<locks, machine>>

(* Or it joins the list.  Its externalLock entry may be linked already, if *)
(* it went ahead without owning the section: ListEntryAddBack then breaks  *)
(* the list, and the model stops.  The mutant joins at the front, as       *)
(* ListEntryAdd would.                                                     *)
InLocks(t) == \E i \in 1..Len(locks) : locks[i] = t

EnterWaitInFront(t) ==
  /\ owner \notin {t, NoThread}
  /\ IF InLocks(t) THEN machine' = "corrupt" /\ UNCHANGED locks
                   ELSE locks' = <<t>> \o locks /\ UNCHANGED machine
  /\ Go(t, "enqueued")
  /\ UNCHANGED <<owner, occupationCounter>>

EnterWait(t) ==
  /\ owner \notin {t, NoThread}
  /\ IF InLocks(t) THEN machine' = "corrupt" /\ UNCHANGED locks
                   ELSE locks' = Append(locks, t) /\ UNCHANGED machine
  /\ Go(t, "enqueued")
  /\ UNCHANGED <<owner, occupationCounter>>

EnterBody(t) == /\ At(t, "enterBody")
                /\ EnterOwn(t) \/ EnterWait(t)
                /\ UNCHANGED <<schedVars, accquireLock, localVars>>

EnterReturns(t) ==
  /\ Go(t, "run")
  /\ depth' = [depth EXCEPT ![t] = @ + 1]
  /\ UNCHANGED <<ret, reg, selected>>

EnterDone(t) == /\ At(t, "enterDone")
                /\ SpinlockExit(t)
                /\ EnterReturns(t)

Enqueued(t) == /\ At(t, "enqueued")
               /\ SpinlockExit(t)
               /\ Go(t, "lockLoad")
               /\ ret' = [ret EXCEPT ![t] = "enterYield"]
               /\ UNCHANGED <<reg, selected, depth>>

(* The second yield, of crit.c:71: whoever comes back owns the section,    *)
(* the code takes it.                                                      *)
EnterYield(t) ==
  /\ At(t, "enterYield")
  /\ PsiSchedule(elapsed)
  /\ EnterReturns(t)
  /\ UNCHANGED sectionVars

(* CriticalSectionExit.  A caller that is not the owner is a bugcheck. *)
Exit(t) == /\ At(t, "exit")
           /\ Go(t, IF owner = t THEN "exitSpin" ELSE "bugcheck")
           /\ UNCHANGED <<schedVars, sectionVars, localVars, machine>>

ExitSpin(t) == SpinlockEnter(t, "exitSpin", "exitBody")

(* Not (owner == thread && occupationCounter - 1 > 0); the mutant compares *)
(* with 1.                                                                 *)
LastExitOffByOne(t) == owner # t \/ occupationCounter \in {1, 2}
LastExit(t) == owner # t \/ occupationCounter = 1

ExitNested(t) == /\ ~LastExit(t)
                 /\ occupationCounter' = occupationCounter - 1
                 /\ Go(t, "exitDone")
                 /\ UNCHANGED <<owner, locks, selected>>

ExitFree(t) == /\ LastExit(t)
               /\ locks = <<>>
               /\ owner' = NoThread
               /\ occupationCounter' = 0
               /\ Go(t, "exitDone")
               /\ UNCHANGED <<locks, selected>>

(* The section goes to the first of the list.  Two mutants: with a counter *)
(* of 0, and without ListEntryRemove.                                      *)
HandOver(t, next, count, rest) ==
  /\ LastExit(t)
  /\ locks # <<>>
  /\ owner' = next
  /\ occupationCounter' = count
  /\ locks' = rest
  /\ selected' = [selected EXCEPT ![t] = next]
  /\ Go(t, "exitPass")

ExitUncounted(t) == HandOver(t, Head(locks), 0, Tail(locks))
ExitKeepingEntry(t) == HandOver(t, Head(locks), 1, locks)
ExitHandOver(t) == HandOver(t, Head(locks), 1, Tail(locks))

ExitBody(t) == /\ At(t, "exitBody")
               /\ ExitNested(t) \/ ExitFree(t) \/ ExitHandOver(t)
               /\ UNCHANGED <<schedVars, accquireLock, ret, reg, depth, machine>>

ExitDone(t) == /\ At(t, "exitDone")
               /\ SpinlockExit(t)
               /\ Go(t, "run")
               /\ UNCHANGED localVars

(* The mutant forgets PsUnlockThread. *)
ExitPassSilently(t) ==
  /\ At(t, "exitPass")
  /\ SpinlockExit(t)
  /\ Go(t, "run")
  /\ selected' = [selected EXCEPT ![t] = NoThread]
  /\ UNCHANGED <<ret, reg, depth>>

ExitPass(t) == /\ At(t, "exitPass")
               /\ SpinlockExit(t)
               /\ Go(t, "unlockLoad")
               /\ UNCHANGED localVars

-----------------------------------------------------------------------------
(* ThreadLock of the running thread by itself: lockCount++; if it is 1 and *)
(* the state READY, the state is WAITING; yield.                           *)
LockLoad(t) == /\ At(t, "lockLoad")
               /\ reg' = [reg EXCEPT ![t] = lockCount[t]]
               /\ Go(t, "lockStore")
               /\ UNCHANGED <<schedVars, sectionVars, ret, selected, depth, machine>>

LockStore(t) == /\ At(t, "lockStore")
                /\ reg[t] + 1 <= MaxLock
                /\ lockCount' = [lockCount EXCEPT ![t] = reg[t] + 1]
                /\ reg' = [reg EXCEPT ![t] = 0]
                /\ Go(t, "lockTest")
                /\ UNCHANGED <<state, isSleep, elapsed, current, sectionVars,
                               ret, selected, depth, machine>>

(* The mutant tests what lockCount was. *)
LockTestTooLate(t) == /\ At(t, "lockTest")
                      /\ Go(t, IF lockCount[t] = 0 THEN "lockState" ELSE "lockYield")
                      /\ UNCHANGED <<schedVars, sectionVars, localVars, machine>>

LockTest(t) == /\ At(t, "lockTest")
               /\ Go(t, IF lockCount[t] = 1 THEN "lockState" ELSE "lockYield")
               /\ UNCHANGED <<schedVars, sectionVars, localVars, machine>>

LockState(t) == /\ At(t, "lockState")
                /\ Go(t, IF state[t] = READY THEN "lockWait" ELSE "lockYield")
                /\ UNCHANGED <<schedVars, sectionVars, localVars, machine>>

LockWait(t) == /\ At(t, "lockWait")
               /\ state' = [state EXCEPT ![t] = WAITING]
               /\ Go(t, "lockYield")
               /\ UNCHANGED <<lockCount, isSleep, elapsed, current, sectionVars,
                              localVars, machine>>

LockYield(t) == /\ At(t, "lockYield")
                /\ PsiSchedule(elapsed)
                /\ Go(t, ret[t])
                /\ ret' = [ret EXCEPT ![t] = "run"]
                /\ UNCHANGED <<sectionVars, reg, selected, depth>>

(* ThreadUnlock of selected[t]: lockCount--; assert it is not negative; if *)
(* it is 0 and the state WAITING, the state is READY.                      *)
UnlockLoad(t) == /\ At(t, "unlockLoad")
                 /\ reg' = [reg EXCEPT ![t] = lockCount[selected[t]]]
                 /\ Go(t, "unlockStore")
                 /\ UNCHANGED <<schedVars, sectionVars, ret, selected, depth, machine>>

UnlockStore(t) == /\ At(t, "unlockStore")
                  /\ reg[t] - 1 >= -MaxLock
                  /\ lockCount' = [lockCount EXCEPT ![selected[t]] = reg[t] - 1]
                  /\ reg' = [reg EXCEPT ![t] = 0]
                  /\ Go(t, "unlockAssert")
                  /\ UNCHANGED <<state, isSleep, elapsed, current, sectionVars,
                                 ret, selected, depth, machine>>

(* ThreadUnlock goes on to its next test, or returns. *)
UnlockGoes(t, on, label) ==
  /\ Go(t, IF on THEN label ELSE "run")
  /\ selected' = IF on THEN selected ELSE [selected EXCEPT ![t] = NoThread]
  /\ UNCHANGED <<schedVars, sectionVars, ret, reg, depth, machine>>

UnlockAssert(t) ==
  /\ At(t, "unlockAssert")
  /\ UnlockGoes(t, TRUE, IF lockCount[selected[t]] >= 0 THEN "unlockTest"
                                                        ELSE "assert")

UnlockTest(t) ==
  At(t, "unlockTest") /\ UnlockGoes(t, lockCount[selected[t]] = 0, "unlockState")

UnlockState(t) ==
  At(t, "unlockState") /\ UnlockGoes(t, state[selected[t]] = WAITING, "unlockReady")

UnlockReady(t) ==
  /\ At(t, "unlockReady")
  /\ state' = [state EXCEPT ![selected[t]] = READY]
  /\ selected' = [selected EXCEPT ![t] = NoThread]
  /\ Go(t, "run")
  /\ UNCHANGED <<lockCount, isSleep, elapsed, current, sectionVars, ret, reg,
                 depth, machine>>

(* ThreadSleep: sleepStart, then isSleep, then ThreadLock. *)
Sleep(t) == /\ At(t, "sleep")
            /\ elapsed' = [elapsed EXCEPT ![t] = 0]
            /\ Go(t, "sleepFlag")
            /\ UNCHANGED <<state, lockCount, isSleep, current, sectionVars,
                           localVars, machine>>

(* The mutant forgets isSleep. *)
SleepWithoutFlag(t) == /\ At(t, "sleepFlag")
                       /\ ret' = [ret EXCEPT ![t] = "run"]
                       /\ Go(t, "lockLoad")
                       /\ UNCHANGED <<schedVars, sectionVars, reg, selected, depth,
                                      machine>>

SleepFlag(t) == /\ At(t, "sleepFlag")
                /\ isSleep' = [isSleep EXCEPT ![t] = TRUE]
                /\ ret' = [ret EXCEPT ![t] = "run"]
                /\ Go(t, "lockLoad")
                /\ UNCHANGED <<state, lockCount, elapsed, current, sectionVars,
                               reg, selected, depth, machine>>

-----------------------------------------------------------------------------
(* HalAssert and HalBugcheck print, under the print lock, and halt the     *)
(* CPU.  Waiting for that lock they yield; a thread whose state is EXITED  *)
(* does not come back from it.                                             *)
Panic(t) ==
  /\ At(t, "assert") \/ At(t, "bugcheck")
  /\ \/ /\ machine' = "halted"
        /\ UNCHANGED <<schedVars, sectionVars, localVars, pc>>
     \/ YieldTo(t, pc[t])

(* What a thread's own code calls.  The idle thread starts KeEntry's and   *)
(* yields; the others use the section, sleep, start threads and return.    *)
Call(t, label) == /\ At(t, "run")
                  /\ t # Idle
                  /\ Go(t, label)
                  /\ UNCHANGED <<schedVars, sectionVars, ret, reg, selected, machine>>

CallEnter(t) == /\ Call(t, "enter")
                /\ depth[t] < MaxDepth
                /\ UNCHANGED depth

CallExit(t) == /\ Call(t, "exit")
               /\ depth[t] > 0
               /\ depth' = [depth EXCEPT ![t] = @ - 1]

CallSleep(t) == /\ "sleep" \in Calls
                /\ Call(t, "sleep")
                /\ UNCHANGED depth

CallYield(t) == /\ t = Idle \/ "yield" \in Calls
                /\ At(t, "run")
                /\ YieldTo(t, "run")

(* PsUnlockThread of a thread that was created and not yet started. *)
CallStart(t, u) ==
  /\ At(t, "run")
  /\ pc[u] = "new"
  /\ selected' = [selected EXCEPT ![t] = u]
  /\ pc' = [pc EXCEPT ![t] = "unlockLoad", ![u] = "run"]
  /\ UNCHANGED <<schedVars, sectionVars, ret, reg, depth, machine>>

(* PsiThreadPrologue, when the thread's function returns. *)
ThreadReturns(t) ==
  /\ "return" \in Calls
  /\ At(t, "run")
  /\ t # Idle
  /\ depth[t] = 0
  /\ state' = [state EXCEPT ![t] = EXITED]
  /\ Go(t, "bugcheck")
  /\ UNCHANGED <<lockCount, isSleep, elapsed, current, sectionVars, localVars, machine>>

(* The steps a thread takes inside the kernel's functions. *)
Step(t) ==
  \/ Enter(t) \/ EnterBody(t) \/ EnterDone(t) \/ Enqueued(t) \/ EnterYield(t)
  \/ Exit(t) \/ ExitSpin(t) \/ ExitBody(t) \/ ExitDone(t) \/ ExitPass(t)
  \/ LockLoad(t) \/ LockStore(t) \/ LockTest(t) \/ LockState(t) \/ LockWait(t)
  \/ LockYield(t)
  \/ UnlockLoad(t) \/ UnlockStore(t) \/ UnlockAssert(t) \/ UnlockTest(t)
  \/ UnlockState(t) \/ UnlockReady(t)
  \/ Sleep(t) \/ SleepFlag(t)
  \/ Panic(t)

Client(t) == \/ CallEnter(t) \/ CallExit(t) \/ CallSleep(t) \/ CallYield(t)
             \/ ThreadReturns(t)
             \/ \E u \in Threads : CallStart(t, u)

Next == \/ PaliClockHandler
        \/ \E t \in Threads : Step(t) \/ Client(t)

Spec == Init /\ [][Next]_vars

(* The timer goes on ticking, a thread that is scheduled again and again   *)
(* goes on executing, and a client leaves the section it entered.          *)
Fairness == /\ WF_vars(PaliClockHandler)
            /\ \A t \in Threads : /\ SF_vars(Step(t))
                                  /\ SF_vars(CallExit(t))
                                  /\ SF_vars(CallExit(t) /\ depth[t] = 1)

FairSpec == Spec /\ Fairness

-----------------------------------------------------------------------------
(* Every variable holds a value of its C type. *)
TypeOK ==
  /\ state \in [Threads -> {READY, WAITING, EXITED}]
  /\ lockCount \in [Threads -> Int]
  /\ isSleep \in [Threads -> BOOLEAN]
  /\ elapsed \in [Threads -> 0..(SleepTicks + 1)]
  /\ current \in Threads
  /\ machine \in {"up", "halted", "corrupt"}
  /\ accquireLock \in BOOLEAN
  /\ owner \in Threads \union {NoThread}
  /\ occupationCounter \in Int
  /\ locks \in Seq(Threads)
  /\ pc \in [Threads -> Labels]
  /\ ret \in [Threads -> {"run", "enterYield"}]
  /\ reg \in [Threads -> Int]
  /\ selected \in [Threads -> Threads \union {NoThread}]
  /\ depth \in [Threads -> Nat]

(* The spinlock is set exactly while some thread is between SpinlockEnter  *)
(* and SpinlockExit (crit.c), and only one is, wherever the timer stops it.*)
HoldsSpinlock(t) == pc[t] \in {"enterBody", "enterDone", "enqueued",
                                "exitBody", "exitDone", "exitPass"}

SpinlockExclusion ==
  /\ accquireLock <=> \E t \in Threads : HoldsSpinlock(t)
  /\ \A t, u \in Threads : HoldsSpinlock(t) /\ HoldsSpinlock(u) => t = u

(* The owner, the counter and the list of CRITICAL_SECTION agree: nobody   *)
(* waits for a free section, nobody waits twice, the owner does not wait.  *)
SectionConsistent ==
  /\ owner = NoThread <=> occupationCounter = 0
  /\ owner = NoThread => locks = <<>>
  /\ \A i, j \in 1..Len(locks) : locks[i] = locks[j] => i = j
  /\ ~InLocks(owner)

(* At most one thread is between a CriticalSectionEnter that returned and  *)
(* the CriticalSectionExit that ends it.                                   *)
MutualExclusion ==
  \A t, u \in Threads : depth[t] > 0 /\ depth[u] > 0 => t = u

(* occupationCounter counts the Enters of the owner without an Exit,       *)
(* whether it took the section itself or was handed it.                    *)
Owes(t) == \/ pc[t] \in {"enterDone", "enterYield", "exit", "exitSpin", "exitBody"}
           \/ pc[t] = "lockYield" /\ ret[t] = "enterYield"

NestingMatches ==
  owner # NoThread =>
    occupationCounter = depth[owner] + (IF Owes(owner) THEN 1 ELSE 0)

(* A thread that is not ready has somebody who will make it so: it is in   *)
(* the list of a section, it sleeps, it was not started, or a thread is on *)
(* its way to PsUnlockThread it.                                           *)
NoLostWakeup ==
  \A t \in Threads :
    state[t] = WAITING => \/ InLocks(t)
                          \/ isSleep[t]
                          \/ pc[t] = "new"
                          \/ \E u \in Threads : selected[u] = t

(* A sleeping thread is made ready only by the clock, when its time is up. *)
AsleepUntilDue ==
  [][\A t \in Threads :
       isSleep[t] /\ state[t] = WAITING /\ state'[t] = READY
         => elapsed[t] >= SleepTicks]_vars

(* The section as its clients see it. *)
MonitorOf == INSTANCE Monitor
               WITH holder <- owner, count <- occupationCounter, line <- locks,
                    inside <- {t \in Threads : depth[t] > 0}

ImplementsMonitor == MonitorOf!Spec

(* Ownership alone, whatever the threads then do with it: the section goes *)
(* from owner to owner in the order of arrival.                            *)
OwnershipOf == INSTANCE Monitor
                 WITH holder <- owner, count <- occupationCounter,
                      line <- locks, inside <- {}

OwnershipIsFifo == OwnershipOf!Spec

(* A thread that joined the list enters the section, unless the machine    *)
(* halts first; a thread that went to sleep wakes.                         *)
WaiterProceeds ==
  \A t \in Threads : pc[t] = "enqueued" ~> depth[t] > 0 \/ machine # "up"

SleeperWakes ==
  \A t \in Threads :
    pc[t] = "sleepFlag" ~> (pc[t] = "run" /\ state[t] = READY) \/ machine # "up"

(* INU_ASSERT(self->lockCount >= 0) of ThreadUnlock (sched.c:67). *)
LockCountAssertion == \A t \in Threads : pc[t] # "assert"

(* The check of CriticalSectionExit: a thread that leaves the section it   *)
(* entered owns it ("Bad critical section exit!", crit.c:83).              *)
ExitByOwner == \A t \in Threads : pc[t] = "exit" => owner = t
=============================================================================
