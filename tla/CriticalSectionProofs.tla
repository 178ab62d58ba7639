----------------------- MODULE CriticalSectionProofs -----------------------
(***************************************************************************)
(* What holds of CriticalSection.tla for every number of threads, every    *)
(* bound, and wherever the timer interrupts: types, the spinlock, the      *)
(* agreement of owner, counter and list, and ownership that passes in the  *)
(* order of arrival.  That a thread that proceeds is the owner holds only  *)
(* if the timer does not interrupt a thread on its way to sleep            *)
(* (~PreemptBlocking): the second half.                                    *)
(***************************************************************************)
EXTENDS CriticalSection, SequenceTheorems, TLAPS

(* A walk along the ring leads to a thread.                                *)
LEMMA AfterIsThread ==
  ASSUME current \in Threads, NEW h \in 1..N
  PROVE  After(h) \in Threads
<1>1. N \in Nat \ {0}
  BY ConstantsAssumption
<1>2. current + h - 1 \in Int
  BY <1>1 DEF Threads
<1>3. (current + h - 1) % N \in 0..(N - 1)
  BY <1>1, <1>2
<1> QED
  BY <1>1, <1>3 DEF After, Threads

(* PsiSchedule keeps the types of the scheduling variables and, as it      *)
(* selects a thread, leaves a thread current.                              *)
LEMMA ScheduleTypes ==
  ASSUME TypeOK, NEW sinceStart \in [Threads -> 0..(SleepTicks + 1)],
         PsiSchedule(sinceStart)
  PROVE  /\ state' \in [Threads -> {READY, WAITING, EXITED}]
         /\ lockCount' \in [Threads -> Int]
         /\ isSleep' \in [Threads -> BOOLEAN]
         /\ elapsed' \in [Threads -> 0..(SleepTicks + 1)]
         /\ current' \in Threads
         /\ machine' \in {"up", "halted", "corrupt"}
<1>1. PICK h \in 1..N : SwitchTo(h, sinceStart)
  BY DEF PsiSchedule
<1>2. SleepTicks \in Nat
  BY ConstantsAssumption
<1>3. current' \in Threads
  BY <1>1, AfterIsThread DEF TypeOK, SwitchTo
<1>4. elapsed' \in [Threads -> 0..(SleepTicks + 1)]
  BY <1>1, <1>2 DEF SwitchTo
<1>5. lockCount' \in [Threads -> Int]
  BY <1>1 DEF SwitchTo, TypeOK
<1>8. state' \in [Threads -> {READY, WAITING, EXITED}]
  BY <1>1 DEF SwitchTo, TypeOK
<1>6. isSleep' \in [Threads -> BOOLEAN]
  BY <1>1 DEF SwitchTo, TypeOK
<1>7. machine' \in {"up", "halted", "corrupt"}
  BY <1>1 DEF SwitchTo, TypeOK
<1> QED BY <1>3, <1>4, <1>5, <1>6, <1>7, <1>8
(* The type invariant is not inductive alone: ThreadUnlock reads the lock   *)
(* count of selected[t], which must be a thread by then.                    *)
UnlockHasTarget ==
  \A t \in Threads :
    pc[t] \in UnlockLabels \union {"exitPass"} => selected[t] \in Threads

TypeInv == TypeOK /\ UnlockHasTarget

(* Initially every variable has its type and nobody unlocks.               *)
LEMMA TypeInit == Init => TypeInv
<1> SUFFICES ASSUME Init PROVE TypeInv
  OBVIOUS
<1>1. N \in Threads /\ SleepTicks \in Nat
  BY ConstantsAssumption DEF Threads
<1>2. 0 \in 0..(SleepTicks + 1)
  BY <1>1
<1>3. pc \in [Threads -> Labels]
  BY DEF Init, Labels
<1>4. locks \in Seq(Threads)
  BY DEF Init
<1>5. /\ elapsed \in [Threads -> 0..(SleepTicks + 1)]
      /\ state \in [Threads -> {READY, WAITING, EXITED}]
      /\ lockCount \in [Threads -> Int]
      /\ isSleep \in [Threads -> BOOLEAN]
      /\ ret \in [Threads -> {"run", "enterYield"}]
      /\ reg \in [Threads -> Int]
      /\ selected \in [Threads -> Threads \union {NoThread}]
      /\ depth \in [Threads -> Nat]
  BY <1>2 DEF Init
<1>6. /\ current \in Threads
      /\ machine \in {"up", "halted", "corrupt"}
      /\ owner \in Threads \union {NoThread}
      /\ occupationCounter \in Int
  BY <1>1 DEF Init, Idle
<1>7. UnlockHasTarget
  BY DEF Init, UnlockHasTarget, UnlockLabels
<1>8. accquireLock \in BOOLEAN
  BY DEF Init
<1> QED
  BY <1>3, <1>4, <1>5, <1>6, <1>7, <1>8 DEF TypeInv, TypeOK

(* Every step keeps the types; a thread inside ThreadUnlock has a thread to *)
(* unlock.                                                                 *)
LEMMA TypeStep == TypeInv /\ [Next]_vars => TypeInv'
<1> SUFFICES ASSUME TypeInv, [Next]_vars PROVE TypeInv'
  OBVIOUS
<1> USE DEF TypeInv, TypeOK, UnlockHasTarget, schedVars, sectionVars, localVars,
            Labels, EnterLabels, ExitLabels, LockLabels, UnlockLabels, SleepLabels
<1>1. CASE PaliClockHandler
  <2>1. Ticked \in [Threads -> 0..(SleepTicks + 1)]
    <3>1. SleepTicks \in Nat
      BY ConstantsAssumption
    <3>2. \A x \in 0..(SleepTicks + 1) : x <= SleepTicks => x + 1 \in 0..(SleepTicks + 1)
      BY <3>1
    <3> QED
      BY <3>2 DEF Ticked
  <2> QED
    BY <1>1, <2>1, ScheduleTypes DEF PaliClockHandler
<1>2. ASSUME NEW t \in Threads, Step(t) PROVE TypeInv'
  <2>1. CASE Enter(t)
    BY <2>1 DEF Enter, SpinlockEnter, At, Go
  <2>2. CASE EnterBody(t)
    <3>1. CASE EnterOwn(t)
      BY <2>2, <3>1 DEF EnterBody, EnterOwn, Go
    <3>2. CASE EnterWait(t)
      <4>1. Append(locks, t) \in Seq(Threads)
        BY AppendProperties
      <4>2. locks' \in Seq(Threads)
        BY <3>2, <4>1, Zenon DEF EnterWait
      <4>3. machine' \in {"up", "halted", "corrupt"}
        BY <3>2 DEF EnterWait
      <4> QED
        BY <2>2, <3>2, <4>2, <4>3 DEF EnterBody, EnterWait, Go
    <3> QED
      BY <2>2, <3>1, <3>2 DEF EnterBody
  <2>3. CASE EnterDone(t)
    <3>1. depth' \in [Threads -> Nat]
      BY <2>3 DEF EnterDone, EnterReturns
    <3> QED
      BY <2>3, <3>1 DEF EnterDone, SpinlockExit, EnterReturns, Go
  <2>4. CASE Enqueued(t)
    BY <2>4 DEF Enqueued, SpinlockExit, At, Go
  <2>5. CASE EnterYield(t)
    <3>1. depth' \in [Threads -> Nat]
      BY SMTT(30), <2>5 DEF EnterYield, EnterReturns
    <3>2. PsiSchedule(elapsed)
      BY <2>5 DEF EnterYield
    <3> QED
      BY <2>5, <3>1, <3>2, ScheduleTypes DEF EnterYield, EnterReturns, Go
  <2>6. CASE Exit(t)
    BY <2>6 DEF Exit, At, Go
  <2>7. CASE ExitSpin(t)
    BY <2>7 DEF ExitSpin, SpinlockEnter, At, Go
  <2>8. CASE ExitBody(t)
    <3>1. CASE ExitNested(t)
      BY SMTT(30), <2>8, <3>1 DEF ExitBody, ExitNested, Go
    <3>2. CASE ExitFree(t)
      BY <2>8, <3>2 DEF ExitBody, ExitFree, Go
    <3>3. CASE ExitHandOver(t)
      <4>1. Head(locks) \in Threads /\ Tail(locks) \in Seq(Threads)
        BY <3>3 DEF ExitHandOver, HandOver
      <4> QED
        <5>1. owner' \in Threads /\ selected' \in [Threads -> Threads \union {NoThread}]
          BY <2>8, <3>3, <4>1 DEF ExitHandOver, HandOver
        <5>2. pc' \in [Threads -> Labels] /\ UnlockHasTarget'
          BY <2>8, <3>3, <4>1 DEF ExitHandOver, HandOver, Go
        <5>3. locks' \in Seq(Threads) /\ occupationCounter' \in Int
          BY <3>3, <4>1 DEF ExitHandOver, HandOver
        <5> QED
          BY <2>8, <5>1, <5>2, <5>3 DEF ExitBody
    <3> QED
      BY <2>8, <3>1, <3>2, <3>3 DEF ExitBody
  <2>9. CASE ExitDone(t)
    BY <2>9 DEF ExitDone, SpinlockExit, At, Go
  <2>10. CASE ExitPass(t)
    BY <2>10 DEF ExitPass, SpinlockExit, At, Go
  <2>11. CASE LockLoad(t)
    BY <2>11 DEF LockLoad, At, Go
  <2>12. CASE LockStore(t)
    BY <2>12 DEF LockStore, At, Go
  <2>13. CASE LockTest(t)
    BY <2>13 DEF LockTest, At, Go
  <2>14. CASE LockState(t)
    BY <2>14 DEF LockState, At, Go
  <2>15. CASE LockWait(t)
    BY <2>15 DEF LockWait, At, Go
  <2>16. CASE LockYield(t)
    BY <2>16, ScheduleTypes DEF LockYield, At, Go
  <2>17. CASE UnlockLoad(t)
    BY <2>17 DEF UnlockLoad, At, Go
  <2>18. CASE UnlockStore(t)
    <3>1. selected[t] \in Threads
      BY <2>18 DEF UnlockStore, At
    <3>2. lockCount' \in [Threads -> Int]
      <4>1. reg[t] - 1 \in Int /\ lockCount \in [Threads -> Int]
        OBVIOUS
      <4>2. lockCount' = [lockCount EXCEPT ![selected[t]] = reg[t] - 1]
        BY <2>18, Zenon DEF UnlockStore
      <4> QED
        BY <3>1, <4>1, <4>2, Zenon
    <3>3. reg' \in [Threads -> Int]
      BY <2>18 DEF UnlockStore
    <3>4. pc' \in [Threads -> Labels] /\ UnlockHasTarget'
      BY <2>18, <3>1 DEF UnlockStore, At, Go
    <3> QED
      BY <2>18, <3>2, <3>3, <3>4 DEF UnlockStore
  <2>19. CASE UnlockAssert(t)
    BY <2>19 DEF UnlockAssert, UnlockGoes, At, Go
  <2>20. CASE UnlockTest(t)
    BY <2>20 DEF UnlockTest, UnlockGoes, At, Go
  <2>21. CASE UnlockState(t)
    BY <2>21 DEF UnlockState, UnlockGoes, At, Go
  <2>22. CASE UnlockReady(t)
    BY <2>22 DEF UnlockReady, At, Go
  <2>23. CASE Sleep(t)
    <3>1. 0 \in 0..(SleepTicks + 1)
      BY ConstantsAssumption
    <3> QED
      BY <2>23, <3>1 DEF Sleep, Go
  <2>24. CASE SleepFlag(t)
    BY <2>24 DEF SleepFlag, At, Go
  <2>25. CASE Panic(t)
    BY <2>25, ScheduleTypes DEF Panic, YieldTo, At, Go
  <2> QED
    BY <1>2, <2>1, <2>2, <2>3, <2>4, <2>5, <2>6, <2>7, <2>8, <2>9, <2>10, <2>11, <2>12, <2>13, <2>14, <2>15, <2>16, <2>17, <2>18, <2>19, <2>20, <2>21, <2>22, <2>23, <2>24, <2>25 DEF Step
<1>3. ASSUME NEW t \in Threads, Client(t) PROVE TypeInv'
  <2>1. CASE CallEnter(t)
    BY <2>1 DEF CallEnter, Call, At, Go
  <2>2. CASE CallExit(t)
    BY <2>2 DEF CallExit, Call, At, Go
  <2>3. CASE CallSleep(t)
    BY <2>3 DEF CallSleep, Call, At, Go
  <2>4. CASE CallYield(t)
    BY <2>4, ScheduleTypes DEF CallYield, YieldTo, At, Go
  <2>5. CASE ThreadReturns(t)
    BY <2>5 DEF ThreadReturns, At, Go
  <2>6. CASE \E u \in Threads : CallStart(t, u)
    <3> PICK u \in Threads : CallStart(t, u)
      BY <2>6
    <3>1. pc' \in [Threads -> Labels] /\ selected' \in [Threads -> Threads \union {NoThread}]
      BY DEF CallStart
    <3>2. UnlockHasTarget'
      BY DEF CallStart
    <3> QED
      BY <3>1, <3>2 DEF CallStart
  <2> QED
    BY <1>3, <2>1, <2>2, <2>3, <2>4, <2>5, <2>6 DEF Client
<1>4. CASE UNCHANGED vars
  BY <1>4 DEF vars
<1> QED
  BY <1>1, <1>2, <1>3, <1>4 DEF Next

(* In every behaviour, whatever the timer interrupts, the variables of the *)
(* kernel hold values of their types.                                      *)
THEOREM TypeCorrect == Spec => []TypeOK
<1>1. TypeInv => TypeOK
  BY DEF TypeInv
<1> QED
  BY <1>1, TypeInit, TypeStep, PTL DEF Spec

-----------------------------------------------------------------------------
(* The spinlock.                                                            *)
(* Every step keeps the flag of the spinlock in agreement with where the   *)
(* threads are.                                                            *)
LEMMA SpinlockStep == TypeInv /\ SpinlockExclusion /\ [Next]_vars => SpinlockExclusion'
<1> SUFFICES ASSUME TypeInv, SpinlockExclusion, [Next]_vars PROVE SpinlockExclusion'
  OBVIOUS
<1> USE DEF TypeInv, TypeOK, SpinlockExclusion, HoldsSpinlock, schedVars, sectionVars, localVars
<1>1. CASE PaliClockHandler
  BY <1>1 DEF PaliClockHandler
<1>2. ASSUME NEW t \in Threads, Step(t) PROVE SpinlockExclusion'
  <2>1. CASE Enter(t)
    BY <2>1 DEF Enter, SpinlockEnter, At, Go
  <2>2. CASE EnterBody(t)
    <3>1. pc' = [pc EXCEPT ![t] = "enterDone"] \/ pc' = [pc EXCEPT ![t] = "enqueued"]
      BY <2>2 DEF EnterBody, EnterOwn, EnterWait, Go
    <3>2. \A u \in Threads : HoldsSpinlock(u)' <=> HoldsSpinlock(u)
      BY <2>2, <3>1 DEF EnterBody, At
    <3> QED
      BY <2>2, <3>2 DEF EnterBody
  <2>3. CASE EnterDone(t)
    BY <2>3 DEF EnterDone, SpinlockExit, EnterReturns, At, Go
  <2>4. CASE Enqueued(t)
    BY <2>4 DEF Enqueued, SpinlockExit, At, Go
  <2>5. CASE EnterYield(t)
    BY <2>5 DEF EnterYield, EnterReturns, At, Go
  <2>6. CASE Exit(t)
    BY <2>6 DEF Exit, At, Go
  <2>7. CASE ExitSpin(t)
    BY <2>7 DEF ExitSpin, SpinlockEnter, At, Go
  <2>8. CASE ExitBody(t)
    <3>1. pc' = [pc EXCEPT ![t] = "exitDone"] \/ pc' = [pc EXCEPT ![t] = "exitPass"]
      BY <2>8 DEF ExitBody, ExitNested, ExitFree, ExitHandOver, HandOver, Go
    <3>2. \A u \in Threads : HoldsSpinlock(u)' <=> HoldsSpinlock(u)
      BY <2>8, <3>1 DEF ExitBody, At
    <3> QED
      BY <2>8, <3>2 DEF ExitBody
  <2>9. CASE ExitDone(t)
    BY <2>9 DEF ExitDone, SpinlockExit, At, Go
  <2>10. CASE ExitPass(t)
    BY <2>10 DEF ExitPass, SpinlockExit, At, Go
  <2>11. CASE LockLoad(t)
    BY <2>11 DEF LockLoad, At, Go
  <2>12. CASE LockStore(t)
    BY <2>12 DEF LockStore, At, Go
  <2>13. CASE LockTest(t)
    BY <2>13 DEF LockTest, At, Go
  <2>14. CASE LockState(t)
    BY <2>14 DEF LockState, At, Go
  <2>15. CASE LockWait(t)
    BY <2>15 DEF LockWait, At, Go
  <2>16. CASE LockYield(t)
    BY <2>16 DEF LockYield, At, Go
  <2>17. CASE UnlockLoad(t)
    BY <2>17 DEF UnlockLoad, At, Go
  <2>18. CASE UnlockStore(t)
    BY <2>18 DEF UnlockStore, At, Go
  <2>19. CASE UnlockAssert(t)
    BY <2>19 DEF UnlockAssert, UnlockGoes, At, Go
  <2>20. CASE UnlockTest(t)
    BY <2>20 DEF UnlockTest, UnlockGoes, At, Go
  <2>21. CASE UnlockState(t)
    BY <2>21 DEF UnlockState, UnlockGoes, At, Go
  <2>22. CASE UnlockReady(t)
    BY <2>22 DEF UnlockReady, At, Go
  <2>23. CASE Sleep(t)
    BY <2>23 DEF Sleep, At, Go
  <2>24. CASE SleepFlag(t)
    BY <2>24 DEF SleepFlag, At, Go
  <2>25. CASE Panic(t)
    <3>1. pc' = pc /\ accquireLock' = accquireLock
      BY <2>25 DEF Panic, YieldTo, At, Go
    <3> QED
      BY <3>1
  <2> QED
    BY <1>2, <2>1, <2>2, <2>3, <2>4, <2>5, <2>6, <2>7, <2>8, <2>9, <2>10, <2>11, <2>12, <2>13, <2>14, <2>15, <2>16, <2>17, <2>18, <2>19, <2>20, <2>21, <2>22, <2>23, <2>24, <2>25 DEF Step
<1>3. ASSUME NEW t \in Threads, Client(t) PROVE SpinlockExclusion'
  <2>1. CASE CallEnter(t)
    BY <2>1 DEF CallEnter, Call, At, Go
  <2>2. CASE CallExit(t)
    BY <2>2 DEF CallExit, Call, At, Go
  <2>3. CASE CallSleep(t)
    BY <2>3 DEF CallSleep, Call, At, Go
  <2>4. CASE CallYield(t)
    BY <2>4 DEF CallYield, YieldTo, At, Go
  <2>5. CASE ThreadReturns(t)
    BY <2>5 DEF ThreadReturns, At, Go
  <2>6. CASE \E u \in Threads : CallStart(t, u)
    <3> PICK u \in Threads : CallStart(t, u)
      BY <2>6
    <3>1. \A x \in Threads : HoldsSpinlock(x)' <=> HoldsSpinlock(x)
      BY DEF CallStart, At
    <3>2. accquireLock' = accquireLock
      BY DEF CallStart
    <3> QED
      BY <3>1, <3>2
  <2> QED
    BY <1>3, <2>1, <2>2, <2>3, <2>4, <2>5, <2>6 DEF Client
<1>4. CASE UNCHANGED vars
  BY <1>4 DEF vars
<1> QED
  BY <1>1, <1>2, <1>3, <1>4 DEF Next

(* The spinlock is free at first.                                          *)
LEMMA SpinlockInit == Init => SpinlockExclusion
BY DEF Init, SpinlockExclusion, HoldsSpinlock

(* The spinlock of a section admits one thread at a time and is free when   *)
(* nobody is inside, wherever the timer interrupts.                         *)
THEOREM SpinlockIsExclusive == Spec => []SpinlockExclusion
<1>1. TypeInv /\ SpinlockExclusion /\ [Next]_vars => (TypeInv /\ SpinlockExclusion)'
  BY TypeStep, SpinlockStep
<1> QED
  BY <1>1, TypeInit, SpinlockInit, PTL DEF Spec

-----------------------------------------------------------------------------
(* The section: owner, occupationCounter and locks.                         *)

(* Only a thread that has just found itself the owner takes the spinlock in *)
(* CriticalSectionExit, and nobody else then changes the owner.             *)
ExitersOwn == \A t \in Threads : pc[t] \in {"exitSpin", "exitBody"} => owner = t

SectionInv == /\ SectionConsistent
              /\ occupationCounter \in Nat
              /\ ExitersOwn

DistinctLocks == \A i, j \in 1..Len(locks) : locks[i] = locks[j] => i = j

(* ListEntryAddBack of a thread that is not linked keeps the entries       *)
(* distinct.                                                               *)
LEMMA JoinLocks ==
  ASSUME locks \in Seq(Threads), DistinctLocks, NEW t \in Threads, ~InLocks(t),
         locks' = Append(locks, t)
  PROVE  /\ DistinctLocks'
         /\ \A x : InLocks(x)' <=> InLocks(x) \/ x = t
<1>1. /\ Len(locks) \in Nat
      /\ Len(locks') = Len(locks) + 1
      /\ \A i \in 1..Len(locks) : locks'[i] = locks[i]
      /\ locks'[Len(locks) + 1] = t
  BY AppendProperties
<1>2. \A i \in 1..Len(locks') : i \in 1..Len(locks) \/ i = Len(locks) + 1
  BY <1>1
<1>3. 1..Len(locks) \subseteq 1..Len(locks') /\ Len(locks) + 1 \in 1..Len(locks')
  BY <1>1
<1>4. DistinctLocks'
  BY <1>1, <1>2 DEF DistinctLocks, InLocks
<1>5. ASSUME NEW x PROVE InLocks(x)' <=> InLocks(x) \/ x = t
  BY <1>1, <1>2, <1>3 DEF InLocks
<1> QED
  BY <1>4, <1>5

(* ListEntryRemove of the first entry leaves distinct entries, and not the *)
(* one removed.                                                            *)
LEMMA LeaveLocks ==
  ASSUME locks \in Seq(Threads), DistinctLocks, locks # <<>>,
         locks' = Tail(locks)
  PROVE  /\ DistinctLocks'
         /\ InLocks(Head(locks))
         /\ \A x : InLocks(x)' <=> InLocks(x) /\ x # Head(locks)
<1>1. /\ Len(locks) \in Nat \ {0}
      /\ Head(locks) = locks[1]
      /\ Len(locks') = Len(locks) - 1
      /\ \A i \in 1..Len(locks') : locks'[i] = locks[i + 1]
  BY HeadTailProperties, EmptySeq
<1>2. \A i \in 1..Len(locks') : i + 1 \in 1..Len(locks) /\ i + 1 # 1
  BY <1>1
<1>3. \A i \in 1..Len(locks) : i = 1 \/ (i - 1 \in 1..Len(locks') /\ (i - 1) + 1 = i)
  BY <1>1
<1>4. DistinctLocks'
  BY <1>1, <1>2 DEF DistinctLocks
<1>5. InLocks(Head(locks))
  BY <1>1 DEF InLocks
<1>6. ASSUME NEW x PROVE InLocks(x)' <=> InLocks(x) /\ x # Head(locks)
  <2>1. InLocks(x)' => InLocks(x) /\ x # Head(locks)
    BY <1>1, <1>2 DEF InLocks, DistinctLocks
  <2>2. InLocks(x) /\ x # Head(locks) => InLocks(x)'
    BY SMTT(30), <1>1, <1>3 DEF InLocks
  <2> QED
    BY <2>1, <2>2
<1> QED
  BY <1>4, <1>5, <1>6

(* Every step but the bodies of Enter and Exit leaves the section alone.    *)
SectionUntouched ==
  /\ UNCHANGED <<owner, occupationCounter, locks>>
  /\ \A x \in Threads : pc'[x] \in {"exitSpin", "exitBody"} =>
       pc[x] \in {"exitSpin", "exitBody"} \/ owner = x

(* Only the bodies of CriticalSectionEnter and CriticalSectionExit, which  *)
(* run under the spinlock, change owner, counter and list.                 *)
LEMMA SectionSteps ==
  ASSUME TypeInv, [Next]_vars
  PROVE  SectionUntouched \/ \E t \in Threads : EnterBody(t) \/ ExitBody(t)
<1> USE DEF TypeInv, TypeOK, SectionUntouched, schedVars, sectionVars, localVars
<1>1. CASE PaliClockHandler
  BY <1>1 DEF PaliClockHandler
<1>2. ASSUME NEW t \in Threads, Step(t)
       PROVE SectionUntouched \/ \E u \in Threads : EnterBody(u) \/ ExitBody(u)
  <2>1. CASE Enter(t)
    BY <2>1 DEF Enter, SpinlockEnter, At, Go
  <2>2. CASE EnterBody(t)
    BY <2>2
  <2>3. CASE EnterDone(t)
    BY <2>3 DEF EnterDone, SpinlockExit, EnterReturns, At, Go
  <2>4. CASE Enqueued(t)
    BY <2>4 DEF Enqueued, SpinlockExit, At, Go
  <2>5. CASE EnterYield(t)
    BY <2>5 DEF EnterYield, EnterReturns, At, Go
  <2>6. CASE Exit(t)
    BY <2>6 DEF Exit, At, Go
  <2>7. CASE ExitSpin(t)
    BY <2>7 DEF ExitSpin, SpinlockEnter, At, Go
  <2>8. CASE ExitBody(t)
    BY <2>8
  <2>9. CASE ExitDone(t)
    BY <2>9 DEF ExitDone, SpinlockExit, At, Go
  <2>10. CASE ExitPass(t)
    BY <2>10 DEF ExitPass, SpinlockExit, At, Go
  <2>11. CASE LockLoad(t)
    BY <2>11 DEF LockLoad, At, Go
  <2>12. CASE LockStore(t)
    BY <2>12 DEF LockStore, At, Go
  <2>13. CASE LockTest(t)
    BY <2>13 DEF LockTest, At, Go
  <2>14. CASE LockState(t)
    BY <2>14 DEF LockState, At, Go
  <2>15. CASE LockWait(t)
    BY <2>15 DEF LockWait, At, Go
  <2>16. CASE LockYield(t)
    BY <2>16 DEF LockYield, At, Go
  <2>17. CASE UnlockLoad(t)
    BY <2>17 DEF UnlockLoad, At, Go
  <2>18. CASE UnlockStore(t)
    BY <2>18 DEF UnlockStore, At, Go
  <2>19. CASE UnlockAssert(t)
    BY <2>19 DEF UnlockAssert, UnlockGoes, At, Go
  <2>20. CASE UnlockTest(t)
    BY <2>20 DEF UnlockTest, UnlockGoes, At, Go
  <2>21. CASE UnlockState(t)
    BY <2>21 DEF UnlockState, UnlockGoes, At, Go
  <2>22. CASE UnlockReady(t)
    BY <2>22 DEF UnlockReady, At, Go
  <2>23. CASE Sleep(t)
    BY <2>23 DEF Sleep, At, Go
  <2>24. CASE SleepFlag(t)
    BY <2>24 DEF SleepFlag, At, Go
  <2>25. CASE Panic(t)
    BY <2>25 DEF Panic, YieldTo, At, Go
  <2> QED
    BY <1>2, <2>1, <2>2, <2>3, <2>4, <2>5, <2>6, <2>7, <2>8, <2>9, <2>10, <2>11, <2>12, <2>13, <2>14, <2>15, <2>16, <2>17, <2>18, <2>19, <2>20, <2>21, <2>22, <2>23, <2>24, <2>25 DEF Step
<1>3. ASSUME NEW t \in Threads, Client(t)
       PROVE SectionUntouched \/ \E u \in Threads : EnterBody(u) \/ ExitBody(u)
  <2>1. CASE CallEnter(t)
    BY <2>1 DEF CallEnter, Call, At, Go
  <2>2. CASE CallExit(t)
    BY <2>2 DEF CallExit, Call, At, Go
  <2>3. CASE CallSleep(t)
    BY <2>3 DEF CallSleep, Call, At, Go
  <2>4. CASE CallYield(t)
    BY <2>4 DEF CallYield, YieldTo, At, Go
  <2>5. CASE ThreadReturns(t)
    BY <2>5 DEF ThreadReturns, At, Go
  <2>6. CASE \E u \in Threads : CallStart(t, u)
    BY <2>6 DEF CallStart, At
  <2> QED
    BY <1>3, <2>1, <2>2, <2>3, <2>4, <2>5, <2>6 DEF Client
<1>4. CASE UNCHANGED vars
  BY <1>4 DEF vars
<1> QED
  BY <1>1, <1>2, <1>3, <1>4 DEF Next

(* Every step keeps owner, counter and list in agreement.                  *)
LEMMA SectionStep == TypeInv /\ SectionInv /\ [Next]_vars => SectionInv'
<1> SUFFICES ASSUME TypeInv, SectionInv, [Next]_vars PROVE SectionInv'
  OBVIOUS
<1> USE DEF TypeInv, TypeOK
<1>0. /\ owner = NoThread <=> occupationCounter = 0
      /\ owner = NoThread => locks = <<>>
      /\ DistinctLocks
      /\ ~InLocks(owner)
      /\ occupationCounter \in Nat
      /\ ExitersOwn
  BY DEF SectionInv, SectionConsistent, DistinctLocks
<1>1. (/\ owner' = NoThread <=> occupationCounter' = 0
       /\ owner' = NoThread => locks' = <<>>
       /\ DistinctLocks'
       /\ ~InLocks(owner)'
       /\ occupationCounter' \in Nat
       /\ ExitersOwn') => SectionInv'
  BY DEF SectionInv, SectionConsistent, DistinctLocks
<1>2. CASE SectionUntouched
  <2>1. DistinctLocks' /\ ~InLocks(owner)'
    BY <1>0, <1>2 DEF SectionUntouched, DistinctLocks, InLocks
  <2>2. ExitersOwn'
    BY <1>0, <1>2 DEF SectionUntouched, ExitersOwn
  <2> QED
    BY <1>0, <1>1, <1>2, <2>1, <2>2 DEF SectionUntouched
<1>3. ASSUME NEW t \in Threads, EnterBody(t) PROVE SectionInv'
  <2>0. pc[t] = "enterBody" /\ t # NoThread
    BY <1>3, ConstantsAssumption DEF EnterBody, At, Threads
  <2>1. CASE EnterOwn(t)
    <3>1. /\ owner' = t
          /\ occupationCounter' = occupationCounter + 1
          /\ locks' = locks
          /\ owner \in {t, NoThread}
          /\ pc' = [pc EXCEPT ![t] = "enterDone"]
      BY <2>1 DEF EnterOwn, Go
    <3>2. ~InLocks(t)
      <4>1. CASE owner = t
        BY <1>0, <4>1 DEF InLocks
      <4>2. CASE owner = NoThread
        BY <1>0, <4>2 DEF InLocks
      <4> QED
        BY <3>1, <4>1, <4>2
    <3>3. DistinctLocks' /\ ~InLocks(owner)'
      BY <1>0, <3>1, <3>2 DEF DistinctLocks, InLocks
    <3>4. ExitersOwn'
      <4> SUFFICES ASSUME NEW x \in Threads, pc'[x] \in {"exitSpin", "exitBody"}
                   PROVE  owner' = x
        BY DEF ExitersOwn
      <4>1. pc[x] \in {"exitSpin", "exitBody"}
        BY <3>1
      <4>2. owner = x /\ x # NoThread
        BY <1>0, <4>1, ConstantsAssumption DEF ExitersOwn, Threads
      <4> QED
        BY <3>1, <4>2
    <3> QED
      BY <1>0, <1>1, <2>0, <3>1, <3>3, <3>4
  <2>2. CASE EnterWait(t)
    <3>1. /\ owner' = owner
          /\ occupationCounter' = occupationCounter
          /\ owner \notin {t, NoThread}
          /\ pc' = [pc EXCEPT ![t] = "enqueued"]
      BY <2>2 DEF EnterWait, Go
    <3>2. ExitersOwn'
      BY <1>0, <3>1 DEF ExitersOwn
    <3>3. CASE locks' = locks
      <4>1. DistinctLocks' /\ ~InLocks(owner)'
        BY <1>0, <3>1, <3>3 DEF DistinctLocks, InLocks
      <4> QED
        BY <1>0, <1>1, <3>1, <3>2, <4>1
    <3>4. CASE locks' = Append(locks, t) /\ ~InLocks(t)
      <4>1. DistinctLocks' /\ ~InLocks(owner)'
        BY <1>0, <3>1, <3>4, JoinLocks DEF InLocks
      <4> QED
        BY <1>0, <1>1, <3>1, <3>2, <4>1
    <3> QED
      BY <2>2, <3>3, <3>4 DEF EnterWait
  <2> QED
    BY <1>3, <2>1, <2>2 DEF EnterBody
<1>4. ASSUME NEW t \in Threads, ExitBody(t) PROVE SectionInv'
  <2>0. pc[t] = "exitBody" /\ owner = t /\ t # NoThread
    BY <1>0, <1>4, ConstantsAssumption DEF ExitBody, At, Threads, ExitersOwn
  <2>1. CASE ExitNested(t)
    <3>1. /\ UNCHANGED <<owner, locks>>
          /\ occupationCounter # 1
          /\ occupationCounter' = occupationCounter - 1
          /\ pc' = [pc EXCEPT ![t] = "exitDone"]
      BY <2>1, <2>0 DEF ExitNested, LastExit, Go
    <3>2. occupationCounter' \in Nat /\ occupationCounter' # 0
      BY <1>0, <2>0, <3>1
    <3>3. DistinctLocks' /\ ~InLocks(owner)'
      BY <1>0, <3>1 DEF DistinctLocks, InLocks
    <3>4. ExitersOwn'
      BY <1>0, <3>1 DEF ExitersOwn
    <3> QED
      BY <1>0, <1>1, <2>0, <3>1, <3>2, <3>3, <3>4
  <2>2. CASE ExitFree(t)
    <3>1. /\ owner' = NoThread
          /\ locks = <<>>
          /\ locks' = locks
          /\ occupationCounter' = 0
          /\ pc' = [pc EXCEPT ![t] = "exitDone"]
      BY <2>2 DEF ExitFree, Go
    <3>2. DistinctLocks' /\ ~InLocks(owner)'
      BY <3>1 DEF DistinctLocks, InLocks
    <3>3. ExitersOwn'
      BY <1>0, <2>0, <3>1 DEF ExitersOwn
    <3> QED
      BY <1>1, <3>1, <3>2, <3>3
  <2>3. CASE ExitHandOver(t)
    <3>1. /\ owner' = Head(locks)
          /\ locks # <<>>
          /\ locks' = Tail(locks)
          /\ occupationCounter' = 1
          /\ pc' = [pc EXCEPT ![t] = "exitPass"]
      BY <2>3 DEF ExitHandOver, HandOver, Go
    <3>2. DistinctLocks' /\ ~InLocks(owner)'
      BY <1>0, <3>1, LeaveLocks DEF InLocks
    <3>3. ExitersOwn'
      BY <1>0, <2>0, <3>1 DEF ExitersOwn
    <3>4. Head(locks) \in Threads /\ NoThread \notin Threads
      BY <3>1, HeadTailProperties, ConstantsAssumption DEF Threads
    <3>5. owner' # NoThread /\ occupationCounter' = 1
      BY <3>1, <3>4
    <3> QED
      BY <1>1, <3>2, <3>3, <3>5
  <2> QED
    BY <1>4, <2>1, <2>2, <2>3 DEF ExitBody
<1> QED
  BY <1>2, <1>3, <1>4, SectionSteps

(* The section is consistent when CriticalSectionInitialize returns.       *)
LEMMA SectionInit == Init => SectionInv
<1> SUFFICES ASSUME Init PROVE SectionInv
  OBVIOUS
<1>1. SectionConsistent
  BY DEF Init, SectionConsistent, InLocks
<1>2. ExitersOwn
  BY DEF Init, ExitersOwn
<1> QED
  BY <1>1, <1>2 DEF Init, SectionInv

(* The owner, the counter and the list of a section agree in every state,   *)
(* wherever the timer interrupts CriticalSectionEnter and Exit.             *)
THEOREM SectionIsConsistent == Spec => []SectionConsistent
<1>1. TypeInv /\ SectionInv /\ [Next]_vars => (TypeInv /\ SectionInv)'
  BY TypeStep, SectionStep
<1>2. SectionInv => SectionConsistent
  BY DEF SectionInv
<1> QED
  BY <1>1, <1>2, TypeInit, SectionInit, PTL DEF Spec

-----------------------------------------------------------------------------
(* The bodies of Enter and Exit are the steps of the abstract lock.         *)
LEMMA OwnershipStep ==
  TypeInv /\ SectionInv /\ [Next]_vars => [OwnershipOf!Next]_(OwnershipOf!vars)
<1> SUFFICES ASSUME TypeInv, SectionInv, [Next]_vars
             PROVE  [OwnershipOf!Next]_(OwnershipOf!vars)
  OBVIOUS
<1>1. CASE SectionUntouched
  BY <1>1 DEF SectionUntouched, OwnershipOf!vars
<1>2. ASSUME NEW t \in Threads, EnterBody(t)
      PROVE  [OwnershipOf!Next]_(OwnershipOf!vars)
  <2>1. CASE EnterOwn(t) /\ owner = NoThread
    <3>1. OwnershipOf!Take(t)
      BY <2>1 DEF EnterOwn, OwnershipOf!Take, SectionInv, SectionConsistent
    <3> QED
      BY <3>1 DEF OwnershipOf!Next
  <2>2. CASE EnterOwn(t) /\ owner = t
    <3>1. OwnershipOf!Nest(t)
      BY <2>2 DEF EnterOwn, OwnershipOf!Nest
    <3> QED
      BY <3>1 DEF OwnershipOf!Next
  <2>3. CASE EnterWait(t) /\ InLocks(t)
    BY <2>3 DEF EnterWait, OwnershipOf!vars
  <2>4. CASE EnterWait(t) /\ ~InLocks(t)
    <3>1. OwnershipOf!Wait(t)
      BY <2>4 DEF EnterWait, InLocks, OwnershipOf!Wait, OwnershipOf!InLine
    <3> QED
      BY <3>1 DEF OwnershipOf!Next
  <2>5. EnterOwn(t) => owner \in {t, NoThread}
    BY DEF EnterOwn
  <2> QED
    BY <1>2, <2>1, <2>2, <2>3, <2>4, <2>5 DEF EnterBody
<1>3. ASSUME NEW t \in Threads, ExitBody(t)
      PROVE  [OwnershipOf!Next]_(OwnershipOf!vars)
  <2>0. owner = t
    BY <1>3 DEF ExitBody, At, SectionInv, ExitersOwn
  <2>1. CASE ExitNested(t)
    <3>1. occupationCounter \in Nat /\ occupationCounter \notin {0, 1}
      BY <2>0, <2>1, ConstantsAssumption
         DEF ExitNested, LastExit, SectionInv, SectionConsistent, Threads
    <3>2. OwnershipOf!Unnest(t)
      BY <2>0, <2>1, <3>1 DEF ExitNested, OwnershipOf!Unnest
    <3> QED
      BY <3>2 DEF OwnershipOf!Next
  <2>2. CASE ExitFree(t)
    <3>1. OwnershipOf!Free(t)
      BY <2>0, <2>2 DEF ExitFree, OwnershipOf!Free
    <3> QED
      BY <3>1 DEF OwnershipOf!Next
  <2>3. CASE ExitHandOver(t)
    <3>1. OwnershipOf!HandOver(t)
      BY <2>0, <2>3 DEF ExitHandOver, HandOver, OwnershipOf!HandOver
    <3> QED
      BY <3>1 DEF OwnershipOf!Next
  <2> QED
    BY <1>3, <2>1, <2>2, <2>3 DEF ExitBody
<1> QED
  BY <1>1, <1>2, <1>3, SectionSteps

(* CRITICAL_SECTION implements a first-come, first-served recursive lock as *)
(* far as ownership goes, even where its own threads run ahead of it.       *)
THEOREM ImplementsFifoOwnership == Spec => OwnershipIsFifo
<1>1. Init => TypeInv /\ SectionInv /\ OwnershipOf!Init
  BY TypeInit, SectionInit DEF Init, OwnershipOf!Init
<1>2. TypeInv /\ SectionInv /\ [Next]_vars => (TypeInv /\ SectionInv)'
  BY TypeStep, SectionStep
<1> QED
  BY <1>1, <1>2, OwnershipStep, PTL DEF Spec, OwnershipIsFifo, OwnershipOf!Spec

-----------------------------------------------------------------------------
(* What holds if the timer does not interrupt a thread on its way to sleep *)
(* (~PreemptBlocking).  The inductive invariant gives every thread a mode: *)
(* not started, about to wait, queued, asleep, being unlocked, running, or *)
(* dead; the mode fixes lockCount, state, and whether the thread is in the *)
(* list of the section and somebody's target of ThreadUnlock.              *)

(* The unlocker of a thread has not stored its lockCount yet. *)
BeforeStore == {"exitPass", "unlockLoad", "unlockStore"}

Selected(t) == \E u \in Threads : selected[u] = t

(* CriticalSectionEnter has still to yield for t. *)
AwaitsEntry(t) == \/ pc[t] = "lockYield" /\ ret[t] = "enterYield"
                  \/ pc[t] = "enterYield"

NewThread(t) ==
  /\ pc[t] = "new"
  /\ state[t] = WAITING
  /\ lockCount[t] = 1
  /\ ~isSleep[t] /\ ~InLocks(t) /\ ~Selected(t)
  /\ depth[t] = 0

Blocking(t) ==
  /\ pc[t] \in BlockingLabels
  /\ current = t
  /\ state[t] = READY
  /\ lockCount[t] = IF pc[t] \in {"lockLoad", "lockStore"} THEN 0 ELSE 1
  /\ pc[t] = "lockStore" => reg[t] = 0
  /\ \/ ret[t] = "enterYield" /\ InLocks(t) /\ ~isSleep[t] /\ depth[t] = 0
     \/ ret[t] = "run" /\ ~InLocks(t) /\ isSleep[t]
  /\ ~Selected(t)

Queued(t) ==
  /\ AwaitsEntry(t)
  /\ state[t] = WAITING
  /\ lockCount[t] = 1
  /\ ~isSleep[t] /\ InLocks(t) /\ ~Selected(t)
  /\ depth[t] = 0

Asleep(t) ==
  /\ pc[t] = "run" \/ (pc[t] = "lockYield" /\ ret[t] = "run")
  /\ state[t] = WAITING
  /\ lockCount[t] = 1
  /\ isSleep[t] /\ ~InLocks(t) /\ ~Selected(t)

Unlocking(t) ==
  /\ pc[t] = "run" \/ (AwaitsEntry(t) /\ owner = t)
  /\ state[t] = WAITING
  /\ ~isSleep[t] /\ ~InLocks(t)
  /\ depth[t] = 0
  /\ t # current
  /\ Selected(t)
  /\ \A u \in Threads :
       selected[u] = t => lockCount[t] = IF pc[u] \in BeforeStore THEN 1 ELSE 0

Running(t) ==
  /\ pc[t] \notin BlockingLabels \union {"new", "assert", "bugcheck"}
  /\ state[t] = READY
  /\ lockCount[t] = 0
  /\ ~isSleep[t] /\ ~Selected(t)
  /\ InLocks(t) <=> pc[t] = "enqueued"
  /\ AwaitsEntry(t) => owner = t
  /\ AwaitsEntry(t) \/ pc[t] = "enqueued" => depth[t] = 0

Dead(t) ==
  /\ pc[t] = "bugcheck"
  /\ state[t] = EXITED
  /\ lockCount[t] = 0
  /\ ~isSleep[t] /\ ~InLocks(t) /\ ~Selected(t)
  /\ depth[t] = 0

Mode(t) == \/ NewThread(t) \/ Blocking(t) \/ Queued(t) \/ Asleep(t)
           \/ Unlocking(t) \/ Running(t) \/ Dead(t)

ModeInv == \A t \in Threads : Mode(t)

(* A thread has a target exactly while it is on its way through             *)
(* PsUnlockThread, and no two have the same.                                *)
SelectInv ==
  /\ \A u \in Threads : selected[u] # NoThread =>
       /\ pc[u] \in UnlockLabels \union {"exitPass"}
       /\ pc[u] = "unlockStore" => reg[u] = 1
  /\ \A u, v \in Threads : selected[u] = selected[v] /\ selected[u] # NoThread => u = v

CurrentInv == state[current] = WAITING => pc[current] = "lockYield"

OwnerInv ==
  \A t \in Threads : depth[t] > 0 \/ pc[t] \in {"enterDone", "exit"} => owner = t

MaskedInv == /\ TypeInv /\ SpinlockExclusion /\ SectionInv
             /\ ModeInv /\ SelectInv /\ CurrentInv /\ OwnerInv /\ NestingMatches

-----------------------------------------------------------------------------
(* What a step must leave alone of a thread for its mode to stay.           *)
SameThread(x) ==
  /\ UNCHANGED <<state[x], lockCount[x], isSleep[x], pc[x], ret[x], reg[x], depth[x]>>
  /\ InLocks(x)' <=> InLocks(x)
  /\ owner' = x <=> owner = x
  /\ \A u \in Threads : selected'[u] = x <=> selected[u] = x
  /\ \A u \in Threads : selected[u] = x => (pc'[u] \in BeforeStore <=> pc[u] \in BeforeStore)
  /\ current' = x => current = x \/ state[x] # WAITING
  /\ current = x /\ pc[x] \in BlockingLabels => current' = x

(* A step of somebody else that leaves the variables of x as they are      *)
(* leaves x in its mode.                                                   *)
LEMMA ModeFrame ==
  ASSUME NEW x \in Threads, Mode(x), SameThread(x)
  PROVE  Mode(x)'
<1>1. Selected(x)' <=> Selected(x)
  BY DEF Selected, SameThread
<1>2. AwaitsEntry(x)' <=> AwaitsEntry(x)
  BY DEF AwaitsEntry, SameThread
<1>3. CASE NewThread(x)
  BY <1>1, <1>3 DEF NewThread, SameThread, Mode
<1>4. CASE Blocking(x)
  BY <1>1, <1>4 DEF Blocking, SameThread, Mode
<1>5. CASE Queued(x)
  BY <1>1, <1>2, <1>5 DEF Queued, SameThread, Mode
<1>6. CASE Asleep(x)
  BY <1>1, <1>6 DEF Asleep, SameThread, Mode
<1>7. CASE Unlocking(x)
  BY <1>1, <1>2, <1>7 DEF Unlocking, SameThread, Mode, READY, WAITING, EXITED
<1>8. CASE Running(x)
  BY <1>1, <1>2, <1>8 DEF Running, SameThread, Mode
<1>9. CASE Dead(x)
  BY <1>1, <1>9 DEF Dead, SameThread, Mode
<1> QED
  BY <1>3, <1>4, <1>5, <1>6, <1>7, <1>8, <1>9 DEF Mode

(* What PsiSchedule does to a thread: nothing, or it wakes it.              *)
Wakes(x) ==
  /\ isSleep[x]
  /\ state[x] # READY
  /\ isSleep'[x] = FALSE
  /\ lockCount'[x] = lockCount[x] - 1
  /\ lockCount[x] = 1 /\ state[x] = WAITING => state'[x] = READY

(* What PsiSchedule does to one thread: nothing, or it wakes the thread    *)
(* from its sleep.                                                         *)
LEMMA ScheduleEffect ==
  ASSUME TypeOK, NEW sinceStart, PsiSchedule(sinceStart)
  PROVE  /\ current' \in Threads
         /\ state[current'] = READY
         /\ \A x \in Threads :
              \/ UNCHANGED <<state[x], lockCount[x], isSleep[x]>>
              \/ Wakes(x)
<1>1. PICK h \in 1..N : SwitchTo(h, sinceStart)
  BY DEF PsiSchedule
<1>2. current' \in Threads /\ state[current'] = READY
  BY <1>1, AfterIsThread DEF SwitchTo, Ready, TypeOK
<1>3. ASSUME NEW x \in Threads, x \notin Woken(h, sinceStart)
      PROVE  UNCHANGED <<state[x], lockCount[x], isSleep[x]>>
  <2>1. state'[x] = state[x] /\ lockCount'[x] = lockCount[x]
    BY <1>1, <1>3 DEF SwitchTo
  <2>2. isSleep'[x] = isSleep[x]
    BY <1>1, <1>3, Zenon DEF SwitchTo, TypeOK
  <2> QED
    BY <2>1, <2>2
<1>4. ASSUME NEW x \in Threads, x \in Woken(h, sinceStart)
      PROVE  Wakes(x)
  <2>1. PICK g \in 1..(h - 1) : x = After(g)
    BY <1>4 DEF Woken
  <2>2. isSleep[x] /\ state[x] # READY
    BY <1>1, <1>4, <2>1 DEF Woken, Due, SwitchTo, Ready
  <2>3. isSleep'[x] = FALSE
    BY <1>1, <1>4 DEF SwitchTo
  <2>4. /\ lockCount'[x] = lockCount[x] - 1
        /\ lockCount[x] = 1 /\ state[x] = WAITING => state'[x] = READY
    BY <1>1, <1>4 DEF SwitchTo
  <2> QED
    BY <2>2, <2>3, <2>4 DEF Wakes
<1> QED
  BY <1>2, <1>3, <1>4

(* A thread whose own program stands still through a PsiSchedule.           *)
LEMMA ModeScheduled ==
  ASSUME TypeOK, NEW sinceStart, PsiSchedule(sinceStart),
         NEW x \in Threads, Mode(x), pc[x] \notin BlockingLabels,
         UNCHANGED <<owner, locks, selected, pc[x], ret[x], reg[x], depth[x]>>,
         \A u \in Threads : selected[u] = x => pc'[u] = pc[u]
  PROVE  Mode(x)'
<1>1. CASE UNCHANGED <<state[x], lockCount[x], isSleep[x]>>
  <2>1. SameThread(x)
    BY <1>1, ScheduleEffect DEF SameThread, InLocks, READY, WAITING
  <2> QED
    BY <2>1, ModeFrame
<1>2. CASE Wakes(x)
  <2>1. Asleep(x)
    BY <1>2 DEF Wakes, Mode, NewThread, Blocking, Queued, Unlocking, Running, Dead
  <2>2. Running(x)'
    BY <1>2, <2>1 DEF Wakes, Asleep, Running, Selected, InLocks, AwaitsEntry,
       BlockingLabels, LockLabels, READY, WAITING
  <2> QED
    BY <2>2 DEF Mode
<1> QED
  BY <1>1, <1>2, ScheduleEffect

-----------------------------------------------------------------------------
(* The current thread is running, unless it is about to wait or dead.       *)
LEMMA CurrentMode ==
  ASSUME MaskedInv
  PROVE  /\ current \in Threads
         /\ pc[current] \in BlockingLabels => Blocking(current)
         /\ pc[current] \notin BlockingLabels \union {"lockYield", "bugcheck"}
              => Running(current)
         /\ pc[current] = "bugcheck" => Dead(current)
         /\ pc[current] = "lockYield" =>
              Running(current) \/ Queued(current) \/ Asleep(current)
         /\ \A x \in Threads \ {current} : pc[x] \notin BlockingLabels
<1> USE DEF MaskedInv
<1>1. current \in Threads
  BY DEF TypeInv, TypeOK
<1>2. Mode(current) /\ (state[current] = WAITING => pc[current] = "lockYield")
  BY <1>1 DEF ModeInv, CurrentInv
<1>3. pc[current] \in BlockingLabels => Blocking(current)
  BY <1>2 DEF Mode, BlockingLabels, LockLabels, NewThread, Queued, Asleep, Unlocking,
     Running, Dead, AwaitsEntry
<1>4. pc[current] \notin BlockingLabels \union {"lockYield", "bugcheck"} => Running(current)
  BY <1>2 DEF Mode, Blocking, NewThread, Queued, Asleep, Unlocking, Dead
<1>5. pc[current] = "bugcheck" => Dead(current)
  BY <1>2 DEF Mode, BlockingLabels, LockLabels, NewThread, Blocking, Queued, Asleep,
     Unlocking, Running, AwaitsEntry
<1>6. pc[current] = "lockYield" => Running(current) \/ Queued(current) \/ Asleep(current)
  BY <1>2 DEF Mode, BlockingLabels, LockLabels, NewThread, Blocking, Unlocking, Dead
<1>7. ASSUME NEW x \in Threads \ {current}, pc[x] \in BlockingLabels PROVE FALSE
  <2>1. Mode(x)
    BY DEF ModeInv
  <2> QED
    BY <1>7, <2>1 DEF Mode, BlockingLabels, LockLabels, NewThread, Blocking, Queued,
       Asleep, Unlocking, Running, Dead, AwaitsEntry
<1> QED
  BY <1>1, <1>3, <1>4, <1>5, <1>6, <1>7

(* A step of the current thread that concerns no other thread.              *)
LocalStep(t) ==
  /\ t = current
  /\ UNCHANGED <<current, selected>>
  /\ selected[t] = NoThread
  /\ \A x \in Threads \ {t} :
       /\ UNCHANGED <<state[x], lockCount[x], isSleep[x], pc[x], ret[x], reg[x], depth[x]>>
       /\ InLocks(x)' <=> InLocks(x)
  /\ owner' # owner => owner \in {t, NoThread} /\ owner' \in {t, NoThread}
  /\ occupationCounter' # occupationCounter => owner' \in {t, NoThread}

(* And what it must establish for itself.                                   *)
LocalGoal(t) ==
  /\ Mode(t)'
  /\ state'[t] = WAITING => pc'[t] = "lockYield"
  /\ depth'[t] > 0 \/ pc'[t] \in {"enterDone", "exit"} => owner' = t
  /\ owner' = t =>
       occupationCounter' = depth'[t] + (IF Owes(t)' THEN 1 ELSE 0)

WaitInv == ModeInv /\ SelectInv /\ CurrentInv /\ OwnerInv /\ NestingMatches

(* A step of t that leaves the scheduler and the section alone keeps the   *)
(* invariant if t itself ends in a mode that fits.                         *)
LEMMA LocalSuffices ==
  ASSUME MaskedInv, NEW t \in Threads, LocalStep(t), LocalGoal(t)
  PROVE  WaitInv'
<1>0. NoThread \notin Threads
  BY ConstantsAssumption DEF Threads
<1>1. ASSUME NEW x \in Threads, x # t PROVE Mode(x)'
  <2>1. Mode(x)
    BY DEF MaskedInv, ModeInv
  <2>2. SameThread(x)
    BY <1>0, <1>1 DEF SameThread, LocalStep
  <2> QED
    BY <2>1, <2>2, ModeFrame
<1>2. ModeInv'
  BY <1>1 DEF ModeInv, LocalGoal
<1>3. SelectInv'
  BY DEF SelectInv, MaskedInv, LocalStep
<1>4. CurrentInv'
  BY DEF CurrentInv, LocalStep, LocalGoal
<1>5. OwnerInv'
  <2>1. ASSUME NEW x \in Threads, x # t, depth'[x] > 0 \/ pc'[x] \in {"enterDone", "exit"}
        PROVE  owner' = x
    <3>1. owner = x
      BY <2>1 DEF LocalStep, MaskedInv, OwnerInv
    <3> QED
      BY <1>0, <2>1, <3>1 DEF LocalStep
  <2> QED
    BY <2>1 DEF OwnerInv, LocalGoal
<1>6. NestingMatches'
  <2>1. CASE owner' = t
    BY <2>1 DEF NestingMatches, LocalGoal
  <2>2. CASE owner' = NoThread
    BY <2>2 DEF NestingMatches
  <2>3. CASE owner' \notin {t, NoThread}
    <3>1. owner' = owner /\ occupationCounter' = occupationCounter /\ owner \in Threads
      BY <2>3 DEF LocalStep, MaskedInv, TypeInv, TypeOK
    <3>2. depth'[owner] = depth[owner] /\ pc'[owner] = pc[owner] /\ ret'[owner] = ret[owner]
      BY <2>3, <3>1 DEF LocalStep
    <3> QED
      BY <2>3, <3>1, <3>2 DEF NestingMatches, MaskedInv, Owes
  <2> QED
    BY <2>1, <2>2, <2>3
<1> QED
  BY <1>2, <1>3, <1>4, <1>5, <1>6 DEF WaitInv

-----------------------------------------------------------------------------
(* The steps of a running thread outside the bodies of Enter and Exit.      *)
LEMMA RunningSteps ==
  ASSUME MaskedInv, NEW t \in Threads,
         \/ Enter(t) \/ EnterDone(t) \/ Enqueued(t) \/ Exit(t) \/ ExitSpin(t) \/ ExitDone(t)
         \/ Sleep(t) \/ SleepFlag(t) \/ CallEnter(t) \/ CallExit(t) \/ CallSleep(t) \/ ThreadReturns(t)
  PROVE  LocalStep(t) /\ LocalGoal(t)
<1>1. /\ t = current
      /\ pc[t] \in {"enter", "enterDone", "enqueued", "exit", "exitSpin", "exitDone",
                    "sleep", "sleepFlag", "run"}
  BY DEF Enter, EnterDone, Enqueued, Exit, ExitSpin, ExitDone, Sleep, SleepFlag, CallEnter, CallExit, CallSleep, ThreadReturns, SpinlockEnter, Call, At
<1>2. Running(t)
  BY <1>1, CurrentMode DEF BlockingLabels, LockLabels
<1>3. selected[t] = NoThread
  BY <1>1 DEF MaskedInv, SelectInv, UnlockLabels
<1>4. /\ owner = t => occupationCounter = depth[t] + (IF Owes(t) THEN 1 ELSE 0)
      /\ depth[t] > 0 \/ pc[t] \in {"enterDone", "exit"} => owner = t
  BY ConstantsAssumption DEF MaskedInv, NestingMatches, OwnerInv, Threads
<1>5. /\ pc \in [Threads -> Labels]
      /\ depth \in [Threads -> Nat]
      /\ ret \in [Threads -> {"run", "enterYield"}]
      /\ state \in [Threads -> {READY, WAITING, EXITED}]
      /\ isSleep \in [Threads -> BOOLEAN]
  BY DEF MaskedInv, TypeInv, TypeOK
<1>6. ASSUME UNCHANGED <<current, selected, owner, occupationCounter, locks>>,
             \A x \in Threads \ {t} :
               UNCHANGED <<state[x], lockCount[x], isSleep[x], pc[x], ret[x], reg[x], depth[x]>>
      PROVE  LocalStep(t)
  <2>1. \A x : InLocks(x)' <=> InLocks(x)
    BY <1>6 DEF InLocks
  <2> QED
    BY <1>1, <1>3, <1>6, <2>1 DEF LocalStep
<1>7. CASE Enter(t)
  <2>1. /\ pc[t] = "enter"
        /\ UNCHANGED <<state, lockCount, isSleep, current, owner, occupationCounter, locks,
                       selected, reg, ret, depth>>
        /\ pc' = [pc EXCEPT ![t] = "enterBody"]
    BY <1>7 DEF Enter, SpinlockEnter, schedVars, sectionVars, localVars, At, Go
  <2>2. LocalStep(t)
    BY <1>5, <1>6, <2>1
  <2>3. Running(t)'
    BY <1>1, <1>2, <1>5, <2>1 DEF Running, Selected, InLocks, AwaitsEntry, BlockingLabels, LockLabels
  <2>4. LocalGoal(t)
    BY <1>2, <1>4, <1>5, <2>1, <2>3 DEF LocalGoal, Mode, Running, Owes, READY, WAITING, EXITED
  <2> QED
    BY <2>2, <2>4
<1>8. CASE EnterDone(t)
  <2>1. /\ pc[t] = "enterDone"
        /\ UNCHANGED <<state, lockCount, isSleep, current, owner, occupationCounter, locks,
                       selected, reg, ret>>
        /\ pc' = [pc EXCEPT ![t] = "run"]
        /\ depth' = [depth EXCEPT ![t] = depth[t] + 1]
    BY <1>8 DEF EnterDone, SpinlockExit, EnterReturns, schedVars, sectionVars, localVars, At, Go
  <2>2. LocalStep(t)
    BY <1>5, <1>6, <2>1
  <2>3. Running(t)'
    BY <1>1, <1>2, <1>5, <2>1 DEF Running, Selected, InLocks, AwaitsEntry, BlockingLabels, LockLabels
  <2>4. LocalGoal(t)
    BY <1>2, <1>4, <1>5, <2>1, <2>3 DEF LocalGoal, Mode, Running, Owes, READY, WAITING, EXITED
  <2> QED
    BY <2>2, <2>4
<1>9. CASE Enqueued(t)
  <2>1. /\ pc[t] = "enqueued"
        /\ UNCHANGED <<state, lockCount, isSleep, current, owner, occupationCounter, locks,
                       selected, reg, depth>>
        /\ pc' = [pc EXCEPT ![t] = "lockLoad"]
        /\ ret' = [ret EXCEPT ![t] = "enterYield"]
    BY <1>9 DEF Enqueued, SpinlockExit, schedVars, sectionVars, localVars, At, Go
  <2>2. LocalStep(t)
    BY <1>5, <1>6, <2>1
  <2>3. Blocking(t)'
    BY <1>1, <1>2, <1>5, <2>1 DEF Running, Selected, InLocks, AwaitsEntry, Blocking, BlockingLabels, LockLabels
  <2>4. LocalGoal(t)
    BY <1>2, <1>4, <1>5, <2>1, <2>3 DEF LocalGoal, Mode, Running, Owes, READY, WAITING, EXITED
  <2> QED
    BY <2>2, <2>4
<1>10. CASE Exit(t)
  <2>1. /\ pc[t] = "exit"
        /\ UNCHANGED <<state, lockCount, isSleep, current, owner, occupationCounter, locks,
                       selected, reg, ret, depth>>
        /\ pc' = [pc EXCEPT ![t] = "exitSpin"]
    BY <1>4, <1>10 DEF Exit, schedVars, sectionVars, localVars, At, Go
  <2>2. LocalStep(t)
    BY <1>5, <1>6, <2>1
  <2>3. Running(t)'
    BY <1>1, <1>2, <1>5, <2>1 DEF Running, Selected, InLocks, AwaitsEntry, BlockingLabels, LockLabels
  <2>4. LocalGoal(t)
    BY <1>2, <1>4, <1>5, <2>1, <2>3 DEF LocalGoal, Mode, Running, Owes, READY, WAITING, EXITED
  <2> QED
    BY <2>2, <2>4
<1>11. CASE ExitSpin(t)
  <2>1. /\ pc[t] = "exitSpin"
        /\ UNCHANGED <<state, lockCount, isSleep, current, owner, occupationCounter, locks,
                       selected, reg, ret, depth>>
        /\ pc' = [pc EXCEPT ![t] = "exitBody"]
    BY <1>11 DEF ExitSpin, SpinlockEnter, schedVars, sectionVars, localVars, At, Go
  <2>2. LocalStep(t)
    BY <1>5, <1>6, <2>1
  <2>3. Running(t)'
    BY <1>1, <1>2, <1>5, <2>1 DEF Running, Selected, InLocks, AwaitsEntry, BlockingLabels, LockLabels
  <2>4. LocalGoal(t)
    BY <1>2, <1>4, <1>5, <2>1, <2>3 DEF LocalGoal, Mode, Running, Owes, READY, WAITING, EXITED
  <2> QED
    BY <2>2, <2>4
<1>12. CASE ExitDone(t)
  <2>1. /\ pc[t] = "exitDone"
        /\ UNCHANGED <<state, lockCount, isSleep, current, owner, occupationCounter, locks,
                       selected, reg, ret, depth>>
        /\ pc' = [pc EXCEPT ![t] = "run"]
    BY <1>12 DEF ExitDone, SpinlockExit, schedVars, sectionVars, localVars, At, Go
  <2>2. LocalStep(t)
    BY <1>5, <1>6, <2>1
  <2>3. Running(t)'
    BY <1>1, <1>2, <1>5, <2>1 DEF Running, Selected, InLocks, AwaitsEntry, BlockingLabels, LockLabels
  <2>4. LocalGoal(t)
    BY <1>2, <1>4, <1>5, <2>1, <2>3 DEF LocalGoal, Mode, Running, Owes, READY, WAITING, EXITED
  <2> QED
    BY <2>2, <2>4
<1>13. CASE Sleep(t)
  <2>1. /\ pc[t] = "sleep"
        /\ UNCHANGED <<state, lockCount, isSleep, current, owner, occupationCounter, locks,
                       selected, reg, ret, depth>>
        /\ pc' = [pc EXCEPT ![t] = "sleepFlag"]
    BY <1>13 DEF Sleep, schedVars, sectionVars, localVars, At, Go
  <2>2. LocalStep(t)
    BY <1>5, <1>6, <2>1
  <2>3. Running(t)'
    BY <1>1, <1>2, <1>5, <2>1 DEF Running, Selected, InLocks, AwaitsEntry, BlockingLabels, LockLabels
  <2>4. LocalGoal(t)
    BY <1>2, <1>4, <1>5, <2>1, <2>3 DEF LocalGoal, Mode, Running, Owes, READY, WAITING, EXITED
  <2> QED
    BY <2>2, <2>4
<1>14. CASE SleepFlag(t)
  <2>1. /\ pc[t] = "sleepFlag"
        /\ UNCHANGED <<state, lockCount, current, owner, occupationCounter, locks,
                       selected, reg, depth>>
        /\ pc' = [pc EXCEPT ![t] = "lockLoad"]
        /\ isSleep' = [isSleep EXCEPT ![t] = TRUE]
        /\ ret' = [ret EXCEPT ![t] = "run"]
    BY <1>14 DEF SleepFlag, schedVars, sectionVars, localVars, At, Go
  <2>2. LocalStep(t)
    BY <1>5, <1>6, <2>1
  <2>3. Blocking(t)'
    BY <1>1, <1>2, <1>5, <2>1 DEF Running, Selected, InLocks, AwaitsEntry, Blocking, BlockingLabels, LockLabels
  <2>4. LocalGoal(t)
    BY <1>2, <1>4, <1>5, <2>1, <2>3 DEF LocalGoal, Mode, Running, Owes, READY, WAITING, EXITED
  <2> QED
    BY <2>2, <2>4
<1>15. CASE CallEnter(t)
  <2>1. /\ pc[t] = "run"
        /\ UNCHANGED <<state, lockCount, isSleep, current, owner, occupationCounter, locks,
                       selected, reg, ret, depth>>
        /\ pc' = [pc EXCEPT ![t] = "enter"]
    BY <1>15 DEF CallEnter, Call, schedVars, sectionVars, localVars, At, Go
  <2>2. LocalStep(t)
    BY <1>5, <1>6, <2>1
  <2>3. Running(t)'
    BY <1>1, <1>2, <1>5, <2>1 DEF Running, Selected, InLocks, AwaitsEntry, BlockingLabels, LockLabels
  <2>4. LocalGoal(t)
    BY <1>2, <1>4, <1>5, <2>1, <2>3 DEF LocalGoal, Mode, Running, Owes, READY, WAITING, EXITED
  <2> QED
    BY <2>2, <2>4
<1>16. CASE CallExit(t)
  <2>1. /\ pc[t] = "run" /\ depth[t] > 0
        /\ UNCHANGED <<state, lockCount, isSleep, current, owner, occupationCounter, locks,
                       selected, reg, ret>>
        /\ pc' = [pc EXCEPT ![t] = "exit"]
        /\ depth' = [depth EXCEPT ![t] = depth[t] - 1]
    BY <1>16 DEF CallExit, Call, schedVars, sectionVars, localVars, At, Go
  <2>2. LocalStep(t)
    BY <1>5, <1>6, <2>1
  <2>3. Running(t)'
    BY <1>1, <1>2, <1>5, <2>1 DEF Running, Selected, InLocks, AwaitsEntry, BlockingLabels, LockLabels
  <2>4. LocalGoal(t)
    BY <1>2, <1>4, <1>5, <2>1, <2>3 DEF LocalGoal, Mode, Running, Owes, READY, WAITING, EXITED
  <2> QED
    BY <2>2, <2>4
<1>17. CASE CallSleep(t)
  <2>1. /\ pc[t] = "run"
        /\ UNCHANGED <<state, lockCount, isSleep, current, owner, occupationCounter, locks,
                       selected, reg, ret, depth>>
        /\ pc' = [pc EXCEPT ![t] = "sleep"]
    BY <1>17 DEF CallSleep, Call, schedVars, sectionVars, localVars, At, Go
  <2>2. LocalStep(t)
    BY <1>5, <1>6, <2>1
  <2>3. Running(t)'
    BY <1>1, <1>2, <1>5, <2>1 DEF Running, Selected, InLocks, AwaitsEntry, BlockingLabels, LockLabels
  <2>4. LocalGoal(t)
    BY <1>2, <1>4, <1>5, <2>1, <2>3 DEF LocalGoal, Mode, Running, Owes, READY, WAITING, EXITED
  <2> QED
    BY <2>2, <2>4
<1>18. CASE ThreadReturns(t)
  <2>1. /\ pc[t] = "run" /\ depth[t] = 0
        /\ UNCHANGED <<lockCount, isSleep, current, owner, occupationCounter, locks,
                       selected, reg, ret, depth>>
        /\ pc' = [pc EXCEPT ![t] = "bugcheck"]
        /\ state' = [state EXCEPT ![t] = EXITED]
    BY <1>18 DEF ThreadReturns, schedVars, sectionVars, localVars, At, Go
  <2>2. LocalStep(t)
    BY <1>5, <1>6, <2>1
  <2>3. Dead(t)'
    BY <1>1, <1>2, <1>5, <2>1 DEF Running, Selected, InLocks, AwaitsEntry, Dead
  <2>4. LocalGoal(t)
    BY <1>2, <1>4, <1>5, <2>1, <2>3 DEF LocalGoal, Mode, Running, Owes, READY, WAITING, EXITED
  <2> QED
    BY <2>2, <2>4
<1> QED
  BY <1>7, <1>8, <1>9, <1>10, <1>11, <1>12, <1>13, <1>14, <1>15, <1>16, <1>17, <1>18

(* The steps of ThreadLock up to its yield.                                 *)
LEMMA BlockingSteps ==
  ASSUME MaskedInv, NEW t \in Threads,
         LockLoad(t) \/ LockStore(t) \/ LockTest(t) \/ LockState(t) \/ LockWait(t)
  PROVE  LocalStep(t) /\ LocalGoal(t)
<1>1. t = current /\ pc[t] \in BlockingLabels
  BY DEF LockLoad, LockStore, LockTest, LockState, LockWait, At, BlockingLabels, LockLabels
<1>2. Blocking(t)
  BY <1>1, CurrentMode
<1>3. selected[t] = NoThread
  BY <1>1 DEF MaskedInv, SelectInv, UnlockLabels, BlockingLabels, LockLabels
<1>4. /\ owner = t => occupationCounter = depth[t] /\ ret[t] = "run"
      /\ depth[t] > 0 => owner = t
  <2>1. owner = t => ret[t] = "run"
    BY <1>2 DEF MaskedInv, SectionInv, SectionConsistent, Blocking
  <2>2. owner = t => occupationCounter = depth[t]
    <3>1. t # NoThread /\ ~Owes(t)
      BY <1>1, ConstantsAssumption DEF Owes, BlockingLabels, LockLabels, Threads
    <3>2. NestingMatches /\ depth[t] \in Nat
      BY DEF MaskedInv, TypeInv, TypeOK
    <3> QED
      BY <3>1, <3>2 DEF NestingMatches
  <2> QED
    BY <2>1, <2>2 DEF MaskedInv, OwnerInv
<1>5. /\ pc \in [Threads -> Labels]
      /\ depth \in [Threads -> Nat]
      /\ lockCount \in [Threads -> Int]
      /\ reg \in [Threads -> Int]
      /\ state \in [Threads -> {READY, WAITING, EXITED}]
  BY DEF MaskedInv, TypeInv, TypeOK
<1>6. ASSUME UNCHANGED <<current, selected, owner, occupationCounter, locks>>,
             \A x \in Threads \ {t} :
               UNCHANGED <<state[x], lockCount[x], isSleep[x], pc[x], ret[x], reg[x], depth[x]>>
      PROVE  LocalStep(t)
  <2>1. \A x : InLocks(x)' <=> InLocks(x)
    BY <1>6 DEF InLocks
  <2> QED
    BY <1>1, <1>3, <1>6, <2>1 DEF LocalStep
<1>7. CASE LockLoad(t)
  <2>1. /\ pc[t] = "lockLoad"
        /\ UNCHANGED <<state, lockCount, isSleep, current, owner, occupationCounter, locks,
                       selected, ret, depth>>
        /\ pc' = [pc EXCEPT ![t] = "lockStore"]
        /\ reg' = [reg EXCEPT ![t] = lockCount[t]]
    BY <1>2, <1>7 DEF LockLoad, Blocking, schedVars, sectionVars, localVars, At, Go
  <2>2. LocalStep(t)
    BY <1>5, <1>6, <2>1
  <2>3. Blocking(t)'
    BY <1>1, <1>2, <1>5, <2>1 DEF Blocking, Queued, Asleep, Selected, InLocks, AwaitsEntry,
       BlockingLabels, LockLabels
  <2>4. LocalGoal(t)
    BY <1>2, <1>4, <1>5, <2>1, <2>3 DEF LocalGoal, Mode, Blocking, Owes, READY, WAITING, EXITED
  <2> QED
    BY <2>2, <2>4
<1>8. CASE LockStore(t)
  <2>1. /\ pc[t] = "lockStore"
        /\ UNCHANGED <<state, isSleep, current, owner, occupationCounter, locks,
                       selected, ret, depth>>
        /\ pc' = [pc EXCEPT ![t] = "lockTest"]
        /\ lockCount' = [lockCount EXCEPT ![t] = reg[t] + 1]
        /\ reg' = [reg EXCEPT ![t] = 0]
    BY <1>2, <1>8 DEF LockStore, Blocking, schedVars, sectionVars, localVars, At, Go
  <2>2. LocalStep(t)
    BY <1>5, <1>6, <2>1
  <2>3. Blocking(t)'
    BY <1>1, <1>2, <1>5, <2>1 DEF Blocking, Queued, Asleep, Selected, InLocks, AwaitsEntry,
       BlockingLabels, LockLabels
  <2>4. LocalGoal(t)
    BY <1>2, <1>4, <1>5, <2>1, <2>3 DEF LocalGoal, Mode, Blocking, Owes, READY, WAITING, EXITED
  <2> QED
    BY <2>2, <2>4
<1>9. CASE LockTest(t)
  <2>1. /\ pc[t] = "lockTest"
        /\ UNCHANGED <<state, lockCount, isSleep, current, owner, occupationCounter, locks,
                       selected, reg, ret, depth>>
        /\ pc' = [pc EXCEPT ![t] = "lockState"]
    BY <1>2, <1>9 DEF LockTest, Blocking, schedVars, sectionVars, localVars, At, Go
  <2>2. LocalStep(t)
    BY <1>5, <1>6, <2>1
  <2>3. Blocking(t)'
    BY <1>1, <1>2, <1>5, <2>1 DEF Blocking, Queued, Asleep, Selected, InLocks, AwaitsEntry,
       BlockingLabels, LockLabels
  <2>4. LocalGoal(t)
    BY <1>2, <1>4, <1>5, <2>1, <2>3 DEF LocalGoal, Mode, Blocking, Owes, READY, WAITING, EXITED
  <2> QED
    BY <2>2, <2>4
<1>10. CASE LockState(t)
  <2>1. /\ pc[t] = "lockState"
        /\ UNCHANGED <<state, lockCount, isSleep, current, owner, occupationCounter, locks,
                       selected, reg, ret, depth>>
        /\ pc' = [pc EXCEPT ![t] = "lockWait"]
    BY <1>2, <1>10 DEF LockState, Blocking, schedVars, sectionVars, localVars, At, Go
  <2>2. LocalStep(t)
    BY <1>5, <1>6, <2>1
  <2>3. Blocking(t)'
    BY <1>1, <1>2, <1>5, <2>1 DEF Blocking, Queued, Asleep, Selected, InLocks, AwaitsEntry,
       BlockingLabels, LockLabels
  <2>4. LocalGoal(t)
    BY <1>2, <1>4, <1>5, <2>1, <2>3 DEF LocalGoal, Mode, Blocking, Owes, READY, WAITING, EXITED
  <2> QED
    BY <2>2, <2>4
<1>11. CASE LockWait(t)
  <2>1. /\ pc[t] = "lockWait"
        /\ UNCHANGED <<lockCount, isSleep, current, owner, occupationCounter, locks,
                       selected, reg, ret, depth>>
        /\ pc' = [pc EXCEPT ![t] = "lockYield"]
        /\ state' = [state EXCEPT ![t] = WAITING]
    BY <1>2, <1>11 DEF LockWait, Blocking, schedVars, sectionVars, localVars, At, Go
  <2>2. LocalStep(t)
    BY <1>5, <1>6, <2>1
  <2>3. Queued(t)' \/ Asleep(t)'
    BY <1>1, <1>2, <1>5, <2>1 DEF Blocking, Queued, Asleep, Selected, InLocks, AwaitsEntry,
       BlockingLabels, LockLabels
  <2>4. LocalGoal(t)
    BY <1>2, <1>4, <1>5, <2>1, <2>3 DEF LocalGoal, Mode, Blocking, Owes, READY, WAITING, EXITED
  <2> QED
    BY <2>2, <2>4
<1> QED
  BY <1>7, <1>8, <1>9, <1>10, <1>11

(* The body of CriticalSectionEnter.                                        *)
LEMMA EnterBodyStep ==
  ASSUME MaskedInv, NEW t \in Threads, EnterBody(t)
  PROVE  LocalStep(t) /\ LocalGoal(t)
<1>1. /\ t = current /\ pc[t] = "enterBody" /\ t # NoThread
      /\ UNCHANGED <<state, lockCount, isSleep, current, ret, reg, selected, depth>>
  BY ConstantsAssumption DEF EnterBody, At, schedVars, localVars, Threads
<1>2. Running(t)
  BY <1>1, CurrentMode DEF BlockingLabels, LockLabels
<1>3. selected[t] = NoThread
  BY <1>1 DEF MaskedInv, SelectInv, UnlockLabels
<1>4. pc \in [Threads -> Labels] /\ depth[t] \in Nat /\ locks \in Seq(Threads)
  BY DEF MaskedInv, TypeInv, TypeOK
<1>5. depth[t] > 0 => owner = t
  BY DEF MaskedInv, OwnerInv
<1>6. CASE EnterOwn(t)
  <2>1. /\ owner \in {t, NoThread}
        /\ owner' = t
        /\ occupationCounter' = occupationCounter + 1
        /\ locks' = locks
        /\ pc' = [pc EXCEPT ![t] = "enterDone"]
    BY <1>6 DEF EnterOwn, Go
  <2>2. occupationCounter = depth[t]
    <3>1. CASE owner = t
      <4>1. NestingMatches /\ ~Owes(t)
        BY <1>1 DEF MaskedInv, Owes
      <4> QED
        BY <1>1, <1>4, <3>1, <4>1 DEF NestingMatches
    <3>2. CASE owner = NoThread
      <4>1. occupationCounter = 0
        BY <3>2 DEF MaskedInv, SectionInv, SectionConsistent
      <4> QED
        BY <1>1, <1>4, <1>5, <3>2, <4>1
    <3> QED
      BY <2>1, <3>1, <3>2
  <2>3. \A x : InLocks(x)' <=> InLocks(x)
    BY <2>1 DEF InLocks
  <2>4. LocalStep(t)
    BY <1>1, <1>3, <1>4, <2>1, <2>3 DEF LocalStep
  <2>5. Running(t)'
    BY <1>1, <1>2, <1>4, <2>1, <2>3 DEF Running, Selected, AwaitsEntry, BlockingLabels,
       LockLabels
  <2>6. LocalGoal(t)
    BY <1>1, <1>2, <1>4, <2>1, <2>2, <2>5 DEF LocalGoal, Mode, Owes, Running, READY, WAITING
  <2> QED
    BY <2>4, <2>6
<1>7. CASE EnterWait(t)
  <2>1. /\ owner \notin {t, NoThread}
        /\ UNCHANGED <<owner, occupationCounter>>
        /\ pc' = [pc EXCEPT ![t] = "enqueued"]
    BY <1>7 DEF EnterWait, Go
  <2>2. ~InLocks(t) /\ depth[t] = 0
    BY <1>1, <1>2, <1>4, <1>5, <2>1 DEF Running
  <2>3. \A x : InLocks(x)' <=> InLocks(x) \/ x = t
    <3>1. locks' = Append(locks, t)
      BY <1>7, <2>2 DEF EnterWait
    <3>2. DistinctLocks
      BY DEF MaskedInv, SectionInv, SectionConsistent, DistinctLocks
    <3> QED
      BY <1>4, <2>2, <3>1, <3>2, JoinLocks
  <2>4. LocalStep(t)
    BY <1>1, <1>3, <1>4, <2>1, <2>3 DEF LocalStep
  <2>5. Running(t)'
    BY <1>1, <1>2, <1>4, <2>1, <2>2, <2>3 DEF Running, Selected, AwaitsEntry,
       BlockingLabels, LockLabels
  <2>6. LocalGoal(t)
    BY <1>1, <1>2, <1>4, <2>1, <2>2, <2>5 DEF LocalGoal, Mode, Running, READY, WAITING
  <2> QED
    BY <2>4, <2>6
<1> QED
  BY <1>6, <1>7 DEF EnterBody

(* The body of CriticalSectionExit starts out from the last Exit of the     *)
(* owner or from a nested one.                                              *)
LEMMA ExitBodyFacts ==
  ASSUME MaskedInv, NEW t \in Threads, ExitBody(t)
  PROVE  /\ t = current /\ owner = t /\ t # NoThread
         /\ pc[t] = "exitBody" /\ pc \in [Threads -> Labels]
         /\ UNCHANGED <<state, lockCount, isSleep, current, ret, reg, depth>>
         /\ Running(t) /\ ~InLocks(t)
         /\ selected[t] = NoThread
         /\ depth[t] \in Nat
         /\ occupationCounter = depth[t] + 1
         /\ LastExit(t) => depth[t] = 0
<1>1. /\ t = current /\ pc[t] = "exitBody" /\ t # NoThread
      /\ UNCHANGED <<state, lockCount, isSleep, current, ret, reg, depth>>
  BY ConstantsAssumption DEF ExitBody, At, schedVars, Threads
<1>2. owner = t
  BY <1>1 DEF MaskedInv, SectionInv, ExitersOwn
<1>3. Running(t)
  BY <1>1, CurrentMode DEF BlockingLabels, LockLabels
<1>4. selected[t] = NoThread
  BY <1>1 DEF MaskedInv, SelectInv, UnlockLabels
<1>5. depth[t] \in Nat /\ pc \in [Threads -> Labels]
  BY DEF MaskedInv, TypeInv, TypeOK
<1>6. occupationCounter = depth[t] + 1
  <2>1. NestingMatches /\ Owes(t)
    BY <1>1 DEF MaskedInv, Owes
  <2> QED
    BY <1>1, <1>2, <1>5, <2>1 DEF NestingMatches
<1>7. LastExit(t) => depth[t] = 0
  BY <1>2, <1>5, <1>6 DEF LastExit
<1> QED
  BY <1>1, <1>2, <1>3, <1>4, <1>5, <1>6, <1>7 DEF Running

(* An Exit that hands the section to nobody keeps the invariant.           *)
LEMMA ExitLocally ==
  ASSUME MaskedInv, NEW t \in Threads, ExitBody(t), ExitNested(t) \/ ExitFree(t)
  PROVE  LocalStep(t) /\ LocalGoal(t)
<1>1. /\ locks' = locks /\ selected' = selected
      /\ pc' = [pc EXCEPT ![t] = "exitDone"]
  BY DEF ExitNested, ExitFree, Go
<1>2. \A x : InLocks(x)' <=> InLocks(x)
  BY <1>1 DEF InLocks
<1>3. Running(t)'
  BY <1>1, <1>2, ExitBodyFacts DEF Running, Selected, AwaitsEntry, BlockingLabels, LockLabels
<1>4. CASE ExitNested(t)
  <2>1. /\ owner' = owner
        /\ occupationCounter' = occupationCounter - 1
    BY <1>4 DEF ExitNested
  <2>2. LocalStep(t)
    BY <1>1, <1>2, <2>1, ExitBodyFacts DEF LocalStep
  <2>3. LocalGoal(t)
    BY <1>1, <1>3, <2>1, ExitBodyFacts DEF LocalGoal, Mode, Owes, Running, READY, WAITING
  <2> QED
    BY <2>2, <2>3
<1>5. CASE ExitFree(t)
  <2>1. /\ owner' = NoThread
        /\ depth[t] = 0
    BY <1>5, ExitBodyFacts DEF ExitFree
  <2>2. LocalStep(t)
    BY <1>1, <1>2, <2>1, ExitBodyFacts DEF LocalStep
  <2>3. LocalGoal(t)
    BY <1>1, <1>3, <2>1, ExitBodyFacts DEF LocalGoal, Mode, Running, READY, WAITING
  <2> QED
    BY <2>2, <2>3
<1> QED
  BY <1>4, <1>5

-----------------------------------------------------------------------------
(* PsUnlockThread: the section is handed to a queued thread, or a new one   *)
(* is started, and then ThreadUnlock makes it ready.                        *)
LEMMA HandOverStep ==
  ASSUME MaskedInv, NEW t \in Threads, ExitBody(t), ExitHandOver(t)
  PROVE  WaitInv'
<1>h. PICK y \in Threads : y = Head(locks)
  <2>1. locks \in Seq(Threads) /\ locks # <<>>
    BY DEF ExitHandOver, HandOver, MaskedInv, TypeInv, TypeOK
  <2> QED
    BY <2>1, HeadTailProperties
<1>0. /\ t = current /\ owner = t /\ pc[t] = "exitBody"
      /\ pc \in [Threads -> Labels]
      /\ UNCHANGED <<state, lockCount, isSleep, current, ret, reg, depth>>
      /\ Running(t) /\ ~InLocks(t)
      /\ selected[t] = NoThread
  BY ExitBodyFacts
<1>1. /\ owner' = y
      /\ occupationCounter' = 1
      /\ selected' = [selected EXCEPT ![t] = y]
      /\ pc' = [pc EXCEPT ![t] = "exitPass"]
      /\ depth[t] = 0
  BY <1>h, ExitBodyFacts DEF ExitHandOver, HandOver, Go
<1>2. y \in Threads /\ y # NoThread
  BY ConstantsAssumption DEF Threads
<1>3. InLocks(y) /\ \A x : InLocks(x)' <=> InLocks(x) /\ x # y
  BY <1>h, LeaveLocks DEF ExitHandOver, HandOver, MaskedInv, TypeInv, TypeOK, SectionInv,
     SectionConsistent, DistinctLocks
<1>4. y # t
  BY <1>0, <1>3
<1>5. Queued(y)
  <2>1. Mode(y) /\ pc[y] # "enqueued"
    BY <1>0, <1>2, <1>4 DEF MaskedInv, ModeInv, SpinlockExclusion, HoldsSpinlock
  <2> QED
    BY <1>0, <1>2, <1>3, <1>4, <2>1
       DEF Mode, NewThread, Blocking, Asleep, Unlocking, Running, Dead
<1>6. selected \in [Threads -> Threads \union {NoThread}]
  BY DEF MaskedInv, TypeInv, TypeOK
<1>7. \A u \in Threads : selected[u] # y
  BY <1>5 DEF Queued, Selected
<1>8. Unlocking(y)'
  <2>1. AwaitsEntry(y)' /\ ~InLocks(y)'
    <3>1. pc'[y] = pc[y] /\ ret'[y] = ret[y]
      BY <1>0, <1>1, <1>2, <1>4
    <3> QED
      BY <1>3, <1>5, <3>1 DEF AwaitsEntry, Queued
  <2>2. selected'[t] = y /\ pc'[t] \in BeforeStore
    BY <1>0, <1>1, <1>6 DEF BeforeStore
  <2>3. \A u \in Threads : selected'[u] = y => u = t
    BY <1>1, <1>6, <1>7
  <2>4. /\ state'[y] = WAITING /\ lockCount'[y] = 1 /\ depth'[y] = 0 /\ ~isSleep'[y]
        /\ y # current' /\ owner' = y
    BY <1>0, <1>1, <1>4, <1>5 DEF Queued
  <2> QED
    BY <2>1, <2>2, <2>3, <2>4 DEF Unlocking, Selected
<1>9. Running(t)'
  <2>1. ~Selected(t)'
    BY <1>0, <1>1, <1>4, <1>6 DEF Selected, Running
  <2> QED
    BY <1>0, <1>1, <1>3, <2>1 DEF Running, AwaitsEntry, BlockingLabels, LockLabels
<1>10. ASSUME NEW x \in Threads, x \notin {t, y} PROVE Mode(x)'
  <2>1. SameThread(x)
    <3>1. \A u \in Threads : selected'[u] = x <=> selected[u] = x
      BY <1>0, <1>1, <1>6, <1>10, ConstantsAssumption DEF Threads
    <3>2. \A u \in Threads : selected[u] = x => pc'[u] = pc[u]
      BY <1>0, <1>1, <1>10, ConstantsAssumption DEF Threads
    <3>3. pc'[x] = pc[x] /\ (owner' = x <=> owner = x) /\ (InLocks(x)' <=> InLocks(x))
      BY <1>0, <1>1, <1>3, <1>10
    <3> QED
      BY <1>0, <3>1, <3>2, <3>3 DEF SameThread
  <2>2. Mode(x)
    BY DEF MaskedInv, ModeInv
  <2> QED
    BY <2>1, <2>2, ModeFrame
<1>11. ModeInv'
  BY <1>8, <1>9, <1>10 DEF ModeInv, Mode
<1>12. SelectInv'
  <2>1. \A u \in Threads \ {t} :
          pc'[u] = pc[u] /\ reg'[u] = reg[u] /\ selected'[u] = selected[u]
    BY <1>0, <1>1
  <2>2. pc'[t] = "exitPass" /\ selected'[t] = y
    BY <1>0, <1>1, <1>6
  <2>3. SelectInv
    BY DEF MaskedInv
  <2> QED
    BY <1>7, <2>1, <2>2, <2>3 DEF SelectInv
<1>13. CurrentInv'
  BY <1>0, <1>9 DEF CurrentInv, Running, READY, WAITING
<1>14. OwnerInv'
  <2>1. \A u \in Threads \ {t} : pc'[u] = pc[u] /\ depth'[u] = depth[u]
    BY <1>0, <1>1
  <2>2. pc'[t] = "exitPass" /\ depth'[t] = 0 /\ OwnerInv
    BY <1>0, <1>1 DEF MaskedInv
  <2> QED
    BY <1>0, <2>1, <2>2 DEF OwnerInv
<1>15. NestingMatches'
  BY <1>0, <1>1, <1>4, <1>5 DEF NestingMatches, Queued, Owes, AwaitsEntry
<1> QED
  BY <1>11, <1>12, <1>13, <1>14, <1>15 DEF WaitInv

(* PsUnlockThread of a thread created and not yet started keeps the        *)
(* invariant.                                                              *)
LEMMA StartStep ==
  ASSUME MaskedInv, NEW t \in Threads, NEW y \in Threads, CallStart(t, y)
  PROVE  WaitInv'
<1>1. /\ t = current /\ pc[t] = "run" /\ pc[y] = "new" /\ t # y
      /\ selected' = [selected EXCEPT ![t] = y]
      /\ pc' = [pc EXCEPT ![t] = "unlockLoad", ![y] = "run"]
      /\ UNCHANGED <<state, lockCount, isSleep, current, owner, occupationCounter, locks,
                     ret, reg, depth>>
  BY DEF CallStart, At, schedVars, sectionVars
<1>2. Running(t) /\ selected[t] = NoThread
  BY <1>1, CurrentMode DEF MaskedInv, SelectInv, UnlockLabels, BlockingLabels, LockLabels
<1>3. NewThread(y)
  BY <1>1 DEF MaskedInv, ModeInv, Mode, Blocking, Queued, Asleep, Unlocking, Running, Dead,
     BlockingLabels, LockLabels, AwaitsEntry
<1>4. /\ selected \in [Threads -> Threads \union {NoThread}]
      /\ pc \in [Threads -> Labels]
      /\ NoThread \notin Threads
  BY ConstantsAssumption DEF MaskedInv, TypeInv, TypeOK, Threads
<1>5. \A x : InLocks(x)' <=> InLocks(x)
  BY <1>1 DEF InLocks
<1>6. \A u \in Threads : selected[u] # y
  BY <1>3 DEF NewThread, Selected
<1>7. Unlocking(y)'
  <2>1. Selected(y)' /\ \A u \in Threads : selected'[u] = y => u = t
    BY <1>1, <1>4, <1>6 DEF Selected
  <2> QED
    BY <1>1, <1>3, <1>4, <1>5, <2>1 DEF Unlocking, NewThread, BeforeStore
<1>8. Running(t)'
  <2>1. ~Selected(t)'
    BY <1>1, <1>2, <1>4 DEF Selected, Running
  <2> QED
    BY <1>1, <1>2, <1>4, <1>5, <2>1 DEF Running, AwaitsEntry, BlockingLabels, LockLabels
<1>9. ASSUME NEW x \in Threads, x \notin {t, y} PROVE Mode(x)'
  <2>1. SameThread(x)
    <3>1. \A u \in Threads : selected'[u] = x <=> selected[u] = x
      BY <1>1, <1>2, <1>4, <1>9
    <3>2. \A u \in Threads : selected[u] = x => pc'[u] = pc[u]
      BY <1>1, <1>2, <1>3, <1>4, <1>9 DEF MaskedInv, SelectInv, UnlockLabels
    <3> QED
      BY <1>1, <1>4, <1>5, <1>9, <3>1, <3>2 DEF SameThread
  <2>2. Mode(x)
    BY DEF MaskedInv, ModeInv
  <2> QED
    BY <2>1, <2>2, ModeFrame
<1>10. ModeInv'
  BY <1>7, <1>8, <1>9 DEF ModeInv, Mode
<1>11. SelectInv'
  <2>1. \A u \in Threads \ {t, y} : pc'[u] = pc[u] /\ selected'[u] = selected[u]
    BY <1>1, <1>4
  <2>2. pc'[t] = "unlockLoad" /\ selected'[t] = y /\ selected'[y] = NoThread
    BY <1>1, <1>3, <1>4 DEF MaskedInv, SelectInv, UnlockLabels
  <2>3. \A u \in Threads : u = y => selected'[u] = NoThread
    BY <2>2
  <2>4. SelectInv /\ y # NoThread /\ reg' = reg
    BY <1>1, <1>4 DEF MaskedInv
  <2> QED
    BY <1>6, <2>1, <2>2, <2>3, <2>4 DEF SelectInv, UnlockLabels
<1>12. CurrentInv'
  BY <1>1, <1>8 DEF CurrentInv, Running, READY, WAITING
<1>13. OwnerInv'
  BY <1>1, <1>4 DEF OwnerInv, MaskedInv
<1>14. NestingMatches'
  BY <1>1, <1>4 DEF NestingMatches, MaskedInv, TypeInv, TypeOK, Owes
<1> QED
  BY <1>10, <1>11, <1>12, <1>13, <1>14 DEF WaitInv

(* A thread inside ThreadUnlock: its target waits, with a lockCount that     *)
(* depends on how far the unlocker is.                                      *)
LEMMA UnlockFacts ==
  ASSUME MaskedInv, NEW t \in Threads, t = current, pc[t] \in UnlockLabels
  PROVE  /\ Running(t) /\ selected[t] \in Threads /\ selected[t] # t
         /\ Unlocking(selected[t])
         /\ lockCount[selected[t]] = IF pc[t] \in BeforeStore THEN 1 ELSE 0
         /\ \A u \in Threads : selected[u] = selected[t] => u = t
         /\ ~Owes(t)
<1>1. Running(t)
  BY CurrentMode DEF BlockingLabels, LockLabels, UnlockLabels
<1>2. selected[t] \in Threads /\ selected[t] # NoThread
  BY ConstantsAssumption DEF MaskedInv, TypeInv, UnlockHasTarget, Threads
<1>3. Mode(selected[t]) /\ Selected(selected[t])
  BY <1>2 DEF MaskedInv, ModeInv, Selected
<1>4. Unlocking(selected[t])
  BY <1>3 DEF Mode, NewThread, Blocking, Queued, Asleep, Running, Dead
<1>5. \A u \in Threads : selected[u] = selected[t] => u = t
  BY <1>2 DEF MaskedInv, SelectInv
<1>6. ~Owes(t)
  BY DEF Owes, UnlockLabels
<1> QED
  BY <1>1, <1>2, <1>4, <1>5, <1>6 DEF Unlocking

(* What the steps of ThreadUnlock of y by t have in common.                 *)
UnlockStep(t, y) ==
  /\ UNCHANGED <<isSleep, current, owner, occupationCounter, locks, ret, depth>>
  /\ \A x \in Threads \ {t} : UNCHANGED <<pc[x], reg[x], selected[x]>>
  /\ \A x \in Threads \ {y} : UNCHANGED <<state[x], lockCount[x]>>
  /\ pc'[t] \in UnlockLabels \union {"run"}
  /\ \/ /\ selected'[t] = y
        /\ pc'[t] \in UnlockLabels
        /\ pc'[t] = "unlockStore" => reg'[t] = 1
     \/ selected'[t] = NoThread

(* A step of ThreadUnlock keeps the invariant if its target ends in a mode *)
(* that fits how far the unlocker is.                                      *)
LEMMA UnlockSuffices ==
  ASSUME MaskedInv, NEW t \in Threads, NEW y \in Threads,
         t = current, pc[t] \in UnlockLabels, selected[t] = y,
         UnlockStep(t, y), Mode(y)'
  PROVE  WaitInv'
<1>1. /\ Running(t) /\ y # t /\ ~Owes(t) /\ y # NoThread
      /\ \A u \in Threads : selected[u] = y => u = t
  BY UnlockFacts, ConstantsAssumption DEF Threads
<1>2. \A x : InLocks(x)' <=> InLocks(x)
  BY DEF UnlockStep, InLocks
<1>3. ASSUME NEW x \in Threads, x \notin {t, y} PROVE Mode(x)'
  <2>1. \A u \in Threads : selected'[u] = x <=> selected[u] = x
    <3>1. selected'[t] # x /\ selected[t] # x
      BY <1>3, ConstantsAssumption DEF UnlockStep, Threads
    <3> QED
      BY <3>1 DEF UnlockStep
  <2>2. \A u \in Threads : selected[u] = x => pc'[u] = pc[u]
    BY <1>3 DEF UnlockStep
  <2>3. SameThread(x)
    BY <1>2, <1>3, <2>1, <2>2 DEF SameThread, UnlockStep
  <2>4. Mode(x)
    BY DEF MaskedInv, ModeInv
  <2> QED
    BY <2>3, <2>4, ModeFrame
<1>4. Running(t)'
  <2>1. ~Selected(t)'
    BY <1>1, ConstantsAssumption DEF Selected, Running, UnlockStep, Threads
  <2>2. pc[t] # "enqueued" /\ pc'[t] # "enqueued" /\ ~AwaitsEntry(t)'
        /\ pc'[t] \notin BlockingLabels \union {"new", "assert", "bugcheck"}
    BY DEF UnlockStep, UnlockLabels, AwaitsEntry, BlockingLabels, LockLabels
  <2> QED
    BY <1>1, <1>2, <2>1, <2>2 DEF Running, UnlockStep
<1>5. ModeInv'
  BY <1>3, <1>4 DEF ModeInv, Mode
<1>6. SelectInv'
  BY <1>1 DEF SelectInv, MaskedInv, UnlockStep
<1>7. CurrentInv'
  BY <1>4 DEF CurrentInv, Running, UnlockStep, READY, WAITING
<1>8. OwnerInv'
  <2>1. pc'[t] \notin {"enterDone", "exit"}
    BY DEF UnlockStep, UnlockLabels
  <2> QED
    BY <2>1 DEF OwnerInv, MaskedInv, UnlockStep
<1>9. NestingMatches'
  <2>1. ~Owes(t)'
    BY DEF UnlockStep, UnlockLabels, Owes
  <2>2. \A x \in Threads : Owes(x)' <=> Owes(x)
    BY <1>1, <2>1 DEF Owes, UnlockStep
  <2> QED
    BY <2>2 DEF NestingMatches, MaskedInv, TypeInv, TypeOK, UnlockStep
<1> QED
  BY <1>5, <1>6, <1>7, <1>8, <1>9 DEF WaitInv

(* Stuttering keeps the invariant.                                         *)
LEMMA UnchangedStep ==
  ASSUME MaskedInv, UNCHANGED <<schedVars, sectionVars, localVars, pc>>
  PROVE  WaitInv'
<1> USE DEF schedVars, sectionVars, localVars
<1>1. ASSUME NEW x \in Threads PROVE Mode(x)'
  <2>1. SameThread(x)
    BY DEF SameThread, InLocks
  <2> QED
    BY <2>1, ModeFrame DEF MaskedInv, ModeInv
<1>2. SelectInv' /\ CurrentInv' /\ OwnerInv'
  BY DEF SelectInv, CurrentInv, OwnerInv, MaskedInv
<1>3. NestingMatches'
  BY DEF NestingMatches, Owes, MaskedInv
<1> QED
  BY <1>1, <1>2, <1>3 DEF WaitInv, ModeInv

(* The SpinlockExit between the hand-over and PsUnlockThread.               *)
LEMMA ExitPassStep ==
  ASSUME MaskedInv, NEW t \in Threads, ExitPass(t)
  PROVE  WaitInv'
<1>1. /\ t = current /\ pc[t] = "exitPass"
      /\ pc' = [pc EXCEPT ![t] = "unlockLoad"]
      /\ UNCHANGED <<state, lockCount, isSleep, current, owner, occupationCounter, locks,
                     ret, reg, selected, depth>>
  BY DEF ExitPass, At, Go, SpinlockExit, schedVars, localVars
<1>2. pc \in [Threads -> Labels]
  BY DEF MaskedInv, TypeInv, TypeOK
<1>3. Running(t)
  BY <1>1, CurrentMode DEF BlockingLabels, LockLabels
<1>4. \A x : InLocks(x)' <=> InLocks(x)
  BY <1>1 DEF InLocks
<1>5. \A u \in Threads : pc'[u] \in BeforeStore <=> pc[u] \in BeforeStore
  BY <1>1, <1>2 DEF BeforeStore
<1>6. ASSUME NEW x \in Threads, x # t PROVE Mode(x)'
  <2>1. SameThread(x)
    BY <1>1, <1>4, <1>5, <1>6 DEF SameThread
  <2> QED
    BY <2>1, ModeFrame DEF MaskedInv, ModeInv
<1>7. Running(t)'
  BY <1>1, <1>2, <1>3, <1>4 DEF Running, Selected, AwaitsEntry, BlockingLabels, LockLabels
<1>8. ModeInv'
  BY <1>6, <1>7 DEF ModeInv, Mode
<1>9. SelectInv'
  BY <1>1, <1>2 DEF SelectInv, MaskedInv, UnlockLabels
<1>10. CurrentInv' /\ OwnerInv'
  BY <1>1, <1>2, <1>3 DEF CurrentInv, OwnerInv, MaskedInv, Running, READY, WAITING
<1>11. NestingMatches'
  <2>1. \A x \in Threads : Owes(x)' <=> Owes(x)
    BY <1>1, <1>2 DEF Owes
  <2> QED
    BY <1>1, <2>1 DEF NestingMatches, MaskedInv, TypeInv, TypeOK
<1> QED
  BY <1>8, <1>9, <1>10, <1>11 DEF WaitInv

(* Each step of ThreadUnlock keeps the invariant.                          *)
LEMMA UnlockSteps ==
  ASSUME MaskedInv, NEW t \in Threads,
         \/ UnlockLoad(t) \/ UnlockStore(t) \/ UnlockAssert(t)
         \/ UnlockTest(t) \/ UnlockState(t) \/ UnlockReady(t)
  PROVE  WaitInv'
<1>1. t = current /\ pc[t] \in UnlockLabels
  BY DEF UnlockLoad, UnlockStore, UnlockAssert, UnlockTest, UnlockState, UnlockReady, At,
     UnlockLabels
<1>2. PICK y \in Threads : y = selected[t]
  BY <1>1, UnlockFacts
<1>3. /\ Unlocking(y) /\ y # t
      /\ lockCount[y] = IF pc[t] \in BeforeStore THEN 1 ELSE 0
      /\ \A u \in Threads : selected[u] = y => u = t
  BY <1>1, <1>2, UnlockFacts
<1>4. /\ pc \in [Threads -> Labels]
      /\ state \in [Threads -> {READY, WAITING, EXITED}]
      /\ lockCount \in [Threads -> Int]
      /\ reg \in [Threads -> Int]
      /\ selected \in [Threads -> Threads \union {NoThread}]
  BY DEF MaskedInv, TypeInv, TypeOK
<1>5. SUFFICES UnlockStep(t, y) /\ Mode(y)'
  BY <1>1, <1>2, UnlockSuffices
<1>6. CASE UnlockLoad(t)
  <2>1. /\ pc[t] = "unlockLoad"
        /\ UNCHANGED <<state, lockCount, isSleep, current, owner, occupationCounter, locks,
                       selected, ret, depth>>
        /\ pc' = [pc EXCEPT ![t] = "unlockStore"]
        /\ reg' = [reg EXCEPT ![t] = lockCount[y]]
    BY <1>2, <1>3, <1>6 DEF UnlockLoad, At, Go, schedVars, sectionVars, BeforeStore, Unlocking
  <2>2. UnlockStep(t, y)
    BY <1>2, <1>3, <1>4, <2>1 DEF UnlockStep, UnlockLabels, BeforeStore
  <2>3. Unlocking(y)'
    <3>1. /\ pc'[y] = pc[y] /\ (AwaitsEntry(y)' <=> AwaitsEntry(y))
          /\ (InLocks(y)' <=> InLocks(y))
      BY <1>3, <1>4, <2>1 DEF AwaitsEntry, InLocks
    <3>2. \A u \in Threads : selected'[u] = y => u = t
      BY <1>2, <1>3, <1>4, <2>1 DEF Selected, Threads
    <3> QED
      BY <1>2, <1>3, <1>4, <2>1, <3>1, <3>2 DEF Unlocking, Selected, BeforeStore
  <2> QED
    BY <2>2, <2>3 DEF Mode
<1>7. CASE UnlockStore(t)
  <2>0. reg[t] = 1
    BY <1>2, <1>7, ConstantsAssumption DEF UnlockStore, At, MaskedInv, SelectInv, Threads
  <2>1. /\ pc[t] = "unlockStore"
        /\ UNCHANGED <<state, isSleep, current, owner, occupationCounter, locks,
                       selected, ret, depth>>
        /\ pc' = [pc EXCEPT ![t] = "unlockAssert"]
        /\ lockCount' = [lockCount EXCEPT ![y] = 0]
        /\ reg' = [reg EXCEPT ![t] = 0]
    BY <1>2, <1>3, <1>7, <2>0 DEF UnlockStore, At, Go, schedVars, sectionVars, BeforeStore, Unlocking
  <2>2. UnlockStep(t, y)
    BY <1>2, <1>3, <1>4, <2>1 DEF UnlockStep, UnlockLabels, BeforeStore
  <2>3. Unlocking(y)'
    <3>1. /\ pc'[y] = pc[y] /\ (AwaitsEntry(y)' <=> AwaitsEntry(y))
          /\ (InLocks(y)' <=> InLocks(y))
      BY <1>3, <1>4, <2>1 DEF AwaitsEntry, InLocks
    <3>2. \A u \in Threads : selected'[u] = y => u = t
      BY <1>2, <1>3, <1>4, <2>1 DEF Selected, Threads
    <3> QED
      BY <1>2, <1>3, <1>4, <2>1, <3>1, <3>2 DEF Unlocking, Selected, BeforeStore
  <2> QED
    BY <2>2, <2>3 DEF Mode
<1>8. CASE UnlockAssert(t)
  <2>0. pc[t] = "unlockAssert" /\ lockCount[selected[t]] = 0 /\ 0 >= 0
    BY <1>2, <1>3, <1>8 DEF UnlockAssert, At, BeforeStore
  <2>1. /\ pc[t] = "unlockAssert"
        /\ UNCHANGED <<state, lockCount, isSleep, current, owner, occupationCounter, locks,
                       selected, reg, ret, depth>>
        /\ pc' = [pc EXCEPT ![t] = "unlockTest"]
    BY <1>8, <2>0 DEF UnlockAssert, UnlockGoes, Go, schedVars, sectionVars
  <2>2. UnlockStep(t, y)
    BY <1>2, <1>3, <1>4, <2>1 DEF UnlockStep, UnlockLabels, BeforeStore
  <2>3. Unlocking(y)'
    <3>1. /\ pc'[y] = pc[y] /\ (AwaitsEntry(y)' <=> AwaitsEntry(y))
          /\ (InLocks(y)' <=> InLocks(y))
      BY <1>3, <1>4, <2>1 DEF AwaitsEntry, InLocks
    <3>2. \A u \in Threads : selected'[u] = y => u = t
      BY <1>2, <1>3, <1>4, <2>1 DEF Selected, Threads
    <3> QED
      BY <1>2, <1>3, <1>4, <2>1, <3>1, <3>2 DEF Unlocking, Selected, BeforeStore
  <2> QED
    BY <2>2, <2>3 DEF Mode
<1>9. CASE UnlockTest(t)
  <2>1. /\ pc[t] = "unlockTest"
        /\ UNCHANGED <<state, lockCount, isSleep, current, owner, occupationCounter, locks,
                       selected, reg, ret, depth>>
        /\ pc' = [pc EXCEPT ![t] = "unlockState"]
    BY <1>2, <1>3, <1>9 DEF UnlockTest, UnlockGoes, At, Go, schedVars, sectionVars, BeforeStore, Unlocking
  <2>2. UnlockStep(t, y)
    BY <1>2, <1>3, <1>4, <2>1 DEF UnlockStep, UnlockLabels, BeforeStore
  <2>3. Unlocking(y)'
    <3>1. /\ pc'[y] = pc[y] /\ (AwaitsEntry(y)' <=> AwaitsEntry(y))
          /\ (InLocks(y)' <=> InLocks(y))
      BY <1>3, <1>4, <2>1 DEF AwaitsEntry, InLocks
    <3>2. \A u \in Threads : selected'[u] = y => u = t
      BY <1>2, <1>3, <1>4, <2>1 DEF Selected, Threads
    <3> QED
      BY <1>2, <1>3, <1>4, <2>1, <3>1, <3>2 DEF Unlocking, Selected, BeforeStore
  <2> QED
    BY <2>2, <2>3 DEF Mode
<1>10. CASE UnlockState(t)
  <2>1. /\ pc[t] = "unlockState"
        /\ UNCHANGED <<state, lockCount, isSleep, current, owner, occupationCounter, locks,
                       selected, reg, ret, depth>>
        /\ pc' = [pc EXCEPT ![t] = "unlockReady"]
    BY <1>2, <1>3, <1>10 DEF UnlockState, UnlockGoes, At, Go, schedVars, sectionVars, BeforeStore, Unlocking
  <2>2. UnlockStep(t, y)
    BY <1>2, <1>3, <1>4, <2>1 DEF UnlockStep, UnlockLabels, BeforeStore
  <2>3. Unlocking(y)'
    <3>1. /\ pc'[y] = pc[y] /\ (AwaitsEntry(y)' <=> AwaitsEntry(y))
          /\ (InLocks(y)' <=> InLocks(y))
      BY <1>3, <1>4, <2>1 DEF AwaitsEntry, InLocks
    <3>2. \A u \in Threads : selected'[u] = y => u = t
      BY <1>2, <1>3, <1>4, <2>1 DEF Selected, Threads
    <3> QED
      BY <1>2, <1>3, <1>4, <2>1, <3>1, <3>2 DEF Unlocking, Selected, BeforeStore
  <2> QED
    BY <2>2, <2>3 DEF Mode
<1>11. CASE UnlockReady(t)
  <2>1. /\ pc[t] = "unlockReady"
        /\ UNCHANGED <<lockCount, isSleep, current, owner, occupationCounter, locks,
                       reg, ret, depth>>
        /\ pc' = [pc EXCEPT ![t] = "run"]
        /\ state' = [state EXCEPT ![y] = READY]
        /\ selected' = [selected EXCEPT ![t] = NoThread]
    BY <1>2, <1>3, <1>11 DEF UnlockReady, At, Go, schedVars, sectionVars, BeforeStore, Unlocking
  <2>2. UnlockStep(t, y)
    BY <1>2, <1>3, <1>4, <2>1 DEF UnlockStep, UnlockLabels, BeforeStore
  <2>3. Running(y)'
    <3>1. /\ pc'[y] = pc[y] /\ (AwaitsEntry(y)' <=> AwaitsEntry(y))
          /\ (InLocks(y)' <=> InLocks(y))
      BY <1>3, <1>4, <2>1 DEF AwaitsEntry, InLocks
    <3>2. ~Selected(y)'
      BY <1>2, <1>3, <1>4, <2>1, ConstantsAssumption DEF Selected, Threads
    <3> QED
      BY <1>2, <1>3, <1>4, <2>1, <3>1, <3>2 DEF Unlocking, Running, Selected, AwaitsEntry, BlockingLabels, LockLabels, BeforeStore
  <2> QED
    BY <2>2, <2>3 DEF Mode
<1> QED
  BY <1>6, <1>7, <1>8, <1>9, <1>10, <1>11

-----------------------------------------------------------------------------
(* The scheduler.                                                           *)
(* The thread PsiSchedule switches to is not waiting.                      *)
LEMMA ScheduledReady ==
  ASSUME TypeOK, NEW sinceStart, PsiSchedule(sinceStart)
  PROVE  current' \in Threads /\ state'[current'] = READY
BY ScheduleEffect DEF Wakes

(* The timer, and a yield after which the thread is where it was.           *)
LEMMA ScheduleStep ==
  ASSUME MaskedInv, NEW sinceStart, PsiSchedule(sinceStart),
         pc[current] \notin BlockingLabels,
         UNCHANGED <<owner, occupationCounter, locks, selected, pc, ret, reg, depth>>
  PROVE  WaitInv'
<1>1. TypeOK
  BY DEF MaskedInv, TypeInv
<1>2. ASSUME NEW x \in Threads PROVE Mode(x)'
  <2>1. Mode(x)
    BY DEF MaskedInv, ModeInv
  <2>2. pc[x] \notin BlockingLabels
    BY CurrentMode
  <2> QED
    BY <1>1, <2>1, <2>2, ModeScheduled
<1>3. CurrentInv'
  BY <1>1, ScheduledReady DEF CurrentInv, READY, WAITING
<1>4. SelectInv' /\ OwnerInv'
  BY DEF SelectInv, OwnerInv, MaskedInv
<1>5. NestingMatches'
  BY DEF NestingMatches, Owes, MaskedInv
<1> QED
  BY <1>2, <1>3, <1>4, <1>5 DEF WaitInv, ModeInv

(* A yield after which the thread goes on somewhere else.                   *)
LEMMA YieldStep ==
  ASSUME MaskedInv, NEW t \in Threads, t = current, PsiSchedule(elapsed),
         pc[t] \in {"lockYield", "enterYield"},
         UNCHANGED <<owner, occupationCounter, locks, selected, reg>>,
         \A x \in Threads \ {t} : UNCHANGED <<pc[x], ret[x], depth[x]>>,
         Mode(t)', pc'[t] \notin {"enterDone", "exit"},
         depth'[t] > 0 => owner = t,
         owner = t => occupationCounter = depth'[t] + (IF Owes(t)' THEN 1 ELSE 0)
  PROVE  WaitInv'
<1>1. TypeOK /\ selected[t] = NoThread
  BY DEF MaskedInv, TypeInv, SelectInv, UnlockLabels
<1>2. ASSUME NEW x \in Threads, x # t PROVE Mode(x)'
  <2>1. Mode(x)
    BY DEF MaskedInv, ModeInv
  <2>2. pc[x] \notin BlockingLabels
    BY <1>2, CurrentMode
  <2>3. \A u \in Threads : selected[u] = x => pc'[u] = pc[u]
    BY <1>1, ConstantsAssumption DEF Threads
  <2> QED
    BY <1>1, <1>2, <2>1, <2>2, <2>3, ModeScheduled
<1>3. CurrentInv'
  BY <1>1, ScheduledReady DEF CurrentInv, READY, WAITING
<1>4. SelectInv'
  BY <1>1 DEF SelectInv, MaskedInv
<1>5. OwnerInv'
  BY DEF OwnerInv, MaskedInv
<1>6. NestingMatches'
  <2>1. CASE owner = t
    BY <2>1 DEF NestingMatches
  <2>2. CASE owner \in Threads \ {t}
    <3>1. (Owes(owner)' <=> Owes(owner)) /\ depth'[owner] = depth[owner]
      BY <2>2 DEF Owes
    <3> QED
      BY <2>2, <3>1 DEF NestingMatches, MaskedInv
  <2>3. CASE owner = NoThread
    BY <2>3 DEF NestingMatches
  <2> QED
    BY <1>1, <2>1, <2>2, <2>3 DEF TypeOK
<1> QED
  BY <1>2, <1>3, <1>4, <1>5, <1>6 DEF WaitInv, ModeInv

(* The yield at the end of ThreadLock keeps the invariant.                 *)
LEMMA LockYieldStep ==
  ASSUME MaskedInv, NEW t \in Threads, LockYield(t)
  PROVE  WaitInv'
<1>1. /\ t = current /\ pc[t] = "lockYield"
      /\ PsiSchedule(elapsed)
      /\ pc' = [pc EXCEPT ![t] = ret[t]]
      /\ ret' = [ret EXCEPT ![t] = "run"]
      /\ UNCHANGED <<owner, occupationCounter, locks, selected, reg, depth>>
  BY DEF LockYield, At, Go, sectionVars
<1>2. /\ TypeOK
      /\ pc \in [Threads -> Labels]
      /\ ret \in [Threads -> {"run", "enterYield"}]
      /\ depth[t] \in Nat
  BY DEF MaskedInv, TypeInv, TypeOK
<1>3. pc'[t] = ret[t] /\ ret'[t] = "run"
  BY <1>1, <1>2
<1>4. UNCHANGED <<state[t], lockCount[t], isSleep[t]>> \/ Wakes(t)
  BY <1>1, <1>2, ScheduleEffect
<1>5. (Selected(t)' <=> Selected(t)) /\ (InLocks(t)' <=> InLocks(t))
  BY <1>1 DEF Selected, InLocks
<1>6. Mode(t)'
  <2>1. CASE Running(t)
    <3>1. UNCHANGED <<state[t], lockCount[t], isSleep[t]>>
      BY <1>4, <2>1 DEF Wakes, Running
    <3> QED
      BY <1>1, <1>2, <1>3, <1>5, <2>1, <3>1 DEF Mode, Running, AwaitsEntry, BlockingLabels,
         LockLabels
  <2>2. CASE Queued(t)
    <3>1. UNCHANGED <<state[t], lockCount[t], isSleep[t]>>
      BY <1>4, <2>2 DEF Wakes, Queued
    <3> QED
      BY <1>1, <1>2, <1>3, <1>5, <2>2, <3>1 DEF Mode, Queued, AwaitsEntry
  <2>3. CASE Asleep(t) /\ UNCHANGED <<state[t], lockCount[t], isSleep[t]>>
    BY <1>1, <1>3, <1>5, <2>3 DEF Mode, Asleep
  <2>4. CASE Asleep(t) /\ Wakes(t)
    BY <1>1, <1>3, <1>5, <2>4 DEF Mode, Asleep, Wakes, Running, AwaitsEntry, BlockingLabels,
       LockLabels, READY, WAITING
  <2> QED
    BY <1>1, <1>4, <2>1, <2>2, <2>3, <2>4, CurrentMode
<1>7. depth'[t] > 0 => owner = t
  BY <1>1 DEF MaskedInv, OwnerInv
<1>8. owner = t => occupationCounter = depth'[t] + (IF Owes(t)' THEN 1 ELSE 0)
  <2>1. Owes(t)' <=> Owes(t)
    BY <1>1, <1>2, <1>3 DEF Owes
  <2> QED
    BY <1>1, <2>1, ConstantsAssumption DEF MaskedInv, NestingMatches, Threads
<1>9. pc'[t] \notin {"enterDone", "exit"}
  BY <1>2, <1>3
<1>10. \A x \in Threads \ {t} : UNCHANGED <<pc[x], ret[x], depth[x]>>
  BY <1>1, <1>2
<1> QED
  BY <1>1, <1>6, <1>7, <1>8, <1>9, <1>10, YieldStep

(* The second yield of CriticalSectionEnter keeps the invariant: only the  *)
(* owner comes back from it.                                               *)
LEMMA EnterYieldStep ==
  ASSUME MaskedInv, NEW t \in Threads, EnterYield(t)
  PROVE  WaitInv'
<1>1. /\ t = current /\ pc[t] = "enterYield"
      /\ PsiSchedule(elapsed)
      /\ pc' = [pc EXCEPT ![t] = "run"]
      /\ depth' = [depth EXCEPT ![t] = @ + 1]
      /\ UNCHANGED <<owner, occupationCounter, locks, selected, ret, reg>>
  BY DEF EnterYield, EnterReturns, At, Go, sectionVars
<1>2. /\ TypeOK
      /\ pc \in [Threads -> Labels]
      /\ depth \in [Threads -> Nat]
  BY DEF MaskedInv, TypeInv, TypeOK
<1>3. Running(t) /\ owner = t
  BY <1>1, CurrentMode DEF Running, AwaitsEntry, BlockingLabels, LockLabels
<1>4. pc'[t] = "run" /\ depth'[t] = depth[t] + 1
  BY <1>1, <1>2
<1>5. UNCHANGED <<state[t], lockCount[t], isSleep[t]>>
  BY <1>1, <1>2, <1>3, ScheduleEffect DEF Running, Wakes
<1>6. Mode(t)'
  <2>1. (Selected(t)' <=> Selected(t)) /\ (InLocks(t)' <=> InLocks(t))
    BY <1>1 DEF Selected, InLocks
  <2> QED
    BY <1>1, <1>3, <1>4, <1>5, <2>1 DEF Mode, Running, AwaitsEntry, BlockingLabels, LockLabels
<1>7. occupationCounter = depth'[t] + (IF Owes(t)' THEN 1 ELSE 0)
  <2>1. Owes(t) /\ ~Owes(t)' /\ NestingMatches
    BY <1>1, <1>4 DEF Owes, MaskedInv
  <2> QED
    BY <1>2, <1>3, <1>4, <2>1, ConstantsAssumption DEF NestingMatches, Threads
<1>8. \A x \in Threads \ {t} : UNCHANGED <<pc[x], ret[x], depth[x]>>
  BY <1>1, <1>2
<1> QED
  BY <1>1, <1>3, <1>4, <1>6, <1>7, <1>8, YieldStep

-----------------------------------------------------------------------------
(* The invariant is inductive.                                              *)
(* The invariant holds initially.                                          *)
LEMMA WaitInit == Init => WaitInv
<1> SUFFICES ASSUME Init PROVE WaitInv
  OBVIOUS
<1>1. N \in Threads /\ NoThread \notin Threads
  BY ConstantsAssumption DEF Threads
<1>2. \A t : ~InLocks(t)
  BY DEF Init, InLocks
<1>3. ASSUME NEW t \in Threads PROVE Mode(t)
  <2>1. ~Selected(t)
    BY <1>1, <1>3 DEF Init, Selected
  <2>2. CASE t = Idle
    BY <1>2, <2>1, <2>2 DEF Init, Mode, Running, AwaitsEntry, BlockingLabels, LockLabels
  <2>3. CASE t # Idle
    BY <1>2, <2>1, <2>3 DEF Init, Mode, NewThread
  <2> QED
    BY <2>2, <2>3
<1>4. SelectInv
  BY DEF Init, SelectInv
<1>5. CurrentInv
  BY <1>1 DEF Init, CurrentInv, Idle, READY, WAITING
<1>6. OwnerInv
  BY DEF Init, OwnerInv
<1>7. NestingMatches
  BY DEF Init, NestingMatches
<1> QED
  BY <1>3, <1>4, <1>5, <1>6, <1>7 DEF WaitInv, ModeInv

(* Every step keeps the invariant if the timer leaves blocking threads     *)
(* alone.                                                                  *)
LEMMA WaitStep ==
  ASSUME ~PreemptBlocking, MaskedInv, [Next]_vars
  PROVE  WaitInv'
<1>1. CASE PaliClockHandler
  <2>1. /\ pc[current] \notin BlockingLabels
        /\ PsiSchedule(Ticked)
        /\ UNCHANGED <<owner, occupationCounter, locks, selected, pc, ret, reg, depth>>
    BY <1>1 DEF PaliClockHandler, sectionVars, localVars
  <2> QED
    BY <2>1, ScheduleStep
<1>2. ASSUME NEW t \in Threads, Step(t) PROVE WaitInv'
  <2>1. CASE \/ Enter(t) \/ EnterDone(t) \/ Enqueued(t) \/ Exit(t) \/ ExitSpin(t)
             \/ ExitDone(t) \/ Sleep(t) \/ SleepFlag(t)
    BY <2>1, RunningSteps, LocalSuffices
  <2>2. CASE \/ LockLoad(t) \/ LockStore(t) \/ LockTest(t) \/ LockState(t) \/ LockWait(t)
    BY <2>2, BlockingSteps, LocalSuffices
  <2>3. CASE EnterBody(t)
    BY <2>3, EnterBodyStep, LocalSuffices
  <2>4. CASE ExitBody(t)
    <3>1. CASE ExitNested(t) \/ ExitFree(t)
      BY <2>4, <3>1, ExitLocally, LocalSuffices
    <3>2. CASE ExitHandOver(t)
      BY <2>4, <3>2, HandOverStep
    <3> QED
      BY <2>4, <3>1, <3>2 DEF ExitBody
  <2>5. CASE ExitPass(t)
    BY <2>5, ExitPassStep
  <2>6. CASE \/ UnlockLoad(t) \/ UnlockStore(t) \/ UnlockAssert(t)
             \/ UnlockTest(t) \/ UnlockState(t) \/ UnlockReady(t)
    BY <2>6, UnlockSteps
  <2>7. CASE LockYield(t)
    BY <2>7, LockYieldStep
  <2>8. CASE EnterYield(t)
    BY <2>8, EnterYieldStep
  <2>9. CASE Panic(t)
    <3>1. CASE UNCHANGED <<schedVars, sectionVars, localVars, pc>>
      BY <3>1, UnchangedStep
    <3>2. CASE YieldTo(t, pc[t])
      <4>1. t = current /\ pc[t] \notin BlockingLabels
        BY <2>9 DEF Panic, At, BlockingLabels, LockLabels
      <4>2. pc' = pc
        BY <3>2 DEF YieldTo, Go, MaskedInv, TypeInv, TypeOK
      <4> QED
        BY <3>2, <4>1, <4>2, ScheduleStep DEF YieldTo, sectionVars, localVars
    <3> QED
      BY <2>9, <3>1, <3>2 DEF Panic
  <2> QED
    BY <1>2, <2>1, <2>2, <2>3, <2>4, <2>5, <2>6, <2>7, <2>8, <2>9 DEF Step
<1>3. ASSUME NEW t \in Threads, Client(t) PROVE WaitInv'
  <2>1. CASE CallEnter(t) \/ CallExit(t) \/ CallSleep(t) \/ ThreadReturns(t)
    BY <2>1, RunningSteps, LocalSuffices
  <2>2. CASE CallYield(t)
    <3>1. t = current /\ pc[t] = "run" /\ pc[t] \notin BlockingLabels
      BY <2>2 DEF CallYield, At, BlockingLabels, LockLabels
    <3>2. pc' = pc
      BY <2>2, <3>1 DEF CallYield, YieldTo, Go, MaskedInv, TypeInv, TypeOK
    <3> QED
      BY <2>2, <3>1, <3>2, ScheduleStep DEF CallYield, YieldTo, sectionVars, localVars
  <2>3. CASE \E u \in Threads : CallStart(t, u)
    BY <2>3, StartStep
  <2> QED
    BY <1>3, <2>1, <2>2, <2>3 DEF Client
<1>4. CASE UNCHANGED vars
  BY <1>4, UnchangedStep DEF vars
<1> QED
  BY <1>1, <1>2, <1>3, <1>4 DEF Next

(* So it holds in every state, next to the invariants that need no         *)
(* assumption.                                                             *)
LEMMA MaskedAlways ==
  ASSUME ~PreemptBlocking
  PROVE  Spec => []MaskedInv
<1>1. Init => MaskedInv
  BY TypeInit, SpinlockInit, SectionInit, WaitInit DEF MaskedInv, WaitInv
<1>2. MaskedInv /\ [Next]_vars => MaskedInv'
  <2> SUFFICES ASSUME MaskedInv, [Next]_vars PROVE MaskedInv'
    OBVIOUS
  <2>1. TypeInv' /\ SpinlockExclusion' /\ SectionInv'
    BY TypeStep, SpinlockStep, SectionStep DEF MaskedInv
  <2>2. WaitInv'
    BY WaitStep
  <2> QED
    BY <2>1, <2>2 DEF MaskedInv, WaitInv
<1> QED
  BY <1>1, <1>2, PTL DEF Spec

(* If the timer cannot interrupt a thread between the SpinlockExit of       *)
(* CriticalSectionEnter and the store of WAITING, no two threads are inside *)
(* a critical section.                                                      *)
THEOREM MutualExclusionIfMasked == ~PreemptBlocking => (Spec => []MutualExclusion)
<1> SUFFICES ASSUME ~PreemptBlocking PROVE Spec => []MutualExclusion
  OBVIOUS
<1>1. Spec => []MaskedInv
  BY MaskedAlways
<1>2. MaskedInv => MutualExclusion
  BY DEF MaskedInv, OwnerInv, MutualExclusion
<1> QED
  BY <1>1, <1>2, PTL

(* occupationCounter then counts the Enters that the owner owes Exits.      *)
THEOREM NestingMatchesIfMasked == ~PreemptBlocking => (Spec => []NestingMatches)
<1> SUFFICES ASSUME ~PreemptBlocking PROVE Spec => []NestingMatches
  OBVIOUS
<1>1. Spec => []MaskedInv
  BY MaskedAlways
<1>2. MaskedInv => NestingMatches
  BY DEF MaskedInv
<1> QED
  BY <1>1, <1>2, PTL

(* CriticalSectionExit's bugcheck "Bad critical section exit!" is then out  *)
(* of reach of a thread that leaves a section it entered.                   *)
THEOREM ExitByOwnerIfMasked == ~PreemptBlocking => (Spec => []ExitByOwner)
<1> SUFFICES ASSUME ~PreemptBlocking PROVE Spec => []ExitByOwner
  OBVIOUS
<1>1. Spec => []MaskedInv
  BY MaskedAlways
<1>2. MaskedInv => ExitByOwner
  BY DEF MaskedInv, OwnerInv, ExitByOwner
<1> QED
  BY <1>1, <1>2, PTL

(* ThreadUnlock's assertion that lockCount is not negative then holds.      *)
THEOREM LockCountAssertionIfMasked == ~PreemptBlocking => (Spec => []LockCountAssertion)
<1> SUFFICES ASSUME ~PreemptBlocking PROVE Spec => []LockCountAssertion
  OBVIOUS
<1>1. Spec => []MaskedInv
  BY MaskedAlways
<1>2. MaskedInv => LockCountAssertion
  BY DEF MaskedInv, ModeInv, Mode, NewThread, Blocking, Queued, Asleep, Unlocking, Running,
     Dead, AwaitsEntry, BlockingLabels, LockLabels, LockCountAssertion
<1> QED
  BY <1>1, <1>2, PTL

(* A waiting thread then always has somebody to wake it.                    *)
THEOREM NoLostWakeupIfMasked == ~PreemptBlocking => (Spec => []NoLostWakeup)
<1> SUFFICES ASSUME ~PreemptBlocking PROVE Spec => []NoLostWakeup
  OBVIOUS
<1>1. Spec => []MaskedInv
  BY MaskedAlways
<1>2. MaskedInv => NoLostWakeup
  BY DEF MaskedInv, ModeInv, Mode, NewThread, Blocking, Queued, Asleep, Unlocking, Running,
     Dead, Selected, NoLostWakeup, READY, WAITING, EXITED
<1> QED
  BY <1>1, <1>2, PTL

-----------------------------------------------------------------------------
(* The section as its clients see it implements Monitor: the step lemma of  *)
(* the refinement.                                                          *)
(* A client is counted in or out of the section only when an Enter returns *)
(* or an Exit is called.                                                   *)
LEMMA DepthSteps ==
  ASSUME [Next]_vars
  PROVE  depth' = depth \/ \E t \in Threads : EnterDone(t) \/ EnterYield(t) \/ CallExit(t)
<1> USE DEF localVars
<1>1. CASE PaliClockHandler
  BY <1>1 DEF PaliClockHandler
<1>2. ASSUME NEW t \in Threads, Step(t)
       PROVE depth' = depth \/ \E u \in Threads : EnterDone(u) \/ EnterYield(u) \/ CallExit(u)
  <2>1. CASE Enter(t)
    BY <2>1 DEF Enter, SpinlockEnter
  <2>2. CASE EnterBody(t)
    BY <2>2 DEF EnterBody, EnterOwn, EnterWait
  <2>3. CASE EnterDone(t)
    BY <2>3
  <2>4. CASE Enqueued(t)
    BY <2>4 DEF Enqueued, SpinlockExit
  <2>5. CASE EnterYield(t)
    BY <2>5
  <2>6. CASE Exit(t)
    BY <2>6 DEF Exit
  <2>7. CASE ExitSpin(t)
    BY <2>7 DEF ExitSpin, SpinlockEnter
  <2>8. CASE ExitBody(t)
    BY <2>8 DEF ExitBody, ExitNested, ExitFree, ExitHandOver, HandOver
  <2>9. CASE ExitDone(t)
    BY <2>9 DEF ExitDone, SpinlockExit
  <2>10. CASE ExitPass(t)
    BY <2>10 DEF ExitPass, SpinlockExit
  <2>11. CASE LockLoad(t)
    BY <2>11 DEF LockLoad
  <2>12. CASE LockStore(t)
    BY <2>12 DEF LockStore
  <2>13. CASE LockTest(t)
    BY <2>13 DEF LockTest
  <2>14. CASE LockState(t)
    BY <2>14 DEF LockState
  <2>15. CASE LockWait(t)
    BY <2>15 DEF LockWait
  <2>16. CASE LockYield(t)
    BY <2>16 DEF LockYield
  <2>17. CASE UnlockLoad(t)
    BY <2>17 DEF UnlockLoad
  <2>18. CASE UnlockStore(t)
    BY <2>18 DEF UnlockStore
  <2>19. CASE UnlockAssert(t)
    BY <2>19 DEF UnlockAssert, UnlockGoes
  <2>20. CASE UnlockTest(t)
    BY <2>20 DEF UnlockTest, UnlockGoes
  <2>21. CASE UnlockState(t)
    BY <2>21 DEF UnlockState, UnlockGoes
  <2>22. CASE UnlockReady(t)
    BY <2>22 DEF UnlockReady
  <2>23. CASE Sleep(t)
    BY <2>23 DEF Sleep
  <2>24. CASE SleepFlag(t)
    BY <2>24 DEF SleepFlag
  <2>25. CASE Panic(t)
    BY <2>25 DEF Panic, YieldTo
  <2> QED
    BY <1>2, <2>1, <2>2, <2>3, <2>4, <2>5, <2>6, <2>7, <2>8, <2>9, <2>10, <2>11, <2>12, <2>13, <2>14, <2>15, <2>16, <2>17, <2>18, <2>19, <2>20, <2>21, <2>22, <2>23, <2>24, <2>25 DEF Step
<1>3. ASSUME NEW t \in Threads, Client(t)
       PROVE depth' = depth \/ \E u \in Threads : EnterDone(u) \/ EnterYield(u) \/ CallExit(u)
  <2>1. CASE CallEnter(t)
    BY <2>1 DEF CallEnter, Call
  <2>2. CASE CallExit(t)
    BY <2>2
  <2>3. CASE CallSleep(t)
    BY <2>3 DEF CallSleep, Call
  <2>4. CASE CallYield(t)
    BY <2>4 DEF CallYield, YieldTo
  <2>5. CASE ThreadReturns(t)
    BY <2>5 DEF ThreadReturns
  <2>6. CASE \E u \in Threads : CallStart(t, u)
    BY <2>6 DEF CallStart
  <2> QED
    BY <1>3, <2>1, <2>2, <2>3, <2>4, <2>5, <2>6 DEF Client
<1>4. CASE UNCHANGED vars
  BY <1>4 DEF vars
<1> QED
  BY <1>1, <1>2, <1>3, <1>4 DEF Next

(* Every step is a step of Monitor, or stutters there.                     *)
LEMMA MonitorStep ==
  ASSUME MaskedInv, [Next]_vars
  PROVE  [MonitorOf!Next]_(MonitorOf!vars)
<1> DEFINE inside == {t \in Threads : depth[t] > 0}
<1>0. /\ TypeInv /\ TypeOK /\ SectionInv /\ OwnerInv
      /\ depth \in [Threads -> Nat]
      /\ NoThread \notin Threads
  BY ConstantsAssumption DEF MaskedInv, TypeInv, TypeOK, Threads
<1>1. CASE SectionUntouched /\ depth' = depth
  BY <1>1 DEF SectionUntouched, MonitorOf!vars
<1>2. ASSUME NEW t \in Threads, EnterDone(t) \/ EnterYield(t)
      PROVE  MonitorOf!Next
  <2>1. /\ pc[t] = "enterDone" \/ pc[t] = "enterYield"
        /\ t = current
        /\ depth' = [depth EXCEPT ![t] = @ + 1]
        /\ UNCHANGED <<owner, occupationCounter, locks>>
    BY <1>2 DEF EnterDone, EnterYield, EnterReturns, SpinlockExit, At, sectionVars
  <2>2. owner = t
    <3>1. CASE pc[t] = "enterDone"
      BY <1>0, <3>1 DEF OwnerInv
    <3>2. CASE pc[t] = "enterYield"
      BY <2>1, <3>2, CurrentMode DEF Running, AwaitsEntry, BlockingLabels, LockLabels
    <3> QED
      BY <2>1, <3>1, <3>2
  <2>3. inside' = inside \union {t}
    BY <1>0, <2>1
  <2>4. MonitorOf!Proceed(t)
    BY <2>1, <2>2, <2>3 DEF MonitorOf!Proceed
  <2> QED
    BY <2>4 DEF MonitorOf!Next
<1>3. ASSUME NEW t \in Threads, CallExit(t)
      PROVE  [MonitorOf!Next]_(MonitorOf!vars)
  <2>1. /\ depth[t] > 0
        /\ depth' = [depth EXCEPT ![t] = @ - 1]
        /\ UNCHANGED <<owner, occupationCounter, locks>>
    BY <1>3 DEF CallExit, Call, sectionVars
  <2>2. CASE depth[t] = 1
    <3>1. t \in inside /\ inside' = inside \ {t}
      BY <1>0, <2>1, <2>2
    <3>2. MonitorOf!Leave(t)
      BY <2>1, <3>1 DEF MonitorOf!Leave
    <3> QED
      BY <3>2 DEF MonitorOf!Next
  <2>3. CASE depth[t] # 1
    <3>1. inside' = inside
      BY <1>0, <2>1, <2>3
    <3> QED
      BY <2>1, <3>1 DEF MonitorOf!vars
  <2> QED
    BY <2>2, <2>3
<1>4. ASSUME NEW t \in Threads, EnterBody(t)
      PROVE  [MonitorOf!Next]_(MonitorOf!vars)
  <2>1. inside' = inside
    BY <1>4 DEF EnterBody, localVars
  <2>2. CASE EnterOwn(t) /\ owner = NoThread
    <3>1. MonitorOf!Take(t)
      BY <1>0, <2>1, <2>2 DEF EnterOwn, MonitorOf!Take, SectionInv, SectionConsistent
    <3> QED
      BY <3>1 DEF MonitorOf!Next
  <2>3. CASE EnterOwn(t) /\ owner = t
    <3>1. MonitorOf!Nest(t)
      BY <2>1, <2>3 DEF EnterOwn, MonitorOf!Nest
    <3> QED
      BY <3>1 DEF MonitorOf!Next
  <2>4. CASE EnterWait(t) /\ InLocks(t)
    BY <2>1, <2>4 DEF EnterWait, MonitorOf!vars
  <2>5. CASE EnterWait(t) /\ ~InLocks(t)
    <3>1. MonitorOf!Wait(t)
      BY <2>1, <2>5 DEF EnterWait, InLocks, MonitorOf!Wait, MonitorOf!InLine
    <3> QED
      BY <3>1 DEF MonitorOf!Next
  <2>6. EnterOwn(t) => owner \in {t, NoThread}
    BY DEF EnterOwn
  <2> QED
    BY <1>4, <2>2, <2>3, <2>4, <2>5, <2>6 DEF EnterBody
<1>5. ASSUME NEW t \in Threads, ExitBody(t)
      PROVE  [MonitorOf!Next]_(MonitorOf!vars)
  <2>1. /\ inside' = inside /\ owner = t
        /\ occupationCounter = depth[t] + 1 /\ depth[t] \in Nat
        /\ LastExit(t) => t \notin inside
    BY <1>5, ExitBodyFacts
  <2>2. CASE ExitNested(t)
    <3>1. MonitorOf!Unnest(t)
      BY <2>1, <2>2 DEF ExitNested, LastExit, MonitorOf!Unnest
    <3> QED
      BY <3>1 DEF MonitorOf!Next
  <2>3. CASE ExitFree(t)
    <3>1. MonitorOf!Free(t)
      BY <2>1, <2>3 DEF ExitFree, MonitorOf!Free
    <3> QED
      BY <3>1 DEF MonitorOf!Next
  <2>4. CASE ExitHandOver(t)
    <3>1. MonitorOf!HandOver(t)
      BY <2>1, <2>4 DEF ExitHandOver, HandOver, MonitorOf!HandOver
    <3> QED
      BY <3>1 DEF MonitorOf!Next
  <2> QED
    BY <1>5, <2>2, <2>3, <2>4 DEF ExitBody
<1> QED
  BY <1>0, <1>1, <1>2, <1>3, <1>4, <1>5, DepthSteps, SectionSteps

(* CRITICAL_SECTION then is the fair recursive lock of Monitor.tla.         *)
THEOREM ImplementsMonitorIfMasked == ~PreemptBlocking => (Spec => ImplementsMonitor)
<1> SUFFICES ASSUME ~PreemptBlocking PROVE Spec => ImplementsMonitor
  OBVIOUS
<1>1. Spec => []MaskedInv
  BY MaskedAlways
<1>2. Init => MonitorOf!Init
  <2>1. Init => \A t \in Threads : depth[t] = 0
    BY DEF Init
  <2> QED
    BY <2>1 DEF Init, MonitorOf!Init
<1>3. MaskedInv /\ [Next]_vars => [MonitorOf!Next]_(MonitorOf!vars)
  BY MonitorStep
<1> QED
  BY <1>1, <1>2, <1>3, PTL DEF Spec, ImplementsMonitor, MonitorOf!Spec


-----------------------------------------------------------------------------
(* A sleeper is made ready by the scheduler, which looks at the clock, and  *)
(* by nobody who unlocks it: the target of a ThreadUnlock does not sleep.   *)
WokenInTime(x) ==
  isSleep[x] /\ state[x] = WAITING /\ state'[x] = READY => elapsed[x] >= SleepTicks

LEMMA ScheduledInTime ==
  ASSUME TypeOK, NEW sinceStart, PsiSchedule(sinceStart),
         NEW x \in Threads, sinceStart[x] <= elapsed[x] + 1, sinceStart[x] \in Nat
  PROVE  WokenInTime(x)
<1>1. PICK h \in 1..N : SwitchTo(h, sinceStart)
  BY DEF PsiSchedule
<1>2. SUFFICES ASSUME state[x] = WAITING, state'[x] = READY
               PROVE  elapsed[x] >= SleepTicks
  BY DEF WokenInTime
<1>3. x \in Woken(h, sinceStart)
  BY <1>1, <1>2 DEF SwitchTo, READY, WAITING
<1>4. sinceStart[x] > SleepTicks
  BY <1>3 DEF Woken, Due
<1>5. elapsed[x] \in Nat /\ SleepTicks \in Nat
  BY ConstantsAssumption DEF TypeOK
<1> QED
  BY <1>4, <1>5

(* The store of UnlockReady and the stores of a thread into its own state.  *)
LEMMA StoredInTime ==
  ASSUME MaskedInv, NEW t \in Threads, NEW x \in Threads,
         \/ UnlockReady(t)
         \/ LockWait(t)
         \/ ThreadReturns(t)
  PROVE  WokenInTime(x)
<1>1. state \in [Threads -> {READY, WAITING, EXITED}]
  BY DEF MaskedInv, TypeInv, TypeOK
<1>2. CASE UnlockReady(t)
  <2>1. selected[t] \in Threads => Selected(selected[t])
    BY DEF Selected
  <2>2. \A y \in Threads : Selected(y) => ~isSleep[y]
    BY DEF MaskedInv, ModeInv, Mode, NewThread, Blocking, Queued, Asleep, Unlocking,
           Running, Dead
  <2>3. x # selected[t] => state'[x] = state[x]
    BY <1>1, <1>2 DEF UnlockReady
  <2> QED
    BY <2>1, <2>2, <2>3 DEF WokenInTime, READY, WAITING
<1>3. CASE LockWait(t)
  BY <1>1, <1>3 DEF LockWait, WokenInTime, READY, WAITING
<1>4. CASE ThreadReturns(t)
  BY <1>1, <1>4 DEF ThreadReturns, WokenInTime, READY, WAITING, EXITED
<1> QED
  BY <1>2, <1>3, <1>4

LEMMA StepInTime ==
  ASSUME MaskedInv, [Next]_vars, NEW x \in Threads
  PROVE  WokenInTime(x)
<1>1. TypeOK /\ elapsed[x] \in Nat
  <2>1. TypeOK
    BY DEF MaskedInv, TypeInv
  <2>2. elapsed[x] \in 0..(SleepTicks + 1) /\ SleepTicks \in Nat
    BY <2>1, ConstantsAssumption DEF TypeOK
  <2> QED
    BY <2>1, <2>2
<1>2. ASSUME UNCHANGED state PROVE WokenInTime(x)
  BY <1>2 DEF WokenInTime, READY, WAITING
<1>3. ASSUME PsiSchedule(elapsed) PROVE WokenInTime(x)
  BY <1>1, <1>3, ScheduledInTime
<1>4. CASE PaliClockHandler
  <2>1. Ticked[x] <= elapsed[x] + 1 /\ Ticked[x] \in Nat
    BY <1>1 DEF Ticked
  <2> QED
    BY <1>1, <1>4, <2>1, ScheduledInTime DEF PaliClockHandler
<1>5. ASSUME NEW t \in Threads, Step(t) PROVE WokenInTime(x)
  <2>1. CASE \/ Enter(t) \/ EnterDone(t) \/ Enqueued(t) \/ Exit(t) \/ ExitSpin(t)
             \/ ExitDone(t) \/ EnterBody(t) \/ ExitBody(t) \/ ExitPass(t)
    BY <1>2, <2>1 DEF Enter, EnterDone, Enqueued, Exit, ExitSpin, ExitDone, EnterBody,
                      ExitBody, ExitPass, SpinlockEnter, SpinlockExit, schedVars
  <2>2. CASE \/ LockLoad(t) \/ LockStore(t) \/ LockTest(t) \/ LockState(t)
             \/ Sleep(t) \/ SleepFlag(t)
    BY <1>2, <2>2 DEF LockLoad, LockStore, LockTest, LockState, Sleep, SleepFlag, schedVars
  <2>3. CASE \/ UnlockLoad(t) \/ UnlockStore(t) \/ UnlockAssert(t)
             \/ UnlockTest(t) \/ UnlockState(t)
    BY <1>2, <2>3 DEF UnlockLoad, UnlockStore, UnlockAssert, UnlockTest, UnlockState,
                      UnlockGoes, schedVars
  <2>4. CASE UnlockReady(t) \/ LockWait(t)
    BY <2>4, StoredInTime
  <2>5. CASE LockYield(t) \/ EnterYield(t) \/ Panic(t)
    BY <1>2, <1>3, <2>5 DEF LockYield, EnterYield, Panic, YieldTo, schedVars
  <2> QED
    BY <1>5, <2>1, <2>2, <2>3, <2>4, <2>5 DEF Step
<1>6. ASSUME NEW t \in Threads, Client(t) PROVE WokenInTime(x)
  <2>1. CASE CallEnter(t) \/ CallExit(t) \/ CallSleep(t)
    BY <1>2, <2>1 DEF CallEnter, CallExit, CallSleep, Call, schedVars
  <2>2. CASE CallYield(t)
    BY <1>3, <2>2 DEF CallYield, YieldTo
  <2>3. CASE ThreadReturns(t)
    BY <2>3, StoredInTime
  <2>4. CASE \E u \in Threads : CallStart(t, u)
    BY <1>2, <2>4 DEF CallStart, schedVars
  <2> QED
    BY <1>6, <2>1, <2>2, <2>3, <2>4 DEF Client
<1>7. CASE UNCHANGED vars
  BY <1>2, <1>7 DEF vars, schedVars
<1> QED
  BY <1>4, <1>5, <1>6, <1>7 DEF Next

(* ThreadSleep: a thread sleeps through the ticks that it asked for, however *)
(* often others leave sections and start threads in the meantime.           *)
THEOREM AsleepUntilDueIfMasked == ~PreemptBlocking => (Spec => AsleepUntilDue)
<1> SUFFICES ASSUME ~PreemptBlocking PROVE Spec => AsleepUntilDue
  OBVIOUS
<1>1. Spec => []MaskedInv
  BY MaskedAlways
<1>2. MaskedInv /\ [Next]_vars
        => [\A t \in Threads : isSleep[t] /\ state[t] = WAITING /\ state'[t] = READY
                                 => elapsed[t] >= SleepTicks]_vars
  BY StepInTime DEF WokenInTime
<1> QED
  BY <1>1, <1>2, PTL DEF Spec, AsleepUntilDue
=============================================================================
