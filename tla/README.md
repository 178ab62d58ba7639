# ltos and intermarx in TLA+

`src/` holds **ltoskrnl**, a kernel for one 32-bit x86 CPU, and **intermarx**,
an interpreter for CLI (.NET) code with a copying garbage collector that is
linked into the kernel and runs on its threads. The tree has no tests and no
documentation; what the program says of itself are its assertions
(`INU_ASSERT`), its bugchecks (`INU_BUGCHECK`) and a few comments. This
directory models the parts in which the order of events matters, checks them
with TLC on small instances, and proves the most important of the properties
with TLAPS for every value of the constants.

Contents

1. The system and its parts
2. The modules, and how they correspond to the code
3. What the runs check, with which bounds
4. Fairness
5. What is proved, and how
6. Where the code differs from what it says
7. What is not modelled
8. Plan

## 1. The system and its parts

Boot is a straight line: `PalInitialize` sets up the processor, reads the
memory map from the BIOS, hands it to `MmInitialize`, starts the interrupt
controller and the timer and calls `PsInitialize`, which jumps into the idle
thread. The idle thread creates the thread of `KeEntry`, which starts the
runtime (`MxStart`). From there on everything happens on kernel threads, which
the timer interrupt switches.

| Part | State it keeps | Operations | Talks to |
|---|---|---|---|
| Blocking lock, `ltoskrnl/ps/crit.c` | spinlock, owner, counter, list of waiters | `CriticalSectionEnter`, `Exit`, `SpinlockEnter`, `Exit` | scheduler (`PsLockThread`, `PsUnlockThread`) |
| Scheduler, `ps/sched.c`, `ps/entry.c` | per thread: state, lockCount, sleep; the current thread | `ThreadLock`, `ThreadUnlock`, `ThreadSleep`, `PsiSchedule` | called by the timer interrupt and by `PalYieldToDispatch` |
| Threads and processes, `ps/thread.c`, `ps/proc.c` | the ring of all threads, the lists of processes, ids | create, start, sleep, `PsiThreadPrologue` | pools, scheduler |
| Lists, `rtl/list.c` | circular lists inside the objects | add, add at the back, remove, next | all of the above |
| Physical pages, `mm/pfndb.c` | attributes of every frame | initialise, allocate a run, free a run | boot, pools |
| Pools, `mm/pool.c`, `mm/entry.c` | seven free lists by block size | allocate, free, refill | physical pages; everyone allocates here |
| Address space, `mm/vad.c`, page tables in `hal` | list of regions, page tables | map | pools |
| Interrupts, `hal/arch/ia32`, `pal/arch/ia32/entry.c` | control level, interrupt masks, the saved frame | ISR and IRQ handlers, acknowledge, raise level | scheduler |
| Boot and memory map, `pal/arch/ia32` | the BIOS map, print cursor and lock | count, read, translate | physical pages |
| Runtime platform, `intermarx/pal/pal.c`, `mt/mt.c` | maintenance monitor and flag, list of managed threads, `inSafePoint` | `PalSafepoint`, enter and exit maintenance, register | blocking lock |
| Managed heap, `intermarx/hp/hp.c` | two heaps, each with bounds, lock and flag; root fields | allocate, `HpGc`, transfer, trace, scan | runtime platform, interpreter frames |
| Managed threads and delegates, `pal/corelib.c` | wrappers, delegates | create, start, combine, remove | heap, kernel threads |
| Interpreter, `ex/runtime.c`, `ex/opcodes.c`, `ex/ex.c` | frames, evaluation stacks, the exception in flight | about 200 opcodes, calls, throw, handlers | heap, loader, platform |
| Loader, `ldr/ldr.c` | domain, types, methods, string table | load, lay out, run static constructors | interpreter |
| Foreign calls, `far/far.c` | none | marshal and call | interpreter |

### What is hard about it

*Preemption at any instruction.* The kernel is built without optimisation, a
condition with two operands is two loads, `x++` is a load and a store, and the
timer may fall between any two of them. Interrupts are off only inside the
interrupt handlers, that is, while `PsiSchedule` runs. The section, the
scheduler's counters, the registration of threads and the maintenance mode are
all written as if this did not happen in their windows.

*Blocking and waking.* A thread blocks itself (`lockCount++`, state WAITING) in
three steps, after it has already made itself visible to those who will wake
it.

*Stopping the world.* A collector has to know that every other thread stands
still, from flags that those threads set and clear themselves, and has to let
them go without being taken by surprise by the next collector.

*Moving objects.* References to an object sit in static fields, in frames, in
other objects, in structs, in native variables and in kernel structures;
objects are discovered while they are being moved.

*Boundaries.* Runs of frames at the end of memory, blocks that are larger than
a pool's, lists of one element, counters that are never taken back.

### What makes each part correct

* Section: at most one thread inside; it is handed over in the order of
  arrival; a thread leaves only what it owns; nobody who waits is forgotten.
* Scheduler: a thread that is READY runs again; a sleeper wakes when its time
  is up and not before; `lockCount` is never negative.
* Stop-the-world: nobody runs managed code or holds the lock of a heap while
  objects move; a collection that begins ends.
* Collector: just the reachable objects survive, once each; every reference
  means the same object as before; nothing points into the zeroed heap.
* Pages and pools: no two live blocks overlap; a free gives back what was
  allocated; all free memory can be allocated.
* Thread lists: a thread that was created is reached by the ring.
* Interpreter: a call takes from its caller's operands what the signature says
  and gives back its result, and leaves everything below alone; an exception
  ends the methods from the innermost outwards; the collector finds every frame
  and every reference that a method still holds.
* Loader: fields of a type do not overlap and lie within its objects; a virtual
  call reaches the nearest override; each constructor and each native link gets
  what the image says, whatever ran in between.

`PROJECT.json` lists all parts with their state of modelling, and under
`hazards` the places in the code where each difficulty bites. A hazard names a
property only where that property fails when the hazard strikes; where the model
follows the code into the difficulty, closes its window or ends there, it names
none and its note says so.

## 2. The modules, and how they correspond to the code

| Module | Models | Kind |
|---|---|---|
| `Monitor` | what a critical section promises | abstract specification |
| `CriticalSection` | `crit.c`, `sched.c`, `PsiSchedule`, the clock handler | component |
| `CriticalSectionProofs` | proofs that hold under full preemption and, second half, those under `~PreemptBlocking` | proofs |
| `StopTheWorld` | `HpManagedHeapAllocate`, `HppWaitSafepoint`, `PalSafepoint`, maintenance mode, registration | composition over `Monitor` |
| `CopyingCollector` | the body of `HpGc` | component, sequential |
| `StopTheWorldProofs` | proofs for every number of threads, with the windows closed | proofs |
| `CopyingCollectorProofs` | proofs for every heap | proofs |
| `MCCopyingCollector` | the heap's shape for TLC | model-checking module |
| `BootMemory` | the BIOS's memory map, its translation, `PfnDatabaseInitialize` | operators |
| `Allocator` | what an allocator promises | abstract specification |
| `PoolMemory` | `mm/entry.c`, `pool.c`, `pfndb.c` | component, over `BootMemory` |
| `PoolMemoryProofs` | proofs for every memory map, every size and any number of threads | proofs |
| `NumberFacts` | division, sums, induction and recursive functions over numbers | lemmas |
| `MCPoolMemory` | two memory maps and the pools' sizes | model-checking module |
| `TypeSystem` | what a domain holds, `ExIsInstance`, the searches for virtual methods and finally rows | operators |
| `CallStack` | what calls of managed code promise each other | abstract specification |
| `Interpreter` | `ExMethodExecute`, the prologues, exceptions, native calls, delegates, and a collection's view of the frames | component, over `TypeSystem` |
| `InterpreterProofs` | proofs for every program | proofs |
| `MCInterpreter` | twenty small programs | model-checking module |
| `Loader` | `ldr.c`, `MxStart`, `ExInitialize`, `FarInitialize` | component, over `TypeSystem` |
| `LoaderProofs` | proofs for every image | proofs |
| `MCLoader` | 523 images | model-checking module |
| `Arithmetic` | `opcodes.c` and the opcodes of `runtime.c` that compute, compare and branch | operators, and one step per instruction |
| `ArithmeticProofs` | proofs for every width and every value | proofs |
| `MCArithmetic` | a small machine: words of 4 bits | model-checking module |

### Monitor

A recursive lock with a holder, a count, a line of waiting threads, and the set
of the threads that are inside. `Take`, `Nest`, `Unnest`, `Wait`, `Free` and
`HandOver` change the holder; `Proceed` and `Leave` say when a thread's `Enter`
has returned. It knows no scheduler. It is used twice: as the specification
that `CriticalSection` implements, and as the maintenance monitor in
`StopTheWorld`, which is thus built on what has been shown of the code below.

### CriticalSection

One section and N threads. A thread's program counter `pc[t]` names the next
access to shared memory; the labels follow the statements of
`CriticalSectionEnter` (`enter` ... `enterYield`), `CriticalSectionExit`
(`exit` ... `exitPass`), `ThreadLock` (`lockLoad` ... `lockYield`),
`ThreadUnlock` (`unlockLoad` ... `unlockReady`) and `ThreadSleep`. `reg[t]` is
the register between the load and the store of `lockCount++` and `--`.
`current` is the one thread that executes; every action except
`PaliClockHandler` is guarded by it. `PsiSchedule` is one step, because it runs
with interrupts off: it walks the ring from the current thread, wakes sleepers
that are due and that it passes, and stops at the first READY one. The idle
thread never blocks, so the walk ends.

The lists are sequences. `externalLock` is one entry per thread, so a thread
cannot be in the list twice; if it comes to a second insertion (it can, when a
thread has gone ahead without the section), the pointers of the list are
broken, `machine` becomes `"corrupt"` and the behaviour ends. A failed
assertion or bugcheck prints, waiting for the print lock if need be, and then
halts the machine with interrupts off.

`PreemptBlocking` is the parameter that separates the two halves of the story.
With `TRUE` the timer falls anywhere, which is the code as it is. With `FALSE`
it does not fall between the `SpinlockExit` of `crit.c:68` and the store of
WAITING at `sched.c:98`, which is the smallest change under which the section
keeps its promise: the code with interrupts off over those few lines. The
proofs and the passing runs say which property needs it.

### StopTheWorld

N threads that run managed code, some of which are created and started on the
way. The two heaps are records with the amount used, the flag
`isGcInProgress` and the lock (owner and line), because the swap at
`hp.c:356-363` copies all of them. `HpGc` is the labels `gcEnter` (the
monitor), `gcHeld` (the flag), `gcScan` (one step per thread of
`HppWaitSafepoint`), `gcCopy`, the three copies of the swap, `gcExit` and
`gcFlagOff`, and the caller's two `PalExitLock`. An allocation that finds
`isGcInProgress` set goes through `PalSafepoint` and on, without a second look
at the space. `RtlVectorAdd` in `MtThreadRegister` is a load of the count, a
store of the count and a store of the pointer.

`Protected` is the set of labels at which the timer is assumed not to fall.
Empty, it is the code as it is. What TLC finds when a label is left out:

| Label | Window | What goes wrong |
|---|---|---|
| `addCount`, `addPointer` | `rtl.c:108` | two threads register at once, one is lost: `WorldStopped` |
| `spLeave` | `pal.c:169-171` | a thread counts as stopped and is not: `WorldStopped`, `HeapExitByOwner` |
| `gcFlagOff` | `pal.c:156-158` | the flag of the next collection is cleared: `CollectionEnds` |
| `gcUnlockNext`, `gcUnlockManaged` | `hp.c:389-390` | a flag that belongs to the next collection is cleared, two threads collect, and one spins on the other, which waits in the monitor: `CollectionEnds` |

### CopyingCollector

The collector alone, all other threads stopped, step by step: static fields,
frames, then the objects with `interop`, then `GcInspect` over the copies. An
object is its number in the managed heap, a copy its number in the next one; a
pointer is tagged with its heap, so that "points into the heap that will be
zeroed" can be said. A copy carries a ghost field `origin`, the object it was
made of, which only the properties read.

What the collector follows is less than what the program refers to, and the
model keeps the difference. Slots and fields have kinds: a reference inside a
struct is walked over by `HppTraceStruct` and not changed; a field that a super
type declares is not in `objectType->fields` and is not looked at
(`"inherited"`). `SurvivorsAreReachable` therefore speaks of references in
frames and of the fields of an object's own type. A static field of a reference
type is worse: `staticValue` is a native buffer (`ldr.c:753`) in which
`OpStoreStaticField` stores the reference, and `HppTraceField` hands the buffer
itself to `HppTransferObject`, which reads its content as an object's size and
the memory behind it as `forward`. What follows depends on what lies there;
`TransferStatic` ends the behaviour in `"wild"`, and no property says anything
of it.

### Arithmetic

An operand is a record of the tag and the member of the union that it names.
What the nested switches of `opcodes.c` say is kept as tables: for each
operator, the pairs of types that have a case, and the type of the result; a
pair without a case is a bugcheck, and a comparison of such a pair is FALSE.
The widths are constants. Peculiarities that a reader of the tables should not
take for slips of the model: the five operators on two INT64 store the result
in `int32` of a zeroed block, so only the lower word is left; `ExAnd` is the
logical `&&` and has no case for two INT64; `ExNot` of an INTPTR negates;
`conv.i8` leaves an unsigned byte; `ExConvI64` of an INT64, `ExConvMFloat` of a
float and conversions of managed pointers are bugchecks; two objects have
"greater" but not "lower". What a float operation gives is left as a term; a
float that is converted has an integral value that fits a word.

### TypeSystem and Interpreter

`TypeSystem` is the part of `ex.h` that the loader fills in and the interpreter
reads: a domain is three functions, types, fields and methods, by name. On it
are defined `LocateVirtual` (`ExLocateVirtualMethod`: the short name and the
types behind the receiver have to agree, from the receiver's type upwards),
`IsInstance` (which finds super types only: what `ExIsInstance` remembers of
interfaces and enums in `casted` is read by nobody) and `LocateFinally`.

`Interpreter` is one thread. `frames` are the frames on its C stack, `next`,
`firstFrame` and `currentFrame` the links that `HpGc` walks; they are kept
apart so that they can disagree. A frame has its operands, locals and
arguments, and a `pc` into code that is a sequence of opcode and operand.
Numbers have no value: `Arithmetic` says what they become, here a conditional
branch goes either way. References are exact. `Collect` is a collection, by
this thread or by another one that waits for it: it corrects the references
that `HppScanFrame` and `HppTraceObject` reach and makes every other one
`Lost`. It may happen before each opcode that polls or allocates, and between
the two allocations of `OpLoadString`.

`calls` is the C side of each frame: by which prologue it was entered, for
which method, and for a delegate where `ExMethodPrologueDelegate` is in its
loop. From it follows what happens at a return, and it tells apart what the C
code keeps on the operand stack (the object under construction, the delegate)
and what it keeps in C variables only.

Where the code does something that nothing in the source determines, the
behaviour ends in `"astray"`, and no property says anything after it. These
places are part of what the model says of the code: a structure that is stored
through a pointer, in a static field or in a box becomes `Garbage` (the word
that is copied is the pointer to its type, or to itself); `ldflda` of an object
is `Misplaced` by the header; `ldptr` of a reference takes the address for it;
`OpUnbox...` looks for no NULL; a delegate's static method gets the delegate's
receiver for its first argument; a string result of a native method is pushed
on a stack that its frame does not have; a collection with a static field of a
reference type, or between two methods that the runtime starts itself, walks
memory that is none. A catch row makes `ExLocateHandler` read a variable that
nobody has set (`"caught"`).

Nothing verifies managed code, and the model does not assume that somebody has.
What an opcode takes for granted is stated (`OpcodeFits`, `NativeFits`): that
the operands it pops are there (`Takes`), that the stack of the frame has room
for what it pushes (`Room`, the size that the prologues allocate and no `ExPush`
looks at), that an argument, a local or a method of that number exists, that
what it takes for an array or a delegate is one. Where that is not so, an
action of its own, `Stray`, ends the behaviour in `"astray"`. So the actions say
what happens in every state of every program, and the theorems need no
assumption about the code; what they say of a program that goes astray is what
was true until then.

`CallStack` is what calls promise: an activation has operands, as many as there
is room for, a call takes from them what one of the signatures of the method
that runs says and gives back what that signature says, exceptions end the
activations from the innermost outwards. `Shapes` lists the signatures of a
method: an ordinary call takes its parameters, `newobj` and a delegate all but
the first, and the number of results is that of the method that the opcode
names, which need not be the one that runs.

### Loader

An image is a sequence of sections; `LdrLoadDomain` is one action per section,
by its kind. A reference to a section that was not read yet, or to the header,
is NULL, which some kinds follow at once and others keep. `LayOut` is `LdrCalculateTypeSizes`,
`LdrFillTypeInfo` and `ExInitialize`; `RunStaticConstructor` and
`RunAttributeConstructor` take the constructors one by one in the order of the
domain; `Link` is `FarInitialize`, `RunInitializer` the end of `MxStart`.
`Collect` may fall at every allocation in between. The attributes it moves are
managed objects that native vectors point to, so that whatever uses one
afterwards goes astray; it also goes astray itself when `firstFrame` is the
frame of a constructor that has returned.

The loader takes a method for a static constructor when ".cctor" occurs anywhere
in its full name; the image's `is` says for which that is so. One with parameters
goes astray, as there is no frame to pop them from.

A method's code matters here by the native methods it calls. During the static
constructors none is linked, so such a constructor ends with an exception,
which `LdrExecuteStaticConstructors` does not look at.

The layout follows `LdrCalculateTypeSize`: a field of a type that has a
sequential layout is not aligned, any other is aligned to its own size, even
when that is no power of two, the fields of the super type come first. That no
size is asked for in a circle is `Settled`; a structure with a static field of
its own type does, and never ends.

### BootMemory and PoolMemory

Boot is sequential, so `BootMemory` is operators: the entries of the BIOS's map
that the two loops see (`Visits`), their translation, and the attributes that
`PfnDatabaseInitialize` gives the frames. Two things in it are easy to read
past. The loops add the continuation value to the offset they passed, so with a
BIOS that numbers its entries they see the entries 0, 1, 3 and 7; and a frame
that no block covers keeps whatever the memory of the table held: each such frame
starts with any value of `Stale`. The table has as many descriptors as the blocks
have pages, but they are written by the number of the page: on a map with holes
the last ones lie behind the table, and what that write reaches is not modelled.
`PoolMemory` starts from these frames and from the fills of `MmInitialize`
(`BootFills`, both heaps).

From there on threads call `MmAllocatePoolMemory` and `MmFreePoolMemory` with
the timer falling anywhere. The labels are `poolLock`, `poolTest`, `poolTake`
(`MemoryPoolAlloc`), `pageLock`, `search`, `mark` (`PfnDatabaseAllocatePages`),
`header` (`MemoryHeapAllocBig`), `fill` (`MemoryPoolFillBuffer`) and
`freeLock`, `freeLink`, `freeHead` (`MemoryPoolFree`). What happens under a lock
is cut where another thread would see a difference if the lock were not there.
The search loop is `FindRun`, frame after frame as in the code (`LookAt`). A
pool's list is its `head` and the `next` fields in the headers. The loop of the
fill is one step: it writes to a run that nobody else has, and to a list whose
lock is held. The free of a large block writes outside the frame table and ends
the behaviour (`FreeLarge`); so does a run that lies or ends beyond the memory
that is mapped (`PageBeyond`), whether `PfnDatabaseAllocatePages` refuses it, a
status that its caller drops, or hands it out across the border.

## 3. What the runs check, with which bounds

| Run | Properties | Instance |
|---|---|---|
| `preempted` | `SpinlockExclusion`, `SectionConsistent`, `OwnershipIsFifo` | 3 threads, nesting 2, full preemption |
| `masked` | `MutualExclusion`, `NestingMatches`, `NoLostWakeup`, `LockCountAssertion`, `ExitByOwner`, `AsleepUntilDue`, `ImplementsMonitor` | 4 threads, nesting 2, window closed |
| `liveness` | `WaiterProceeds`, `SleeperWakes` | 3 threads, nesting 2, window closed |
| `lockcount_assert` | `LockCountAssertion`, violated | 3 threads, full preemption |
| `stop_the_world` | `WorldStopped`, `LocksQuietAtSwap`, `HeapExitByOwner` | 4 threads, 2 of them created on the way |
| `collection_ends` | `CollectionEnds` | 3 running threads |
| `heap_bad_exit` | `HeapExitByOwner`, violated | 3 running threads, nothing protected |
| `copying_collector` | `TypeOK`, `OneCopyEach`, `BlackIsForwarded`, `CopiesAreFaithful`, `SurvivorsAreReachable`, `WrappersFollow`, `SlotsKeepMeaning`, `CollectionTerminates` | every heap of 3 objects |
| `pool_memory` | `BlocksApart`, `KernelUntouched`, `EveryBlockInItsPlace`, `RequestsAreServed`, `SearchIsNearlyComplete`, `ImplementsAllocator`, `LocksAreLeft` | 2 threads, 2 pools, 25 to 33 frames, three BIOS maps |
| `arithmetic` | `OrderIsConsistent`, `WordsAreExact`, `ConversionsCompose` | every pair of blocks of a 4-bit machine |
| `interpreter` | `FramesAreLinked`, `NothingIsLost`, `ImplementsCallStack` | 20 programs, each started up to twice, 3 frames, 7 objects |
| `loader` | `LayoutsAreSound`, `OverridesAreFound`, `AttributesAreAsWritten` | 523 images |

**Bounds of CriticalSection.** One thread is the idle thread, which does not
use the section. Three threads give an owner, a waiter and idle; four give two
waiters, so that the order of arrival and a late arrival during a hand-over
occur. `MaxDepth = 2` nests. `SleepTicks = 1` stands for the 50 ticks of
`ThreadSleep`: the clock is compared, never added to anything else, so what
counts is before, at and after the limit, and `elapsed` saturates one tick
behind it. `MaxLock` bounds `lockCount` where lost updates let it drift; with
the window closed it never exceeds 1, and the bound is not met. Deadlock is not
checked because the machine may halt.

**Bounds of StopTheWorld.** `Capacity = 2` and an allocation of 1 make both
outcomes of the space test occur; `MaxUsed` saturates the count of what a heap
is overrun by, which nothing else reads. Four threads of which two are created
by the other two let registrations overlap each other and a collection. The
liveness run starts with three threads and creates none: a created thread that
is not started makes `HppWaitSafepoint` spin for good, which is what the code
does. What survives a collection is assumed to fit into the next heap.

**Bounds of CopyingCollector.** Three objects suffice for a chain, a cycle, a
shared object, an unreachable one and an object that is found behind the
inspecting loop. Each has a reference of its own, one inside a struct and an
inherited one. The slots are two references and a struct, all values; `interop`
and the wrappers are every subset. `Targets` keeps the references that the
collector never follows to one object. One static field, of either kind, shows
both outcomes of `HppTraceField`. Arrays are objects whose fields are
references; arrays of structs, which `HppTraceObject` takes for arrays of
references, are outside the model.

**Bounds of PoolMemory.** Pages of 8 units, blocks of 2 and 4 with a header of
1: a run is cut into two blocks of the one size with a remainder and one of the
other. After the fills of boot the machine has three or four frames that can be
allocated in a row, and two that `Stale` frees in the hole below the first
megabyte, so that a refill, a large block, both, and the bugcheck for want of
memory all occur. `Margin = 3` stands for 300: it is the least that covers the
rounding of `DatabasePages`. `MaxHeld` bounds what clients hold when a request
is made; with two requests under way three blocks are out, which empties both a
pool of one and a pool of two. Nothing checks deadlock, because the bugcheck
stops the machine. `PoolSize` is 28 pages: the third map has free memory beyond
it and little below, so that a run is found outside and the behaviour ends. That
boot itself finds its runs inside is a condition of `Init`: of a machine where it
does not nothing is said.

**Bounds of Arithmetic.** Bytes, shorts, words and longs of 2, 3, 4 and 8 bits
keep the order of the widths and that a long is two words, which is all that
the operators use. All words are tried, the longs around every border, and all
pairs of types. Each behaviour is one instruction, so nothing is to be said of
deadlock.

**Bounds of Interpreter.** One program per situation: construction with and
without arguments, overriding, casts, arrays, delegates combined, called and
removed, a delegate whose method fails, native methods of every kind, linked or
not, structures in locals, fields, boxes and statics, handlers of both kinds.
`MaxDepth = 3` has a caller that is called itself, which is what unwinding and
the links need; a deeper call is not taken, as if the C stack ended.
`MaxObjects = 7` is what the longest program allocates, `MaxCells = 6` bounds
the structures on the C stack, which each load of a local clones; arrays have
up to two elements and an access one beyond. `MaxStarts = 2` lets a method
start after another has ended, with `firstFrame` left behind. A property speaks
of what is defined: but for one, which pushes in a loop until there is no room
(`Stray`), the programs are well typed, the methods of a delegate are instance
methods, and the domain has no static field of a reference type (the first
collection would go astray). A behaviour may end, so deadlock is not checked.

**Bounds of Loader.** Three families of images and a fourth of strange ones.
Layouts: a packed or unpacked structure, one that contains it, a class and a
derived class, with fields of 1, 4 and 8 bytes, structures and references in
every combination. Overrides: three classes with methods and overloads of one
name in both orders. Attributes: on a type, a method and a field, with every
kind of argument, named imports known and unknown, a static constructor that
calls a native method that is not linked yet. Strange: references forward and to
the header, unknown kinds, attributes on nothing and on the string table, counts
that do not fit, types of size 0, and methods, with and without parameters, that
run as static constructors because ".cctor" occurs in another part of their full
names.
The properties assume what the compiler that writes the images provides, which
is not in the repository: sections follow what they refer to (`Ordered`), a
field is marked as a structure just when its type is (`Flagged`), and an
argument that is no array has one value (`Single`).

**Mutants.** Every property of every passing run is tied in `PROJECT.json` to
a small wrong version of one action (a dropped guard, a swapped value, an
off-by-one), defined just before the right one; TLC refutes the property with
it.

## 4. Fairness

*CriticalSection.* Weak fairness of `PaliClockHandler`: the timer ticks as long
as interrupts are on. Strong fairness of each thread's steps: the ring
reaches a READY thread again and again and every slice executes at least one
step of it, but between two slices the steps are disabled, so weak fairness
would say nothing. Strong fairness of `CallExit`: clients leave what they
enter, which no lock can provide for.

*StopTheWorld.* Strong fairness of each thread's steps, for the same reason,
and of `Poll`: managed code comes to one of the six polling opcodes again and
again. A loop whose only jump is a conditional branch does not, and no claim is
made for it.

*CopyingCollector.* Weak fairness of the one thread that runs.

*PoolMemory.* Weak fairness of what a thread does once it has called; none of
the calls themselves. It says that a thread whose next step stays possible
takes it, which the round-robin scheduler provides. It does not say that a
thread gets a spinlock that others keep taking, and `LocksAreLeft` does not
need it: under a pool's lock a thread waits for the lock of the frame database
only, and that lock is taken a bounded number of times before memory runs out.

## 5. What is proved, and how

The theorems about the section hold for every N, MaxDepth, MaxLock and
SleepTicks allowed by `ConstantsAssumption`, which says no more than that they
are numbers and that NULL is no thread. Those about the collector hold for every
`Objects`, `FieldKinds`, `SlotKinds`, `Statics` and `Targets` allowed by
`CollectorAssumption`, which says no more than what they are.

**Under full preemption** (`CriticalSectionProofs`): `TypeCorrect`,
`SpinlockIsExclusive`, `SectionIsConsistent` and `ImplementsFifoOwnership`.
The inductive invariant says that the spinlock is held by exactly the thread
whose `pc` is between its enter and exit, and that owner, counter and list
agree; the scheduler's variables do not occur in it, which is why lost updates
of `lockCount` cannot disturb it. The refinement has one step per action: the
critical step of an Enter or Exit is a step of `Monitor`, everything else
stutters.

**With the window closed** (second half of `CriticalSectionProofs`, assumption
`~PreemptBlocking`): `MutualExclusionIfMasked`, `NestingMatchesIfMasked`,
`ExitByOwnerIfMasked`, `LockCountAssertionIfMasked`, `NoLostWakeupIfMasked`,
`ImplementsMonitorIfMasked` and `AsleepUntilDueIfMasked`. None of these
properties is inductive: each depends on where every thread stands in blocking
and waking. The invariant `MaskedInv` therefore assigns each thread a mode, from
its `pc` and from its place in the list: new, blocking, queued, asleep, being
unlocked, running or dead, and fixes for each mode what `state`, `lockCount` and
`isSleep` are. Two more conjuncts say that a selected thread is selected by one
thread only (`SelectInv`), and that a thread in the blocking window is the
current one (`CurrentInv`): this is where the assumption enters. `OwnerInv` and
`NestingMatches` link the modes to the section. The proof goes through the
actions one by one; the scheduler's step is a lemma of its own, used by the
clock, by both yields and by the end of `ThreadLock`. That sleepers sleep until
they are due follows from the modes: the target of a `ThreadUnlock` does not
sleep, so that only the scheduler, which looks at the clock, makes one ready.

**For any number of threads** (`StopTheWorldProofs`, assumption
`Windows \subseteq Protected`): `TheWorldStops`, `TheLocksAreQuiet`,
`TheOwnerLeaves`, and `NothingHalts`, which says that the two labels at which
the model stops are not reached. `Windows` names the labels that the run closes
to the timer: the second half of a registration, the end of `PalSafepoint`, and
what a collector does after it has left the monitor. The invariant `IInv` says
why these are enough. The list holds every thread that exists, once each, while
its count may be one ahead (`ListInv`), and every thread in the making has a
creator of its own (`AddInv`); a creator executes, so it has not been seen
parked. `inSafePoint` is set only in the monitor's line or in the last window
(`FlagInv`), a collector has the monitor from before its scan to the end of the
copy (`OwnerInv`), and whom the scan has passed waits for that monitor
(`ScanInv`): nobody in a window executes together with the scan, so the flag
means what the scan takes it for. Who is in the lock of the heap, or in its line,
is in an allocation (`LockInv`), where nobody is while objects move. That the
vector has room for one more is the pigeonhole principle (`RoomForOne`).

**For every heap** (`CopyingCollectorProofs`): `TypeCorrect`, `OneCopyAlways`,
`BlackAlwaysForwarded`, `CopiesAlwaysFaithful`, `SurvivorsAlwaysReachable`,
`WrappersAlwaysFollow` and `SlotsAlwaysKeepMeaning`: all safety properties of
the run. `TransferExtends` says what one call of `HppTransferObject` makes of
the next heap, and every action that copies goes back to it. The invariant
`CollectorInv` adds four things to the properties. A forward is nothing or a
copy, and a copy's forward is itself until the collection is over (`HeapInv`):
with it a reference that was forwarded already is found again. The fields before
`f` of the copy being traced are forwarded, and when `tryAgain` is still FALSE
no copy before `i` is grey (`LoopInv`): so the inspection ends with no grey copy
at all, which is what `tryAgain` is there for. A wrapper is the forward of its
object as soon as there is one (`WrapperInv`). And only what can be reached has
been copied, while the slots before `i` are forwarded (`ReachInv`). `Reachable`
is what every closed set with the roots in it contains. One half of
`SurvivorsAreReachable` is then part of the invariant; the other follows in the
end, because the survivors themselves are such a closed set.

**For every program** (`InterpreterProofs`): `FramesStayLinked`,
`NothingStaysLost` and `CallsAreThoseOfCallStack`, all properties of the run,
whatever the domain, the code of its methods, the depth and the bounds.
`MethodsAssumption` says no more than that parameters and variables are lists of
types.

`FramesAreLinked` is not inductive: an epilogue restores `currentFrame` and the
end of the caller's chain only when the frame that ends was built by a prologue
that had a caller. `IInv` adds that the frame at depth 1, and no other, was
built without one (`OnlyFirstIsBase`), and that a thread that runs or unwinds
has a frame (`Framed`). Most opcodes touch no link (`QuietKeeps`); what is left
is a lemma each for a call, a return, the next method of a delegate, and the two
ways in which everything ends.

`NothingIsLost` and the refinement share `SInv`, which adds to `IInv`:

| Part of `SInv` | says | needed because |
|---|---|---|
| `FramesSound` | the operands of a frame are a list no longer than `Room`, and no operand, argument or local is `Lost` | every push is another operand; a collection follows the frames one by one |
| | a frame whose callee was entered by `newobj` or a delegate has one operand more than it has left (`Extra`), and a delegate's loop is at a number | the refinement subtracts that operand, and a return pops it |
| | an idle thread has no frame | the next start begins a chain of activations |
| `HeapSound` | arrays and delegates hold nothing `Lost`; a delegate has as many receivers as methods | an array's element and a delegate's receiver become operands; the fields of other objects do not need it, because what is `Lost` in them is never pushed (`PushValue`) |

That a collection leaves nothing behind in the frames needs the first part of
the argument: `HpGc` scans what it reaches along `next`, and because the links
are right, these are all frames (an induction over the walk). Each opcode has a
lemma that says that what it leaves on the stack was there before, is new, or
was looked at. For the refinement each action is shown to be `Work`, `Call`,
`Relay`, `Return`, `Raise`, `Unwind`, `Refuse`, `Begin` or a stutter of
`CallStack`.

The first attempts at this failed for a reason: the actions said nothing of
operands that are not there, so that an opcode of a badly typed program produced
a stack of a negative length and the theorem was false. A type system for the
code as an invariant would have shut those programs out; the code has none.
That is why the model now says what the opcodes take for granted. It also
bounded the operands of all methods by one number, where the prologues give
each its own; `CallStack` now has a height for every method.

**For every memory** (`PoolMemoryProofs`, with the lemmas of `NumberFacts`):
`RunsAndBlocksAreApart`, `KernelIsUntouched`, `BlocksStayInPlace`,
`RequestsAreMet`, `SearchGivesUpNearlyNothing` and `AllocatorIsImplemented`: all
safety properties of the run, for every map of the BIOS, every content of the
memory that the frame table is put in, all sizes of pages, headers, blocks and
pools, and any number of threads.

The invariant `IInv` is needed because none of the properties is inductive: each
depends on what the threads have read and not yet written.

| Part of `IInv` | says | needed because |
|---|---|---|
| `TypesOK` | what each variable and register may hold at each label | |
| `HeapOK` | headers lie where `LargeBlock` and `MemoryPoolFillBuffer` put them, runs on allocated frames, apart; small blocks apart and each behind the header of a run | a new run is apart from the others only if each of these is marked in the frame table |
| `LocksOK` | a lock is held by exactly the thread that is between its acquire and its release | everything below leans on it |
| `RegistersOK` | under its pool's lock a thread's copies of the list are the list; a pool that is refilled is empty | `poolTake`, `freeHead` and `fill` write what was read steps before |
| `ClaimsOK` | a run that was found is free until `mark`; then no header, no other claim touches it until `header`, and no block is cut in it until `fill` | between the search and the header nothing in the heap says whose the frames are |
| `HeldOK` | what a client holds is a block that is large enough, or a run in which no pool has blocks, and is held once | a run for a refill is not a client's, though its header looks the same |
| `FreeingOK` | a block on its way back is with one thread, is nobody's, and of the size of that thread's pool | two frees must not push one block twice |
| `ListsOK` | each pool's list, followed over `next`, visits the blocks of its size that are neither held nor on their way back, each once, and ends | this is `EveryBlockInItsPlace` by induction over the list |
| `UntouchedOK` | untouchable frames are not free, and no run or claim has one | the table is only read by the search |

`InitInvariant` follows boot: `InitialFramesAreTyped`, `LastCoveringDecides` and
`ReservedIsCovered` say what `PfnDatabaseInitialize` makes of a frame that later
blocks cover again, and `OneMoreFill` is the step of an induction over the calls
of `MemoryPoolFillBuffer` that `MemoryHeapInitialize` makes. `NextKeeps` has a
lemma for each action. The search is an induction over its looks
(`FindRunSearches`): what it has seen, what it may have begun, and that nothing
behind it was long enough. From it follow both that what it finds is free and
that what it does not find can end only at the last frame. The refinement maps
each step to one of `Allocator` or to a stutter: `poolTake` and `header` are
where a client gets its memory, the entry of a free is where it gives it back.

What it assumes is stated at the constants. `PoolAssumption`: the sizes of the
pools ascend, a header fits on a page and a block in a pool. `BootAssumption`:
the kernel lies above the first page and takes more than one, and the margin
covers the rounding. `MapAssumption` says what an entry of a map is, and nothing
of which maps there are. A run beyond the mapped gigabyte ends the behaviour
(`PageBeyond`), so the theorems speak of what happens until then.
`Init` has the guard that boot finds the memory for its fills, and finds it within
what is mapped; the first is what the bugcheck in `PfnDatabaseAllocatePages` says
when it does not.

*What `KernelIsUntouched` covers.* The pages of the kernel and of the frame
table; the whole pages of a block that the boot translated as reserved, if it
begins with a page and no usable block comes later over them (`ReservedFrames`);
and every page that only reserved blocks cover (`UnofferedFrames`). It does not
cover all that the BIOS reserves, because the code does not: the loops skip
entries, and memory of a skipped entry is given out if its stale descriptor or
another block says so. `PfnDatabaseInitialize` counts the pages of a block from the page that it
begins in (`pfndb.c:27-37`), so of a reserved block that begins in the middle of
a page the last page is not marked; and a usable block that comes later in the
map overrides it. Both came out of attempts to prove more. The sums that place
the headers need `Header <= PageSize`.
And the model's tests were written with guards that overlapped, which TLC reads
in order and a proof may not: they are conditionals now, in the order of the
code (`LookAt`, and `LoadValueFieldAddress` of the interpreter); the recursion
of `FindRun` ends with its last look instead of reading behind the table.

**For every image** (`LoaderProofs`): `CallsFindOverrides`, `FieldsLieApart` and
`AttributesAreGiven`, all properties of the run, for images of any length, every
size of a pointer and of the named types, every set of required types and every
table of imports. `ImagesAssumption` says that an image is a sequence of
sections of the known forms with ids of their own, none of which is the id of
no type; `SizesAssumption` that sizes are numbers. `Ordered`, `Flagged` and
`Single` are conditions in the properties, not assumptions: images without them
are loaded too, and the theorems say nothing of those.

The properties look at the image and at what the code makes of it; four
invariants, each a theorem, carry them from one to the other.

| Invariant | says | needed because |
|---|---|---|
| `LoadInv` (`DomainIsAsWritten`) | at every section, the domain has the types, fields and methods read so far, as written, and each type lists its own, once each | a call and a layout walk the lists of the domain, the properties the sections |
| `LayoutInv` (`LayoutIsComputed`) | once `LdrCalculateTypeSizes` has run, each type has a size, and layout and sizes stay | the sizes are found in rounds, and a constructor, a collection and the linker come after |
| `AttributesInv` (`AttributesAreRead`) | an attribute has the arguments that were read for it, with their types; each type, field and method its attributes in the order of the image | an argument is added to an object that was read earlier, maybe with others in between |
| `GivenInv` (`ConstructorsAreGiven`) | phase by phase: nothing was given before the attributes' constructors run, then each attribute has been given its arguments or is still pending, then all have and the native methods are linked | a static constructor may end with an exception, a collection may fall anywhere |

*Overrides.* In an image that is ordered, a super type stands before its sub
types, so along a chain of super types the places in the image fall. Hence no
type comes twice in a chain, a chain is no longer than there are types
(pigeonhole), and `Lineage` and `Ancestors` end where they should. The search of
`LocateVirtual` goes along this lineage and stops at the least number with a
candidate, which is the nearest.

*Layouts.* A size that a round of `Sizes` has found is the same in every later
round, so in the end the sizes are those that the types make of each other. That
every type has one is not a consequence of the order of the image, because a
type's fields come after it: it is the condition under which
`LdrCalculateTypeSizes` ends at all (`Settled`). Along the fields of a type the
ends only grow, alignment never moves a field down, and a sub type begins where its super
type ends; so of two fields of a lineage, of one type or of two, one lies behind
the other.

*Attributes.* With one value for each argument that is no array,
`LdrLoadArgument` makes one entry of each argument (`EntriesOfOne`), so the
numbers of parameters and entries agree, and the constructor that walks both
gets what is written. Flattened lists leave no attribute out (`NoneLeftOut`).
`FarInitialize` takes the attributes of a method from first to last and a later
import replaces an earlier one: that this is the import with the greatest place
in the image holds because the list of attributes has the order of the image.

**For every width** (`ArithmeticProofs`): `ComparisonsAreAnOrder`,
`LowerWordsAreExact` and `ConversionsAreConsistent`, all properties of the run,
for all widths that `ArithmeticAssumption` allows, those of the machine among
them, and all values that fit. Nothing has to be strengthened but by where the
operands come from (`IInv`), because each behaviour is one instruction; the work
is in the numbers. A power of 2 divides every higher one (`PowerDivides`),
numbers that are a multiple apart have the same remainder (`SameRemainder`), so
that what a member keeps of a value is a multiple of its power away
(`SignedFits`), and what fits is kept (`SignedKeeps`). From these follow the
lower words, operator by operator, that narrowing in two steps is narrowing in
one, and that two pointers are equal just when the INTPTR they are cast to are
(`CastIsExact`). `QuotientFacts` is the division of C, towards zero, with its
four cases of signs; the remainder of two words fits a word, that of two INT64
does not have to, and of it only the lower word is claimed.

The module used the bitwise operators of the community modules and `2^n` before,
neither of which the provers know. The powers are a recursive function of the
module now, and `ExOr` and `ExXor` go over the bits.

**Recursion and induction.** The models' recursive definitions are functions,
`f[n \in 0..N] == IF n = 0 THEN ... ELSE ... f[n - 1] ...`, which TLA+ defines by
CHOOSE. The lemmas of `NumberFacts` state induction with a set instead of a
predicate, so that no operator has to be instantiated: a set of numbers with 0
and with the next of each has them all (`UpTo`), and a function that obeys the
recursion up to n can be continued to n + 1. A proof names the set of the n that
it is about and shows that such a function exists, then that it keeps what is
claimed. The search, the cuts, the pools' lists, the fills of boot, the powers
of 2, the walk over the frames, and the loader's lineages, sizes, offsets and
arguments are proved this way. Two functions with one recursion are equal
(`RecursionUnique`), which is how a function that is local to a definition is
given a name outside of it.

The loader's model selected and folded over sequences with operators that none
of the provers expands; it says the same with sets and recursive functions now.

**Only model-checked** are the liveness properties (`WaiterProceeds`,
`SleeperWakes`, `CollectionEnds`, `CollectionTerminates`, `LocksAreLeft`), which
are out of the prover's reach, and the two that fail (section 6). Every safety
property of a passing run is stated by a theorem.

`StopTheWorld` uses
`Monitor` for its monitor; what links it to the code is
`ImplementsMonitorIfMasked`, so its results too, proofs included, are about a
kernel in which the blocking window is closed.

## 6. Where the code differs from what it says

* `lockcount_assert`: `INU_ASSERT(self->lockCount >= 0)` in `ThreadUnlock`
  (`sched.c:67`) fails when a waiter is preempted between `SpinlockExit` and
  `PsLockThread` in `CriticalSectionEnter` and the owner unlocks it first.
* `heap_bad_exit`: "Bad critical section exit!" (`crit.c:85`) is reached from
  the managed heap, by a thread that `HppWaitSafepoint` took for stopped.

`ExitByOwner` of `CriticalSection` fails under full preemption as well, with
four threads (`PreemptBlocking = TRUE`, `MaxDepth = 1`, no other calls): the
lockCount of a waiter and the unlocker's -1 cancel out, a later Enter does not
block, and the thread leaves a section that it does not own.

## 7. What is not modelled

Inside the modelled parts: the wrap of the 32-bit clock; the insertion of a new
thread into the two lists of `PsCreateThread` without a lock; a second start of a
started thread; the growth of a vector; nested collections; the pointers of
lists, beyond noticing when they would break; native pointers to managed
objects other than the wrapper (`RUNTIME_THREAD.delegate`, the bootstrap
argument), neither of which the collector corrects; what a collection
does after it has taken a static field's buffer for an object; arrays of
structures, and raw memory that managed code reaches by native pointers.

Parts left out for good: descriptor tables, BIOS calls, the VESA and APM
drivers and printing (register-level I/O), the compiler's 64-bit arithmetic
(third-party), the runtime library of memory copies, reference counts that
free nothing, the table of arguments of a foreign call and its trampolines
(assembly), and the lines of initialisers that call each other in order. The
region list of `vad.c` is written three times at start-up and never read again.
The control levels, the interrupt masks and the exchange of the saved frame in
`hal` are left for later.

In the memory: `allocatedCount` is kept as the code keeps it and never taken
back, and nothing is said of `MmGetFreeMemory`; `MmAllocateNonPagedPoolMemory`,
its free, and the paged heap have no callers.

## 8. Plan

What would come next, most valuable first:

1. `ThreadLists`: list pointers and unlocked insertion by several creators.
2. `Interrupts`: the acknowledgement of an interrupt after the frame was
   replaced, with the masks of the controller.
