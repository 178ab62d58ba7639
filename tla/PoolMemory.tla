----------------------------- MODULE PoolMemory -----------------------------
(***************************************************************************)
(* The kernel's memory: MmAllocatePoolMemory and MmFreePoolMemory          *)
(* (ltoskrnl/mm/entry.c), the pools of the non-paged heap (mm/pool.c) and  *)
(* the runs of physical frames behind them (mm/pfndb.c), called by threads *)
(* that the timer interrupts anywhere.  Each pool has a lock of its own,   *)
(* and the database one more; an empty pool is refilled with both held.    *)
(*                                                                         *)
(* Addresses are physical: the kernel sees them at a fixed offset.  A      *)
(* block is the address of its header; struct MEMORY_POOL_BLOCK is an      *)
(* entry of header.                                                        *)
(***************************************************************************)
EXTENDS BootMemory, FiniteSets

CONSTANTS
  Threads, NoThread,
  BlockSizes,  \* the sizes of the pools' blocks, in ascending order
  Header,      \* sizeof(struct MEMORY_POOL_BLOCK)
  PoolPages,   \* MM_POOL_BASE_SIZE, the pages that a pool is refilled with
  PoolSize,    \* PalGetNonPagedPoolSize
  Maps,        \* the BIOS's maps
  Stale,       \* what a descriptor of the frame table may hold at boot
  Requests,    \* the sizes that are asked for
  MaxHeld      \* how many blocks the clients of the model hold at once

Pools == 1..Len(BlockSizes)
MaxSmallSize == BlockSizes[Len(BlockSizes)]
NoBlock == -1
NoRun == -1

ASSUME PoolAssumption ==
  /\ NoThread \notin Threads
  /\ Len(BlockSizes) > 0
  /\ \A p \in Pools : BlockSizes[p] \in Nat \ {0}
  /\ \A p, q \in Pools : p < q => BlockSizes[p] < BlockSizes[q]
  /\ {Header, PoolPages, PoolSize} \subseteq Nat \ {0}
  /\ Header <= PageSize
  /\ MaxSmallSize + Header <= PoolPages * PageSize
  /\ MaxSmallSize < PoolPages * PageSize
  /\ Requests \subseteq Nat \ {0}
  /\ Stale \subseteq Attributes

ASSUME MapAssumption ==
  \A m \in Maps : m \in Seq([base : Nat, length : Nat, type : EntryTypes])

VARIABLES
  map,             \* the BIOS's map, as it was at boot
  frames,          \* the attributes of the frames
  allocatedCount,  \* PFN_DATABASE.allocatedCount
  pageLock,        \* PFN_DATABASE.lock, as its holder
  header,          \* the headers written so far, by address
  head, poolLock,  \* the list and the lock of each pool
  pc, want, pool, block, run,  \* per thread: where it is, and its registers
  held,            \* the memory that each thread has and may use
  machine          \* "running", "bugcheck" or "corrupt"

database == <<frames, allocatedCount, pageLock>>
pools == <<header, head, poolLock>>
registers == <<want, pool, block, run>>
vars == <<map, database, pools, pc, registers, held, machine>>

-----------------------------------------------------------------------------
(* MemoryHeapFindPoolIndex. *)
FindPoolIndex(bytes) ==
  CHOOSE p \in Pools : /\ bytes <= BlockSizes[p]
                       /\ \A q \in Pools : q < p => bytes > BlockSizes[q]

(* MemoryHeapAllocBig asks for a page to round up and one for the header,  *)
(* which lies at the end of the first.  The mutant forgets one of the two. *)
PageCountTight(bytes) == bytes \div PageSize + 1
PageCount(bytes) == bytes \div PageSize + 2
LargeBlock(start) == (start + 1) * PageSize - Header

LargeHeader(pages) == [type |-> "large", size |-> pages * PageSize,
                       next |-> NoBlock]

(* The loop of PfnDatabaseAllocatePages: what a look at frame i makes of   *)
(* the run that it has begun.  A run that is long enough is taken when the *)
(* loop comes to one more frame, so the last frame is never part of one.   *)
(* The mutant does not count the frame that a run begins with.             *)
LookAtLate(fr, pages, i) ==
  [s \in [start : DOMAIN fr \union {NoRun}, count : Nat] |->
     IF s.start # NoRun /\ s.count >= pages THEN s
     ELSE IF fr[i] # "free" THEN [start |-> NoRun, count |-> 0]
     ELSE IF s.start = NoRun THEN [start |-> i, count |-> 0]
     ELSE [s EXCEPT !.count = @ + 1]]
LookAt(fr, pages, i) ==
  [s \in [start : DOMAIN fr \union {NoRun}, count : Nat] |->
     IF s.start # NoRun /\ s.count >= pages THEN s
     ELSE IF fr[i] # "free" THEN [start |-> NoRun, count |-> 0]
     ELSE IF s.start = NoRun THEN [start |-> i, count |-> 1]
     ELSE [s EXCEPT !.count = @ + 1]]

FindRun(fr, pages) ==
  LET looks == Cardinality(DOMAIN fr) - 1
      after[n \in 0..looks] ==
        IF n = 0 THEN [start |-> NoRun, count |-> 0]
        ELSE LookAt(fr, pages, n - 1)[after[n - 1]]
      last == after[looks]
  IN  IF last.count >= pages THEN last.start ELSE NoRun

(* MemoryPoolFillBuffer cuts what MmAllocatePoolMemory returned into       *)
(* blocks and pushes them on the list, one after the other.                *)
BlockLengthOf(p) == Header + BlockSizes[p]
CutBlocks(p, start) ==
  [k \in 1..((PoolPages * PageSize) \div BlockLengthOf(p)) |->
     (start + 1) * PageSize + (k - 1) * BlockLengthOf(p)]

Filled(hdr, p, start, first) ==
  LET cut == CutBlocks(p, start)
      at(a) == CHOOSE k \in DOMAIN cut : cut[k] = a
      addresses == {cut[k] : k \in DOMAIN cut}
  IN  [a \in DOMAIN hdr \union addresses |->
         IF a \in addresses
           THEN [type |-> "small", size |-> BlockSizes[p],
                 next |-> IF at(a) = 1 THEN first ELSE cut[at(a) - 1]]
           ELSE hdr[a]]

LastCut(p, start) == LET cut == CutBlocks(p, start) IN cut[Len(cut)]

WithHeader(hdr, a, h) == [b \in DOMAIN hdr \union {a} |->
                            IF b = a THEN h ELSE hdr[b]]

(* MmInitialize fills the pools of the non-paged heap, then those of the   *)
(* paged one, with memory from the non-paged heap all the same.  Nothing   *)
(* allocates from the paged heap: of its blocks there is only the run.     *)
BootFills(fr) ==
  LET pages == PageCount(PoolPages * PageSize)
      after[n \in 0..(2 * Len(BlockSizes))] ==
        IF n = 0 THEN [frames |-> fr, header |-> <<>>, head |-> <<>>]
        ELSE LET m == after[n - 1]
                 start == FindRun(m.frames, pages)
                 large == WithHeader(m.header, LargeBlock(start),
                                     LargeHeader(pages))
                 small == n \in Pools
             IN  [frames |-> MarkPages(m.frames, start, pages, "mapped"),
                  header |-> IF small THEN Filled(large, n, start, NoBlock)
                             ELSE large,
                  head   |-> IF small THEN Append(m.head, LastCut(n, start))
                             ELSE m.head]
  IN  after[2 * Len(BlockSizes)]

(* The machine has the memory that boot needs, and where it is mapped, so  *)
(* that no fill ends in the bugcheck (a run that is not found would have   *)
(* its header below address 0) or in memory that is not its own.           *)
Init ==
  /\ map \in Maps
  /\ \E stale \in [0..(FrameCount(TranslateMemoryMap(map)) - 1) -> Stale] :
       LET m == BootFills(InitialFrames(map, stale))
       IN  /\ DOMAIN m.header \subseteq Nat
           /\ \A a \in DOMAIN m.header :
                m.header[a].type = "large" =>
                  (a \div PageSize) * PageSize + m.header[a].size <= PoolSize
           /\ frames = m.frames
           /\ header = m.header
           /\ head = m.head
  /\ allocatedCount = 2 * Len(BlockSizes) * PageCount(PoolPages * PageSize)
  /\ pageLock = NoThread
  /\ poolLock = [p \in Pools |-> NoThread]
  /\ pc = [t \in Threads |-> "idle"]
  /\ want = [t \in Threads |-> 0]
  /\ pool = [t \in Threads |-> 1]
  /\ block = [t \in Threads |-> NoBlock]
  /\ run = [t \in Threads |-> NoRun]
  /\ held = [t \in Threads |-> {}]
  /\ machine = "running"

-----------------------------------------------------------------------------
At(t, label) == machine = "running" /\ pc[t] = label
Go(t, label) == pc' = [pc EXCEPT ![t] = label]
Set(reg, t, value) == [reg EXCEPT ![t] = value]

(* MmAllocatePoolMemory, through MemoryHeapAllocate. *)
Request(t, bytes) ==
  /\ At(t, "idle")
  /\ Cardinality(UNION {held[u] : u \in Threads}) < MaxHeld
  /\ want' = Set(want, t, bytes)
  /\ IF bytes <= MaxSmallSize
       THEN Go(t, "poolLock") /\ pool' = Set(pool, t, FindPoolIndex(bytes))
       ELSE Go(t, "pageLock") /\ UNCHANGED pool
  /\ UNCHANGED <<map, database, pools, block, run, held, machine>>

(* A call returns; what its registers held is of no more use. *)
Done(t) == /\ Go(t, "idle")
           /\ want' = Set(want, t, 0)
           /\ pool' = Set(pool, t, 1)
           /\ block' = Set(block, t, NoBlock)
           /\ run' = Set(run, t, NoRun)

(* An allocation returns, and RtlZeroMemory clears what it returned. *)
Return(t, mem) ==
  /\ held' = [held EXCEPT ![t] = @ \union {[mem |-> mem, bytes |-> want[t]]}]
  /\ Done(t)

(* MemoryPoolAlloc: HalEnterLock, and the test at Start.  The mutant does  *)
(* not look at the lock.                                                   *)
PoolLockHeld(t) ==
  /\ At(t, "poolLock")
  /\ poolLock' = [poolLock EXCEPT ![pool[t]] = t]
  /\ Go(t, "poolTest")
  /\ UNCHANGED <<map, database, header, head, registers, held, machine>>

PoolLock(t) ==
  /\ At(t, "poolLock")
  /\ poolLock[pool[t]] = NoThread
  /\ poolLock' = [poolLock EXCEPT ![pool[t]] = t]
  /\ Go(t, "poolTest")
  /\ UNCHANGED <<map, database, header, head, registers, held, machine>>

PoolTest(t) ==
  /\ At(t, "poolTest")
  /\ IF head[pool[t]] = NoBlock
       THEN Go(t, "pageLock") /\ UNCHANGED block
       ELSE Go(t, "poolTake") /\ block' = Set(block, t, head[pool[t]])
  /\ UNCHANGED <<map, database, pools, want, pool, run, held, machine>>

(* The block is taken off the list, and its payload returned.              *)
PoolTake(t) ==
  /\ At(t, "poolTake")
  /\ head' = [head EXCEPT ![pool[t]] = header[block[t]].next]
  /\ poolLock' = [poolLock EXCEPT ![pool[t]] = NoThread]
  /\ Return(t, block[t] + Header)
  /\ UNCHANGED <<map, database, header, machine>>

(* PfnDatabaseAllocatePages, of a large block or of a pool's refill.  In   *)
(* the mutants the lock of the database is not looked at, and not left.    *)
Filling(t) == want[t] <= MaxSmallSize
PagesOf(t) == PageCount(IF Filling(t) THEN PoolPages * PageSize ELSE want[t])

PageLockHeld(t) ==
  /\ At(t, "pageLock")
  /\ pageLock' = t
  /\ Go(t, "search")
  /\ UNCHANGED <<map, frames, allocatedCount, pools, registers, held, machine>>

PageLock(t) ==
  /\ At(t, "pageLock")
  /\ pageLock = NoThread
  /\ pageLock' = t
  /\ Go(t, "search")
  /\ UNCHANGED <<map, frames, allocatedCount, pools, registers, held, machine>>

(* The pages that the kernel reaches at its fixed offset. *)
Mapped == PoolSize \div PageSize

PageFound(t) ==
  /\ At(t, "search")
  /\ LET start == FindRun(frames, PagesOf(t))
     IN  /\ start # NoRun
         /\ start + PagesOf(t) <= Mapped
         /\ run' = Set(run, t, start)
  /\ Go(t, "mark")
  /\ allocatedCount' = allocatedCount + PagesOf(t)
  /\ UNCHANGED <<map, frames, pageLock, pools, want, pool, block, held, machine>>

(* A run that begins beyond those pages is refused, but MemoryHeapAllocBig *)
(* drops the status that says so and writes its header at page 0; one that *)
(* only ends beyond them is given out, and its end is not its own memory.  *)
PageBeyond(t) ==
  /\ At(t, "search")
  /\ LET start == FindRun(frames, PagesOf(t))
     IN  /\ start # NoRun
         /\ start + PagesOf(t) > Mapped
  /\ machine' = "corrupt"
  /\ UNCHANGED <<map, database, pools, pc, registers, held>>

PageMarkLocked(t) ==
  /\ At(t, "mark")
  /\ frames' = MarkPages(frames, run[t], PagesOf(t), "mapped")
  /\ Go(t, "header")
  /\ UNCHANGED <<map, allocatedCount, pageLock, pools, registers, held, machine>>

PageMark(t) ==
  /\ At(t, "mark")
  /\ frames' = MarkPages(frames, run[t], PagesOf(t), "mapped")
  /\ pageLock' = NoThread
  /\ Go(t, "header")
  /\ UNCHANGED <<map, allocatedCount, pools, registers, held, machine>>

OutOfMemory(t) ==
  /\ At(t, "search")
  /\ FindRun(frames, PagesOf(t)) = NoRun
  /\ allocatedCount' = allocatedCount + PagesOf(t)
  /\ pageLock' = NoThread
  /\ Go(t, "bugcheck")
  /\ machine' = "bugcheck"
  /\ UNCHANGED <<map, frames, pools, registers, held>>

(* The rest of MemoryHeapAllocBig. *)
WriteLargeHeader(t) ==
  /\ At(t, "header")
  /\ header' = WithHeader(header, LargeBlock(run[t]), LargeHeader(PagesOf(t)))
  /\ IF Filling(t) THEN Go(t, "fill") /\ UNCHANGED <<registers, held>>
     ELSE Return(t, LargeBlock(run[t]) + Header)
  /\ UNCHANGED <<map, database, head, poolLock, machine>>

(* The loop of MemoryPoolFillBuffer, and the goto to the test. *)
PoolFill(t) ==
  /\ At(t, "fill")
  /\ header' = Filled(header, pool[t], run[t], head[pool[t]])
  /\ head' = [head EXCEPT ![pool[t]] = LastCut(pool[t], run[t])]
  /\ Go(t, "poolTest")
  /\ UNCHANGED <<map, database, poolLock, registers, held, machine>>

(* MemoryHeapFree; MemoryPoolFree pushes the block back in two steps. *)
Free(t, it) ==
  /\ At(t, "idle")
  /\ header[it.mem - Header].type = "small"
  /\ held' = [held EXCEPT ![t] = @ \ {it}]
  /\ block' = Set(block, t, it.mem - Header)
  /\ pool' = Set(pool, t, FindPoolIndex(header[it.mem - Header].size))
  /\ Go(t, "freeLock")
  /\ UNCHANGED <<map, database, pools, want, run, machine>>

(* A large block is freed by the number of its virtual page, which lies    *)
(* beyond the table: whatever memory is there is written over.             *)
FreeLarge(t, it) ==
  /\ At(t, "idle")
  /\ header[it.mem - Header].type = "large"
  /\ held' = [held EXCEPT ![t] = @ \ {it}]
  /\ machine' = "corrupt"
  /\ UNCHANGED <<map, database, pools, pc, registers>>

FreeLock(t) ==
  /\ At(t, "freeLock")
  /\ poolLock[pool[t]] = NoThread
  /\ poolLock' = [poolLock EXCEPT ![pool[t]] = t]
  /\ Go(t, "freeLink")
  /\ UNCHANGED <<map, database, header, head, registers, held, machine>>

FreeLink(t) ==
  /\ At(t, "freeLink")
  /\ header' = [header EXCEPT ![block[t]].next = head[pool[t]]]
  /\ Go(t, "freeHead")
  /\ UNCHANGED <<map, database, head, poolLock, registers, held, machine>>

FreeHead(t) ==
  /\ At(t, "freeHead")
  /\ head' = [head EXCEPT ![pool[t]] = block[t]]
  /\ poolLock' = [poolLock EXCEPT ![pool[t]] = NoThread]
  /\ Done(t)
  /\ UNCHANGED <<map, database, header, held, machine>>

-----------------------------------------------------------------------------
(* What a thread does once it has called, and what it may call. *)
Proceed(t) == \/ PoolLock(t) \/ PoolTest(t) \/ PoolTake(t)
              \/ PageLock(t) \/ PageFound(t) \/ PageBeyond(t) \/ PageMark(t)
              \/ OutOfMemory(t)
              \/ WriteLargeHeader(t) \/ PoolFill(t)
              \/ FreeLock(t) \/ FreeLink(t) \/ FreeHead(t)

Call(t) == \/ \E bytes \in Requests : Request(t, bytes)
           \/ \E it \in held[t] : Free(t, it) \/ FreeLarge(t, it)

Next == \E t \in Threads : Proceed(t) \/ Call(t)

Spec == Init /\ [][Next]_vars

(* The timer takes the CPU from a thread, and the scheduler gives it back. *)
Fairness == \A t \in Threads : WF_vars(Proceed(t))
FairSpec == Spec /\ Fairness

-----------------------------------------------------------------------------
SmallBlocks == {a \in DOMAIN header : header[a].type = "small"}
LargeBlocks == {a \in DOMAIN header : header[a].type = "large"}
RunOf(a) == LET start == a \div PageSize
            IN  start..(start + header[a].size \div PageSize - 1)

(* No two runs of frames share a frame, no two small blocks share a byte,  *)
(* and a small block lies behind the header of one run: whatever order the *)
(* threads search, mark and cut in (pfndb.c, MemoryPoolFillBuffer).        *)
BlocksApart ==
  /\ \A a, b \in LargeBlocks : a # b => RunOf(a) \intersect RunOf(b) = {}
  /\ \A a, b \in SmallBlocks :
       a < b => a + Header + header[a].size <= b
  /\ \A a \in SmallBlocks : \E l \in LargeBlocks :
       /\ l + Header <= a
       /\ (a + Header + header[a].size - 1) \div PageSize \in RunOf(l)

(* The frames of the kernel's image, and those that the frame table fills  *)
(* behind it.                                                              *)
KernelFrames == (KernelStart \div PageSize)..((KernelEnd - 1) \div PageSize)
TableFrames ==
  LET last == KernelEnd + DatabaseSize + Cardinality(DOMAIN frames) * FrameSize
  IN  (KernelEnd \div PageSize)..((last - 1) \div PageSize)

(* The whole pages of the reserved blocks that PaliX86TranslateMemoryMap   *)
(* made and that begin with a page, unless a usable block that comes later *)
(* covers them: the block that comes last decides what a frame is.  An     *)
(* entry of the map that Visits passes over has no block.                  *)
ReservedFrames ==
  LET blocks == TranslateMemoryMap(map)
  IN  {i \in DOMAIN frames : \E n \in 1..Len(blocks) :
         /\ blocks[n].type = "reserved"
         /\ blocks[n].start % PageSize = 0
         /\ blocks[n].start <= i * PageSize
         /\ (i + 1) * PageSize <= blocks[n].end
         /\ \A later \in (n + 1)..Len(blocks) :
              Covers(blocks[later], i) => blocks[later].type # "usable"}

(* The frames that some block covers, and none that is usable. *)
UnofferedFrames ==
  LET blocks == TranslateMemoryMap(map)
      covering(i) == {n \in 1..Len(blocks) : Covers(blocks[n], i)}
  IN  {i \in DOMAIN frames : /\ covering(i) # {}
                             /\ \A n \in covering(i) : blocks[n].type # "usable"}

(* No block ever takes a frame of the kernel or of the table itself        *)
(* (PfnDatabaseInitialize, with its margin of 300 pages), nor one of those *)
(* two sets: what is given out is covered by a usable block, or by none.   *)
(* Of the frames that no block covers nothing is said.                     *)
KernelUntouched ==
  LET untouchable == KernelFrames \union TableFrames
                       \union ReservedFrames \union UnofferedFrames
  IN  \A a \in LargeBlocks : RunOf(a) \intersect untouchable = {}

(* A pool's list, as far as its blocks can be followed. *)
Follow(p) ==
  LET at[n \in 0..Cardinality(SmallBlocks)] ==
        IF n = 0 THEN head[p]
        ELSE LET before == at[n - 1]
             IN  IF before = NoBlock THEN NoBlock ELSE header[before].next
  IN  at
ListOf(p) == LET at == Follow(p) IN {at[n] : n \in DOMAIN at} \ {NoBlock}

HeldBlocks == UNION {{it.mem - Header : it \in held[t]} : t \in Threads}
BeingFreed == {block[t] : t \in {u \in Threads :
                  pc[u] \in {"freeLock", "freeLink", "freeHead"}}}

(* Every small block is in exactly one place: in the list of the pool of   *)
(* its size, which ends, or with a client, or on its way back.  None is    *)
(* lost and none is handed out twice (MemoryPoolAlloc, MemoryPoolFree).    *)
EveryBlockInItsPlace ==
  machine = "running" =>
    /\ \A p \in Pools :
         /\ Follow(p)[Cardinality(SmallBlocks)] = NoBlock
         /\ ListOf(p) = {a \in SmallBlocks : header[a].size = BlockSizes[p]}
                          \ (HeldBlocks \union BeingFreed)
    /\ HeldBlocks \intersect BeingFreed = {}
    /\ \A t, u \in Threads : t # u => held[t] \intersect held[u] = {}

(* The bytes that a client asked for are in the block or in the run that   *)
(* it got: RtlZeroMemory and the client write over nothing else.           *)
RequestsAreServed ==
  \A t \in Threads : \A it \in held[t] :
    LET a == it.mem - Header
    IN  CASE header[a].type = "small" -> it.bytes <= header[a].size
          [] header[a].type = "large" ->
               \A i \in RunOf(a) : frames[i] = "mapped"
                 /\ (it.mem + it.bytes - 1) \div PageSize \in RunOf(a)

(* The machine stops for want of memory (pfndb.c:225) only if the one run  *)
(* of free frames that would have been long enough ends at the last frame, *)
(* if there is one: the search gives up nothing else.                      *)
SearchIsNearlyComplete ==
  machine = "bugcheck" =>
    \E t \in Threads :
      /\ pc[t] = "bugcheck"
      /\ \A start \in DOMAIN frames :
           LET end == start + PagesOf(t)
           IN  (\A i \in start..(end - 1) : i \in DOMAIN frames /\ frames[i] = "free")
                 => end = Cardinality(DOMAIN frames)

Memory == INSTANCE Allocator WITH given <- UNION {held[t] : t \in Threads}

(* What a thread is given overlaps nothing that another has. *)
ImplementsAllocator == Memory!Spec

(* A pool's lock, once taken, is left: a refill waits for the database's   *)
(* lock under it, and nobody waits for a pool under that one.              *)
LocksAreLeft ==
  \A p \in Pools : poolLock[p] # NoThread
                     ~> (poolLock[p] = NoThread \/ machine # "running")
=============================================================================
