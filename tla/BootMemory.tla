----------------------------- MODULE BootMemory -----------------------------
(***************************************************************************)
(* From the BIOS's memory map to the attributes of the physical frames:    *)
(* Palix86GetMemoryBlocksCount, PaliX86ReadMemoryMap and                   *)
(* PaliX86TranslateMemoryMap (ltoskrnl/pal/arch/ia32/entry.c), and         *)
(* PfnDatabaseInitialize (ltoskrnl/mm/pfndb.c).  Boot is one thread with   *)
(* interrupts off, so all of it is operators; PoolMemory starts from what  *)
(* they yield.  A map is a sequence of entries [base, length, type].       *)
(***************************************************************************)
EXTENDS Integers, Sequences

CONSTANTS
  AddressSpace, \* 2^32, beyond which an address wraps
  PageSize,     \* HalGetPageSize
  LowMemory,    \* the first megabyte, reserved whatever the BIOS says of it
  KernelStart,  \* the physical address of PalKernelImageStart
  KernelEnd,    \* that of PalKernelImageEnd, where the database lies
  DatabaseSize, \* sizeof(struct PFN_DATABASE)
  FrameSize,    \* sizeof(struct PFN_FRAME)
  Margin        \* the 300 pages that the database is given more than it fills

ASSUME BootAssumption ==
  /\ {AddressSpace, PageSize, FrameSize} \subseteq Nat \ {0}
  /\ {LowMemory, KernelStart, KernelEnd, DatabaseSize, Margin} \subseteq Nat
  /\ PageSize <= KernelStart
  /\ KernelStart + PageSize <= KernelEnd /\ KernelEnd < AddressSpace
  /\ Margin >= 3

EntryTypes == {"usable", "reserved", "reclaimable", "nvs", "bad", "unused"}
Attributes == {"none", "restricted", "free", "allocated", "mapped"}

(* INT 15h, E820: the continuation value is the number of the next entry,  *)
(* zero after the last one; a number beyond the map sets the carry flag.   *)
Carry(map, offset) == offset >= Len(map)
Continuation(map, offset) == IF offset + 1 < Len(map) THEN offset + 1 ELSE 0

(* Both loops add the continuation to the value they passed, instead of    *)
(* passing it: Visits are the entries that they see.  The one at which a   *)
(* loop stops is not counted, and so not translated.                       *)
Visits(map) ==
  LET from[offset \in Nat] ==
        IF Carry(map, offset) \/ Continuation(map, offset) = 0
          THEN <<>>
          ELSE <<map[offset + 1]>> \o from[offset + Continuation(map, offset)]
  IN  from[0]

KernelBlock == [start |-> KernelStart, end |-> KernelEnd, type |-> "reserved"]

(* The BIOS's addresses have 64 bits, the kernel's 32. *)
StartOf(entry) == entry.base % AddressSpace

BlockType(entry) == IF StartOf(entry) < LowMemory THEN "reserved"
                    ELSE IF entry.type \in {"usable", "unused"} THEN entry.type
                    ELSE "reserved"

TranslateMemoryMap(map) ==
  LET visited == Visits(map)
      block(entry) == [start |-> StartOf(entry),
                       end   |-> (StartOf(entry) + entry.length) % AddressSpace,
                       type  |-> BlockType(entry)]
  IN  Append([i \in 1..Len(visited) |-> block(visited[i])], KernelBlock)

-----------------------------------------------------------------------------
FirstFrame(block) == block.start \div PageSize
BlockLength(block) ==
  ((block.end - block.start) % AddressSpace) \div PageSize
Covers(block, i) == /\ block.type # "unused"
                    /\ i >= FirstFrame(block)
                    /\ i < FirstFrame(block) + BlockLength(block)

(* The frames of a block that two entries cover are counted twice, those   *)
(* of a hole not at all.                                                   *)
FrameCount(blocks) ==
  LET upTo[n \in 0..Len(blocks)] ==
        IF n = 0 THEN 0
        ELSE upTo[n - 1] + IF blocks[n].type = "unused" THEN 0
                           ELSE BlockLength(blocks[n])
  IN  upTo[Len(blocks)]

(* The last block that covers a frame decides; what no block covers is     *)
(* what the memory held before, for the table is not zeroed.               *)
BlockAttribute(blocks, i, before) ==
  LET covering == {n \in 1..Len(blocks) : Covers(blocks[n], i)}
  IN  IF covering = {} THEN before
      ELSE LET last == CHOOSE n \in covering : \A m \in covering : m <= n
           IN  IF blocks[last].type = "usable" THEN "free" ELSE "restricted"

(* PfnDatabaseMarkPages.  The mutant leaves out the last page. *)
MarkPagesShort(frames, start, count, attribute) ==
  [i \in DOMAIN frames |-> IF i \in start..(start + count - 2)
                             THEN attribute ELSE frames[i]]
MarkPages(frames, start, count, attribute) ==
  [i \in DOMAIN frames |-> IF i \in start..(start + count - 1)
                             THEN attribute ELSE frames[i]]

(* The pages that the database is given, for itself.  The mutant adds no   *)
(* margin to them.                                                         *)
DatabasePagesTight(frameCount) ==
  LET start == KernelEnd \div PageSize - 1
      count == (DatabaseSize + frameCount * FrameSize) \div PageSize
  IN  start..(start + count - 1)
DatabasePages(frameCount) ==
  LET start == KernelEnd \div PageSize - 1
      count == (DatabaseSize + frameCount * FrameSize) \div PageSize + Margin
  IN  start..(start + count - 1)

(* stale is what the memory of each descriptor held.  The descriptor of a  *)
(* frame beyond frameCount, which a map with holes has, lies behind the    *)
(* table: what is written there is not modelled.                           *)
InitialFrames(map, stale) ==
  LET blocks == TranslateMemoryMap(map)
      frameCount == FrameCount(blocks)
      attribute(i) == IF i \in DatabasePages(frameCount) THEN "allocated"
                      ELSE BlockAttribute(blocks, i, stale[i])
  IN  [i \in 0..(frameCount - 1) |->
         IF attribute(i) = "none" THEN "restricted" ELSE attribute(i)]
=============================================================================
