---------------------------- MODULE MCPoolMemory ----------------------------
(***************************************************************************)
(* PoolMemory for TLC: pages of 8 units, two pools, and machines with room *)
(* for a few runs after boot, with maps of the kind that a BIOS gives: two *)
(* of about 30 frames, and one of more frames than the kernel reaches.     *)
(***************************************************************************)
EXTENDS PoolMemory

Entry(base, end, type) == [base |-> base, length |-> end - base, type |-> type]

(* Conventional memory and the frame that the BIOS keeps of it, its ROM,   *)
(* the memory, and ACPI tables at the end.                                 *)
FlatMap == <<Entry(0, 15, "usable"), Entry(15, 16, "reserved"),
             Entry(20, 24, "reserved"), Entry(24, 8 * 26 + 4, "usable"),
             Entry(8 * 26 + 4, 8 * 28, "nvs")>>

(* The memory in two pieces with reserved regions between them; the loops  *)
(* of the boot see the entries 0, 1, 3 and 7.                              *)
SplitMap == <<Entry(0, 16, "usable"), Entry(24, 8 * 23, "usable"),
              Entry(8 * 23, 8 * 24, "nvs"), Entry(8 * 24, 8 * 25, "reserved"),
              Entry(8 * 25, 8 * 26, "unused"), Entry(8 * 26, 8 * 27, "bad"),
              Entry(8 * 27, 8 * 28, "reclaimable"),
              Entry(8 * 28, 8 * 31, "usable"), Entry(8 * 38, 8 * 40, "reserved")>>

(* Memory that is used up by the boot, but for a part beyond the 28 pages  *)
(* that are mapped; the loops see the entries 0, 1, 3 and 7.               *)
FarMap == <<Entry(0, 16, "usable"), Entry(24, 8 * 22, "usable"),
            Entry(8 * 40, 8 * 41, "nvs"), Entry(8 * 22, 8 * 29, "reserved"),
            Entry(8 * 41, 8 * 42, "reclaimable"), Entry(8 * 42, 8 * 43, "bad"),
            Entry(8 * 43, 8 * 44, "unused"), Entry(8 * 29, 8 * 33, "usable"),
            Entry(8 * 44, 8 * 48, "reserved")>>

MCMaps == {FlatMap, SplitMap, FarMap}
MCBlockSizes == <<2, 4>>
=============================================================================
